------------------------------ MODULE MCSocks5 ------------------------------
(* SOCKS5 on a small instance: three values of a byte's length, and a proxy  *)
(* that sends a flawless exchange or one with any single byte changed.       *)
EXTENDS Socks5

Name(n) == [i \in 1..n |-> 7]

MCHosts == {[kind |-> "name", bytes |-> Name(n)] : n \in 1..Limit}
           \cup {[kind |-> "v4", bytes |-> Name(4)]}

MCAuths ==
    {[kind |-> NoAuth, username |-> <<>>, password |-> <<>>]} \cup
    {[kind |-> UserPass, username |-> Name(l[1]), password |-> Name(l[2])] :
        l \in {<<0, 1>>, <<1, 0>>, <<Limit - 1, Limit - 1>>, <<Limit, 1>>, <<1, Limit>>}}

\* the bound address has its type's size
Flawless ==
    {h \o <<5, 0, 0>> \o a \o <<8, 9>> :
        h \in {<<5, 0>>, <<5, 2, 1, 0>>},
        a \in {<<1>> \o Name(4), <<4>> \o Name(16)}}

\* nothing follows, or IRC bytes do; or one byte is wrong
MCScripts ==
    Flawless \cup {s \o <<66, 66>> : s \in Flawless} \cup
    {[s EXCEPT ![i] = v] : s \in Flawless, i \in 1..8, v \in {0, 3, 255}}
=============================================================================
