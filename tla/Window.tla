------------------------------- MODULE Window -------------------------------
(***************************************************************************)
(* What an OrderedMap promises: the newest max entries, newest first, and  *)
(* for every key the entry it was last given to, while that is kept.       *)
(***************************************************************************)
EXTENDS Naturals, Sequences

CONSTANTS Keys, Nil, Vals, keyfn, max

VARIABLES window,   \* entries, newest first
          found     \* position in the window of the entry of a key, or 0

vars == <<window, found>>

Classes == {keyfn[k] : k \in Keys}

Entry(k, v) == [key |-> k, val |-> v]

Init == window = << >> /\ found = [c \in Classes |-> 0]

Insert(k, v) ==
    /\ window' = IF Len(window) < max
                 THEN <<Entry(k, v)>> \o window
                 ELSE <<Entry(k, v)>> \o SubSeq(window, 1, max - 1)
    /\ found' = [c \in Classes |->
                   IF k # Nil /\ c = keyfn[k] THEN 1
                   ELSE IF found[c] \in 1 .. max - 1 THEN found[c] + 1 ELSE 0]

Rekey(old, new) ==
    LET i == found[keyfn[old]]
    IN /\ i # 0
       /\ window' = [window EXCEPT ![i].key = new]
       /\ found' = [found EXCEPT ![keyfn[old]] = 0, ![keyfn[new]] = i]

Reset == window' = << >> /\ found' = [c \in Classes |-> 0]

Next ==
    \/ \E k \in Keys \cup {Nil}, v \in Vals : Insert(k, v)
    \/ \E old, new \in Keys : Rekey(old, new)
    \/ Reset

Spec == Init /\ [][Next]_vars
=============================================================================
