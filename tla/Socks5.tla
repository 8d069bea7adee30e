------------------------------- MODULE Socks5 -------------------------------
(***************************************************************************)
(* The SOCKS5 handshake of mysocks5/include/socks5.hpp (a composed          *)
(* asynchronous operation, SocksImplementation), as connection::connect     *)
(* uses it: the proxy's socket is connected, and the handshake runs on it   *)
(* before TLS and IRC do.                                                   *)
(*                                                                          *)
(* Messages are sequences of bytes.  A byte's value matters only where the  *)
(* protocol looks at it; Limit is the number of values of a byte (256 in    *)
(* the code, less for TLC), which bounds a length that is sent in a byte.   *)
(* The proxy is external: its bytes are given by Script and arrive in any   *)
(* pieces, before, during or after the writes they answer.                  *)
(***************************************************************************)
EXTENDS Naturals, Sequences

CONSTANTS Limit,      \* values of a byte
          Hosts,      \* the hosts asked for: records [kind, bytes]
          Auths,      \* credentials: records [kind, username, password]
          Scripts     \* what the proxy sends: sequences of bytes

NoAuth == "NoCredential"
UserPass == "UsernamePasswordCredential"

ASSUME Socks5Assumption ==
    /\ Limit \in Nat \ {0}
    /\ \A h \in Hosts : h.kind \in {"name", "v4", "v6"} /\ h.bytes \in Seq(Nat)
    /\ \A a \in Auths : /\ a.kind \in {NoAuth, UserPass}
                        /\ a.username \in Seq(Nat) /\ a.password \in Seq(Nat)
    /\ \A s \in Scripts : s \in Seq(Nat)

VARIABLES host_, auth_, \* parameters of the operation
          state,   \* Start, or the next state once its message is <<how, Next>>
          buffer_, \* backs the operation in flight
          net,     \* bytes that have arrived and have not been read
          script,  \* bytes the proxy has yet to send
          wire,    \* history: messages written to the proxy
          heard,   \* history: bytes read from the proxy
          result,  \* none, ok, or the SocksErrc or I/O error it completed with
          endpoint, \* the address and port it completed with
          intruded \* history: the owner wrote to the socket meanwhile

socksVars == <<host_, auth_, state, buffer_, net, script, wire, heard, result,
               endpoint, intruded>>

\* mutant: the port of an IPv4 endpoint is not read
READShort == [HelloRecvd |-> 2, AuthRecvd |-> 2, ReplyRecvd |-> 4,
              FinishIpv4 |-> 4, FinishIpv6 |-> 18]

\* mutant: the four bytes of the reply are counted again for an IPv4 endpoint
READAgain == [HelloRecvd |-> 2, AuthRecvd |-> 2, ReplyRecvd |-> 4,
              FinishIpv4 |-> 10, FinishIpv6 |-> 18]

\* READ of each state of the protocol
READ == [HelloRecvd |-> 2, AuthRecvd |-> 2, ReplyRecvd |-> 4,
         FinishIpv4 |-> 6, FinishIpv6 |-> 18]

SocksVersion == 5
AuthVersion == 1
Method == [NoCredential |-> 0, UsernamePasswordCredential |-> 2]
AddressType == [v4 |-> 1, name |-> 3, v6 |-> 4]
Port == <<8, 9>>     \* two bytes, high first

SocksInit ==
    /\ host_ \in Hosts /\ auth_ \in Auths /\ script \in Scripts
    /\ state = <<"Start", "Start">>
    /\ buffer_ = <<>> /\ net = <<>> /\ wire = <<>> /\ heard = <<>>
    /\ result = "none" /\ endpoint = <<>>
    /\ intruded = FALSE

-----------------------------------------------------------------------------
(* Messages                                                                 *)

method_wanted == Method[auth_.kind]

\* push_size_prefixed: the length is cut to a byte
SizePrefixed(thing) == <<Len(thing) % Limit>> \o thing

hello == <<SocksVersion, 1, method_wanted>>

usernamepassword ==
    <<AuthVersion>> \o SizePrefixed(auth_.username) \o SizePrefixed(auth_.password)

\* push_host prefixes an address with its size, as it does a name
connectRequest ==
    <<SocksVersion, 1, 0, AddressType[host_.kind]>> \o SizePrefixed(host_.bytes) \o Port

-----------------------------------------------------------------------------
(* Steps.  A step ends by completing the operation or by starting another   *)
(* one; exactly one of Complete and the two starts happens.                 *)

Complete(res, ep) ==
    /\ result' = res /\ endpoint' = ep
    /\ state' = <<"Done", "Done">>
    /\ UNCHANGED <<buffer_, wire>>

failure(err) == Complete(err, <<>>)

\* transact: write message, then read the answer that next expects
transact(message, next) ==
    /\ buffer_' = message
    /\ wire' = Append(wire, message)
    /\ state' = <<"Sent", next>>
    /\ UNCHANGED <<result, endpoint>>

\* step of Sent<Next>: resize the buffer and read
startRead(next) ==
    /\ state' = <<"Recv", next>>
    /\ buffer_' = <<>>
    /\ UNCHANGED <<wire, result, endpoint>>

\* mutant: lengths are not checked
StartUnchecked ==
    /\ state[1] = "Start"
    /\ transact(hello, "HelloRecvd")
    /\ UNCHANGED <<host_, auth_, net, script, heard, intruded>>

Start ==
    /\ state[1] = "Start"
    /\ \/ /\ host_.kind = "name" /\ Len(host_.bytes) >= Limit
          /\ failure("DomainTooLong")
       \/ /\ ~(host_.kind = "name" /\ Len(host_.bytes) >= Limit)
          /\ \/ /\ auth_.kind = UserPass /\ Len(auth_.username) >= Limit
                /\ failure("UsernameTooLong")
             \/ /\ auth_.kind = UserPass
                /\ Len(auth_.username) < Limit /\ Len(auth_.password) >= Limit
                /\ failure("PasswordTooLong")
             \/ /\ auth_.kind = UserPass =>
                      Len(auth_.username) < Limit /\ Len(auth_.password) < Limit
                /\ transact(hello, "HelloRecvd")
    /\ UNCHANGED <<host_, auth_, net, script, heard, intruded>>

Written ==
    /\ state[1] = "Sent"
    /\ startRead(state[2])
    /\ UNCHANGED <<host_, auth_, net, script, heard, intruded>>

\* mutant: any method the proxy selects is as good as no authentication
HelloTrusting(b) ==
    IF b[1] # SocksVersion THEN failure("WrongVersion")
    ELSE transact(connectRequest, "ReplyRecvd")

Hello(b) ==
    \/ b[1] # SocksVersion /\ failure("WrongVersion")
    \/ /\ b[1] = SocksVersion
       /\ \/ /\ b[2] = method_wanted /\ auth_.kind = NoAuth
             /\ transact(connectRequest, "ReplyRecvd")
          \/ /\ b[2] = method_wanted /\ auth_.kind = UserPass
             /\ transact(usernamepassword, "AuthRecvd")
          \/ b[2] # method_wanted /\ failure("NoAcceptableMethods")

Auth(b) ==
    \/ b[1] # AuthVersion /\ failure("WrongVersion")
    \/ b[1] = AuthVersion /\ b[2] # 0 /\ failure("AuthenticationFailed")
    \/ b[1] = AuthVersion /\ b[2] = 0 /\ transact(connectRequest, "ReplyRecvd")

Reply(b) ==
    \/ b[1] # SocksVersion /\ failure("WrongVersion")
    \/ b[1] = SocksVersion /\ b[2] # 0 /\ failure("Reply")
    \/ b[1] = SocksVersion /\ b[2] = 0 /\ b[3] # 0 /\ failure("GeneralFailure")
    \/ /\ b[1] = SocksVersion /\ b[2] = 0 /\ b[3] = 0
       /\ \/ b[4] = AddressType.v4 /\ startRead("FinishIpv4")
          \/ b[4] = AddressType.v6 /\ startRead("FinishIpv6")
          \/ /\ b[4] \notin {AddressType.v4, AddressType.v6}
             /\ failure("UnsupportedEndpointAddress")

\* async_read has its bytes: take exactly those and go on
Received ==
    /\ state[1] = "Recv"
    /\ Len(net) >= READ[state[2]]
    /\ LET n == READ[state[2]]
           b == SubSeq(net, 1, n)
       IN  /\ net' = SubSeq(net, n + 1, Len(net))
           /\ heard' = heard \o b
           /\ \/ state[2] = "HelloRecvd" /\ Hello(b)
              \/ state[2] = "AuthRecvd" /\ Auth(b)
              \/ state[2] = "ReplyRecvd" /\ Reply(b)
              \/ state[2] \in {"FinishIpv4", "FinishIpv6"} /\ Complete("ok", b)
    /\ UNCHANGED <<host_, auth_, script, intruded>>

\* a write or a read fails: the proxy hangs up or connection::close is called
IoError ==
    /\ state[1] \in {"Sent", "Recv"}
    /\ failure("IoError")
    /\ UNCHANGED <<host_, auth_, net, script, heard, intruded>>

-----------------------------------------------------------------------------
(* The environment                                                          *)

\* some of the proxy's bytes arrive
Arrives ==
    /\ result = "none"
    /\ \E n \in 1..Len(script) :
          /\ net' = net \o SubSeq(script, 1, n)
          /\ script' = SubSeq(script, n + 1, Len(script))
    /\ UNCHANGED <<host_, auth_, state, buffer_, wire, heard, result, endpoint, intruded>>

\* connection::write while the handshake runs goes to the same socket
OwnerWrites ==
    /\ state[1] \in {"Sent", "Recv"} /\ ~intruded
    /\ wire' = Append(wire, <<99>>)
    /\ intruded' = TRUE
    /\ UNCHANGED <<host_, auth_, state, buffer_, net, script, heard, result, endpoint>>

SocksNext == Start \/ Written \/ Received \/ IoError \/ Arrives \/ OwnerWrites

\* Handlers run, and bytes that were sent arrive.  Nothing limits the wait for a
\* proxy that says nothing.
SocksSpec ==
    /\ SocksInit /\ [][SocksNext]_socksVars
    /\ WF_socksVars(Start) /\ WF_socksVars(Written)
    /\ WF_socksVars(Received) /\ WF_socksVars(Arrives)

-----------------------------------------------------------------------------
(* What a proxy understands: the layouts drawn in the comments of           *)
(* socks5.hpp, as a reader of bytes.                                        *)

\* the field whose length is the byte at i, and the position after it
Field(b, i) == [val |-> SubSeq(b, i + 1, i + b[i]), next |-> i + 1 + b[i]]

\* the lengths drawn as 1 to 255
DrawnLength == 1 .. Limit - 1

ReadsUserPass(b) ==
    LET u == Field(b, 2)
        p == Field(b, u.next)
    IN  /\ b[1] = AuthVersion
        /\ b[2] \in DrawnLength
        /\ u.next <= Len(b) /\ b[u.next] \in DrawnLength
        /\ u.val = auth_.username /\ p.val = auth_.password
        /\ p.next = Len(b) + 1

\* DST.ADDR is drawn as Variable
ReadsConnect(b) ==
    LET h == Field(b, 5)
    IN  /\ b[1] = SocksVersion /\ b[2] = 1 /\ b[3] = 0 /\ b[4] = AddressType.name
        /\ h.val = host_.bytes
        /\ SubSeq(b, h.next, Len(b)) = Port

\* A user and a password that the drawing has room for.  l_start_irc
\* (lua.cpp:225) authenticates when one of the two is given, so the other may
\* be empty; it is then sent with length 0, which is not in the drawing.
CredentialsDrawn == Len(auth_.username) >= 1 /\ Len(auth_.password) >= 1

SocksTypeOK ==
    /\ state[1] \in {"Start", "Sent", "Recv", "Done"}
    /\ state[1] = "Done" <=> result # "none"
    /\ state[2] \in DOMAIN READ \cup {"Start", "Done"}
    /\ heard \in Seq(Nat) /\ net \in Seq(Nat)

\* What the proxy reads is what was configured (socks5.hpp:201-245): when the
\* host is a name, as it always is in connection.cpp:203-213, and nothing else wrote
\* to the socket, each message is in the layout drawn for it and parses to the
\* user, the password, the host and the port, whatever their lengths: what a
\* length byte cannot say is never sent.  The exception is an empty user or
\* password beside one that is given: its message is outside the layout, and
\* what a proxy makes of it is not claimed.
UnderstoodByProxy ==
    /\ SocksTypeOK
    /\ host_.kind = "name" /\ ~intruded =>
          \A i \in DOMAIN wire :
             \/ i = 1 /\ wire[i] = hello
             \/ /\ i = 2 /\ auth_.kind = UserPass
                /\ CredentialsDrawn => ReadsUserPass(wire[i])
             \/ i = (IF auth_.kind = UserPass THEN 3 ELSE 2) /\ ReadsConnect(wire[i])

\* The handshake is believed only when the proxy agreed to each step, and it
\* takes no byte that belongs to what follows (socks5.hpp:254-447): on
\* success the proxy has selected the wanted method, has accepted the
\* credentials and the request, and what was read is exactly its replies.
Agreed ==
    LET a == IF auth_.kind = UserPass THEN 2 ELSE 0
        r == SubSeq(heard, 3 + a, Len(heard))
    IN  /\ heard[1] = SocksVersion /\ heard[2] = method_wanted
        /\ a = 2 => heard[3] = AuthVersion /\ heard[4] = 0
        /\ r[1] = SocksVersion /\ r[2] = 0 /\ r[3] = 0
        /\ \/ r[4] = AddressType.v4 /\ Len(r) = 4 + 4 + 2
           \/ r[4] = AddressType.v6 /\ Len(r) = 4 + 16 + 2
        /\ endpoint = SubSeq(r, 5, Len(r))

SuccessIsEarned == result = "ok" => Agreed

\* The password is on the wire only after the proxy asked for it, and the
\* request only after the proxy is content with the authentication
\* (socks5.hpp:299-390).
NothingIsSaidUnasked ==
    ~intruded =>
       /\ Len(wire) >= 2 => heard[1] = SocksVersion /\ heard[2] = method_wanted
       /\ Len(wire) >= 3 => heard[3] = AuthVersion /\ heard[4] = 0

\* the bytes b decide the handshake: a refusal, or the reply to its last byte
Enough(b) ==
    LET a == IF auth_.kind = UserPass THEN 2 ELSE 0
        has(n) == Len(b) >= n
    IN  \/ has(2) /\ <<b[1], b[2]>> # <<SocksVersion, method_wanted>>
        \/ a = 2 /\ has(4) /\ <<b[3], b[4]>> # <<AuthVersion, 0>>
        \/ has(6 + a) /\ \/ SubSeq(b, 3 + a, 5 + a) # <<SocksVersion, 0, 0>>
                         \/ b[6 + a] \notin {AddressType.v4, AddressType.v6}
        \/ has(6 + a + 4 + 2) /\ b[6 + a] = AddressType.v4
        \/ has(6 + a + 16 + 2)

\* The operation completes once the proxy has said enough, be it a refusal after
\* two bytes or a reply with an address of either size and nothing behind it:
\* it never waits for a byte that does not come (socks5.hpp:161-176, 254-262).
Completes == (result = "none" /\ Enough(heard \o net \o script)) ~> (result # "none")

=============================================================================
