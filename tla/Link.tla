-------------------------------- MODULE Link --------------------------------
(***************************************************************************)
(* A connection as its owner sees it: which part of session_thread is      *)
(* pending, whether its result is queued, and whether the socket is open.  *)
(* This is the interface between Connection, which is shown to implement   *)
(* it, and Client, which uses one link for every call of snowcone.connect. *)
(***************************************************************************)

Links == [st    : {"resolving", "connecting", "up", "ended"},
          ready : {"none", "ok", "err"},
          fd    : {"open", "closed"}]

\* l_start_irc: the coroutine runs up to async_resolve
Fresh == [st |-> "resolving", ready |-> "none", fd |-> "closed"]

\* the callback has received END
Dead == [st |-> "ended", ready |-> "none", fd |-> "closed"]

\* Initiating an operation on a closed socket fails at once.
Await(s, fd) ==
    [st |-> s, ready |-> IF fd = "open" THEN "none" ELSE "err", fd |-> fd]

\* connection::close: a queued result stays queued, a lookup inside
\* getaddrinfo still delivers its result
Closed(l) ==
    IF l.st = "ended" THEN {l}
    ELSE {[st |-> l.st, ready |-> r, fd |-> "closed"] :
             r \in IF l.ready # "none" THEN {l.ready}
                   ELSE IF l.st = "resolving" THEN {"none", "err"} ELSE {"err"}}

\* the pending operation gets its result
Completed(l) ==
    IF l.st = "ended" \/ l.ready # "none" THEN {}
    ELSE {[st |-> l.st, ready |-> r, fd |-> l.fd] :
             r \in IF l.st = "resolving" \/ l.fd = "open"
                   THEN {"ok", "err"} ELSE {"err"}}

\* The coroutine runs on with the queued result: what it reports to the
\* callback, and the link afterwards.  The socket opened after name resolution
\* is a new one.
Resumed(l) ==
    IF l.ready = "none" THEN {}
    ELSE IF l.ready = "err" THEN {[event |-> "END", link |-> Dead]}
    ELSE IF l.st = "resolving"
         THEN {[event |-> "none", link |-> Await("connecting", "open")]}
    ELSE IF l.st = "connecting"
         THEN {[event |-> "none", link |-> Await("connecting", l.fd)],
               [event |-> "CON", link |-> Await("up", l.fd)],
               [event |-> "END", link |-> Dead]}
    ELSE IF l.st = "up"
         THEN {[event |-> "MSG", link |-> l],
               [event |-> "none", link |-> Await("up", l.fd)],
               [event |-> "END", link |-> Dead]}
    ELSE {}

VARIABLE link

Init == link = Fresh

Next == \E l \in Closed(link) \cup Completed(link)
                              \cup {r.link : r \in Resumed(link)} : link' = l

Spec == Init /\ [][Next]_link
=============================================================================
