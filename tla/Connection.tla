----------------------------- MODULE Connection -----------------------------
(***************************************************************************)
(* One IRC connection of the C++ core: the coroutine session_thread        *)
(* (src/client/irc/lua.cpp), the connection object it drives               *)
(* (src/client/net/connection.cpp) and the methods send and close that Lua *)
(* holds through a weak pointer.                                           *)
(*                                                                         *)
(* Everything runs on one io_context thread, so an action is one completion *)
(* handler, or one call made by Lua while a handler runs.  What interleaves *)
(* is the moment an asynchronous operation completes (OpDone puts its      *)
(* result in the queue) and the moment its handler runs (the Resume        *)
(* actions): Lua may call close in between.                                *)
(*                                                                         *)
(* A "chunk" is the argument of one call of connection::write; chunks are  *)
(* numbered in the order of the calls.                                     *)
(***************************************************************************)
EXTENDS Integers, Sequences

CONSTANTS MaxWrites,    \* bound on the calls of write
          MaxMsgs,      \* bound on the messages the server sends
          MaxBatch      \* bound on the messages one read completes

ASSUME ConnectionAssumption ==
    /\ MaxWrites \in Nat
    /\ MaxMsgs \in Nat
    /\ MaxBatch \in Nat

VARIABLES
    settings,   \* the layers struct Settings asks for
    stage,      \* the co_await of session_thread that is pending
    ready,      \* its result, once it has one: the handler is queued
    lines,      \* messages of the current read still to be dispatched
    socket,     \* the descriptor inside stream_ is open or closed
    handle,     \* Lua's weak_ptr: held, or reset by l_close_irc
    send_,      \* chunks accumulated for the next write
    sending_,   \* chunks handed to async_write
    writes,     \* async_write operations outstanding
    sent,       \* chunks of sending_ already on the wire
    wfd,        \* the descriptor as the outstanding write found it
    written,    \* history: number of chunks accepted by write
    peer,       \* history: chunks put on the wire, in order
    fault,      \* history: the worst error async_write completed with
    calls       \* history: events passed to the Lua callback

session == <<stage, ready, lines, calls>>
output  == <<send_, sending_, writes, sent, wfd, written, peer, fault>>
vars    == <<settings, session, socket, handle, output>>

ConnectStages == {"resolve", "connect", "socks", "tls"}
Stages        == ConnectStages \cup {"read", "batch", "ended"}

\* The coroutine's frame or an outstanding write keeps the object alive.
Alive == stage # "ended" \/ writes > 0

Init ==
    /\ settings \in SUBSET {"socks", "tls"}
    /\ stage = "resolve"
    /\ ready = "none"
    /\ lines = 0
    /\ socket = "closed"
    /\ handle = "held"
    /\ send_ = << >>
    /\ sending_ = << >>
    /\ writes = 0
    /\ sent = 0
    /\ wfd = "closed"
    /\ written = 0
    /\ peer = << >>
    /\ fault = "none"
    /\ calls = << >>

(***************************************************************************)
(* connection::write and connection::write_actual                          *)
(***************************************************************************)

\* swap send_ and sending_, given their values s and t, and start async_write
\* when n operations are outstanding
WriteActual(s, t, n) ==
    /\ send_' = t
    /\ sending_' = s
    /\ writes' = n + 1
    /\ sent' = 0
    /\ wfd' = socket

\* conn:send(cmd): l_send_irc locks the weak_ptr, then connection::write
Write ==
    /\ handle = "held"
    /\ Alive
    /\ written < MaxWrites
    /\ written' = written + 1
    /\ LET s == Append(send_, written + 1)
       IN IF sending_ = << >>
          THEN WriteActual(s, sending_, writes)
          ELSE send_' = s /\ UNCHANGED <<sending_, writes, sent, wfd>>
    /\ UNCHANGED <<settings, session, socket, handle, peer, fault>>

\* the composed operation async_write hands one more chunk to the transport
Transmit ==
    /\ writes > 0
    /\ sent < Len(sending_)
    /\ wfd = "open"
    /\ stage # "connect"
    /\ peer' = Append(peer, sending_[sent + 1])
    /\ sent' = sent + 1
    /\ UNCHANGED <<settings, session, socket, handle, send_, sending_, writes,
                   wfd, written, fault>>

\* mutant: the handler does not start the next operation
WriteHandlerStops(error) ==
    /\ writes > 0
    /\ ~error => sent = Len(sending_)
    /\ fault' = IF error THEN "network" ELSE fault
    /\ sending_' = << >>
    /\ writes' = writes - 1
    /\ sent' = 0
    /\ UNCHANGED <<settings, session, socket, handle, send_, wfd, written, peer>>

\* the completion handler of async_write
WriteHandler(error) ==
    /\ writes > 0
    /\ ~error => sent = Len(sending_)
    /\ fault' = IF ~error \/ fault = "network" THEN fault
                ELSE IF wfd = "open" THEN "network" ELSE "closed"
    /\ IF ~error /\ send_ # << >>
       THEN WriteActual(send_, << >>, writes - 1)
       ELSE /\ sending_' = << >>
            /\ writes' = writes - 1
            /\ sent' = 0
            /\ UNCHANGED <<send_, wfd>>
    \* the handler held the last reference to a connection that has ended
    /\ socket' = IF stage = "ended" /\ writes' = 0 THEN "closed" ELSE socket
    /\ UNCHANGED <<settings, session, handle, written, peer>>

(***************************************************************************)
(* connection::close, through l_close_irc                                  *)
(***************************************************************************)

\* mutant: the operation pending on the socket is not aborted
CloseWithoutAbort ==
    /\ handle = "held"
    /\ Alive
    /\ handle' = "reset"
    /\ socket' = "closed"
    /\ UNCHANGED <<settings, session, output>>

\* Closing the socket aborts the operation pending on it; a result that is
\* already queued stays queued.  resolver_.cancel() aborts a lookup that has
\* not begun; one that is inside getaddrinfo still delivers its result.
Close ==
    /\ handle = "held"
    /\ Alive
    /\ handle' = "reset"
    /\ socket' = "closed"
    /\ ready' \in IF ready = "none" /\ stage \notin {"batch", "ended"}
                  THEN IF stage = "resolve" THEN {"none", "err"} ELSE {"err"}
                  ELSE {ready}
    /\ wfd' = "closed"
    /\ UNCHANGED <<settings, stage, lines, calls, send_, sending_, writes,
                   sent, written, peer, fault>>

(***************************************************************************)
(* session_thread and connection::connect                                  *)
(***************************************************************************)

\* an operation the coroutine awaits gets its result
OpDone(r) ==
    /\ ready = "none"
    /\ stage \notin {"batch", "ended"}
    /\ r = "ok" => stage = "resolve" \/ socket = "open"
    /\ ready' = r
    /\ UNCHANGED <<settings, stage, lines, socket, handle, calls, output>>

\* initiate the next operation; on a closed socket it fails at once
Await(s, fd) ==
    /\ stage' = s
    /\ ready' = IF fd = "open" THEN "none" ELSE "err"

\* an exception leaves session_thread: the completion handler of co_spawn
\* calls back END and the frame drops its reference to the connection
End ==
    /\ stage' = "ended"
    /\ ready' = "none"
    /\ lines' = 0
    /\ calls' = Append(calls, "END")
    /\ socket' = IF writes = 0 THEN "closed" ELSE socket
    /\ UNCHANGED <<settings, handle, output>>

\* connect returned the fingerprint: call back CON and start reading
Connected ==
    /\ calls' = Append(calls, "CON")
    /\ Await("read", socket)

ResumeError ==
    /\ ready = "err"
    /\ End

\* mutant: the descriptor is used as close left it
ResolveDoneKeepsSocket ==
    /\ stage = "resolve"
    /\ ready = "ok"
    /\ Await("connect", socket)
    /\ UNCHANGED <<settings, lines, socket, handle, calls, output>>

\* async_connect opens a new socket whatever close did to the old one
ResolveDone ==
    /\ stage = "resolve"
    /\ ready = "ok"
    /\ socket' = "open"
    /\ Await("connect", "open")
    /\ UNCHANGED <<settings, lines, handle, calls, output>>

\* async_connect reports operation_aborted if its socket has been closed
ConnectDone ==
    /\ stage = "connect"
    /\ ready = "ok"
    /\ IF socket = "closed"
       THEN End
       ELSE /\ IF "socks" \in settings THEN Await("socks", socket) /\ UNCHANGED calls
               ELSE IF "tls" \in settings THEN Await("tls", socket) /\ UNCHANGED calls
               ELSE Connected
            /\ UNCHANGED <<settings, lines, socket, handle, output>>

\* mutant: CON is reported as soon as the proxy has answered
SocksDoneReports ==
    /\ stage = "socks"
    /\ ready = "ok"
    /\ calls' = Append(calls, "CON")
    /\ Await(IF "tls" \in settings THEN "tls" ELSE "read", socket)
    /\ UNCHANGED <<settings, lines, socket, handle, output>>

SocksDone ==
    /\ stage = "socks"
    /\ ready = "ok"
    /\ IF "tls" \in settings THEN Await("tls", socket) /\ UNCHANGED calls ELSE Connected
    /\ UNCHANGED <<settings, lines, socket, handle, output>>

TlsDone ==
    /\ stage = "tls"
    /\ ready = "ok"
    /\ Connected
    /\ UNCHANGED <<settings, lines, socket, handle, output>>

\* set_option, set_cloexec or the OpenSSL setup throws between two stages
SetupThrows ==
    /\ stage = "connect" \/ (stage = "socks" /\ "tls" \in settings)
    /\ ready = "ok"
    /\ End

Messages == Len(SelectSeq(calls, LAMBDA c : c = "MSG"))

\* a read completed: commit makes n more messages available
ReadDone(n) ==
    /\ stage = "read"
    /\ ready = "ok"
    /\ Messages + n <= MaxMsgs
    /\ stage' = "batch"
    /\ ready' = "none"
    /\ lines' = n
    /\ UNCHANGED <<settings, socket, handle, calls, output>>

\* dispatch one message to the callback; the loop does not look at the socket
Dispatch ==
    /\ stage = "batch"
    /\ lines > 0
    /\ lines' = lines - 1
    /\ calls' = Append(calls, "MSG")
    /\ UNCHANGED <<settings, stage, ready, socket, handle, output>>

\* parse_irc_message throws, or the line buffer is full after shift
BatchThrows ==
    /\ stage = "batch"
    /\ End

\* no complete line is left: shift, prepare and read again
BatchDone ==
    /\ stage = "batch"
    /\ lines = 0
    /\ Await("read", socket)
    /\ UNCHANGED <<settings, lines, socket, handle, calls, output>>

Resume ==
    \/ ResumeError
    \/ ResolveDone
    \/ ConnectDone
    \/ SocksDone
    \/ TlsDone
    \/ SetupThrows
    \/ \E n \in 0 .. MaxBatch : ReadDone(n)
    \/ Dispatch
    \/ BatchThrows
    \/ BatchDone

Next ==
    \/ Write
    \/ Transmit
    \/ \E error \in BOOLEAN : WriteHandler(error)
    \/ Close
    \/ \E r \in {"ok", "err"} : OpDone(r)
    \/ Resume

Spec == Init /\ [][Next]_vars

\* io_context::run keeps running the handlers that are queued
FairSpec == Spec /\ WF_vars(Resume)

(***************************************************************************)
(* Properties                                                              *)
(***************************************************************************)

\* Every variable has its type.
TypeOK ==
    /\ settings \in SUBSET {"socks", "tls"}
    /\ stage \in Stages
    /\ ready \in {"none", "ok", "err"}
    /\ lines \in Nat
    /\ socket \in {"open", "closed"}
    /\ handle \in {"held", "reset"}
    /\ send_ \in Seq(Nat)
    /\ sending_ \in Seq(Nat)
    /\ writes \in Nat
    /\ sent \in Nat
    /\ wfd \in {"open", "closed"}
    /\ written \in Nat
    /\ peer \in Seq(Nat)
    /\ fault \in {"none", "closed", "network"}
    /\ calls \in Seq({"CON", "MSG", "END"})

\* async_write forbids a second write on the stream before the first has
\* completed; write() uses "sending_ is empty" as its only sign that none is
\* outstanding, so the two must agree after every call and every handler.
OneWrite == writes = IF sending_ = << >> THEN 0 ELSE 1

Increasing(s) == \A i, j \in 1 .. Len(s) : i < j => s[i] < s[j]

\* What is on the wire, then the untransmitted part of sending_, then send_:
\* chunks occur in the order of the calls of write and none occurs twice, in
\* spite of the two buffers being swapped under the running operation and of
\* writes that fail.
InOrder ==
    /\ sent <= Len(sending_)
    /\ Increasing(peer) /\ Increasing(sending_) /\ Increasing(send_)
    /\ \A i \in 1 .. Len(peer), j \in sent + 1 .. Len(sending_) :
            peer[i] < sending_[j]
    /\ \A i \in 1 .. Len(peer), j \in 1 .. Len(send_) : peer[i] < send_[j]
    /\ \A i \in 1 .. Len(sending_), j \in 1 .. Len(send_) :
            sending_[i] < send_[j]

\* As long as no write has failed, every chunk that write accepted is on the
\* wire or still queued: with InOrder, in exactly one of these places.
NoLoss ==
    fault = "none" => Len(peer) + (Len(sending_) - sent) + Len(send_) = written

\* Queued data always has an operation outstanding whose handler will pick it
\* up, unless a write has failed.
NoStall == send_ # << >> /\ fault = "none" => writes > 0

\* The double-buffered write queue: never two writes on the stream, and chunks
\* are neither reordered, duplicated, lost nor left without an operation that
\* will take them, whatever fails and whenever close is called
\* (connection.cpp:12-42).
QueueSafe == TypeOK /\ OneWrite /\ InOrder /\ NoLoss /\ NoStall

S == INSTANCE Session

\* The events of session_thread follow the documented callback sequence.
CallbackSequence == S!Spec

LinkOf ==
    [st    |-> CASE stage = "resolve" -> "resolving"
                 [] stage \in {"connect", "socks", "tls"} -> "connecting"
                 [] stage \in {"read", "batch"} -> "up"
                 [] stage = "ended" -> "ended",
     ready |-> IF stage = "batch" THEN "ok" ELSE ready,
     fd    |-> IF stage = "ended" THEN "closed" ELSE socket]

L == INSTANCE Link WITH link <- LinkOf

\* The connection behaves as the link the client's life cycle is built on:
\* a detail of the stages that Link leaves out cannot surprise the client.
ImplementsLink == L!Spec

\* After close() on a connection that is past name resolution the coroutine
\* runs to its end, whatever results were queued when close was called: the
\* caller is told with END.
ClosedEnds ==
    (handle = "reset" /\ socket = "closed" /\ stage # "resolve") ~> stage = "ended"
=============================================================================
