------------------------------ MODULE Websocket ------------------------------
(***************************************************************************)
(* One websocket of the web server: class Websocket of client/httpd.cpp.    *)
(*                                                                          *)
(* Outgoing messages wait in messages_; the front one is being written      *)
(* while the queue is not empty.  close() lets the queue drain first.  The  *)
(* Lua program gets the object before the handshake has been answered, so   *)
(* it can call send and close in every phase.                               *)
(*                                                                          *)
(* The stream itself is Boost.Beast.  An operation started before the       *)
(* handshake is over is outside its contract: early records one, and what   *)
(* such an operation does is left open.                                     *)
(***************************************************************************)
EXTENDS Naturals, Sequences

CONSTANT MaxSends            \* bound: messages Lua sends

ASSUME MaxSendsAssumption == MaxSends \in Nat

VARIABLES phase,     \* none, accepting, open, refused, or corrupt after UB
          messages_, \* the queue of the class
          closed,    \* closed of the class: "yes" or "no"
          writing,   \* messages of the outstanding async_write calls
          closes,    \* async_close calls so far
          reading,   \* is async_read outstanding: "yes" or "no"
          closing,   \* is async_close outstanding: "yes" or "no"
          sent,      \* history: number of messages taken by send
          wire,      \* history: messages written
          failed,    \* history: a write has failed
          early      \* history: an operation was started outside phase open

wsVars == <<phase, messages_, closed, writing, closes, reading, closing,
            sent, wire, failed, early>>

YesNo == {"yes", "no"}
Garbage == 0         \* what a write sends whose buffer has been freed

WebsocketInit ==
    /\ phase = "none"
    /\ messages_ = <<>> /\ writing = <<>> /\ wire = <<>>
    /\ closes = 0 /\ sent = 0
    /\ closed = "no" /\ reading = "no" /\ closing = "no"
    /\ failed = "no" /\ early = "no"

\* Alive: nothing is claimed of a queue that was popped while empty
Alive == phase \in {"accepting", "open", "refused"}

EarlyIn == IF phase = "open" THEN early ELSE "yes"

-----------------------------------------------------------------------------
(* The operations                                                           *)

\* handle_websocket: construct, start the handshake, hand the object to Lua
Run ==
    /\ phase = "none"
    /\ phase' = "accepting"
    /\ UNCHANGED <<messages_, closed, writing, closes, reading, closing,
                   sent, wire, failed, early>>

\* start_close
StartClose ==
    /\ closes' = closes + 1
    /\ closing' = "yes"
    /\ early' = EarlyIn

Close ==
    /\ Alive /\ closed = "no"
    /\ closed' = "yes"
    /\ IF messages_ = <<>>
       THEN StartClose
       ELSE UNCHANGED <<closes, closing, early>>
    /\ UNCHANGED <<phase, messages_, writing, reading, sent, wire, failed>>

\* mutant: every send starts a write
SendAlways ==
    /\ Alive /\ closed = "no"
    /\ sent < MaxSends
    /\ LET m == sent + 1 IN
       /\ sent' = m
       /\ messages_' = Append(messages_, m)
       /\ writing' = Append(writing, Head(messages_'))
       /\ early' = EarlyIn
    /\ UNCHANGED <<phase, closed, closes, reading, closing, wire, failed>>

\* send; a closed websocket ignores it (no step).  Messages are numbered.
Send ==
    /\ Alive /\ closed = "no"
    /\ sent < MaxSends
    /\ LET m == sent + 1 IN
       /\ sent' = m
       /\ messages_' = Append(messages_, m)
       /\ IF messages_ = <<>>
          THEN writing' = Append(writing, m) /\ early' = EarlyIn
          ELSE UNCHANGED <<writing, early>>
    /\ UNCHANGED <<phase, closed, closes, reading, closing, wire, failed>>

-----------------------------------------------------------------------------
(* The completion handlers                                                  *)

\* on_accept: reading starts, and so does a write when something is queued,
\* whether or not send has already started one
OnAccept ==
    /\ phase = "accepting"
    /\ \/ /\ phase' = "open" /\ reading' = "yes"
          /\ writing' = IF messages_ = <<>> THEN writing
                        ELSE Append(writing, Head(messages_))
       \/ phase' = "refused" /\ UNCHANGED <<reading, writing>>
    /\ UNCHANGED <<messages_, closed, closes, closing, sent, wire, failed,
                   early>>

\* what an async_write that succeeds has sent: its message, or, if the queue
\* has let go of that message in the meantime, possibly something else
Written ==
    {Head(writing)} \cup
    (IF messages_ # <<>> /\ Head(messages_) = Head(writing) THEN {}
     ELSE {Garbage})

\* mutant: the pending close is not waited for, it is forgotten
OnWrittenForgetsClose ==
    /\ Alive /\ writing # <<>> /\ messages_ # <<>>
    /\ wire' = Append(wire, Head(writing))
    /\ messages_' = Tail(messages_)
    /\ writing' = IF messages_' = <<>> THEN Tail(writing)
                  ELSE Append(Tail(writing), Head(messages_'))
    /\ UNCHANGED <<phase, closed, closes, reading, closing, sent, failed, early>>

\* on_write after success: pop, then the next message or the pending close
OnWritten ==
    /\ Alive /\ writing # <<>>
    /\ \E m \in Written : wire' = Append(wire, m)
    /\ IF messages_ = <<>>
       THEN /\ phase' = "corrupt"
            /\ UNCHANGED <<messages_, writing, closes, closing, early>>
       ELSE /\ messages_' = Tail(messages_)
            /\ phase' = phase
            /\ \/ /\ messages_' # <<>>
                  /\ writing' = Append(Tail(writing), Head(messages_'))
                  /\ early' = EarlyIn
                  /\ UNCHANGED <<closes, closing>>
               \/ /\ messages_' = <<>>
                  /\ writing' = Tail(writing)
                  /\ IF closed = "yes" THEN StartClose
                     ELSE UNCHANGED <<closes, closing, early>>
    /\ UNCHANGED <<closed, reading, sent, failed>>

\* on_write after an error: give up the queue
OnWriteError ==
    /\ Alive /\ writing # <<>>
    /\ closed' = "yes"
    /\ messages_' = <<>>
    /\ writing' = Tail(writing)
    /\ failed' = "yes"
    /\ UNCHANGED <<phase, closes, reading, closing, sent, wire, early>>

OnWrite == OnWritten \/ OnWriteError

\* on_read: a message goes to the Lua callback and reading goes on (the state
\* stays the same); an error, or the end of the websocket, ends the reading
OnReadError ==
    /\ Alive /\ reading = "yes"
    /\ reading' = "no"
    /\ UNCHANGED <<phase, messages_, closed, writing, closes, closing, sent,
                   wire, failed, early>>

\* on_close does nothing
OnClose ==
    /\ Alive /\ closing = "yes"
    /\ closing' = "no"
    /\ UNCHANGED <<phase, messages_, closed, writing, closes, reading, sent,
                   wire, failed, early>>

WebsocketNext == Run \/ Send \/ Close \/ OnAccept \/ OnWrite \/ OnReadError \/ OnClose

WebsocketSpec == WebsocketInit /\ [][WebsocketNext]_wsVars

-----------------------------------------------------------------------------
(* Properties                                                               *)

WebsocketTypeOK ==
    /\ phase \in {"none", "accepting", "open", "refused", "corrupt"}
    /\ messages_ \in Seq(Nat) /\ writing \in Seq(Nat)
    /\ wire \in Seq(Nat)
    /\ sent \in Nat /\ closes \in Nat
    /\ closed \in YesNo /\ reading \in YesNo /\ closing \in YesNo
    /\ failed \in YesNo /\ early \in YesNo

\* One async_write is outstanding while the queue is not empty, and it is the
\* front of the queue; none otherwise
OneMessageAtATime ==
    writing = IF messages_ = <<>> THEN <<>> ELSE <<Head(messages_)>>

\* What has been written is the beginning of what was sent, and unless a write
\* failed what is queued is the rest of it, in order
NothingLost ==
    /\ Len(wire) <= sent
    /\ \A i \in 1..Len(wire) : wire[i] = i
    /\ failed = "no" =>
          /\ Len(wire) + Len(messages_) = sent
          /\ \A i \in 1..Len(messages_) : messages_[i] = Len(wire) + i

\* The closing handshake starts once, and after the last message
ClosesLast ==
    /\ closes <= 1
    /\ closes = 1 => closed = "yes" /\ messages_ = <<>>

\* As long as nothing is sent or closed before the websocket is open, send,
\* on_write and close (httpd.cpp:68-137) keep one write going at a time,
\* deliver every message once and in order, and close after the last one.
WebsocketIsSound ==
    /\ WebsocketTypeOK
    /\ early = "no" => OneMessageAtATime /\ NothingLost /\ ClosesLast

=============================================================================
