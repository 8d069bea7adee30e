------------------------- MODULE Connection_proofs -------------------------
(***************************************************************************)
(* Proofs about Connection, for every number of writes and messages:       *)
(* type correctness, the output queue (OneWrite, InOrder, NoLoss, NoStall),*)
(* the callback sequence of the session, and the link it is to its owner;  *)
(* and about Socks5, the handshake a connection begins with, for every     *)
(* host, credential and proxy.                                             *)
(***************************************************************************)
EXTENDS Connection, Socks5, SequenceTheorems, TLAPS

----------------------------------------------------------------------------
(***************************************************************************)
(* Type correctness                                                        *)
(***************************************************************************)

\* The two ways a step of the coroutine ends preserve the types.
LEMMA EndType ==
    ASSUME TypeOK, End
    PROVE  TypeOK'
BY DEF TypeOK, End, output, Stages, ConnectStages

\* The types hold when session_thread is spawned.
LEMMA TypeInit == Init => TypeOK
BY DEF Init, TypeOK, Stages, ConnectStages

\* Every step preserves the types, one case per action.
LEMMA TypeNext == TypeOK /\ [Next]_vars => TypeOK'
<1> SUFFICES ASSUME TypeOK, [Next]_vars PROVE TypeOK'
    OBVIOUS
<1> USE ConnectionAssumption DEF Stages, ConnectStages
<1>1. CASE Write
  <2>1. Append(send_, written + 1) \in Seq(Nat)
    BY DEF TypeOK
  <2>2. /\ written' \in Nat /\ writes' \in Nat /\ sent' \in Nat
        /\ wfd' \in {"open", "closed"}
    BY <1>1 DEF TypeOK, Write, WriteActual
  <2>3. send_' \in Seq(Nat) /\ sending_' \in Seq(Nat)
    <3>1. CASE sending_ = << >>
      <4>1. sending_' = Append(send_, written + 1) /\ send_' = sending_
        BY <1>1, <3>1 DEF Write, WriteActual
      <4> QED BY <2>1, <4>1 DEF TypeOK
    <3>2. CASE sending_ # << >>
      <4>1. send_' = Append(send_, written + 1) /\ sending_' = sending_
        BY <1>1, <3>2 DEF Write
      <4> QED BY <2>1, <4>1 DEF TypeOK
    <3> QED BY <3>1, <3>2
  <2> QED BY <1>1, <2>2, <2>3 DEF TypeOK, Write, session
<1>2. CASE Transmit
  BY <1>2 DEF TypeOK, Transmit, session
<1>3. CASE \E error \in BOOLEAN : WriteHandler(error)
  <2> PICK error \in BOOLEAN : WriteHandler(error)
    BY <1>3
  <2>1. CASE ~error /\ send_ # << >>
    BY <2>1 DEF TypeOK, WriteHandler, WriteActual, session
  <2>2. CASE ~(~error /\ send_ # << >>)
    <3>1. send_' = send_ /\ sending_' = << >> /\ wfd' = wfd
      BY <2>2 DEF WriteHandler
    <3>2. writes' \in Nat /\ sent' \in Nat
      BY <2>2 DEF TypeOK, WriteHandler
    <3>3. /\ fault' \in {"none", "closed", "network"}
          /\ socket' \in {"open", "closed"}
      BY DEF TypeOK, WriteHandler
    <3> QED BY <3>1, <3>2, <3>3 DEF TypeOK, WriteHandler, session
  <2> QED BY <2>1, <2>2
<1>4. CASE Close
  BY <1>4 DEF TypeOK, Close
<1>5. CASE \E r \in {"ok", "err"} : OpDone(r)
  BY <1>5 DEF TypeOK, OpDone, output
<1>6. CASE Resume
  <2>1. CASE ResumeError
    BY <2>1, EndType DEF ResumeError
  <2>2. CASE ResolveDone
    BY <2>2 DEF TypeOK, ResolveDone, Await, output
  <2>3. CASE ConnectDone
    <3>1. CASE socket = "closed"
      BY <2>3, <3>1, EndType DEF ConnectDone
    <3>2. CASE socket # "closed"
      <4>1. calls' \in {calls, Append(calls, "CON")}
        BY <2>3, <3>2 DEF ConnectDone, Connected, Await
      <4>2. stage' \in Stages /\ ready' \in {"none", "ok", "err"}
        BY <2>3, <3>2 DEF TypeOK, ConnectDone, Connected, Await
      <4>3. Append(calls, "CON") \in Seq({"CON", "MSG", "END"})
        BY DEF TypeOK
      <4>4. calls' \in Seq({"CON", "MSG", "END"})
        BY <4>1, <4>3 DEF TypeOK
      <4> QED BY <2>3, <3>2, <4>2, <4>4 DEF TypeOK, ConnectDone, output
    <3> QED BY <3>1, <3>2
  <2>4. CASE SocksDone
    <3>1. calls' \in {calls, Append(calls, "CON")}
      BY <2>4 DEF SocksDone, Connected, Await
    <3>2. stage' \in Stages /\ ready' \in {"none", "ok", "err"}
      BY <2>4 DEF TypeOK, SocksDone, Connected, Await
    <3>3. Append(calls, "CON") \in Seq({"CON", "MSG", "END"})
      BY DEF TypeOK
    <3>4. calls' \in Seq({"CON", "MSG", "END"})
      BY <3>1, <3>3 DEF TypeOK
    <3> QED BY <2>4, <3>2, <3>4 DEF TypeOK, SocksDone, output
  <2>5. CASE TlsDone
    BY <2>5 DEF TypeOK, TlsDone, Connected, Await, output
  <2>6. CASE SetupThrows
    BY <2>6, EndType DEF SetupThrows
  <2>7. CASE \E n \in 0 .. MaxBatch : ReadDone(n)
    BY <2>7 DEF TypeOK, ReadDone, output
  <2>8. CASE Dispatch
    BY <2>8 DEF TypeOK, Dispatch, output
  <2>9. CASE BatchThrows
    BY <2>9, EndType DEF BatchThrows
  <2>10. CASE BatchDone
    BY <2>10 DEF TypeOK, BatchDone, Await, output
  <2> QED BY <1>6, <2>1, <2>2, <2>3, <2>4, <2>5, <2>6, <2>7, <2>8, <2>9, <2>10
          DEF Resume
<1>7. CASE UNCHANGED vars
  BY <1>7 DEF TypeOK, vars, session, output
<1> QED BY <1>1, <1>2, <1>3, <1>4, <1>5, <1>6, <1>7 DEF Next

\* Every reachable state is well typed.
THEOREM TypeCorrect == Spec => []TypeOK
BY TypeInit, TypeNext, PTL DEF Spec

----------------------------------------------------------------------------
(***************************************************************************)
(* The output queue                                                        *)
(*                                                                         *)
(* OneWrite, InOrder, NoLoss and NoStall are inductive together, with one  *)
(* strengthening: no chunk has a number that write has not given out yet,  *)
(* so that the next chunk is larger than all of them.                      *)
(***************************************************************************)

Bounded ==
    /\ \A i \in 1 .. Len(peer) : peer[i] <= written
    /\ \A i \in 1 .. Len(sending_) : sending_[i] <= written
    /\ \A i \in 1 .. Len(send_) : send_[i] <= written

QueueInv == OneWrite /\ InOrder /\ Bounded /\ NoLoss /\ NoStall

queue == <<send_, sending_, writes, sent, written, peer, fault>>

\* A step that touches none of the queue's variables preserves QueueInv.
LEMMA QueueFrame ==
    ASSUME QueueInv, UNCHANGED queue
    PROVE  QueueInv'
BY DEF QueueInv, OneWrite, InOrder, Increasing, Bounded, NoLoss, NoStall, queue

\* Appending a number larger than all others keeps a sequence increasing.
LEMMA IncreasingAppend ==
    ASSUME NEW s \in Seq(Nat), NEW n \in Nat, Increasing(s),
           \A i \in 1 .. Len(s) : s[i] < n
    PROVE  Increasing(Append(s, n))
BY DEF Increasing

\* write gives the new chunk the largest number and starts a write only
\* when none is outstanding.
LEMMA QueueWrite ==
    ASSUME TypeOK, QueueInv, Write
    PROVE  QueueInv'
<1>1. /\ Append(send_, written + 1) \in Seq(Nat)
      /\ Len(Append(send_, written + 1)) = Len(send_) + 1
      /\ Append(send_, written + 1)[Len(send_) + 1] = written + 1
      /\ \A i \in 1 .. Len(send_) : Append(send_, written + 1)[i] = send_[i]
  BY DEF TypeOK
<1>2. Increasing(Append(send_, written + 1))
  BY IncreasingAppend DEF TypeOK, QueueInv, InOrder, Bounded
<1>3. PICK s : s = Append(send_, written + 1)
  OBVIOUS
<1>4. /\ s \in Seq(Nat)
      /\ Increasing(s)
      /\ Len(s) = Len(send_) + 1
      /\ s[Len(send_) + 1] = written + 1
      /\ \A i \in 1 .. Len(send_) : s[i] = send_[i]
  BY <1>1, <1>2, <1>3
<1>5. written' = written + 1 /\ peer' = peer /\ fault' = fault
  BY DEF Write
<1>6. \A i \in 1 .. Len(s) : i \in 1 .. Len(send_) \/ i = Len(send_) + 1
  BY <1>4 DEF TypeOK
<1>7. \A i \in 1 .. Len(s) : s[i] <= written + 1
  <2> TAKE i \in 1 .. Len(s)
  <2>1. CASE i \in 1 .. Len(send_)
    <3>1. send_[i] \in Nat /\ written \in Nat /\ send_[i] <= written
      BY <2>1 DEF TypeOK, QueueInv, Bounded
    <3> QED BY <1>4, <2>1, <3>1
  <2>2. CASE i = Len(send_) + 1
    BY <1>4, <2>2 DEF TypeOK
  <2> QED BY <1>6, <2>1, <2>2
<1>8. \A i \in 1 .. Len(peer), j \in 1 .. Len(s) : peer[i] < s[j]
  <2> TAKE i \in 1 .. Len(peer), j \in 1 .. Len(s)
  <2>1. peer[i] \in Nat /\ written \in Nat /\ peer[i] <= written
    BY DEF TypeOK, QueueInv, Bounded
  <2>2. CASE j \in 1 .. Len(send_)
    BY <1>4, <2>2 DEF QueueInv, InOrder
  <2>3. CASE j = Len(send_) + 1
    BY <1>4, <2>1, <2>3
  <2> QED BY <1>6, <2>2, <2>3
<1>9. \A i \in 1 .. Len(sending_), j \in 1 .. Len(s) : sending_[i] < s[j]
  <2> TAKE i \in 1 .. Len(sending_), j \in 1 .. Len(s)
  <2>1. sending_[i] \in Nat /\ written \in Nat /\ sending_[i] <= written
    BY DEF TypeOK, QueueInv, Bounded
  <2>2. CASE j \in 1 .. Len(send_)
    BY <1>4, <2>2 DEF QueueInv, InOrder
  <2>3. CASE j = Len(send_) + 1
    BY <1>4, <2>1, <2>3
  <2> QED BY <1>6, <2>2, <2>3
<1>10. CASE sending_ = << >>
  <2>1. sending_' = s /\ send_' = << >> /\ writes' = 1 /\ sent' = 0
    BY <1>3, <1>10 DEF Write, WriteActual, QueueInv, OneWrite, TypeOK
  <2>2. OneWrite'
    <3>1. Len(s) # 0
      BY <1>4 DEF TypeOK
    <3> QED BY <2>1, <3>1 DEF OneWrite
  <2>3. InOrder'
    BY <1>4, <1>5, <1>8, <2>1 DEF TypeOK, QueueInv, InOrder, Increasing
  <2>4. Bounded'
    <3>1. /\ \A i \in 1 .. Len(peer) : peer[i] <= written + 1
          /\ \A i \in 1 .. Len(sending_) : sending_[i] <= written + 1
      BY DEF TypeOK, QueueInv, Bounded
    <3> QED BY <1>4, <1>5, <1>7, <2>1, <3>1 DEF Bounded
  <2>5. NoLoss'
    BY <1>4, <1>5, <1>10, <2>1 DEF TypeOK, QueueInv, NoLoss, InOrder
  <2>6. NoStall'
    BY <2>1 DEF NoStall
  <2> QED BY <2>2, <2>3, <2>4, <2>5, <2>6 DEF QueueInv
<1>11. CASE sending_ # << >>
  <2>1. send_' = s /\ sending_' = sending_ /\ writes' = writes /\ sent' = sent
    BY <1>3, <1>11 DEF Write
  <2>2. writes = 1
    BY <1>11 DEF QueueInv, OneWrite
  <2>3. OneWrite'
    BY <1>11, <2>1, <2>2 DEF OneWrite
  <2>4. InOrder'
    BY <1>4, <1>5, <1>8, <1>9, <2>1 DEF TypeOK, QueueInv, InOrder, Increasing
  <2>5. Bounded'
    <3>1. /\ \A i \in 1 .. Len(peer) : peer[i] <= written + 1
          /\ \A i \in 1 .. Len(sending_) : sending_[i] <= written + 1
      BY DEF TypeOK, QueueInv, Bounded
    <3> QED BY <1>4, <1>5, <1>7, <2>1, <3>1 DEF Bounded
  <2>6. NoLoss'
    <3>1. /\ Len(peer) \in Nat /\ Len(sending_) \in Nat /\ Len(send_) \in Nat
          /\ sent \in Nat /\ written \in Nat
      BY DEF TypeOK
    <3> QED BY <1>4, <1>5, <2>1, <3>1 DEF QueueInv, NoLoss
  <2>7. NoStall'
    BY <2>1, <2>2 DEF NoStall
  <2> QED BY <2>3, <2>4, <2>5, <2>6, <2>7 DEF QueueInv
<1> QED BY <1>10, <1>11

\* What the transport takes from sending_ it appends to what the peer has.
LEMMA QueueTransmit ==
    ASSUME TypeOK, QueueInv, Transmit
    PROVE  QueueInv'
<1> DEFINE c == sending_[sent + 1]
<1>1. /\ sent + 1 \in 1 .. Len(sending_)
      /\ c \in Nat
  BY DEF TypeOK, Transmit
<1>2. /\ sent' = sent + 1 /\ peer' = Append(peer, c)
      /\ UNCHANGED <<send_, sending_, writes, written, fault>>
  BY DEF Transmit
<1>3. \A i \in 1 .. Len(peer) : peer[i] < c
  BY <1>1 DEF QueueInv, InOrder
<1>4. Increasing(peer')
  BY <1>1, <1>2, <1>3, IncreasingAppend DEF TypeOK, QueueInv, InOrder
<1>5. /\ Len(peer') = Len(peer) + 1
      /\ peer'[Len(peer) + 1] = c
      /\ \A i \in 1 .. Len(peer) : peer'[i] = peer[i]
  BY <1>1, <1>2 DEF TypeOK
<1>6. /\ \A j \in sent + 2 .. Len(sending_) : c < sending_[j]
      /\ \A j \in 1 .. Len(send_) : c < send_[j]
      /\ c <= written
  BY <1>1 DEF TypeOK, QueueInv, InOrder, Increasing, Bounded
<1> HIDE DEF c
<1>7. InOrder'
  BY <1>1, <1>2, <1>4, <1>5, <1>6 DEF TypeOK, QueueInv, InOrder, Increasing
<1>8. Bounded'
  BY <1>2, <1>5, <1>6 DEF TypeOK, QueueInv, Bounded
<1>9. NoLoss'
  BY <1>1, <1>2, <1>5 DEF TypeOK, QueueInv, NoLoss
<1>10. OneWrite' /\ NoStall'
  BY <1>2 DEF QueueInv, OneWrite, NoStall
<1> QED BY <1>7, <1>8, <1>9, <1>10 DEF QueueInv

\* The completion handler: more was queued, nothing was, or the write failed.
LEMMA QueueHandler ==
    ASSUME TypeOK, QueueInv, NEW error \in BOOLEAN, WriteHandler(error)
    PROVE  QueueInv'
<1>1. /\ writes = 1
      /\ UNCHANGED <<written, peer>>
  BY DEF TypeOK, QueueInv, OneWrite, WriteHandler
<1>2. CASE ~error /\ send_ # << >>
  <2>1. /\ sending_' = send_ /\ send_' = << >> /\ writes' = 1 /\ sent' = 0
        /\ fault' = fault /\ sent = Len(sending_)
    BY <1>1, <1>2 DEF WriteHandler, WriteActual
  <2>2. OneWrite' /\ NoStall'
    BY <1>2, <2>1 DEF OneWrite, NoStall
  <2>3. InOrder' /\ Bounded'
    BY <1>1, <2>1 DEF TypeOK, QueueInv, InOrder, Increasing, Bounded
  <2>4. NoLoss'
    BY <1>1, <2>1 DEF TypeOK, QueueInv, NoLoss
  <2> QED BY <2>2, <2>3, <2>4 DEF QueueInv
<1>3. CASE ~error /\ send_ = << >>
  <2>1. /\ sending_' = << >> /\ send_' = << >> /\ writes' = 0 /\ sent' = 0
        /\ fault' = fault /\ sent = Len(sending_)
    BY <1>1, <1>3 DEF WriteHandler
  <2>2. OneWrite' /\ NoStall'
    BY <2>1 DEF OneWrite, NoStall
  <2>3. InOrder' /\ Bounded'
    BY <1>1, <2>1 DEF TypeOK, QueueInv, InOrder, Increasing, Bounded
  <2>4. NoLoss'
    BY <1>1, <1>3, <2>1 DEF TypeOK, QueueInv, NoLoss
  <2> QED BY <2>2, <2>3, <2>4 DEF QueueInv
<1>4. CASE error
  <2>1. /\ sending_' = << >> /\ send_' = send_ /\ writes' = 0 /\ sent' = 0
        /\ fault' # "none"
    BY <1>1, <1>4 DEF WriteHandler
  <2>2. OneWrite' /\ NoStall' /\ NoLoss'
    BY <2>1 DEF OneWrite, NoStall, NoLoss
  <2>3. InOrder' /\ Bounded'
    BY <1>1, <2>1 DEF TypeOK, QueueInv, InOrder, Increasing, Bounded
  <2> QED BY <2>2, <2>3 DEF QueueInv
<1> QED BY <1>2, <1>3, <1>4

\* The queue is empty at first.
LEMMA QueueInit == Init => QueueInv
BY DEF Init, QueueInv, OneWrite, InOrder, Increasing, Bounded, NoLoss, NoStall

\* Every step preserves the invariant of the queue.
LEMMA QueueNext == TypeOK /\ QueueInv /\ [Next]_vars => QueueInv'
<1> SUFFICES ASSUME TypeOK, QueueInv, [Next]_vars PROVE QueueInv'
    OBVIOUS
<1>1. CASE Write
  BY <1>1, QueueWrite
<1>2. CASE Transmit
  BY <1>2, QueueTransmit
<1>3. CASE \E error \in BOOLEAN : WriteHandler(error)
  BY <1>3, QueueHandler
<1>4. CASE Close
  BY <1>4, QueueFrame DEF Close, queue
<1>5. CASE \E r \in {"ok", "err"} : OpDone(r)
  BY <1>5, QueueFrame DEF OpDone, output, queue
<1>6. CASE Resume
  <2>1. UNCHANGED output
    BY <1>6 DEF Resume, ResumeError, ResolveDone, ConnectDone, SocksDone,
                TlsDone, SetupThrows, ReadDone, Dispatch, BatchThrows,
                BatchDone, End
  <2> QED BY <2>1, QueueFrame DEF output, queue
<1>7. CASE UNCHANGED vars
  BY <1>7, QueueFrame DEF vars, output, queue
<1> QED BY <1>1, <1>2, <1>3, <1>4, <1>5, <1>6, <1>7 DEF Next

\* For every number of writes and every schedule: never two async_write
\* operations at once, and no chunk reordered, duplicated, stalled or, unless
\* a write failed, lost.
THEOREM QueueCorrect == Spec => []QueueSafe
<1>1. TypeOK /\ QueueInv => QueueSafe
  BY DEF QueueInv, QueueSafe
<1> QED BY <1>1, TypeCorrect, QueueInit, QueueNext, PTL DEF Spec

----------------------------------------------------------------------------
(***************************************************************************)
(* The callback sequence: Connection implements Session                    *)
(***************************************************************************)

\* The stage of the coroutine determines the last event.
CallInv ==
    /\ stage \in ConnectStages => calls = << >>
    /\ stage \in {"read", "batch"} => calls # << >> /\ S!Last(calls) # "END"
    /\ stage = "ended" => /\ calls # << >>
                          /\ S!Last(calls) = "END"
                          /\ ready = "none"

\* The last event after a callback is the one just passed.
LEMMA LastAppend ==
    ASSUME NEW s \in Seq({"CON", "MSG", "END"}), NEW e \in {"CON", "MSG", "END"}
    PROVE  Append(s, e) # << >> /\ S!Last(Append(s, e)) = e
<1>1. Len(Append(s, e)) = Len(s) + 1 /\ Append(s, e)[Len(s) + 1] = e
  OBVIOUS
<1>2. Append(s, e) # << >>
  OBVIOUS
<1> QED BY <1>1, <1>2 DEF S!Last

\* A session that ends has not ended before.
LEMMA EndStep ==
    ASSUME TypeOK, CallInv, stage # "ended", End
    PROVE  CallInv' /\ S!END
<1>1. calls' # << >> /\ S!Last(calls') = "END"
  BY LastAppend DEF TypeOK, End
<1>2. CallInv'
  BY <1>1 DEF CallInv, End, ConnectStages
<1>3. calls # << >> => S!Last(calls) # "END"
  BY DEF TypeOK, CallInv, Stages
<1> QED BY <1>2, <1>3 DEF S!END, End

\* connect returns once, before any other event.
LEMMA ConnectedStep ==
    ASSUME TypeOK, CallInv, stage \in ConnectStages, Connected
    PROVE  CallInv' /\ S!CON
<1>1. calls' # << >> /\ S!Last(calls') = "CON"
  BY LastAppend DEF TypeOK, Connected
<1>2. stage' = "read"
  BY DEF Connected, Await
<1>3. CallInv'
  BY <1>1, <1>2 DEF CallInv, ConnectStages
<1> QED BY <1>3 DEF CallInv, S!CON, Connected

\* Moving between the stages of connect reports nothing.
LEMMA QuietStep ==
    ASSUME CallInv, UNCHANGED calls,
           \/ stage \in ConnectStages /\ stage' \in ConnectStages
           \/ stage \in {"read", "batch"} /\ stage' \in {"read", "batch"}
    PROVE  CallInv'
BY DEF CallInv, ConnectStages

\* No callback has been made at first.
LEMMA CallInit == Init => CallInv /\ S!Init
BY DEF Init, CallInv, S!Init, ConnectStages

\* Every step preserves CallInv and is a step of Session or a stutter.
LEMMA CallNext == TypeOK /\ CallInv /\ [Next]_vars => CallInv' /\ [S!Next]_calls
<1> SUFFICES ASSUME TypeOK, CallInv, [Next]_vars
             PROVE  CallInv' /\ [S!Next]_calls
    OBVIOUS
<1>1. CASE Write \/ Transmit \/ (\E error \in BOOLEAN : WriteHandler(error))
  <2>1. UNCHANGED session
    BY <1>1 DEF Write, Transmit, WriteHandler
  <2> QED BY <2>1 DEF CallInv, session
<1>2. CASE Close
  BY <1>2 DEF Close, CallInv
<1>3. CASE \E r \in {"ok", "err"} : OpDone(r)
  BY <1>3 DEF OpDone, CallInv
<1>4. CASE Resume
  <2>1. CASE ResumeError
    <3>1. stage # "ended" /\ End
      BY <2>1 DEF ResumeError, CallInv
    <3> QED BY <3>1, EndStep DEF S!Next
  <2>2. CASE ResolveDone
    <3>1. stage \in ConnectStages /\ stage' \in ConnectStages /\ UNCHANGED calls
      BY <2>2 DEF ResolveDone, Await, ConnectStages
    <3> QED BY <3>1, QuietStep
  <2>3. CASE ConnectDone
    <3>1. stage \in ConnectStages /\ stage # "ended"
      BY <2>3 DEF ConnectDone, ConnectStages
    <3>2. CASE socket = "closed"
      BY <2>3, <3>1, <3>2, EndStep DEF ConnectDone, S!Next
    <3>3. CASE socket # "closed" /\ "socks" \notin settings
                                /\ "tls" \notin settings
      BY <2>3, <3>1, <3>3, ConnectedStep DEF ConnectDone, S!Next
    <3>4. CASE socket # "closed" /\ ~("socks" \notin settings
                                      /\ "tls" \notin settings)
      <4>1. stage' \in ConnectStages /\ UNCHANGED calls
        BY <2>3, <3>4 DEF ConnectDone, Await, ConnectStages
      <4> QED BY <3>1, <4>1, QuietStep
    <3> QED BY <3>2, <3>3, <3>4
  <2>4. CASE SocksDone
    <3>1. stage \in ConnectStages
      BY <2>4 DEF SocksDone, ConnectStages
    <3>2. CASE "tls" \in settings
      <4>1. stage' \in ConnectStages /\ UNCHANGED calls
        BY <2>4, <3>2 DEF SocksDone, Await, ConnectStages
      <4> QED BY <3>1, <4>1, QuietStep
    <3>3. CASE "tls" \notin settings
      BY <2>4, <3>1, <3>3, ConnectedStep DEF SocksDone, S!Next
    <3> QED BY <3>2, <3>3
  <2>5. CASE TlsDone
    BY <2>5, ConnectedStep DEF TlsDone, ConnectStages, S!Next
  <2>6. CASE SetupThrows
    BY <2>6, EndStep DEF SetupThrows, S!Next
  <2>7. CASE \E n \in 0 .. MaxBatch : ReadDone(n)
    <3>1. stage = "read" /\ stage' = "batch" /\ UNCHANGED calls
      BY <2>7 DEF ReadDone
    <3> QED BY <3>1, QuietStep
  <2>8. CASE Dispatch
    <3>1. calls' # << >> /\ S!Last(calls') = "MSG"
      BY <2>8, LastAppend DEF TypeOK, Dispatch
    <3>2. CallInv'
      BY <2>8, <3>1 DEF CallInv, Dispatch, ConnectStages
    <3> QED BY <2>8, <3>2 DEF CallInv, Dispatch, S!Next, S!MSG
  <2>9. CASE BatchThrows
    BY <2>9, EndStep DEF BatchThrows, S!Next
  <2>10. CASE BatchDone
    <3>1. stage = "batch" /\ stage' = "read" /\ UNCHANGED calls
      BY <2>10 DEF BatchDone, Await
    <3> QED BY <3>1, QuietStep
  <2> QED BY <1>4, <2>1, <2>2, <2>3, <2>4, <2>5, <2>6, <2>7, <2>8, <2>9, <2>10
          DEF Resume
<1>5. CASE UNCHANGED vars
  BY <1>5 DEF vars, session, CallInv
<1> QED BY <1>1, <1>2, <1>3, <1>4, <1>5 DEF Next

\* session_thread calls back (CON MSG* )? END, for every number of messages,
\* every configuration and every interleaving with close and send.
THEOREM SequenceCorrect == Spec => CallbackSequence
<1>1. Spec => [](TypeOK /\ CallInv)
  BY TypeCorrect, CallInit, CallNext, PTL DEF Spec
<1> QED BY <1>1, CallInit, CallNext, PTL DEF Spec, CallbackSequence, S!Spec

----------------------------------------------------------------------------
(***************************************************************************)
(* The link: Connection implements Link                                    *)
(***************************************************************************)

\* the link of each stage
LinkFacts ==
    /\ stage = "resolve" => LinkOf = [st |-> "resolving", ready |-> ready, fd |-> socket]
    /\ stage \in {"connect", "socks", "tls"} =>
            LinkOf = [st |-> "connecting", ready |-> ready, fd |-> socket]
    /\ stage = "read" => LinkOf = [st |-> "up", ready |-> ready, fd |-> socket]
    /\ stage = "batch" => LinkOf = [st |-> "up", ready |-> "ok", fd |-> socket]
    /\ stage = "ended" => LinkOf = [st |-> "ended", ready |-> ready, fd |-> "closed"]

\* LinkOf is what LinkFacts says, before and after every step.
LEMMA LinkStage == LinkFacts
<1>1. stage = "resolve" => LinkOf = [st |-> "resolving", ready |-> ready, fd |-> socket]
  BY DEF LinkOf
<1>2. stage \in {"connect", "socks", "tls"} =>
            LinkOf = [st |-> "connecting", ready |-> ready, fd |-> socket]
  BY DEF LinkOf
<1>3. stage = "read" => LinkOf = [st |-> "up", ready |-> ready, fd |-> socket]
  BY DEF LinkOf
<1>4. stage = "batch" => LinkOf = [st |-> "up", ready |-> "ok", fd |-> socket]
  BY DEF LinkOf
<1>5. stage = "ended" => LinkOf = [st |-> "ended", ready |-> ready, fd |-> "closed"]
  BY DEF LinkOf
<1> QED BY <1>1, <1>2, <1>3, <1>4, <1>5 DEF LinkFacts

\* See LinkStage.
LEMMA LinkStages == LinkFacts /\ LinkFacts'
BY LinkStage, PTL

\* The three kinds of steps a link takes.
LEMMA LinkClosed == LinkOf' \in L!Closed(LinkOf) => L!Next
BY Zenon DEF L!Next

\* See LinkClosed.
LEMMA LinkCompleted == LinkOf' \in L!Completed(LinkOf) => L!Next
BY Zenon DEF L!Next

\* See LinkClosed.
LEMMA LinkResumed ==
    ASSUME NEW e, [event |-> e, link |-> LinkOf'] \in L!Resumed(LinkOf)
    PROVE  L!Next
<1>1. LinkOf' \in {r.link : r \in L!Resumed(LinkOf)}
  BY SMT
<1> QED BY <1>1, Zenon DEF L!Next

\* Whatever throws, the link is dead.
LEMMA LinkEnd ==
    ASSUME TypeOK, CallInv, stage # "ended", End,
           \/ ready = "err"
           \/ ready = "ok" /\ stage \in {"connect", "socks"}
           \/ stage = "batch"
    PROVE  L!Next
<1>1. LinkOf' = L!Dead
  BY LinkStages DEF LinkFacts, End, L!Dead
<1>2. \/ LinkOf.ready = "err"
      \/ LinkOf.ready = "ok" /\ LinkOf.st \in {"connecting", "up"}
  BY LinkStages DEF TypeOK, Stages, ConnectStages, LinkFacts
<1>3. [event |-> "END", link |-> L!Dead] \in L!Resumed(LinkOf)
  BY <1>2 DEF L!Resumed
<1> QED BY <1>1, <1>3, LinkResumed

\* connect returns, or goes on to the next layer.
LEMMA LinkConnecting ==
    ASSUME TypeOK, stage \in {"connect", "socks", "tls"}, ready = "ok", socket' = socket,
           \/ stage' \in {"socks", "tls"} /\ Await(stage', socket)
           \/ Connected
    PROVE  L!Next
<1>1. LinkOf = [st |-> "connecting", ready |-> "ok", fd |-> socket]
  BY LinkStages DEF LinkFacts
<1>2. LinkOf.st = "connecting" /\ LinkOf.ready = "ok" /\ LinkOf.fd = socket
  BY <1>1
<1>3. CASE stage' \in {"socks", "tls"} /\ Await(stage', socket)
  <2>1. LinkOf' = [st |-> "connecting", ready |-> ready', fd |-> socket]
    BY <1>3, LinkStages DEF LinkFacts
  <2>2. LinkOf' = L!Await("connecting", LinkOf.fd)
    BY <1>2, <1>3, <2>1 DEF Await, L!Await
  <2>3. [event |-> "none", link |-> L!Await("connecting", LinkOf.fd)] \in L!Resumed(LinkOf)
    BY <1>2 DEF L!Resumed
  <2> QED BY <2>2, <2>3, LinkResumed
<1>4. CASE Connected
  <2>1. stage' = "read" /\ ready' = IF socket = "open" THEN "none" ELSE "err"
    BY <1>4 DEF Connected, Await
  <2>2. LinkOf' = [st |-> "up", ready |-> ready', fd |-> socket]
    BY <2>1, LinkStages DEF LinkFacts
  <2>3. LinkOf' = L!Await("up", LinkOf.fd)
    BY <1>2, <2>1, <2>2 DEF L!Await
  <2>4. [event |-> "CON", link |-> L!Await("up", LinkOf.fd)] \in L!Resumed(LinkOf)
    BY <1>2 DEF L!Resumed
  <2> QED BY <2>3, <2>4, LinkResumed
<1> QED BY <1>3, <1>4

\* connection::close closes the link; one that has ended stays as it is.
LEMMA LinkClose ==
    ASSUME TypeOK, CallInv, Close
    PROVE  [L!Next]_(LinkOf)
<1>1. /\ stage' = stage /\ socket' = "closed"
      /\ ready' \in IF ready = "none" /\ stage \notin {"batch", "ended"}
                    THEN IF stage = "resolve" THEN {"none", "err"} ELSE {"err"}
                    ELSE {ready}
  BY DEF Close
<1>2. CASE stage = "ended"
  BY <1>1, <1>2, LinkStages DEF LinkFacts
<1>3. CASE stage = "resolve"
  <2>1. LinkOf = [st |-> "resolving", ready |-> ready, fd |-> socket]
    BY <1>3, LinkStages DEF LinkFacts
  <2>2. LinkOf' = [st |-> "resolving", ready |-> ready', fd |-> "closed"]
    BY <1>1, <1>3, LinkStages DEF LinkFacts
  <2>3. LinkOf' \in L!Closed(LinkOf)
    BY <1>1, <1>3, <2>1, <2>2 DEF TypeOK, L!Closed
  <2> QED BY <2>3, LinkClosed
<1>4. CASE stage \in {"connect", "socks", "tls"}
  <2>1. LinkOf = [st |-> "connecting", ready |-> ready, fd |-> socket]
    BY <1>4, LinkStages DEF LinkFacts
  <2>2. LinkOf' = [st |-> "connecting", ready |-> ready', fd |-> "closed"]
    BY <1>1, <1>4, LinkStages DEF LinkFacts
  <2>3. LinkOf' \in L!Closed(LinkOf)
    BY <1>1, <1>4, <2>1, <2>2 DEF TypeOK, L!Closed
  <2> QED BY <2>3, LinkClosed
<1>5. CASE stage = "read"
  <2>1. LinkOf = [st |-> "up", ready |-> ready, fd |-> socket]
    BY <1>5, LinkStages DEF LinkFacts
  <2>2. LinkOf' = [st |-> "up", ready |-> ready', fd |-> "closed"]
    BY <1>1, <1>5, LinkStages DEF LinkFacts
  <2>3. LinkOf' \in L!Closed(LinkOf)
    BY <1>1, <1>5, <2>1, <2>2 DEF TypeOK, L!Closed
  <2> QED BY <2>3, LinkClosed
<1>6. CASE stage = "batch"
  <2>1. LinkOf = [st |-> "up", ready |-> "ok", fd |-> socket]
    BY <1>6, LinkStages DEF LinkFacts
  <2>2. LinkOf' = [st |-> "up", ready |-> "ok", fd |-> "closed"]
    BY <1>1, <1>6, LinkStages DEF LinkFacts
  <2>3. LinkOf' \in L!Closed(LinkOf)
    BY <2>1, <2>2 DEF L!Closed
  <2> QED BY <2>3, LinkClosed
<1> QED BY <1>2, <1>3, <1>4, <1>5, <1>6 DEF TypeOK, Stages, ConnectStages

\* The operation that is pending gets its result.
LEMMA LinkOpDone ==
    ASSUME TypeOK, NEW r \in {"ok", "err"}, OpDone(r)
    PROVE  L!Next
<1>1. /\ stage' = stage /\ socket' = socket /\ ready = "none" /\ ready' = r
      /\ stage \in {"resolve", "connect", "socks", "tls", "read"}
      /\ r = "ok" => stage = "resolve" \/ socket = "open"
  BY DEF OpDone, TypeOK, Stages, ConnectStages
<1>2. PICK s \in {"resolving", "connecting", "up"} :
        /\ stage = "resolve" <=> s = "resolving"
        /\ LinkOf = [st |-> s, ready |-> "none", fd |-> socket]
        /\ LinkOf' = [st |-> s, ready |-> r, fd |-> socket]
  <2>1. CASE stage = "resolve"
    BY <1>1, <2>1, LinkStages DEF LinkFacts
  <2>2. CASE stage \in {"connect", "socks", "tls"}
    BY <1>1, <2>2, LinkStages DEF LinkFacts
  <2>3. CASE stage = "read"
    BY <1>1, <2>3, LinkStages DEF LinkFacts
  <2> QED BY <1>1, <2>1, <2>2, <2>3
<1>3. LinkOf' \in L!Completed(LinkOf)
  BY <1>1, <1>2 DEF L!Completed
<1> QED BY <1>3, LinkCompleted

\* Every step of the connection is one of the link, or leaves it alone.
LEMMA LinkNext ==
    ASSUME TypeOK, CallInv, [Next]_vars
    PROVE  [L!Next]_(LinkOf)
<1>1. CASE Write \/ Transmit \/ (\E error \in BOOLEAN : WriteHandler(error)) \/ UNCHANGED vars
  <2>1. stage' = stage /\ ready' = ready /\ (stage # "ended" => socket' = socket)
    BY <1>1 DEF Write, Transmit, WriteHandler, session, vars
  <2> QED BY <2>1, LinkStages DEF LinkFacts, TypeOK, Stages, ConnectStages
<1>2. CASE Close
  BY <1>2, LinkClose
<1>3. CASE \E r \in {"ok", "err"} : OpDone(r)
  BY <1>3, LinkOpDone
<1>4. CASE ResumeError
  BY <1>4, LinkEnd DEF ResumeError, CallInv
<1>5. CASE ResolveDone
  <2>1. LinkOf = [st |-> "resolving", ready |-> "ok", fd |-> socket]
    BY <1>5, LinkStages DEF LinkFacts, ResolveDone
  <2>2. LinkOf' = [st |-> "connecting", ready |-> "none", fd |-> "open"]
    BY <1>5, LinkStages DEF LinkFacts, ResolveDone, Await
  <2>3. LinkOf' = L!Await("connecting", "open")
    BY <2>2 DEF L!Await
  <2>4. [event |-> "none", link |-> L!Await("connecting", "open")] \in L!Resumed(LinkOf)
    BY <2>1 DEF L!Resumed
  <2> QED BY <2>3, <2>4, LinkResumed
<1>6. CASE ConnectDone
  <2>1. CASE socket = "closed"
    BY <1>6, <2>1, LinkEnd DEF ConnectDone
  <2>2. CASE socket # "closed"
    <3>1. \/ stage' \in {"socks", "tls"} /\ Await(stage', socket)
          \/ Connected
      BY <1>6, <2>2 DEF ConnectDone, Await
    <3> QED BY <1>6, <2>2, <3>1, LinkConnecting DEF ConnectDone
  <2> QED BY <2>1, <2>2
<1>7. CASE SocksDone
  <2>1. \/ stage' \in {"socks", "tls"} /\ Await(stage', socket)
        \/ Connected
    BY <1>7 DEF SocksDone, Await
  <2> QED BY <1>7, <2>1, LinkConnecting DEF SocksDone
<1>8. CASE TlsDone
  BY <1>8, LinkConnecting DEF TlsDone
<1>9. CASE SetupThrows
  BY <1>9, LinkEnd DEF SetupThrows
<1>10. CASE \E n \in 0 .. MaxBatch : ReadDone(n)
  BY <1>10, LinkStages DEF LinkFacts, ReadDone
<1>11. CASE Dispatch
  BY <1>11, LinkStages DEF LinkFacts, Dispatch
<1>12. CASE BatchThrows
  BY <1>12, LinkEnd DEF BatchThrows
<1>13. CASE BatchDone
  <2>1. LinkOf = [st |-> "up", ready |-> "ok", fd |-> socket]
    BY <1>13, LinkStages DEF LinkFacts, BatchDone
  <2>2. LinkOf' = [st |-> "up", ready |-> ready', fd |-> socket]
    BY <1>13, LinkStages DEF LinkFacts, BatchDone, Await
  <2>3. LinkOf' = L!Await("up", LinkOf.fd)
    BY <1>13, <2>1, <2>2 DEF BatchDone, Await, L!Await
  <2>4. [event |-> "none", link |-> L!Await("up", LinkOf.fd)] \in L!Resumed(LinkOf)
    BY <2>1 DEF L!Resumed
  <2> QED BY <2>3, <2>4, LinkResumed
<1> QED BY <1>1, <1>2, <1>3, <1>4, <1>5, <1>6, <1>7, <1>8, <1>9, <1>10, <1>11,
           <1>12, <1>13 DEF Next, Resume

\* The first link is the one l_start_irc makes.
LEMMA LinkInit == Init => L!Init
BY LinkStage DEF Init, LinkFacts, L!Init, L!Fresh

\* With every number of writes and messages, whatever completes or is closed
\* when, a connection is the link that the client's life cycle is modelled
\* with.
THEOREM LinkCorrect == Spec => ImplementsLink
<1>1. Spec => [](TypeOK /\ CallInv)
  BY TypeCorrect, CallInit, CallNext, PTL DEF Spec
<1> QED BY <1>1, LinkInit, LinkNext, PTL DEF Spec, ImplementsLink, L!Spec

----------------------------------------------------------------------------
(***************************************************************************)
(* The SOCKS5 handshake: the messages                                      *)
(***************************************************************************)

\* The bytes of t begin at position k + 1 of b.
Holds(b, k, t) == \A i \in 1 .. Len(t) : b[k + i] = t[i]

\* The elements of a concatenation of bytes.
LEMMA BytesConcat ==
    ASSUME NEW s \in Seq(Nat), NEW t \in Seq(Nat)
    PROVE  /\ s \o t \in Seq(Nat) /\ Len(s \o t) = Len(s) + Len(t)
           /\ Len(s) \in Nat /\ Len(t) \in Nat
           /\ \A i \in 1 .. Len(s) : (s \o t)[i] = s[i]
           /\ \A i \in 1 .. Len(t) : (s \o t)[Len(s) + i] = t[i]
OBVIOUS

\* A part of a message, read where it was put.
LEMMA BytesRead ==
    ASSUME NEW b \in Seq(Nat), NEW t \in Seq(Nat), NEW k \in Nat,
           k + Len(t) <= Len(b), Holds(b, k, t)
    PROVE  SubSeq(b, k + 1, k + Len(t)) = t
<1> DEFINE s == SubSeq(b, k + 1, k + Len(t))
<1>1. Len(t) \in Nat /\ Len(b) \in Nat /\ k + 1 \in Int /\ k + Len(t) \in Int
  OBVIOUS
<1>2. \A i \in k + 1 .. k + Len(t) : b[i] \in Nat
  BY <1>1
<1>3. /\ s \in Seq(Nat)
      /\ Len(s) = IF k + 1 <= k + Len(t) THEN k + Len(t) - (k + 1) + 1 ELSE 0
      /\ \A i \in 1 .. k + Len(t) - (k + 1) + 1 : s[i] = b[k + 1 + i - 1]
  BY <1>1, <1>2, SubSeqProperties
<1> HIDE DEF s
<1>4. Len(s) = Len(t)
  BY <1>1, <1>3
<1>5. ASSUME NEW i \in 1 .. Len(s) PROVE s[i] = t[i]
  <2>1. i \in 1 .. k + Len(t) - (k + 1) + 1 /\ k + 1 + i - 1 = k + i /\ i \in 1 .. Len(t)
    BY <1>1, <1>4
  <2> QED BY <1>3, <2>1 DEF Holds
<1>6. s = t
  BY <1>3, <1>4, <1>5, SeqEqual
<1> QED BY <1>6 DEF s

\* push_size_prefixed cuts nothing off a length that fits.
LEMMA PrefixFits ==
    ASSUME NEW t \in Seq(Nat), Len(t) < Limit
    PROVE  /\ SizePrefixed(t) \in Seq(Nat) /\ Len(SizePrefixed(t)) = Len(t) + 1
           /\ SizePrefixed(t)[1] = Len(t) /\ Holds(SizePrefixed(t), 1, t)
<1>1. Len(t) \in Nat /\ Limit \in Nat /\ Len(t) % Limit = Len(t)
  <2>1. Len(t) \in Nat /\ Limit \in Nat \ {0}
    BY Socks5Assumption
  <2> QED BY <2>1
<1> DEFINE p == <<Len(t) % Limit>>
<1>2. p \in Seq(Nat) /\ Len(p) = 1 /\ p[1] = Len(t)
  BY <1>1
<1> HIDE DEF p
<1>3. /\ p \o t \in Seq(Nat) /\ Len(p \o t) = Len(p) + Len(t)
      /\ \A i \in 1 .. Len(p) : (p \o t)[i] = p[i]
      /\ \A i \in 1 .. Len(t) : (p \o t)[Len(p) + i] = t[i]
  BY <1>2, BytesConcat
<1>4. SizePrefixed(t) = p \o t
  BY DEF p, SizePrefixed
<1> QED BY <1>1, <1>2, <1>3, <1>4 DEF Holds

\* Where the parts of s \o t \o u begin.
LEMMA ThreeParts ==
    ASSUME NEW s \in Seq(Nat), NEW t \in Seq(Nat), NEW u \in Seq(Nat)
    PROVE  /\ s \o t \o u \in Seq(Nat) /\ Len(s \o t \o u) = Len(s) + Len(t) + Len(u)
           /\ Holds(s \o t \o u, 0, s) /\ Holds(s \o t \o u, Len(s), t)
           /\ Holds(s \o t \o u, Len(s) + Len(t), u)
<1> DEFINE v == s \o t
<1>1. /\ v \in Seq(Nat) /\ Len(v) = Len(s) + Len(t) /\ Len(s) \in Nat /\ Len(t) \in Nat
      /\ \A i \in 1 .. Len(s) : v[i] = s[i]
      /\ \A i \in 1 .. Len(t) : v[Len(s) + i] = t[i]
  BY BytesConcat
<1> HIDE DEF v
<1> DEFINE w == v \o u
<1>2. /\ w \in Seq(Nat) /\ Len(w) = Len(v) + Len(u) /\ Len(u) \in Nat
      /\ \A i \in 1 .. Len(v) : w[i] = v[i]
      /\ \A i \in 1 .. Len(u) : w[Len(v) + i] = u[i]
  BY <1>1, BytesConcat
<1> HIDE DEF w
<1>3. Holds(w, 0, s)
  BY <1>1, <1>2 DEF Holds
<1>4. Holds(w, Len(s), t)
  <2> SUFFICES ASSUME NEW i \in 1 .. Len(t) PROVE w[Len(s) + i] = t[i]
      BY DEF Holds
  <2>1. Len(s) + i \in 1 .. Len(v)
    BY <1>1
  <2> QED BY <1>1, <1>2, <2>1
<1>5. Holds(w, Len(s) + Len(t), u)
  BY <1>1, <1>2 DEF Holds
<1>6. w \in Seq(Nat) /\ Len(w) = Len(s) + Len(t) + Len(u)
  BY <1>1, <1>2
<1> QED BY <1>3, <1>4, <1>5, <1>6 DEF v, w

\* A field that is read with the length in front of it.
LEMMA FieldRead ==
    ASSUME NEW b \in Seq(Nat), NEW k \in Nat, NEW t \in Seq(Nat), Len(t) < Limit,
           Holds(b, k, SizePrefixed(t)), k + 1 + Len(t) <= Len(b)
    PROVE  /\ b[k + 1] = Len(t)
           /\ Field(b, k + 1).val = t /\ Field(b, k + 1).next = k + 2 + Len(t)
<1> DEFINE p == SizePrefixed(t)
           j == k + 1
<1>1. /\ p \in Seq(Nat) /\ Len(p) = Len(t) + 1 /\ p[1] = Len(t) /\ Holds(p, 1, t)
  BY PrefixFits
<1>2. Len(t) \in Nat /\ Len(b) \in Nat
  OBVIOUS
<1>3. Holds(b, k, p)
  OBVIOUS
<1> HIDE DEF p
<1>4. b[j] = Len(t) /\ j \in Nat
  BY <1>1, <1>2, <1>3 DEF Holds
<1>5. Holds(b, j, t)
  <2> SUFFICES ASSUME NEW i \in 1 .. Len(t) PROVE b[j + i] = t[i]
      BY DEF Holds
  <2>1. 1 + i \in 1 .. Len(p) /\ p[1 + i] = t[i] /\ k + (1 + i) = j + i
    BY <1>1, <1>2 DEF Holds
  <2>2. b[k + (1 + i)] = p[1 + i]
    BY <1>3, <2>1 DEF Holds
  <2> QED BY <2>1, <2>2
<1>6. j + Len(t) <= Len(b)
  BY <1>2
<1> HIDE DEF j
<1>7. SubSeq(b, j + 1, j + Len(t)) = t
  BY <1>4, <1>5, <1>6, BytesRead
<1>8. Field(b, j).val = t /\ Field(b, j).next = j + 1 + Len(t)
  BY <1>4, <1>7 DEF Field
<1>9. j + 1 + Len(t) = k + 2 + Len(t)
  BY <1>2 DEF j
<1> QED BY <1>4, <1>8, <1>9 DEF j

\* the parameters are within what a length byte can say
Fits ==
    /\ host_.kind = "name" => Len(host_.bytes) < Limit
    /\ auth_.kind = UserPass => Len(auth_.username) < Limit /\ Len(auth_.password) < Limit

\* The parameters of the operation.
LEMMA Parameters ==
    ASSUME host_ \in Hosts, auth_ \in Auths
    PROVE  /\ host_.bytes \in Seq(Nat) /\ host_.kind \in {"name", "v4", "v6"}
           /\ auth_.username \in Seq(Nat) /\ auth_.password \in Seq(Nat)
           /\ auth_.kind \in {NoAuth, UserPass} /\ method_wanted \in Nat
           /\ AddressType[host_.kind] \in Nat
<1>1. /\ host_.bytes \in Seq(Nat) /\ host_.kind \in {"name", "v4", "v6"}
      /\ auth_.username \in Seq(Nat) /\ auth_.password \in Seq(Nat)
      /\ auth_.kind \in {NoAuth, UserPass}
  BY Socks5Assumption
<1>2. method_wanted \in Nat
  BY <1>1 DEF method_wanted, Method, NoAuth, UserPass
<1>3. AddressType[host_.kind] \in Nat
  BY <1>1 DEF AddressType
<1> QED BY <1>1, <1>2, <1>3

\* The size-prefixed parts are bytes whatever their length.
LEMMA PrefixType ==
    ASSUME NEW t \in Seq(Nat)
    PROVE  SizePrefixed(t) \in Seq(Nat)
<1>1. Len(t) % Limit \in Nat
  BY Socks5Assumption
<1>2. <<Len(t) % Limit>> \in Seq(Nat)
  BY <1>1
<1> QED BY <1>2 DEF SizePrefixed

\* The three messages are bytes.
LEMMA MessageTypes ==
    ASSUME host_ \in Hosts, auth_ \in Auths
    PROVE  hello \in Seq(Nat) /\ usernamepassword \in Seq(Nat) /\ connectRequest \in Seq(Nat)
<1>1. /\ host_.bytes \in Seq(Nat) /\ auth_.username \in Seq(Nat) /\ auth_.password \in Seq(Nat)
      /\ method_wanted \in Nat /\ AddressType[host_.kind] \in Nat
  BY Parameters
<1>2. /\ SizePrefixed(host_.bytes) \in Seq(Nat) /\ SizePrefixed(auth_.username) \in Seq(Nat)
      /\ SizePrefixed(auth_.password) \in Seq(Nat)
  BY <1>1, PrefixType
<1>3. hello \in Seq(Nat)
  BY <1>1 DEF hello, SocksVersion
<1>4. <<AuthVersion>> \in Seq(Nat) /\ Port \in Seq(Nat)
  BY DEF AuthVersion, Port
<1>5. <<SocksVersion, 1, 0, AddressType[host_.kind]>> \in Seq(Nat)
  BY <1>1 DEF SocksVersion
<1>6. usernamepassword \in Seq(Nat)
  BY <1>2, <1>4, ThreeParts DEF usernamepassword
<1>7. connectRequest \in Seq(Nat)
  BY <1>2, <1>4, <1>5, ThreeParts DEF connectRequest
<1> QED BY <1>3, <1>6, <1>7

\* The proxy reads the user and the password when the layout has room for them.
LEMMA CredentialsAreRead ==
    ASSUME host_ \in Hosts, auth_ \in Auths, Fits, auth_.kind = UserPass, CredentialsDrawn
    PROVE  ReadsUserPass(usernamepassword)
<1> DEFINE u == auth_.username
           p == auth_.password
           a == <<AuthVersion>>
<1>1. /\ u \in Seq(Nat) /\ p \in Seq(Nat) /\ Len(u) < Limit /\ Len(p) < Limit
      /\ Len(u) \in Nat /\ Len(p) \in Nat /\ 1 <= Len(u) /\ 1 <= Len(p)
  BY Parameters DEF Fits, CredentialsDrawn
<1>2. a \in Seq(Nat) /\ Len(a) = 1 /\ a[1] = AuthVersion
  BY DEF AuthVersion
<1>3. usernamepassword = a \o SizePrefixed(u) \o SizePrefixed(p)
  BY DEF usernamepassword
<1> HIDE DEF u, p, a
<1>4. /\ SizePrefixed(u) \in Seq(Nat) /\ Len(SizePrefixed(u)) = Len(u) + 1
      /\ SizePrefixed(p) \in Seq(Nat) /\ Len(SizePrefixed(p)) = Len(p) + 1
  BY <1>1, PrefixFits
<1> DEFINE b == a \o SizePrefixed(u) \o SizePrefixed(p)
<1>5. /\ b \in Seq(Nat) /\ Len(b) = Len(a) + Len(SizePrefixed(u)) + Len(SizePrefixed(p))
      /\ Holds(b, 0, a) /\ Holds(b, Len(a), SizePrefixed(u))
      /\ Holds(b, Len(a) + Len(SizePrefixed(u)), SizePrefixed(p))
  BY <1>2, <1>4, ThreeParts
<1> HIDE DEF b
<1>6. Len(b) = Len(u) + Len(p) + 3
  BY <1>1, <1>2, <1>4, <1>5
<1>7. Holds(b, 1, SizePrefixed(u))
  BY <1>2, <1>5
<1>8. PICK k \in Nat : k = Len(u) + 2
  BY <1>1
<1>9. Holds(b, k, SizePrefixed(p))
  <2>1. Len(a) + Len(SizePrefixed(u)) = k
    BY <1>1, <1>2, <1>4, <1>8
  <2> QED BY <1>5, <2>1
<1>10. Field(b, 2).val = u /\ Field(b, 2).next = k + 1 /\ b[2] = Len(u)
  <2>1. 1 + 1 + Len(u) <= Len(b)
    BY <1>1, <1>6
  <2>2. /\ Field(b, 1 + 1).val = u /\ Field(b, 1 + 1).next = 1 + 2 + Len(u)
        /\ b[1 + 1] = Len(u)
    BY <1>1, <1>5, <1>7, <2>1, FieldRead
  <2>3. 1 + 1 = 2 /\ 1 + 2 + Len(u) = k + 1
    BY <1>1, <1>8
  <2> QED BY <2>2, <2>3
<1>11. Field(b, k + 1).val = p /\ Field(b, k + 1).next = Len(b) + 1 /\ b[k + 1] = Len(p)
  <2>1. k + 1 + Len(p) <= Len(b)
    BY <1>1, <1>6, <1>8
  <2>2. /\ Field(b, k + 1).val = p /\ Field(b, k + 1).next = k + 2 + Len(p)
        /\ b[k + 1] = Len(p)
    BY <1>1, <1>5, <1>9, <2>1, FieldRead
  <2>3. k + 2 + Len(p) = Len(b) + 1
    BY <1>1, <1>6, <1>8
  <2> QED BY <2>2, <2>3
<1>12. k + 1 <= Len(b)
  BY <1>1, <1>6, <1>8
<1>13. Len(u) \in DrawnLength /\ Len(p) \in DrawnLength
  BY <1>1, Socks5Assumption DEF DrawnLength
<1>14. b[1] = AuthVersion
  <2>1. 1 \in 1 .. Len(a) /\ 0 + 1 = 1
    BY <1>2
  <2>2. b[0 + 1] = a[1]
    BY <1>5, <2>1 DEF Holds
  <2> QED BY <1>2, <2>1, <2>2
<1>15. ReadsUserPass(b)
  BY <1>10, <1>11, <1>12, <1>13, <1>14 DEF ReadsUserPass, u, p
<1> QED BY <1>3, <1>15 DEF b

\* The proxy reads the host and the port.
LEMMA RequestIsRead ==
    ASSUME host_ \in Hosts, auth_ \in Auths, Fits, host_.kind = "name"
    PROVE  ReadsConnect(connectRequest)
<1> DEFINE h == host_.bytes
           a == <<SocksVersion, 1, 0, AddressType[host_.kind]>>
<1>1. h \in Seq(Nat) /\ Len(h) < Limit /\ Len(h) \in Nat
  BY Parameters DEF Fits
<1>2. /\ a \in Seq(Nat) /\ Len(a) = 4 /\ a[4] = AddressType.name
      /\ a[1] = SocksVersion /\ a[2] = 1 /\ a[3] = 0
  BY Parameters DEF SocksVersion
<1>3. connectRequest = a \o SizePrefixed(h) \o Port
  BY DEF connectRequest
<1>4. Port \in Seq(Nat) /\ Len(Port) = 2
  BY DEF Port
<1> HIDE DEF h, a
<1>5. SizePrefixed(h) \in Seq(Nat) /\ Len(SizePrefixed(h)) = Len(h) + 1
  BY <1>1, PrefixFits
<1> DEFINE b == a \o SizePrefixed(h) \o Port
<1>6. /\ b \in Seq(Nat) /\ Len(b) = Len(a) + Len(SizePrefixed(h)) + Len(Port)
      /\ Holds(b, 0, a) /\ Holds(b, Len(a), SizePrefixed(h))
      /\ Holds(b, Len(a) + Len(SizePrefixed(h)), Port)
  BY <1>2, <1>4, <1>5, ThreeParts
<1> HIDE DEF b
<1>7. Len(b) = Len(h) + 7 /\ Holds(b, 4, SizePrefixed(h))
  BY <1>1, <1>2, <1>4, <1>5, <1>6
<1>8. b[1] = SocksVersion /\ b[2] = 1 /\ b[3] = 0 /\ b[4] = AddressType.name
  <2>1. ASSUME NEW i \in 1 .. 4 PROVE b[i] = a[i]
    <3>1. i \in 1 .. Len(a) /\ 0 + i = i
      BY <1>2
    <3>2. b[0 + i] = a[i]
      BY <1>6, <3>1 DEF Holds
    <3> QED BY <3>1, <3>2
  <2> QED BY <1>2, <2>1
<1>9. Field(b, 5).val = h /\ Field(b, 5).next = Len(h) + 6
  <2>1. 4 + 1 + Len(h) <= Len(b)
    BY <1>1, <1>7
  <2>2. Field(b, 4 + 1).val = h /\ Field(b, 4 + 1).next = 4 + 2 + Len(h)
    BY <1>1, <1>6, <1>7, <2>1, FieldRead
  <2>3. 4 + 1 = 5 /\ 4 + 2 + Len(h) = Len(h) + 6
    BY <1>1
  <2> QED BY <2>2, <2>3
<1>10. SubSeq(b, Len(h) + 6, Len(b)) = Port
  <2>1. PICK k \in Nat : k = Len(h) + 5
    BY <1>1
  <2>2. Len(a) + Len(SizePrefixed(h)) = k /\ k + Len(Port) <= Len(b)
    BY <1>1, <1>2, <1>4, <1>5, <1>7, <2>1
  <2>3. Holds(b, k, Port)
    BY <1>6, <2>2
  <2>4. SubSeq(b, k + 1, k + Len(Port)) = Port
    BY <1>4, <1>6, <2>2, <2>3, BytesRead
  <2>5. k + 1 = Len(h) + 6 /\ k + Len(Port) = Len(b)
    BY <1>1, <1>4, <1>7, <2>1
  <2> QED BY <2>4, <2>5
<1>11. ReadsConnect(b)
  BY <1>8, <1>9, <1>10 DEF ReadsConnect, h
<1> QED BY <1>3, <1>11 DEF b

----------------------------------------------------------------------------
(***************************************************************************)
(* The SOCKS5 handshake: the invariant                                     *)
(***************************************************************************)

Extra == IF auth_.kind = UserPass THEN 2 ELSE 0

\* the proxy has selected the method, has accepted the credentials too, and
\* has granted the request, with an address of this type
Greeted == heard[1] = SocksVersion /\ heard[2] = method_wanted
Trusted == Greeted /\ (auth_.kind = UserPass => heard[3] = AuthVersion /\ heard[4] = 0)
Granted(type) ==
    /\ heard[3 + Extra] = SocksVersion /\ heard[4 + Extra] = 0 /\ heard[5 + Extra] = 0
    /\ heard[6 + Extra] = type

SocksTyped ==
    /\ host_ \in Hosts /\ auth_ \in Auths
    /\ script \in Seq(Nat) /\ net \in Seq(Nat) /\ heard \in Seq(Nat) /\ wire \in Seq(Seq(Nat))
    /\ state \in {<<"Start", "Start">>, <<"Done", "Done">>}
                 \cup ({"Sent", "Recv"} \X DOMAIN READ)
    /\ state[1] = "Done" <=> result # "none"
    /\ intruded \in BOOLEAN

\* how much has been read, and what it said
HeardInv ==
    /\ state[2] \in {"Start", "HelloRecvd"} => Len(heard) = 0
    /\ state[2] = "AuthRecvd" => auth_.kind = UserPass /\ Len(heard) = 2 /\ Greeted
    /\ state[2] = "ReplyRecvd" => Len(heard) = 2 + Extra /\ Trusted
    /\ state[2] = "FinishIpv4" => Len(heard) = 6 + Extra /\ Trusted /\ Granted(AddressType.v4)
    /\ state[2] = "FinishIpv6" => Len(heard) = 6 + Extra /\ Trusted /\ Granted(AddressType.v6)

\* how many messages have been written
SaidInv ==
    ~intruded =>
       /\ state[2] = "Start" => Len(wire) = 0
       /\ state[2] = "HelloRecvd" => Len(wire) = 1
       /\ state[2] = "AuthRecvd" => Len(wire) = 2
       /\ state[2] \in {"ReplyRecvd", "FinishIpv4", "FinishIpv6"}
             => Len(wire) = IF auth_.kind = UserPass THEN 3 ELSE 2

\* what a message that is the i-th has to be
Understood(i, b) ==
    \/ i = 1 /\ b = hello
    \/ i = 2 /\ auth_.kind = UserPass /\ (CredentialsDrawn => ReadsUserPass(b))
    \/ i = (IF auth_.kind = UserPass THEN 3 ELSE 2) /\ ReadsConnect(b)

WireInv ==
    host_.kind = "name" /\ ~intruded => \A i \in 1 .. Len(wire) : Understood(i, wire[i])

SocksInv ==
    /\ SocksTyped /\ HeardInv /\ SaidInv /\ WireInv
    /\ state[1] \in {"Sent", "Recv"} => Fits
    /\ SuccessIsEarned /\ NothingIsSaidUnasked

\* The sizes of the answers.
LEMMA Sizes ==
    /\ DOMAIN READ = {"HelloRecvd", "AuthRecvd", "ReplyRecvd", "FinishIpv4", "FinishIpv6"}
    /\ READ["HelloRecvd"] = 2 /\ READ["AuthRecvd"] = 2 /\ READ["ReplyRecvd"] = 4
    /\ READ["FinishIpv4"] = 6 /\ READ["FinishIpv6"] = 18
BY DEF READ

\* The state is a pair.
LEMMA StatePair ==
    ASSUME SocksTyped
    PROVE  /\ state[1] \in {"Start", "Sent", "Recv", "Done"}
           /\ state[1] = "Start" <=> state[2] = "Start"
           /\ state[1] = "Done" <=> state[2] = "Done"
           /\ state[1] \in {"Sent", "Recv"} <=> state[2] \in DOMAIN READ
BY Sizes DEF SocksTyped

\* Numbers of messages, and the positions that have been read.
LEMMA Small ==
    /\ ~(0 >= 2) /\ ~(1 >= 2) /\ ~(0 >= 3) /\ ~(1 >= 3) /\ ~(2 >= 3)
    /\ 0 + 1 = 1 /\ 1 + 1 = 2 /\ 2 + 1 = 3 /\ 2 + 2 = 4 /\ 2 + 0 = 2
    /\ \A n \in {2, 2 + Extra, 6 + Extra} : 1 \in 1 .. n /\ 2 \in 1 .. n
    /\ auth_.kind = UserPass =>
          \A n \in {2 + Extra, 6 + Extra} : 3 \in 1 .. n /\ 4 \in 1 .. n
BY DEF Extra

\* What has been said follows from what has been heard while the operation runs.
LEMMA Unasked ==
    SocksTyped /\ HeardInv /\ SaidInv /\ state[1] # "Done"
    => SuccessIsEarned /\ NothingIsSaidUnasked
<1> SUFFICES ASSUME SocksTyped, HeardInv, SaidInv, state[1] # "Done"
             PROVE  SuccessIsEarned /\ NothingIsSaidUnasked
    OBVIOUS
<1>1. SuccessIsEarned
  BY DEF SocksTyped, SuccessIsEarned
<1>2. ASSUME ~intruded PROVE /\ Len(wire) >= 2 => Greeted
                             /\ Len(wire) >= 3 => heard[3] = AuthVersion /\ heard[4] = 0
  <2>1. state[2] \in {"Start", "HelloRecvd", "AuthRecvd", "ReplyRecvd", "FinishIpv4", "FinishIpv6"}
    BY Sizes, StatePair
  <2>2. CASE state[2] \in {"Start", "HelloRecvd"}
    <3>1. Len(wire) = 0 \/ Len(wire) = 1
      BY <1>2, <2>2, Zenon DEF SaidInv
    <3>2. ~(Len(wire) >= 2) /\ ~(Len(wire) >= 3)
      BY <3>1, Small, Zenon
    <3> QED BY <3>2
  <2>3. CASE state[2] = "AuthRecvd"
    <3>1. Len(wire) = 2 /\ Greeted
      BY <1>2, <2>3, Zenon DEF SaidInv, HeardInv
    <3>2. ~(Len(wire) >= 3)
      BY <3>1
    <3> QED BY <3>1, <3>2
  <2>4. CASE state[2] \in {"ReplyRecvd", "FinishIpv4", "FinishIpv6"}
    <3>1. Trusted
      BY <2>4 DEF HeardInv
    <3>2. Len(wire) = 2 \/ auth_.kind = UserPass
      BY <1>2, <2>4, Zenon DEF SaidInv
    <3>3. Len(wire) >= 3 => auth_.kind = UserPass
      BY <3>2, Small, Zenon
    <3> QED BY <3>1, <3>3 DEF Trusted
  <2> QED BY <2>1, <2>2, <2>3, <2>4
<1>3. NothingIsSaidUnasked
  BY <1>2 DEF NothingIsSaidUnasked, Greeted
<1> QED BY <1>1, <1>3

\* Bytes that have been read stay where they were.
Grows == /\ heard' \in Seq(Nat) /\ net' \in Seq(Nat) /\ script' \in Seq(Nat)
         /\ \A i \in 1 .. Len(heard) : heard'[i] = heard[i]
         /\ host_' = host_ /\ auth_' = auth_

\* The operation completes with an error.
LEMMA Fails ==
    ASSUME SocksInv, state[1] # "Done", Grows, intruded' = intruded,
           NEW err, err \notin {"none", "ok"}, failure(err)
    PROVE  SocksInv'
<1>1. /\ state' = <<"Done", "Done">> /\ result' = err /\ wire' = wire
      /\ state'[1] = "Done" /\ state'[2] = "Done"
  BY DEF failure, Complete
<1>2. SocksTyped'
  BY <1>1 DEF SocksInv, SocksTyped, Grows
<1>3. HeardInv' /\ SaidInv'
  BY <1>1 DEF HeardInv, SaidInv
<1>4. WireInv'
  BY <1>1 DEF SocksInv, WireInv, Understood, Grows, hello, method_wanted, CredentialsDrawn, ReadsUserPass,
              ReadsConnect
<1>5. SuccessIsEarned'
  BY <1>1 DEF SuccessIsEarned
<1>6. NothingIsSaidUnasked'
  <2> SUFFICES ASSUME ~intruded
               PROVE  /\ Len(wire) >= 2 => heard'[1] = SocksVersion /\ heard'[2] = method_wanted
                      /\ Len(wire) >= 3 => heard'[3] = AuthVersion /\ heard'[4] = 0
      BY <1>1 DEF NothingIsSaidUnasked, method_wanted, Grows
  <2>1. /\ Len(wire) >= 2 => heard[1] = SocksVersion /\ heard[2] = method_wanted
        /\ Len(wire) >= 3 => heard[3] = AuthVersion /\ heard[4] = 0
    BY DEF SocksInv, NothingIsSaidUnasked
  <2>2. state[2] \in {"Start", "HelloRecvd", "AuthRecvd", "ReplyRecvd", "FinishIpv4", "FinishIpv6"}
    BY Sizes, StatePair DEF SocksInv
  <2>3. \/ Len(wire) \in {0, 1}
        \/ Len(wire) = 2 /\ Len(heard) \in {2, 2 + Extra, 6 + Extra}
        \/ auth_.kind = UserPass /\ Len(heard) \in {2 + Extra, 6 + Extra}
    <3>1. HeardInv /\ SaidInv
      BY DEF SocksInv
    <3> QED BY <2>2, <3>1, Zenon DEF SaidInv, HeardInv
  <2>4. Len(heard) \in Nat /\ Grows
    BY DEF SocksInv, SocksTyped
  <2>5. /\ Len(wire) >= 2 => 1 \in 1 .. Len(heard) /\ 2 \in 1 .. Len(heard)
        /\ Len(wire) >= 3 => 3 \in 1 .. Len(heard) /\ 4 \in 1 .. Len(heard)
    <3>1. CASE Len(wire) \in {0, 1}
      BY <3>1, Small, Zenon
    <3>2. CASE Len(wire) = 2 /\ Len(heard) \in {2, 2 + Extra, 6 + Extra}
      BY <3>2, Small, Zenon
    <3>3. CASE auth_.kind = UserPass /\ Len(heard) \in {2 + Extra, 6 + Extra}
      BY <3>3, Small, Zenon
    <3> QED BY <2>3, <3>1, <3>2, <3>3, Zenon
  <2> QED BY <2>1, <2>4, <2>5, Zenon DEF Grows
<1> QED BY <1>1, <1>2, <1>3, <1>4, <1>5, <1>6 DEF SocksInv

\* A message is written.
LEMMA Sends ==
    ASSUME SocksInv, Grows, intruded' = intruded, Fits,
           NEW message \in Seq(Nat), NEW next \in DOMAIN READ, transact(message, next),
           state[1] # "Done", HeardInv', SaidInv',
           ~intruded /\ host_.kind = "name" => Understood(Len(wire) + 1, message)
    PROVE  SocksInv'
<1>1. /\ state' = <<"Sent", next>> /\ result' = result /\ wire' = Append(wire, message)
      /\ state'[1] = "Sent" /\ state'[2] = next
  BY DEF transact
<1>2. wire \in Seq(Seq(Nat)) /\ Len(wire) \in Nat
  BY DEF SocksInv, SocksTyped
<1>3. /\ wire' \in Seq(Seq(Nat)) /\ Len(wire') = Len(wire) + 1
      /\ wire'[Len(wire) + 1] = message
      /\ \A i \in 1 .. Len(wire) : wire'[i] = wire[i]
  BY <1>1, <1>2
<1>4. SocksTyped'
  <2>1. result' = "none"
    BY <1>1 DEF SocksInv, SocksTyped
  <2>2. state' \in {"Sent", "Recv"} \X DOMAIN READ
    BY <1>1
  <2> QED BY <1>1, <1>3, <2>1, <2>2 DEF SocksInv, SocksTyped, Grows
<1>5. WireInv'
  <2> SUFFICES ASSUME ~intruded, host_.kind = "name", NEW i \in 1 .. Len(wire')
               PROVE  Understood(i, wire'[i])
      BY DEF WireInv, Grows, Understood, hello, method_wanted, CredentialsDrawn, ReadsUserPass, ReadsConnect
  <2>1. CASE i = Len(wire) + 1
    BY <1>3, <2>1
  <2>2. CASE i \in 1 .. Len(wire)
    BY <1>3, <2>2 DEF SocksInv, WireInv
  <2> QED BY <1>2, <1>3, <2>1, <2>2
<1>6. SuccessIsEarned' /\ NothingIsSaidUnasked'
  <2>1. (SocksTyped /\ HeardInv /\ SaidInv /\ state[1] # "Done"
         => SuccessIsEarned /\ NothingIsSaidUnasked)'
    BY Unasked, PTL
  <2> QED BY <1>1, <1>4, <2>1
<1>7. Fits'
  BY DEF Fits, Grows
<1> QED BY <1>4, <1>5, <1>6, <1>7 DEF SocksInv

\* A read is started.
LEMMA Reads ==
    ASSUME SocksInv, Grows, intruded' = intruded, NEW next \in DOMAIN READ, startRead(next),
           state[1] \in {"Sent", "Recv"}, HeardInv', SaidInv'
    PROVE  SocksInv'
<1>1. /\ state' = <<"Recv", next>> /\ result' = result /\ wire' = wire
      /\ state'[1] = "Recv" /\ state'[2] = next
  BY DEF startRead
<1>2. SocksTyped'
  <2>1. result' = "none"
    BY <1>1 DEF SocksInv, SocksTyped
  <2>2. state' \in {"Sent", "Recv"} \X DOMAIN READ
    BY <1>1
  <2> QED BY <1>1, <2>1, <2>2 DEF SocksInv, SocksTyped, Grows
<1>3. WireInv'
  BY <1>1 DEF SocksInv, WireInv, Understood, Grows, hello, method_wanted, CredentialsDrawn, ReadsUserPass,
              ReadsConnect
<1>4. SuccessIsEarned' /\ NothingIsSaidUnasked'
  <2>1. (SocksTyped /\ HeardInv /\ SaidInv /\ state[1] # "Done"
         => SuccessIsEarned /\ NothingIsSaidUnasked)'
    BY Unasked, PTL
  <2> QED BY <1>1, <1>2, <2>1
<1>5. Fits'
  BY DEF SocksInv, Fits, Grows
<1> QED BY <1>2, <1>3, <1>4, <1>5 DEF SocksInv

\* The number of messages after one more.
LEMMA OneMore ==
    ASSUME wire \in Seq(Seq(Nat)), NEW message \in Seq(Nat), NEW next, transact(message, next)
    PROVE  /\ state'[1] = "Sent" /\ state'[2] = next
           /\ Len(wire) = 0 => Len(wire') = 1 /\ Len(wire) + 1 = 1
           /\ Len(wire) = 1 => Len(wire') = 2 /\ Len(wire) + 1 = 2
           /\ Len(wire) = 2 => Len(wire') = 3 /\ Len(wire) + 1 = 3
<1>1. Len(wire') = Len(wire) + 1 /\ Len(wire) \in Nat
  BY DEF transact
<1>2. state'[1] = "Sent" /\ state'[2] = next
  BY DEF transact
<1>3. /\ Len(wire) = 0 => Len(wire') = 1 /\ Len(wire) + 1 = 1
      /\ Len(wire) = 1 => Len(wire') = 2 /\ Len(wire) + 1 = 2
      /\ Len(wire) = 2 => Len(wire') = 3 /\ Len(wire) + 1 = 3
  BY <1>1, Small, Zenon
<1> QED BY <1>2, <1>3, Zenon

\* The operation is started.
LEMMA StepStart ==
    ASSUME SocksInv, Start
    PROVE  SocksInv'
<1>1. /\ state[1] = "Start" /\ intruded' = intruded /\ heard' = heard
      /\ UNCHANGED <<host_, auth_, net, script>>
  BY DEF Start
<1>2. Grows /\ state[1] # "Done"
  BY <1>1 DEF Grows, SocksInv, SocksTyped
<1>3. CASE failure("DomainTooLong") \/ failure("UsernameTooLong") \/ failure("PasswordTooLong")
  BY <1>1, <1>2, <1>3, Fails
<1>4. CASE Fits /\ transact(hello, "HelloRecvd")
  <2>1. /\ wire \in Seq(Seq(Nat)) /\ hello \in Seq(Nat) /\ "HelloRecvd" \in DOMAIN READ
        /\ state[2] = "Start" /\ HeardInv /\ SaidInv
    BY <1>1, MessageTypes, StatePair, Sizes DEF SocksInv, SocksTyped
  <2>2. /\ state'[1] = "Sent" /\ state'[2] = "HelloRecvd"
        /\ Len(wire) = 0 => Len(wire') = 1 /\ Len(wire) + 1 = 1
    BY <1>4, <2>1, OneMore
  <2>3. HeardInv'
    BY <1>1, <2>1, <2>2 DEF HeardInv
  <2>4. SaidInv'
    BY <1>1, <2>1, <2>2, Zenon DEF SaidInv
  <2>5. ~intruded /\ host_.kind = "name" => Understood(Len(wire) + 1, hello)
    BY <2>1, <2>2, Zenon DEF Understood, SaidInv
  <2> QED BY <1>1, <1>2, <1>4, <2>1, <2>3, <2>4, <2>5, Sends
<1>5. Len(host_.bytes) \in Nat /\ Limit \in Nat
      /\ Len(auth_.username) \in Nat /\ Len(auth_.password) \in Nat
  <2>1. /\ host_.bytes \in Seq(Nat) /\ auth_.username \in Seq(Nat) /\ auth_.password \in Seq(Nat)
    BY Parameters DEF SocksInv, SocksTyped
  <2> QED BY <2>1, Socks5Assumption
<1>6. ~(Len(host_.bytes) >= Limit) => Len(host_.bytes) < Limit
  BY <1>5
<1> QED BY <1>3, <1>4, <1>6, Zenon DEF Start, Fits

\* A write has completed.
LEMMA StepWritten ==
    ASSUME SocksInv, Written
    PROVE  SocksInv'
<1>1. /\ state[1] = "Sent" /\ intruded' = intruded /\ heard' = heard
      /\ UNCHANGED <<host_, auth_, net, script>> /\ startRead(state[2])
  BY DEF Written
<1>2. Grows /\ state[2] \in DOMAIN READ /\ HeardInv /\ SaidInv
  BY <1>1, StatePair DEF Grows, SocksInv, SocksTyped
<1>3. state'[2] = state[2] /\ wire' = wire
  BY <1>1 DEF startRead
<1>4. HeardInv'
  BY <1>1, <1>2, <1>3, Zenon DEF HeardInv, Extra, Greeted, Trusted, Granted, method_wanted
<1>5. SaidInv'
  BY <1>1, <1>2, <1>3, Zenon DEF SaidInv
<1> QED BY <1>1, <1>2, <1>4, <1>5, Reads

\* An operation has failed.
LEMMA StepIoError ==
    ASSUME SocksInv, IoError
    PROVE  SocksInv'
<1>1. /\ intruded' = intruded /\ heard' = heard /\ UNCHANGED <<host_, auth_, net, script>>
      /\ failure("IoError") /\ state[1] # "Done"
  BY DEF IoError
<1>2. Grows
  BY <1>1 DEF Grows, SocksInv, SocksTyped
<1> QED BY <1>1, <1>2, Fails

\* Bytes arrive.
LEMMA StepArrives ==
    ASSUME SocksInv, Arrives
    PROVE  SocksInv'
<1>1. /\ UNCHANGED <<host_, auth_, state, buffer_, wire, heard, result, endpoint, intruded>>
      /\ \E n \in 1..Len(script) : /\ net' = net \o SubSeq(script, 1, n)
                                   /\ script' = SubSeq(script, n + 1, Len(script))
  BY DEF Arrives
<1>2. net \in Seq(Nat) /\ script \in Seq(Nat)
  BY DEF SocksInv, SocksTyped
<1>3. net' \in Seq(Nat) /\ script' \in Seq(Nat)
  <2>1. PICK n \in 1 .. Len(script) : /\ net' = net \o SubSeq(script, 1, n)
                                      /\ script' = SubSeq(script, n + 1, Len(script))
    BY <1>1
  <2>2. Len(script) \in Nat /\ n \in Int /\ n + 1 \in Int
    BY <1>2
  <2>3. /\ \A i \in 1 .. n : script[i] \in Nat
        /\ \A i \in n + 1 .. Len(script) : script[i] \in Nat
    BY <1>2, <2>2
  <2>4. SubSeq(script, 1, n) \in Seq(Nat) /\ SubSeq(script, n + 1, Len(script)) \in Seq(Nat)
    BY <2>2, <2>3, SubSeqProperties
  <2> QED BY <1>2, <2>1, <2>4
<1>4. SocksTyped'
  BY <1>1, <1>3 DEF SocksInv, SocksTyped
<1>5. HeardInv' /\ SuccessIsEarned' /\ SaidInv' /\ NothingIsSaidUnasked'
  BY <1>1, Zenon DEF SocksInv, HeardInv, SaidInv, SuccessIsEarned, NothingIsSaidUnasked, Agreed,
              Extra, Greeted, Trusted, Granted, method_wanted
<1>6. WireInv' /\ (state[1] \in {"Sent", "Recv"} => Fits)'
  BY <1>1, Zenon DEF SocksInv, WireInv, Fits, Understood, hello, method_wanted, CredentialsDrawn, ReadsUserPass,
              ReadsConnect
<1> QED BY <1>4, <1>5, <1>6 DEF SocksInv

\* The owner writes to the socket.
LEMMA StepOwnerWrites ==
    ASSUME SocksInv, OwnerWrites
    PROVE  SocksInv'
<1>1. /\ UNCHANGED <<host_, auth_, state, net, script, heard, result, endpoint>>
      /\ wire' = Append(wire, <<99>>) /\ intruded'
      /\ intruded' \in BOOLEAN
  BY DEF OwnerWrites
<1>2. wire' \in Seq(Seq(Nat))
  <2>1. wire \in Seq(Seq(Nat)) /\ <<99>> \in Seq(Nat)
    BY DEF SocksInv, SocksTyped
  <2> QED BY <1>1, <2>1
<1>3. SocksTyped'
  BY <1>1, <1>2 DEF SocksInv, SocksTyped
<1>4. HeardInv' /\ SuccessIsEarned'
  BY <1>1, Zenon DEF SocksInv, HeardInv, SuccessIsEarned, Agreed, Extra, Greeted, Trusted, Granted,
              method_wanted
<1>5. SaidInv' /\ WireInv' /\ NothingIsSaidUnasked'
  BY <1>1, Zenon DEF SaidInv, WireInv, NothingIsSaidUnasked
<1>6. (state[1] \in {"Sent", "Recv"} => Fits)'
  BY <1>1 DEF SocksInv, Fits
<1> QED BY <1>3, <1>4, <1>5, <1>6 DEF SocksInv

\* What a read takes, and where it is put.
LEMMA ReadTakes ==
    ASSUME SocksInv, state[1] = "Recv", NEW n, n = READ[state[2]], Len(net) >= n,
           net' = SubSeq(net, n + 1, Len(net)), heard' = heard \o SubSeq(net, 1, n),
           UNCHANGED <<host_, auth_, script>>
    PROVE  /\ Grows /\ n \in Nat /\ Len(heard) \in Nat
           /\ SubSeq(net, 1, n) \in Seq(Nat) /\ Len(SubSeq(net, 1, n)) = n
           /\ Len(heard') = Len(heard) + n
           /\ \A k \in 1 .. n : heard'[Len(heard) + k] = SubSeq(net, 1, n)[k]
<1> DEFINE b == SubSeq(net, 1, n)
<1>1. n \in Nat
  <2>1. state[2] \in DOMAIN READ
    BY StatePair DEF SocksInv
  <2> QED BY <2>1, Sizes
<1>2. net \in Seq(Nat) /\ heard \in Seq(Nat) /\ script \in Seq(Nat)
  BY DEF SocksInv, SocksTyped
<1>3. Len(net) \in Nat /\ Len(heard) \in Nat
  BY <1>2
<1>4. /\ \A i \in 1 .. n : net[i] \in Nat
      /\ \A i \in n + 1 .. Len(net) : net[i] \in Nat
  <2>1. \A i \in 1 .. Len(net) : net[i] \in Nat
    BY <1>2
  <2>2. /\ \A i \in 1 .. n : i \in 1 .. Len(net)
        /\ \A i \in n + 1 .. Len(net) : i \in 1 .. Len(net)
    BY <1>1, <1>3
  <2> QED BY <2>1, <2>2, Zenon
<1>5. n \in Int /\ n + 1 \in Int /\ Len(net) \in Int
  BY <1>1, <1>3
<1>6. /\ b \in Seq(Nat) /\ Len(b) = IF 1 <= n THEN n - 1 + 1 ELSE 0
      /\ SubSeq(net, n + 1, Len(net)) \in Seq(Nat)
  BY <1>4, <1>5, SubSeqProperties
<1>7. Len(b) = n
  BY <1>1, <1>6
<1>8. heard' = heard \o b
  OBVIOUS
<1> HIDE DEF b
<1>9. /\ heard' \in Seq(Nat) /\ Len(heard') = Len(heard) + Len(b)
      /\ \A i \in 1 .. Len(heard) : heard'[i] = heard[i]
      /\ \A k \in 1 .. Len(b) : heard'[Len(heard) + k] = b[k]
  <2>1. /\ heard \o b \in Seq(Nat) /\ Len(heard \o b) = Len(heard) + Len(b)
        /\ \A i \in 1 .. Len(heard) : (heard \o b)[i] = heard[i]
        /\ \A k \in 1 .. Len(b) : (heard \o b)[Len(heard) + k] = b[k]
    BY <1>2, <1>6, BytesConcat, Zenon
  <2> QED BY <1>8, <2>1, Zenon
<1>10. Grows
  BY <1>2, <1>6, <1>9 DEF Grows
<1> QED BY <1>1, <1>3, <1>6, <1>7, <1>9, <1>10 DEF b

\* The answer to the greeting.
LEMMA StepHello ==
    ASSUME SocksInv, Grows, intruded' = intruded, state[1] = "Recv", state[2] = "HelloRecvd",
           NEW b \in Seq(Nat), Len(heard') = Len(heard) + 2,
           \A k \in 1 .. 2 : heard'[Len(heard) + k] = b[k], Hello(b)
    PROVE  SocksInv'
<1>1. /\ SocksTyped /\ HeardInv /\ SaidInv /\ Fits /\ Len(heard) = 0
      /\ wire \in Seq(Seq(Nat)) /\ host_ \in Hosts /\ auth_ \in Auths
  BY DEF SocksInv, HeardInv, SocksTyped
<1>2. Len(heard') = 2 /\ heard'[1] = b[1] /\ heard'[2] = b[2]
  BY <1>1
<1>3. method_wanted' = method_wanted /\ auth_' = auth_
  BY DEF Grows, method_wanted
<1>4. hello \in Seq(Nat) /\ usernamepassword \in Seq(Nat) /\ connectRequest \in Seq(Nat)
  BY <1>1, MessageTypes
<1>5. CASE failure("WrongVersion") \/ failure("NoAcceptableMethods")
  BY <1>5, Fails
<1>6. ASSUME b[1] = SocksVersion, b[2] = method_wanted, auth_.kind = NoAuth,
             transact(connectRequest, "ReplyRecvd")
      PROVE  SocksInv'
  <2>1. auth_.kind # UserPass
    BY <1>6 DEF NoAuth, UserPass
  <2>2. /\ state'[1] = "Sent" /\ state'[2] = "ReplyRecvd"
        /\ Len(wire) = 1 => Len(wire') = 2 /\ Len(wire) + 1 = 2
    BY <1>1, <1>4, <1>6, OneMore
  <2>3. Trusted' /\ Len(heard') = 2 + Extra'
    <3>1. Extra' = 0
      BY <1>3, <2>1, Zenon DEF Extra
    <3>2. Trusted'
      BY <1>2, <1>3, <1>6, <2>1, Zenon DEF Trusted, Greeted
    <3> QED BY <1>2, <3>1, <3>2, Small, Zenon
  <2>4. HeardInv'
    BY <2>2, <2>3 DEF HeardInv
  <2>5. SaidInv'
    BY <1>1, <1>3, <2>1, <2>2, Zenon DEF SaidInv
  <2>6. ~intruded /\ host_.kind = "name" => Understood(Len(wire) + 1, connectRequest)
    BY <1>1, <2>1, <2>2, RequestIsRead, Zenon DEF SaidInv, Understood
  <2>7. "ReplyRecvd" \in DOMAIN READ
    BY Sizes
  <2> QED BY <1>1, <1>4, <1>6, <2>4, <2>5, <2>6, <2>7, Sends
<1>7. ASSUME b[1] = SocksVersion, b[2] = method_wanted, auth_.kind = UserPass,
             transact(usernamepassword, "AuthRecvd")
      PROVE  SocksInv'
  <2>2. /\ state'[1] = "Sent" /\ state'[2] = "AuthRecvd"
        /\ Len(wire) = 1 => Len(wire') = 2 /\ Len(wire) + 1 = 2
    BY <1>1, <1>4, <1>7, OneMore
  <2>3. Greeted' /\ Len(heard') = 2 /\ auth_'.kind = UserPass
    BY <1>2, <1>3, <1>7 DEF Greeted
  <2>4. HeardInv'
    BY <2>2, <2>3 DEF HeardInv
  <2>5. SaidInv'
    BY <1>1, <2>2, Zenon DEF SaidInv
  <2>6. ~intruded /\ host_.kind = "name" => Understood(Len(wire) + 1, usernamepassword)
    BY <1>1, <1>7, <2>2, CredentialsAreRead, Zenon DEF SaidInv, Understood
  <2>7. "AuthRecvd" \in DOMAIN READ
    BY Sizes
  <2> QED BY <1>1, <1>4, <1>7, <2>4, <2>5, <2>6, <2>7, Sends
<1> QED BY <1>5, <1>6, <1>7, Zenon DEF Hello

\* The answer to the credentials.
LEMMA StepAuth ==
    ASSUME SocksInv, Grows, intruded' = intruded, state[1] = "Recv", state[2] = "AuthRecvd",
           NEW b \in Seq(Nat), Len(heard') = Len(heard) + 2,
           \A k \in 1 .. 2 : heard'[Len(heard) + k] = b[k], Auth(b)
    PROVE  SocksInv'
<1>1. /\ SocksTyped /\ HeardInv /\ SaidInv /\ Fits /\ Len(heard) = 2
      /\ auth_.kind = UserPass /\ Greeted
      /\ wire \in Seq(Seq(Nat)) /\ host_ \in Hosts /\ auth_ \in Auths
  BY DEF SocksInv, HeardInv, SocksTyped
<1>2. /\ Len(heard') = 4 /\ heard'[3] = b[1] /\ heard'[4] = b[2]
      /\ heard'[1] = heard[1] /\ heard'[2] = heard[2]
  <2>1. Len(heard') = 2 + 2 /\ heard'[2 + 1] = b[1] /\ heard'[2 + 2] = b[2]
    BY <1>1
  <2>2. 1 \in 1 .. Len(heard) /\ 2 \in 1 .. Len(heard)
    BY <1>1
  <2>3. Len(heard') = 4 /\ heard'[3] = b[1] /\ heard'[4] = b[2]
    BY <2>1, Small, Zenon
  <2> QED BY <2>2, <2>3, Zenon DEF Grows
<1>3. method_wanted' = method_wanted /\ auth_' = auth_
  BY DEF Grows, method_wanted
<1>4. connectRequest \in Seq(Nat)
  BY <1>1, MessageTypes
<1>5. CASE failure("WrongVersion") \/ failure("AuthenticationFailed")
  BY <1>5, Fails
<1>6. ASSUME b[1] = AuthVersion, b[2] = 0, transact(connectRequest, "ReplyRecvd")
      PROVE  SocksInv'
  <2>2. /\ state'[1] = "Sent" /\ state'[2] = "ReplyRecvd"
        /\ Len(wire) = 2 => Len(wire') = 3 /\ Len(wire) + 1 = 3
    BY <1>1, <1>4, <1>6, OneMore
  <2>3. Trusted' /\ Len(heard') = 2 + Extra'
    BY <1>1, <1>2, <1>3, <1>6 DEF Trusted, Greeted, Extra
  <2>4. HeardInv'
    BY <2>2, <2>3 DEF HeardInv
  <2>5. SaidInv'
    BY <1>1, <1>3, <2>2, Zenon DEF SaidInv
  <2>6. ~intruded /\ host_.kind = "name" => Understood(Len(wire) + 1, connectRequest)
    BY <1>1, <2>2, RequestIsRead, Zenon DEF SaidInv, Understood
  <2>7. "ReplyRecvd" \in DOMAIN READ
    BY Sizes
  <2> QED BY <1>1, <1>4, <1>6, <2>4, <2>5, <2>6, <2>7, Sends
<1> QED BY <1>5, <1>6, Zenon DEF Auth

\* The answer to the request.
LEMMA StepReply ==
    ASSUME SocksInv, Grows, intruded' = intruded, state[1] = "Recv", state[2] = "ReplyRecvd",
           NEW b \in Seq(Nat), Len(heard') = Len(heard) + 4,
           \A k \in 1 .. 4 : heard'[Len(heard) + k] = b[k], Reply(b)
    PROVE  SocksInv'
<1>1. /\ SocksTyped /\ HeardInv /\ SaidInv /\ Len(heard) = 2 + Extra /\ Trusted
  BY DEF SocksInv, HeardInv
<1>2. method_wanted' = method_wanted /\ auth_' = auth_ /\ Extra' = Extra
  BY DEF Grows, method_wanted, Extra
<1>3. /\ Len(heard') = 6 + Extra
      /\ heard'[3 + Extra] = b[1] /\ heard'[4 + Extra] = b[2]
      /\ heard'[5 + Extra] = b[3] /\ heard'[6 + Extra] = b[4]
  <2>1. Extra \in {0, 2}
    BY DEF Extra
  <2>2. /\ Len(heard) + 1 = 3 + Extra /\ Len(heard) + 2 = 4 + Extra
        /\ Len(heard) + 3 = 5 + Extra /\ Len(heard) + 4 = 6 + Extra
    BY <1>1, <2>1
  <2>3. 1 \in 1 .. 4 /\ 2 \in 1 .. 4 /\ 3 \in 1 .. 4 /\ 4 \in 1 .. 4
    OBVIOUS
  <2>4. /\ heard'[Len(heard) + 1] = b[1] /\ heard'[Len(heard) + 2] = b[2]
        /\ heard'[Len(heard) + 3] = b[3] /\ heard'[Len(heard) + 4] = b[4]
    BY <2>3, Zenon
  <2> QED BY <2>2, <2>4, Zenon
<1>4. Trusted'
  <2>1. /\ 1 \in 1 .. Len(heard) /\ 2 \in 1 .. Len(heard)
        /\ auth_.kind = UserPass => 3 \in 1 .. Len(heard) /\ 4 \in 1 .. Len(heard)
    BY <1>1, Small
  <2>2. /\ heard'[1] = heard[1] /\ heard'[2] = heard[2]
        /\ auth_.kind = UserPass => heard'[3] = heard[3] /\ heard'[4] = heard[4]
    BY <2>1, Zenon DEF Grows
  <2> QED BY <1>1, <1>2, <2>2, Zenon DEF Trusted, Greeted
<1>5. CASE failure("WrongVersion") \/ failure("Reply") \/ failure("GeneralFailure")
           \/ failure("UnsupportedEndpointAddress")
  BY <1>5, Fails
<1>6. ASSUME b[1] = SocksVersion, b[2] = 0, b[3] = 0,
             NEW next \in {"FinishIpv4", "FinishIpv6"}, startRead(next),
             b[4] = IF next = "FinishIpv4" THEN AddressType.v4 ELSE AddressType.v6
      PROVE  SocksInv'
  <2>1. state'[1] = "Recv" /\ state'[2] = next /\ wire' = wire
    BY <1>6 DEF startRead
  <2>2. Granted(b[4])'
    BY <1>2, <1>3, <1>6, Zenon DEF Granted
  <2>3. Len(heard') = 6 + Extra'
    BY <1>2, <1>3, Zenon
  <2>4. HeardInv'
    <3>1. CASE next = "FinishIpv4"
      <4>1. Granted(AddressType.v4)'
        BY <1>6, <2>2, <3>1, Zenon
      <4> QED BY <1>4, <2>1, <2>3, <3>1, <4>1 DEF HeardInv
    <3>2. CASE next = "FinishIpv6"
      <4>1. Granted(AddressType.v6)'
        <5>1. b[4] = AddressType.v6
          BY <1>6, <3>2
        <5> QED BY <2>2, <5>1, Zenon
      <4> QED BY <1>4, <2>1, <2>3, <3>2, <4>1 DEF HeardInv
    <3> QED BY <1>6, <3>1, <3>2
  <2>5. SaidInv'
    BY <1>1, <1>2, <2>1, <1>6, Zenon DEF SaidInv
  <2>6. next \in DOMAIN READ
    BY <1>6, Sizes
  <2> QED BY <1>6, <2>4, <2>5, <2>6, Reads
<1>7. CASE /\ b[1] = SocksVersion /\ b[2] = 0 /\ b[3] = 0
           /\ b[4] = AddressType.v4 /\ startRead("FinishIpv4")
  BY <1>6, <1>7
<1>8. CASE /\ b[1] = SocksVersion /\ b[2] = 0 /\ b[3] = 0
           /\ b[4] = AddressType.v6 /\ startRead("FinishIpv6")
  BY <1>6, <1>8
<1> QED BY <1>5, <1>7, <1>8, Zenon DEF Reply

\* The last bytes of the answer: what was heard is the whole of it.
LEMMA LastBytes ==
    ASSUME NEW h \in Seq(Nat), NEW k \in Seq(Nat), NEW b \in Seq(Nat), NEW a \in {0, 2},
           Len(h) = 6 + a, Len(k) = 6 + a + Len(b),
           \A i \in 1 .. Len(h) : k[i] = h[i],
           \A i \in 1 .. Len(b) : k[6 + a + i] = b[i]
    PROVE  LET r == SubSeq(k, 3 + a, Len(k))
           IN  /\ r[1] = h[3 + a] /\ r[2] = h[4 + a] /\ r[3] = h[5 + a] /\ r[4] = h[6 + a]
               /\ Len(r) = 4 + Len(b) /\ b = SubSeq(r, 5, Len(r))
<1> DEFINE r == SubSeq(k, 3 + a, Len(k))
<1>1. Len(b) \in Nat /\ Len(k) \in Nat /\ 3 + a \in Int /\ Len(k) \in Int
      /\ 3 + a <= Len(k) /\ Len(k) - (3 + a) + 1 = 4 + Len(b)
  OBVIOUS
<1>2. \A i \in 3 + a .. Len(k) : k[i] \in Nat
  OBVIOUS
<1>3. /\ r \in Seq(Nat)
      /\ Len(r) = IF 3 + a <= Len(k) THEN Len(k) - (3 + a) + 1 ELSE 0
      /\ \A i \in 1 .. Len(k) - (3 + a) + 1 : r[i] = k[3 + a + i - 1]
  BY <1>1, <1>2, SubSeqProperties
<1> HIDE DEF r
<1>4. Len(r) = 4 + Len(b)
  BY <1>1, <1>3
<1>5. \A i \in 1 .. 4 + Len(b) : r[i] = k[2 + a + i]
  <2> SUFFICES ASSUME NEW i \in 1 .. 4 + Len(b) PROVE r[i] = k[2 + a + i]
      OBVIOUS
  <2>1. 3 + a + i - 1 = 2 + a + i
    BY <1>1
  <2> QED BY <1>1, <1>3, <2>1
<1>6. \A i \in 1 .. 4 : r[i] = h[2 + a + i]
  <2> SUFFICES ASSUME NEW i \in 1 .. 4 PROVE r[i] = h[2 + a + i]
      OBVIOUS
  <2>1. i \in 1 .. 4 + Len(b)
    BY <1>1
  <2>2. 2 + a + i \in 1 .. 6 + a
    OBVIOUS
  <2>3. r[i] = k[2 + a + i]
    BY <1>5, <2>1
  <2>4. k[2 + a + i] = h[2 + a + i]
    BY <2>2
  <2> QED BY <2>3, <2>4
<1>7. r[1] = h[3 + a] /\ r[2] = h[4 + a] /\ r[3] = h[5 + a] /\ r[4] = h[6 + a]
  <2>1. 2 + a + 1 = 3 + a /\ 2 + a + 2 = 4 + a /\ 2 + a + 3 = 5 + a /\ 2 + a + 4 = 6 + a
    OBVIOUS
  <2>2. r[1] = h[2 + a + 1] /\ r[2] = h[2 + a + 2] /\ r[3] = h[2 + a + 3] /\ r[4] = h[2 + a + 4]
    BY <1>6
  <2> QED BY <2>1, <2>2
<1>8. Holds(r, 4, b)
  <2> SUFFICES ASSUME NEW i \in 1 .. Len(b) PROVE r[4 + i] = b[i]
      BY DEF Holds
  <2>1. 4 + i \in 1 .. 4 + Len(b) /\ 2 + a + (4 + i) = 6 + a + i
    BY <1>1
  <2> QED BY <1>5, <2>1
<1>9. SubSeq(r, 4 + 1, 4 + Len(b)) = b
  <2>1. 4 \in Nat /\ 4 + Len(b) <= Len(r)
    BY <1>1, <1>4
  <2> QED BY <1>3, <1>8, <2>1, BytesRead, Zenon
<1>10. b = SubSeq(r, 5, Len(r))
  <2>1. 4 + 1 = 5
    OBVIOUS
  <2> QED BY <1>4, <1>9, <2>1
<1> QED BY <1>4, <1>7, <1>10 DEF r

\* The bound address has been read.
LEMMA StepFinish ==
    ASSUME SocksInv, Grows, intruded' = intruded, state[1] = "Recv",
           state[2] \in {"FinishIpv4", "FinishIpv6"},
           NEW b \in Seq(Nat), Len(b) = READ[state[2]], Len(heard') = Len(heard) + Len(b),
           \A k \in 1 .. Len(b) : heard'[Len(heard) + k] = b[k], Complete("ok", b)
    PROVE  SocksInv'
<1> DEFINE type == IF state[2] = "FinishIpv4" THEN AddressType.v4 ELSE AddressType.v6
<1>1. /\ HeardInv /\ SaidInv /\ Len(heard) = 6 + Extra /\ Trusted /\ Granted(type)
      /\ heard \in Seq(Nat)
  BY DEF SocksInv, SocksTyped, HeardInv
<1> HIDE DEF type
<1>2. /\ state' = <<"Done", "Done">> /\ result' = "ok" /\ wire' = wire /\ endpoint' = b
      /\ state'[1] = "Done" /\ state'[2] = "Done"
  BY DEF Complete
<1>3. method_wanted' = method_wanted /\ auth_' = auth_ /\ Extra' = Extra /\ Extra \in {0, 2}
  BY DEF Grows, method_wanted, Extra
<1>4. SocksTyped'
  BY <1>2 DEF SocksInv, SocksTyped, Grows
<1>5. HeardInv' /\ SaidInv'
  BY <1>2 DEF HeardInv, SaidInv
<1>6. WireInv'
  BY <1>2 DEF SocksInv, WireInv, Understood, Grows, hello, method_wanted, CredentialsDrawn, ReadsUserPass,
              ReadsConnect
<1>7. /\ heard'[1] = heard[1] /\ heard'[2] = heard[2]
      /\ auth_.kind = UserPass => heard'[3] = heard[3] /\ heard'[4] = heard[4]
  <2>1. /\ 1 \in 1 .. Len(heard) /\ 2 \in 1 .. Len(heard)
        /\ auth_.kind = UserPass => 3 \in 1 .. Len(heard) /\ 4 \in 1 .. Len(heard)
    BY <1>1, Small
  <2> QED BY <2>1, Zenon DEF Grows
<1>8. Trusted'
  BY <1>1, <1>3, <1>7, Zenon DEF Trusted, Greeted
<1>9. NothingIsSaidUnasked'
  <2>1. ~intruded => Len(wire) = 2 \/ auth_.kind = UserPass
    BY <1>1, Zenon DEF SaidInv
  <2>2. ~intruded /\ Len(wire) >= 3 => auth_.kind = UserPass
    BY <2>1, Small, Zenon
  <2> QED BY <1>2, <1>3, <1>8, <2>2, Zenon DEF NothingIsSaidUnasked, Trusted, Greeted
<1>10. SuccessIsEarned'
  <2> DEFINE h == heard
             k == heard'
             a == Extra
             r == SubSeq(k, 3 + a, Len(k))
  <2>1. /\ h \in Seq(Nat) /\ k \in Seq(Nat) /\ a \in {0, 2}
        /\ Len(h) = 6 + a
        /\ \A i \in 1 .. Len(h) : k[i] = h[i]
    BY <1>1, <1>3 DEF Grows
  <2>2. /\ Len(k) = 6 + a + Len(b)
        /\ \A i \in 1 .. Len(b) : k[6 + a + i] = b[i]
    BY <1>1, Zenon
  <2> HIDE DEF h, k, a
  <2>3. /\ r[1] = h[3 + a] /\ r[2] = h[4 + a] /\ r[3] = h[5 + a] /\ r[4] = h[6 + a]
        /\ Len(r) = 4 + Len(b) /\ b = SubSeq(r, 5, Len(r))
    BY <2>1, <2>2, LastBytes
  <2> HIDE DEF r
  <2>4. r[1] = SocksVersion /\ r[2] = 0 /\ r[3] = 0 /\ r[4] = type
    BY <1>1, <2>3, Zenon DEF Granted, h, a
  <2>5. \/ r[4] = AddressType.v4 /\ Len(r) = 4 + 4 + 2
        \/ r[4] = AddressType.v6 /\ Len(r) = 4 + 16 + 2
    <3>1. CASE state[2] = "FinishIpv4"
      <4>1. Len(b) = 6 /\ type = AddressType.v4
        BY <3>1, Sizes DEF type
      <4>2. 4 + 6 = 4 + 4 + 2
        OBVIOUS
      <4> QED BY <2>3, <2>4, <4>1, <4>2, Zenon
    <3>2. CASE state[2] = "FinishIpv6"
      <4>1. Len(b) = 18 /\ type = AddressType.v6
        BY <3>2, Sizes DEF type
      <4>2. 4 + 18 = 4 + 16 + 2
        OBVIOUS
      <4> QED BY <2>3, <2>4, <4>1, <4>2, Zenon
    <3> QED BY <3>1, <3>2
  <2>6. Extra' = 2 <=> auth_'.kind = UserPass
    BY DEF Extra
  <2>7. Agreed'
    <3>1. r = SubSeq(heard', 3 + Extra', Len(heard'))
      BY <1>3, Zenon DEF r, k, a
    <3> QED BY <1>2, <1>8, <2>3, <2>4, <2>5, <2>6, <3>1, Zenon
            DEF Agreed, Extra, Trusted, Greeted
  <2> QED BY <2>7 DEF SuccessIsEarned
<1> QED BY <1>2, <1>4, <1>5, <1>6, <1>9, <1>10 DEF SocksInv

\* A read has completed.
LEMMA StepReceived ==
    ASSUME SocksInv, Received
    PROVE  SocksInv'
<1> DEFINE n == READ[state[2]]
           b == SubSeq(net, 1, n)
<1>1. /\ state[1] = "Recv" /\ Len(net) >= n /\ intruded' = intruded
      /\ net' = SubSeq(net, n + 1, Len(net)) /\ heard' = heard \o b
      /\ UNCHANGED <<host_, auth_, script>>
      /\ \/ state[2] = "HelloRecvd" /\ Hello(b)
         \/ state[2] = "AuthRecvd" /\ Auth(b)
         \/ state[2] = "ReplyRecvd" /\ Reply(b)
         \/ state[2] \in {"FinishIpv4", "FinishIpv6"} /\ Complete("ok", b)
  BY Zenon DEF Received
<1>2. /\ Grows /\ b \in Seq(Nat) /\ Len(b) = n
      /\ Len(heard') = Len(heard) + n
      /\ \A k \in 1 .. n : heard'[Len(heard) + k] = b[k]
  <2> HIDE DEF n
  <2>1. n = READ[state[2]]
    BY DEF n
  <2> QED BY <1>1, <2>1, ReadTakes, Zenon DEF b
<1>3. CASE state[2] = "HelloRecvd" /\ Hello(b)
  <2>1. n = 2
    BY <1>3, Sizes
  <2> HIDE DEF n, b
  <2> QED BY <1>1, <1>2, <1>3, <2>1, StepHello
<1>4. CASE state[2] = "AuthRecvd" /\ Auth(b)
  <2>1. n = 2
    BY <1>4, Sizes
  <2> HIDE DEF n, b
  <2> QED BY <1>1, <1>2, <1>4, <2>1, StepAuth
<1>5. CASE state[2] = "ReplyRecvd" /\ Reply(b)
  <2>1. n = 4
    BY <1>5, Sizes
  <2> HIDE DEF n, b
  <2> QED BY <1>1, <1>2, <1>5, <2>1, StepReply
<1>6. CASE state[2] \in {"FinishIpv4", "FinishIpv6"} /\ Complete("ok", b)
  <2>1. n = READ[state[2]]
    OBVIOUS
  <2> HIDE DEF n, b
  <2> QED BY <1>1, <1>2, <1>6, <2>1, StepFinish
<1> QED BY <1>1, <1>3, <1>4, <1>5, <1>6, Zenon

\* The first state.
LEMMA SocksInitially == SocksInit => SocksInv
<1> SUFFICES ASSUME SocksInit PROVE SocksInv
    OBVIOUS
<1>1. /\ state = <<"Start", "Start">> /\ state[1] = "Start" /\ state[2] = "Start"
      /\ heard = << >> /\ wire = << >> /\ result = "none"
  BY DEF SocksInit
<1>2. SocksTyped
  <2>1. host_ \in Hosts /\ auth_ \in Auths /\ script \in Scripts /\ net = << >>
        /\ intruded = FALSE
    BY DEF SocksInit
  <2>2. script \in Seq(Nat)
    BY <2>1, Socks5Assumption
  <2>3. intruded \in BOOLEAN
    BY <2>1, Zenon
  <2>4. net \in Seq(Nat) /\ heard \in Seq(Nat) /\ wire \in Seq(Seq(Nat))
    BY <1>1, <2>1
  <2> QED BY <1>1, <2>1, <2>2, <2>3, <2>4, Zenon DEF SocksTyped
<1>3. Len(heard) = 0 /\ Len(wire) = 0
  BY <1>1
<1>4. HeardInv /\ SaidInv
  BY <1>1, <1>3 DEF HeardInv, SaidInv
<1>5. WireInv
  BY <1>3 DEF WireInv
<1>6. SuccessIsEarned /\ NothingIsSaidUnasked
  BY <1>1, <1>2, <1>4, Unasked
<1> QED BY <1>1, <1>2, <1>4, <1>5, <1>6 DEF SocksInv

\* Every step keeps the invariant.
LEMMA SocksStep == SocksInv /\ [SocksNext]_socksVars => SocksInv'
<1> SUFFICES ASSUME SocksInv, [SocksNext]_socksVars PROVE SocksInv'
    OBVIOUS
<1>1. CASE SocksNext
  BY <1>1, StepStart, StepWritten, StepReceived, StepIoError, StepArrives, StepOwnerWrites
     DEF SocksNext
<1>2. CASE UNCHANGED socksVars
  <2>1. UNCHANGED <<host_, auth_, state, net, script, wire, heard, result, endpoint, intruded>>
    BY <1>2 DEF socksVars
  <2>2. SocksTyped'
    BY <2>1 DEF SocksInv, SocksTyped
  <2>3. HeardInv' /\ SuccessIsEarned' /\ SaidInv' /\ NothingIsSaidUnasked'
    BY <2>1, Zenon DEF SocksInv, HeardInv, SaidInv, SuccessIsEarned, NothingIsSaidUnasked, Agreed,
                Extra, Greeted, Trusted, Granted, method_wanted
  <2>4. WireInv' /\ (state[1] \in {"Sent", "Recv"} => Fits)'
    BY <2>1, Zenon DEF SocksInv, WireInv, Fits, Understood, hello, method_wanted, CredentialsDrawn, ReadsUserPass,
                ReadsConnect
  <2> QED BY <2>2, <2>3, <2>4 DEF SocksInv
<1> QED BY <1>1, <1>2

\* The inductive invariant holds in every behaviour.
LEMMA SocksAlways == SocksSpec => []SocksInv
<1> QED BY SocksInitially, SocksStep, PTL DEF SocksSpec

\* For every length of a byte, every host, user, password and proxy, however its
\* bytes arrive: each message is in the layout drawn for it, and what the proxy
\* reads are the configured user, password and host (socks5.hpp:201-245, 266-295,
\* 338); what is too long is never sent.  An empty user or password beside one
\* that is given is outside the layout and nothing is claimed of its message.
THEOREM ProxyUnderstands == SocksSpec => []UnderstoodByProxy
<1>1. SocksInv => UnderstoodByProxy
  <2> SUFFICES ASSUME SocksInv PROVE UnderstoodByProxy
      OBVIOUS
  <2>1. SocksTyped /\ WireInv
    BY DEF SocksInv
  <2>2. SocksTypeOK
    BY <2>1, StatePair DEF SocksTyped, SocksTypeOK
  <2>3. DOMAIN wire = 1 .. Len(wire)
    BY <2>1 DEF SocksTyped
  <2> QED BY <2>1, <2>2, <2>3, Zenon DEF UnderstoodByProxy, WireInv, Understood
<1> QED BY <1>1, SocksAlways, PTL

\* For every proxy: the operation succeeds only after the proxy agreed to each
\* step, and has then read its answers to the last byte and none of what
\* follows (socks5.hpp:254-447).
THEOREM SuccessCorrect == SocksSpec => []SuccessIsEarned
<1>1. SocksInv => SuccessIsEarned
  BY DEF SocksInv
<1> QED BY <1>1, SocksAlways, PTL

\* For every proxy: the credentials are sent only when the proxy asked for them,
\* and the request only when it was content with them (socks5.hpp:299-390).
THEOREM AskedCorrect == SocksSpec => []NothingIsSaidUnasked
<1>1. SocksInv => NothingIsSaidUnasked
  BY DEF SocksInv
<1> QED BY <1>1, SocksAlways, PTL
============================================================================
