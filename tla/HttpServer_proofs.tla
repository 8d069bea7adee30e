-------------------------- MODULE HttpServer_proofs --------------------------
(***************************************************************************)
(* Proofs about the web server: the queue of a websocket is sound for any   *)
(* number of messages, alone and inside the server, and the listener and    *)
(* the Lua stack are sound for any number of addresses, connections,        *)
(* requests and headers.                                                    *)
(*                                                                          *)
(* WebsocketIsSound is not inductive: that on_write pops a message it has   *)
(* written, and that an acceptance starts no second write, rests on nothing *)
(* being queued outside phase open, and that send continues the numbering   *)
(* rests on a failed websocket being closed.  Both are in Calm.             *)
(***************************************************************************)
EXTENDS HttpServer, TLAPS

\* What holds as long as no operation has been started too early
Calm ==
    /\ OneMessageAtATime
    /\ NothingLost
    /\ ClosesLast
    /\ phase # "open" => messages_ = <<>> /\ closed = "no"
    /\ failed = "yes" => messages_ = <<>> /\ closed = "yes"

WebsocketInv == WebsocketTypeOK /\ (early = "no" => Calm)

-----------------------------------------------------------------------------
\* The parts of a sequence that is not empty
LEMMA NonEmpty ==
    ASSUME NEW s \in Seq(Nat), s # <<>>
    PROVE  /\ Head(s) \in Nat /\ Head(s) = s[1]
           /\ Tail(s) \in Seq(Nat)
           /\ Len(s) \in Nat \ {0}
           /\ Len(Tail(s)) = Len(s) - 1
           /\ \A i \in 1..Len(Tail(s)) : Tail(s)[i] = s[i + 1]
  OBVIOUS

\* The message at the end of a sequence that has been appended to
LEMMA Appended ==
    ASSUME NEW s \in Seq(Nat), NEW x \in Nat
    PROVE  /\ Append(s, x) \in Seq(Nat)
           /\ Len(Append(s, x)) = Len(s) + 1
           /\ Append(s, x) # <<>>
           /\ \A i \in 1..Len(s) : Append(s, x)[i] = s[i]
           /\ Append(s, x)[Len(s) + 1] = x
           /\ Head(Append(s, x)) = IF s = <<>> THEN x ELSE Head(s)
<1>1. /\ Append(s, x) \in Seq(Nat)
      /\ Len(Append(s, x)) = Len(s) + 1
      /\ Len(s) \in Nat
      /\ \A i \in 1..Len(s) : Append(s, x)[i] = s[i]
      /\ Append(s, x)[Len(s) + 1] = x
  OBVIOUS
<1>2. Append(s, x) # <<>>
  BY <1>1
<1>3. Head(Append(s, x)) = Append(s, x)[1]
  BY <1>1, <1>2, NonEmpty
<1>4. CASE s = <<>>
  BY <1>1, <1>2, <1>3, <1>4
<1>5. CASE s # <<>>
  <2>1. Head(s) = s[1] /\ 1 \in 1..Len(s)
    BY <1>5, NonEmpty
  <2> QED
    BY <1>1, <1>2, <1>3, <1>5, <2>1
<1> QED
  BY <1>4, <1>5

\* One outstanding write is replaced by another, or ends
LEMMA Single ==
    ASSUME NEW x, NEW y
    PROVE  /\ Append(<<>>, y) = <<y>>
           /\ Tail(<<x>>) = <<>>
           /\ Append(Tail(<<x>>), y) = <<y>>
           /\ Head(<<x>>) = x
  OBVIOUS

\* Types are kept by every step
LEMMA TypeStep ==
    WebsocketTypeOK /\ [WebsocketNext]_wsVars => WebsocketTypeOK'
<1> SUFFICES ASSUME WebsocketTypeOK, [WebsocketNext]_wsVars
             PROVE  WebsocketTypeOK'
  OBVIOUS
<1> USE DEF WebsocketTypeOK, YesNo
<1>1. CASE Run
  BY <1>1 DEF Run
<1>2. CASE Send
  <2>1. /\ messages_' = Append(messages_, sent + 1)
        /\ sent' = sent + 1
    BY <1>2 DEF Send
  <2>2. messages_' \in Seq(Nat) /\ sent' \in Nat
    BY <2>1, Appended
  <2>3. writing' \in Seq(Nat) /\ early' \in YesNo
    <3>1. CASE messages_ = <<>>
      <4>1. writing' = Append(writing, sent + 1) /\ early' = EarlyIn
        BY <1>2, <3>1 DEF Send
      <4>2. QED
        BY <4>1, Appended DEF EarlyIn
    <3>2. CASE messages_ # <<>>
      BY <1>2, <3>2 DEF Send
    <3> QED
      BY <3>1, <3>2
  <2> QED
    BY <1>2, <2>2, <2>3 DEF Send
<1>3. CASE Close
  <2>1. closes' \in Nat /\ closing' \in YesNo /\ early' \in YesNo
    BY <1>3 DEF Close, StartClose, EarlyIn
  <2> QED
    BY <1>3, <2>1 DEF Close
<1>4. CASE OnAccept
  <2>1. writing' \in Seq(Nat)
    <3>1. CASE writing' = writing
      BY <3>1
    <3>2. CASE messages_ # <<>> /\ writing' = Append(writing, Head(messages_))
      <4>1. Head(messages_) \in Nat
        BY <3>2, NonEmpty
      <4> QED
        BY <3>2, <4>1, Appended
    <3> QED
      BY <1>4, <3>1, <3>2 DEF OnAccept
  <2> QED
    BY <1>4, <2>1 DEF OnAccept
<1>5. CASE OnWritten
  <2>1. Head(writing) \in Nat /\ Tail(writing) \in Seq(Nat)
    BY <1>5, NonEmpty DEF OnWritten
  <2>2. wire' \in Seq(Nat)
    <3>1. PICK m \in Written : wire' = Append(wire, m)
      BY <1>5 DEF OnWritten
    <3>2. m \in Nat
      BY <3>1, <2>1 DEF Written, Garbage
    <3> QED
      BY <3>1, <3>2, Appended
  <2>3. CASE messages_ = <<>>
    BY <1>5, <2>2, <2>3 DEF OnWritten
  <2>4. CASE messages_ # <<>>
    <3>1. messages_' = Tail(messages_) /\ phase' = phase
      BY <1>5, <2>4 DEF OnWritten
    <3>2. messages_' \in Seq(Nat)
      BY <3>1, <2>4, NonEmpty
    <3>3. writing' \in Seq(Nat)
      <4>1. CASE messages_' # <<>>
        <5>1. writing' = Append(Tail(writing), Head(messages_'))
          BY <1>5, <2>4, <4>1 DEF OnWritten
        <5>2. Head(messages_') \in Nat
          BY <3>2, <4>1, NonEmpty
        <5> QED
          BY <5>1, <5>2, <2>1, Appended
      <4>2. CASE messages_' = <<>>
        BY <1>5, <2>4, <4>2, <2>1 DEF OnWritten
      <4> QED
        BY <4>1, <4>2
    <3>4. closes' \in Nat /\ closing' \in YesNo /\ early' \in YesNo
      <4>1. CASE messages_' # <<>>
        BY <1>5, <2>4, <4>1 DEF OnWritten, EarlyIn
      <4>2. CASE messages_' = <<>> /\ closed = "yes"
        <5>1. StartClose
          BY <1>5, <2>4, <4>2 DEF OnWritten
        <5> QED
          BY <5>1 DEF StartClose, EarlyIn
      <4>3. CASE messages_' = <<>> /\ closed # "yes"
        BY <1>5, <2>4, <4>3 DEF OnWritten
      <4> QED
        BY <4>1, <4>2, <4>3
    <3> QED
      BY <1>5, <2>2, <3>1, <3>2, <3>3, <3>4 DEF OnWritten
  <2> QED
    BY <2>3, <2>4
<1>6. CASE OnWriteError
  <2>1. Tail(writing) \in Seq(Nat)
    BY <1>6, NonEmpty DEF OnWriteError
  <2> QED
    BY <1>6, <2>1 DEF OnWriteError
<1>7. CASE OnReadError
  BY <1>7 DEF OnReadError
<1>8. CASE OnClose
  BY <1>8 DEF OnClose
<1>9. CASE UNCHANGED wsVars
  BY <1>9 DEF wsVars
<1> QED
  BY <1>1, <1>2, <1>3, <1>4, <1>5, <1>6, <1>7, <1>8, <1>9 DEF WebsocketNext, OnWrite

\* As long as nothing is early, every step keeps the queue calm
LEMMA CalmStep ==
    WebsocketInv /\ [WebsocketNext]_wsVars => (early' = "no" => Calm')
<1> SUFFICES ASSUME WebsocketInv, [WebsocketNext]_wsVars, early' = "no"
             PROVE  Calm'
  OBVIOUS
<1> USE DEF WebsocketTypeOK, YesNo
<1>a. WebsocketTypeOK
  BY DEF WebsocketInv
<1>b. early = "no"
  BY <1>a DEF WebsocketNext, wsVars, Run, Send, Close, StartClose, OnAccept,
              OnWrite, OnWritten, OnWriteError, OnReadError, OnClose, EarlyIn
<1>c. Calm
  BY <1>b DEF WebsocketInv
<1>d. sent \in Nat
  BY <1>a
<1>1. CASE Run
  BY <1>1, <1>c DEF Run, Calm, OneMessageAtATime, NothingLost, ClosesLast
<1>2. CASE Send
  <2>1. /\ messages_' = Append(messages_, sent + 1) /\ sent' = sent + 1
        /\ wire' = wire /\ phase' = phase /\ closed' = closed /\ closed = "no"
        /\ failed' = failed /\ closes' = closes
    BY <1>2 DEF Send
  <2>2. failed = "no" /\ closes = 0
    BY <2>1, <1>a, <1>c DEF Calm, ClosesLast
  <2>3. phase = "open"
    BY <1>2, <1>c DEF Send, EarlyIn, Calm
  <2>4. /\ Len(messages_) \in Nat /\ Len(wire) \in Nat
        /\ Len(wire) + Len(messages_) = sent
        /\ \A i \in 1..Len(messages_) : messages_[i] = Len(wire) + i
        /\ \A i \in 1..Len(wire) : wire[i] = i
    BY <1>a, <1>c, <2>2 DEF Calm, NothingLost
  <2>5. /\ Len(messages_') = Len(messages_) + 1
        /\ messages_' # <<>>
        /\ \A i \in 1..Len(messages_) : messages_'[i] = messages_[i]
        /\ messages_'[Len(messages_) + 1] = sent + 1
        /\ Head(messages_') = IF messages_ = <<>> THEN sent + 1 ELSE Head(messages_)
    BY <2>1, <1>a, Appended
  <2>6. OneMessageAtATime'
    <3>1. CASE messages_ = <<>>
      <4>1. writing = <<>> /\ writing' = Append(writing, sent + 1)
        BY <1>2, <1>c, <3>1 DEF Send, Calm, OneMessageAtATime
      <4>2. writing' = <<sent + 1>>
        BY <4>1, Single
      <4> QED
        BY <4>2, <2>5, <3>1 DEF OneMessageAtATime
    <3>2. CASE messages_ # <<>>
      <4>1. writing' = writing /\ writing = <<Head(messages_)>>
        BY <1>2, <1>c, <3>2 DEF Send, Calm, OneMessageAtATime
      <4> QED
        BY <4>1, <2>5, <3>2 DEF OneMessageAtATime
    <3> QED
      BY <3>1, <3>2
  <2>7. NothingLost'
    <3>1. Len(wire') + Len(messages_') = sent' /\ Len(wire') <= sent'
      <4>1. Len(wire') = Len(wire) /\ sent' = sent + 1
        BY <2>1
      <4>2. Len(messages_') = Len(messages_) + 1
        BY <2>5
      <4>3. /\ Len(messages_) \in Nat /\ Len(wire) \in Nat
            /\ Len(wire) + Len(messages_) = sent
        BY <2>4
      <4> QED
        BY <4>1, <4>2, <4>3, <1>d
    <3>2. ASSUME NEW i \in 1..Len(messages_')
          PROVE  messages_'[i] = Len(wire') + i
      <4>1. i \in 1..Len(messages_) \/ i = Len(messages_) + 1
        BY <2>4, <2>5
      <4>2. Len(wire') = Len(wire)
        BY <2>1
      <4>3. CASE i \in 1..Len(messages_)
        BY <4>2, <4>3, <2>4, <2>5
      <4>4. CASE i = Len(messages_) + 1
        <5>1. messages_'[i] = sent + 1
          BY <4>4, <2>5
        <5>2. /\ Len(messages_) \in Nat /\ Len(wire) \in Nat
              /\ Len(wire) + Len(messages_) = sent
          BY <2>4
        <5> QED
          BY <5>1, <5>2, <4>2, <4>4
      <4> QED
        BY <4>1, <4>3, <4>4
    <3> QED
      BY <3>1, <3>2, <2>1, <2>4 DEF NothingLost
  <2> QED
    BY <2>1, <2>2, <2>3, <2>6, <2>7 DEF Calm, ClosesLast
<1>3. CASE Close
  <2>1. /\ closed = "no" /\ closed' = "yes" /\ messages_' = messages_ /\ wire' = wire
        /\ writing' = writing /\ sent' = sent /\ failed' = failed /\ phase' = phase
    BY <1>3 DEF Close
  <2>2. failed = "no" /\ closes = 0
    BY <2>1, <1>a, <1>c DEF Calm, ClosesLast
  <2>3. phase = "open"
    BY <1>3, <1>c DEF Close, StartClose, EarlyIn, Calm
  <2>4. closes' = IF messages_ = <<>> THEN 1 ELSE 0
    BY <1>3, <2>2 DEF Close, StartClose
  <2>5. OneMessageAtATime' /\ NothingLost'
    BY <2>1, <1>c DEF Calm, OneMessageAtATime, NothingLost
  <2> QED
    BY <2>1, <2>2, <2>3, <2>4, <2>5 DEF Calm, ClosesLast
<1>4. CASE OnAccept
  <2>1. messages_ = <<>> /\ closed = "no" /\ failed = "no"
    BY <1>4, <1>a, <1>c DEF OnAccept, Calm
  <2>2. /\ messages_' = messages_ /\ closed' = closed /\ writing' = writing /\ wire' = wire
        /\ sent' = sent /\ closes' = closes /\ failed' = failed
    BY <1>4, <2>1 DEF OnAccept
  <2>3. OneMessageAtATime' /\ NothingLost' /\ ClosesLast'
    BY <2>2, <1>c DEF Calm, OneMessageAtATime, NothingLost, ClosesLast
  <2> QED
    BY <2>1, <2>2, <2>3 DEF Calm
<1>5. CASE OnWritten
  <2>1. writing # <<>> /\ messages_ # <<>>
    BY <1>5, <1>c DEF OnWritten, Calm, OneMessageAtATime
  <2>2. writing = <<Head(messages_)>> /\ Head(writing) = Head(messages_)
    BY <2>1, <1>c, Single DEF Calm, OneMessageAtATime
  <2>3. /\ wire' = Append(wire, Head(messages_))
        /\ messages_' = Tail(messages_)
        /\ phase' = phase /\ closed' = closed /\ sent' = sent /\ failed' = failed
    BY <1>5, <2>1, <2>2 DEF OnWritten, Written
  <2>4. failed = "no" /\ phase = "open" /\ closes = 0
    BY <2>1, <1>a, <1>c DEF Calm, ClosesLast
  <2>5. /\ Head(messages_) \in Nat /\ Head(messages_) = messages_[1]
        /\ Len(messages_) \in Nat \ {0}
        /\ messages_' \in Seq(Nat)
        /\ Len(messages_') = Len(messages_) - 1
        /\ \A i \in 1..Len(messages_') : messages_'[i] = messages_[i + 1]
    BY <2>1, <2>3, <1>a, NonEmpty
  <2>6. /\ Len(wire) \in Nat
        /\ Len(wire) + Len(messages_) = sent
        /\ \A i \in 1..Len(messages_) : messages_[i] = Len(wire) + i
        /\ \A i \in 1..Len(wire) : wire[i] = i
    BY <1>a, <1>c, <2>4 DEF Calm, NothingLost
  <2>7. /\ Len(wire') = Len(wire) + 1
        /\ \A i \in 1..Len(wire) : wire'[i] = wire[i]
        /\ wire'[Len(wire) + 1] = Head(messages_)
    BY <2>3, <2>5, <1>a, Appended
  <2>8. Head(messages_) = Len(wire) + 1
    BY <2>5, <2>6
  <2>9. NothingLost'
    <3>1. Len(wire') + Len(messages_') = sent' /\ Len(wire') <= sent'
      <4>1. sent' = sent /\ Len(messages_) \in Nat /\ Len(messages_) # 0
        BY <2>3, <2>5
      <4>2. Len(messages_') = Len(messages_) - 1 /\ Len(wire') = Len(wire) + 1
        BY <2>5, <2>7
      <4>3. Len(wire) \in Nat /\ Len(wire) + Len(messages_) = sent
        BY <2>6
      <4> QED
        BY <4>1, <4>2, <4>3, <1>d
    <3>2. ASSUME NEW i \in 1..Len(wire')
          PROVE  wire'[i] = i
      <4>1. i \in 1..Len(wire) \/ i = Len(wire) + 1
        BY <2>6, <2>7
      <4> QED
        BY <4>1, <2>6, <2>7, <2>8
    <3>3. ASSUME NEW i \in 1..Len(messages_')
          PROVE  messages_'[i] = Len(wire') + i
      <4>1. i \in Nat /\ i + 1 \in 1..Len(messages_)
        BY <2>5
      <4> QED
        BY <4>1, <2>5, <2>6, <2>7
    <3> QED
      BY <3>1, <3>2, <3>3 DEF NothingLost
  <2>10. OneMessageAtATime' /\ ClosesLast'
    <3>1. CASE messages_' # <<>>
      <4>1. writing' = Append(Tail(writing), Head(messages_')) /\ closes' = closes
        BY <1>5, <2>1, <3>1 DEF OnWritten
      <4>2. writing' = <<Head(messages_')>>
        BY <4>1, <2>2, Single
      <4>3. closes' = 0
        BY <4>1, <2>4
      <4> QED
        BY <3>1, <4>2, <4>3 DEF OneMessageAtATime, ClosesLast
    <3>2. CASE messages_' = <<>>
      <4>1. writing' = Tail(writing)
        BY <1>5, <2>1, <3>2 DEF OnWritten
      <4>2. closes' = IF closed = "yes" THEN 1 ELSE 0
        BY <1>5, <2>1, <3>2, <2>4 DEF OnWritten, StartClose
      <4> QED
        BY <3>2, <4>1, <4>2, <2>2, <2>3, Single DEF OneMessageAtATime, ClosesLast
    <3> QED
      BY <3>1, <3>2
  <2> QED
    BY <2>3, <2>4, <2>9, <2>10 DEF Calm
<1>6. CASE OnWriteError
  <2>1. writing # <<>> /\ messages_ # <<>>
    BY <1>6, <1>c DEF OnWriteError, Calm, OneMessageAtATime
  <2>2. writing = <<Head(messages_)>> /\ closes = 0 /\ phase = "open"
    BY <2>1, <1>a, <1>c DEF Calm, OneMessageAtATime, ClosesLast
  <2>3. /\ messages_' = <<>> /\ closed' = "yes" /\ failed' = "yes" /\ closes' = closes
        /\ wire' = wire /\ sent' = sent /\ phase' = phase
        /\ writing' = Tail(writing)
    BY <1>6 DEF OnWriteError
  <2>4. writing' = <<>>
    BY <2>2, <2>3, Single
  <2> QED
    BY <2>2, <2>3, <2>4, <1>c DEF Calm, OneMessageAtATime, NothingLost, ClosesLast
<1>7. CASE OnReadError
  BY <1>7, <1>c DEF OnReadError, Calm, OneMessageAtATime, NothingLost, ClosesLast
<1>8. CASE OnClose
  BY <1>8, <1>c DEF OnClose, Calm, OneMessageAtATime, NothingLost, ClosesLast
<1>9. CASE UNCHANGED wsVars
  BY <1>9, <1>c DEF wsVars, Calm, OneMessageAtATime, NothingLost, ClosesLast
<1> QED
  BY <1>1, <1>2, <1>3, <1>4, <1>5, <1>6, <1>7, <1>8, <1>9 DEF WebsocketNext, OnWrite

\* For any number of messages, send, on_write and close of httpd.cpp keep one
\* write going at a time, deliver every message once and in order, and close
\* after the last one, unless an operation was started before the websocket
\* was open.
THEOREM WebsocketCorrect == WebsocketSpec => []WebsocketIsSound
<1>1. WebsocketInit => WebsocketInv
  BY DEF WebsocketInit, WebsocketInv, WebsocketTypeOK, YesNo, Calm, OneMessageAtATime,
         NothingLost, ClosesLast
<1>2. WebsocketInv /\ [WebsocketNext]_wsVars => WebsocketInv'
  BY TypeStep, CalmStep DEF WebsocketInv
<1>3. WebsocketInv => WebsocketIsSound
  BY DEF WebsocketInv, WebsocketIsSound, Calm
<1> QED
  BY <1>1, <1>2, <1>3, PTL DEF WebsocketSpec

-----------------------------------------------------------------------------
(* The server                                                               *)

\* No acceptor exists before on_resolve, and close() before it is remembered:
\* this is what makes "closed in time" last.
ServerInv ==
    /\ ServerIsSound
    /\ resolving = "pending" =>
          \A i \in Endpoints : listening[i] = "none" /\ accept[i] = "none"
    /\ handle = "closed" /\ resolving = "pending" => closedEarly = "yes"

\* Whichever way handle_request returns, it takes from the Lua stack what it
\* has put there, after any number of headers.
LEMMA StackBalanced ==
    ASSUME NEW outcome \in LuaOutcomes \ {"raisedObject"}, NEW good \in Nat
    PROVE  StackLeft(outcome, good) = 0
<1>1. HeaderTurn = 2
  BY DEF HeaderTurn
<1>2. 5 - 5 + 3 + 1 + good * (HeaderTurn - 2) = 4
  BY <1>1
<1>3. outcome \in {"raised", "noCode", "plain", "headers", "badHeader"}
  BY DEF LuaOutcomes
<1> QED BY <1>1, <1>2, <1>3 DEF StackLeft

\* on_resolve starts an accept on each acceptor that listens.
LEMMA ResolveStep ==
    ASSUME ServerInv, OnResolve \/ OnResolveError
    PROVE  ServerInv'
<1> USE ServerAssumption DEF ServerInv, ServerIsSound, TypeOK
<1>1. CASE OnResolveError
  BY <1>1 DEF OnResolveError, sessionVars
<1>2. CASE OnResolve
  <2>1. PICK n \in Endpoints, good \in 0..MaxEndpoints :
          /\ good <= n
          /\ listening' = [i \in Endpoints |->
                IF i <= n /\ i <= good + 1 THEN "open" ELSE "none"]
          /\ accept' = [i \in Endpoints |-> IF i <= good THEN "waiting" ELSE "none"]
          /\ acceptFailed' = {i \in Endpoints : i = good + 1 /\ i <= n}
    BY <1>2 DEF OnResolve
  <2>2. /\ resolving = "pending" /\ resolving' = "done"
        /\ UNCHANGED <<handle, closedEarly, session, stack>>
    BY <1>2 DEF OnResolve, sessionVars
  <2>3. /\ listening' \in [Endpoints -> {"none", "open", "closed"}]
        /\ accept' \in [Endpoints -> {"none", "waiting", "accepted", "aborted"}]
        /\ acceptFailed' \subseteq Endpoints
    BY <2>1
  <2>4. ASSUME NEW i \in Endpoints \ acceptFailed', listening'[i] = "open"
        PROVE  accept'[i] = "waiting"
    BY <2>1, <2>4 DEF Endpoints
  <2>5. ~(handle' = "closed" /\ closedEarly' = "no")
    BY <2>2
  <2>6. TypeOK' /\ stack' = 0
    BY <2>2, <2>3
  <2> QED BY <2>2, <2>4, <2>5, <2>6
<1> QED BY <1>1, <1>2

\* An accept that completes, and its handler, keep every acceptor that listens
\* busy, and none after close().
LEMMA AcceptStep ==
    ASSUME ServerInv, NEW i \in Endpoints, AcceptorStep(i)
    PROVE  ServerInv'
<1> USE DEF ServerInv, ServerIsSound, TypeOK
<1>1. /\ resolving' = resolving /\ listening' = listening /\ handle' = handle
      /\ closedEarly' = closedEarly /\ stack' = stack
  BY DEF AcceptorStep, OnAcceptors, AcceptDone, OnAccepted, OnAcceptError, sessionVars
<1>2. /\ accept[i] # "none"
      /\ accept' = [accept EXCEPT ![i] = accept'[i]]
      /\ accept'[i] \in {"none", "waiting", "accepted", "aborted"}
      /\ acceptFailed \subseteq acceptFailed' /\ acceptFailed' \subseteq Endpoints
      /\ accept'[i] = "none" => i \in acceptFailed'
      /\ accept'[i] = "waiting" => listening[i] = "open"
  <2>1. CASE AcceptDone(i)
    BY <2>1 DEF AcceptDone
  <2>2. CASE OnAccepted(i)
    BY <2>2 DEF OnAccepted, DoAccept
  <2>3. CASE OnAcceptError(i)
    BY <2>3 DEF OnAcceptError
  <2> QED BY <2>1, <2>2, <2>3 DEF AcceptorStep, OnAcceptors
<1>3. session' \in [Sessions -> {"none", "reading", "keep", "last", "over",
                                  "upgraded", "threw"}]
  BY DEF AcceptorStep, OnAcceptors, AcceptDone, OnAccepted, OnAcceptError, sessionVars
<1>4. \A j \in Endpoints \ {i} : accept'[j] = accept[j]
  BY <1>2
<1>5. accept' \in [Endpoints -> {"none", "waiting", "accepted", "aborted"}]
  BY <1>2
<1>6. TypeOK' /\ stack' = 0
  BY <1>1, <1>2, <1>3, <1>5
<1>7. handle' = "closed" /\ closedEarly' = "no" =>
         \A j \in Endpoints : listening'[j] # "open" /\ accept'[j] # "waiting"
  BY <1>1, <1>2, <1>4
<1>8. \A j \in Endpoints \ acceptFailed' :
         listening'[j] = "open" => accept'[j] \in {"waiting", "accepted", "aborted"}
  BY <1>1, <1>2, <1>4
<1>9. resolving' = "done"
  BY <1>1, <1>2
<1> QED BY <1>6, <1>7, <1>8, <1>9

\* close() closes every acceptor there is.
LEMMA CloseStep ==
    ASSUME ServerInv, CloseListener
    PROVE  ServerInv'
<1> USE DEF ServerInv, ServerIsSound, TypeOK
<1>1. /\ handle' = "closed"
      /\ closedEarly' = IF resolving = "pending" THEN "yes" ELSE closedEarly
      /\ UNCHANGED <<resolving, acceptFailed, session, stack>>
  BY DEF CloseListener, sessionVars
<1>2. /\ listening' \in [Endpoints -> {"none", "open", "closed"}]
      /\ accept' \in [Endpoints -> {"none", "waiting", "accepted", "aborted"}]
      /\ \A i \in Endpoints : /\ listening'[i] # "open" /\ accept'[i] # "waiting"
                              /\ listening[i] = "none" => listening'[i] = "none"
                              /\ accept[i] = "none" => accept'[i] = "none"
  BY DEF CloseListener
<1>3. TypeOK' /\ stack' = 0
  BY <1>1, <1>2 DEF YesNo
<1> QED BY <1>1, <1>2, <1>3

\* A session leaves the listener alone and the Lua stack as it was.
LEMMA SessionKeeps ==
    ASSUME ServerInv, NEW s \in Sessions, SessionStep(s)
    PROVE  ServerInv'
<1> USE DEF ServerInv, ServerIsSound, TypeOK
<1>1. UNCHANGED <<resolving, listening, accept, handle, closedEarly, acceptFailed>>
  BY DEF SessionStep, SessionEnds, OnRequest, OnUpgrade, OnReadEnd, OnResponse,
         OnResponseError, listenerVars
<1>2. /\ session' \in [Sessions -> {"none", "reading", "keep", "last", "over",
                                    "upgraded", "threw"}]
      /\ stack' = 0
  <2>1. CASE OnRequest(s)
    <3>1. PICK outcome \in LuaOutcomes, good \in 0..MaxHeaders, next \in {"keep", "last"} :
             IF outcome = "raisedObject"
             THEN session' = [session EXCEPT ![s] = "threw"] /\ stack' = stack
             ELSE /\ session' = [session EXCEPT ![s] = next]
                  /\ stack' = stack + StackLeft(outcome, good)
      BY <2>1 DEF OnRequest
    <3>2. CASE outcome = "raisedObject"
      BY <3>1, <3>2
    <3>3. CASE outcome # "raisedObject"
      <4>1. StackLeft(outcome, good) = 0
        BY <3>3, ServerAssumption, StackBalanced
      <4>2. stack' = 0
        BY <3>1, <3>3, <4>1
      <4> QED BY <3>1, <3>3, <4>2
    <3> QED BY <3>2, <3>3
  <2>2. CASE OnUpgrade(s)
    BY <2>2 DEF OnUpgrade
  <2>3. CASE SessionEnds(s)
    BY <2>3 DEF SessionEnds, OnReadEnd, OnResponse, OnResponseError
  <2> QED BY <2>1, <2>2, <2>3 DEF SessionStep
<1> QED BY <1>1, <1>2

\* Every step of the server preserves its invariant.
LEMMA ServerStep == ServerInv /\ [Next]_vars => ServerInv'
<1> SUFFICES ASSUME ServerInv, [Next]_vars PROVE ServerInv'
    OBVIOUS
<1>1. CASE OnResolveError \/ OnResolve
  BY <1>1, ResolveStep
<1>2. CASE CloseListener
  BY <1>2, CloseStep
<1>3. ASSUME NEW i \in Endpoints, AcceptorStep(i) PROVE ServerInv'
  BY <1>3, AcceptStep
<1>4. ASSUME NEW s \in Sessions, SessionStep(s) PROVE ServerInv'
  BY <1>4, SessionKeeps
<1>5. CASE UNCHANGED <<listenerVars, sessionVars>>
  BY <1>5 DEF listenerVars, sessionVars, ServerInv, ServerIsSound, TypeOK
<1> QED BY <1>1, <1>2, <1>3, <1>4, <1>5 DEF Next, WebsocketStep, vars

\* For any number of addresses, connections, requests and headers: a listener
\* closed after on_resolve accepts no more, until then every acceptor that
\* listens has an accept on its way unless one has failed, and handle_request
\* leaves the Lua stack balanced.
THEOREM ServerCorrect == Spec => []ServerIsSound
<1>1. Init => ServerInv
  BY ServerAssumption DEF Init, ServerInv, ServerIsSound, TypeOK, YesNo
<1>2. ServerInv => ServerIsSound
  BY DEF ServerInv
<1> QED BY <1>1, <1>2, ServerStep, PTL DEF Spec

\* The server does nothing to a websocket but what class Websocket does, so
\* the queue is as sound inside the server as alone.
THEOREM WebsocketInServer == Spec => []WebsocketIsSound
<1>1. Init => WebsocketInit
  BY DEF Init
<1>2. [Next]_vars => [WebsocketNext]_wsVars
  <2> SUFFICES ASSUME [Next]_vars PROVE [WebsocketNext]_wsVars
      OBVIOUS
  <2>1. CASE OnResolveError \/ OnResolve \/ CloseListener
    BY <2>1 DEF OnResolveError, OnResolve, CloseListener
  <2>2. ASSUME NEW i \in Endpoints, AcceptorStep(i) PROVE UNCHANGED wsVars
    BY <2>2 DEF AcceptorStep, OnAcceptors, AcceptDone, OnAccepted, OnAcceptError
  <2>3. ASSUME NEW s \in Sessions, SessionStep(s) PROVE [WebsocketNext]_wsVars
    BY <2>3 DEF SessionStep, SessionEnds, OnRequest, OnUpgrade, OnReadEnd, OnResponse,
                OnResponseError, WebsocketNext
  <2>4. CASE WebsocketStep
    BY <2>4 DEF WebsocketStep, WebsocketNext
  <2>5. CASE UNCHANGED vars
    BY <2>5 DEF vars
  <2> QED BY <2>1, <2>2, <2>3, <2>4, <2>5 DEF Next
<1>3. Spec => WebsocketSpec
  BY <1>1, <1>2, PTL DEF Spec, WebsocketSpec
<1> QED BY <1>3, WebsocketCorrect, PTL

=============================================================================
