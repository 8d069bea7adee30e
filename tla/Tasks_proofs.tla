---------------------------- MODULE Tasks_proofs ----------------------------
(***************************************************************************)
(* Proofs about Tasks and the timers below it, for any number of tasks,     *)
(* timers, starts and calls.                                                *)
(*                                                                          *)
(* The timers: a callback that is in the registry under one address is in   *)
(* no other place, has not been removed and has not been called.  The       *)
(* tasks: as long as no task asks for a password while it is being told     *)
(* that it lost the prompt, two coroutines at most are on the stack, and    *)
(* the lower one has the prompt.  Every task that was started and is not    *)
(* dead is in the queue or its cancel has raised, and never both.           *)
(***************************************************************************)
EXTENDS Tasks, FiniteSetTheorems, TLAPS

WaitStates == {"waiting", "expired", "aborted"}
Waits == [id : 1..MaxStarts, state : WaitStates]

\* Where callback numbers can be: each is in one place only.
OnePlace ==
    /\ \A a \in Addresses : slot[a] # NoCallback =>
          /\ slot[a] \notin dropped
          /\ \A c \in called : c[2] # slot[a]
          /\ \A b \in Addresses : slot[b] = slot[a] => b = a
    /\ \A c \in called :
          /\ c[2] \notin dropped
          /\ c[2] # NoCallback => \A d \in called : d[2] = c[2] => d = c

\* A wait that has not been cancelled is of the callback in the registry,
\* unless an older wait has taken that.
WaitsMatch ==
    overtaken = "no" =>
       /\ \A a \in Addresses : \A i \in 1..Len(waits[a]) :
             waits[a][i].state # "aborted" => slot[a] \in {waits[a][i].id, NoCallback}
       /\ \A c \in called : c[2] \in {c[1], NoCallback}

TimerInv ==
    /\ live \subseteq Addresses
    /\ starts \in 0..MaxStarts
    /\ slot \in [Addresses -> 0..starts]
    /\ waits \in [Addresses -> Seq(Waits)]
    /\ called \subseteq Nat \X (0..starts)
    /\ dropped \subseteq 1..starts
    /\ overtaken \in {"yes", "no"}
    /\ OnePlace
    /\ WaitsMatch

-----------------------------------------------------------------------------
\* Cancelling keeps the waits and leaves none waiting.
LEMMA CancelledEffect ==
    ASSUME NEW ws \in Seq(Waits)
    PROVE  /\ Cancelled(ws) \in Seq(Waits)
           /\ Len(Cancelled(ws)) = Len(ws)
           /\ \A i \in 1..Len(ws) :
                 /\ Cancelled(ws)[i].id = ws[i].id
                 /\ Cancelled(ws)[i].state # "aborted" =>
                       ws[i].state = "expired"
<1> DEFINE c(i) == IF ws[i].state = "waiting"
                   THEN [ws[i] EXCEPT !.state = "aborted"] ELSE ws[i]
<1>1. ASSUME NEW i \in 1..Len(ws)
      PROVE  /\ c(i) \in Waits /\ c(i).id = ws[i].id
             /\ c(i).state # "aborted" => ws[i].state = "expired"
  <2>1. ws[i] \in Waits
    OBVIOUS
  <2>2. CASE ws[i].state = "waiting"
    BY <2>1, <2>2 DEF Waits, WaitStates
  <2>3. CASE ws[i].state # "waiting"
    BY <2>1, <2>3 DEF Waits, WaitStates
  <2> QED BY <2>2, <2>3
<1>2. Len(ws) \in Nat /\ DOMAIN ws = 1..Len(ws)
  OBVIOUS
<1>3. Cancelled(ws) = [i \in 1..Len(ws) |-> c(i)]
  BY <1>2 DEF Cancelled
<1> HIDE DEF c
<1>4. [i \in 1..Len(ws) |-> c(i)] \in Seq(Waits)
  BY <1>1, <1>2
<1> QED BY <1>1, <1>2, <1>3, <1>4

\* The callback that is removed from the registry, if there is one.
LEMMA DroppedType ==
    ASSUME TimerInv, NEW a \in Addresses,
           dropped' = dropped \cup ({slot[a]} \ {NoCallback})
    PROVE  dropped' \subseteq 1..starts
<1>1. /\ slot[a] \in 0..starts /\ starts \in Nat
      /\ \A x \in dropped : x \in 1..starts
  BY TimerAssumption DEF TimerInv
<1>2. slot[a] # NoCallback => slot[a] \in 1..starts
  BY <1>1 DEF NoCallback
<1>3. \A x \in dropped' : x \in dropped \/ (x = slot[a] /\ x # NoCallback)
  OBVIOUS
<1> QED BY <1>1, <1>2, <1>3

\* start: a new callback in the registry, and the only wait that is waiting.
LEMMA BeginKeeps ==
    ASSUME TimerInv, NEW a \in Addresses, Begin(a), live' \subseteq Addresses
    PROVE  TimerInv'
<1>1. /\ starts \in Nat /\ MaxStarts \in Nat /\ starts < MaxStarts
      /\ starts' = starts + 1 /\ starts' \in 0..MaxStarts
      /\ called' = called
  BY TimerAssumption DEF TimerInv, Begin
<1>2. /\ slot \in [Addresses -> 0..starts]
      /\ slot' = [slot EXCEPT ![a] = starts + 1]
  BY DEF TimerInv, Begin
<1>3. /\ slot' \in [Addresses -> 0..starts']
      /\ slot'[a] = starts + 1
      /\ \A b \in Addresses \ {a} : slot'[b] = slot[b]
  BY <1>1, <1>2
<1>4. /\ called \subseteq Nat \X (0..starts)
      /\ \A c \in called : c[2] \in 0..starts
  BY DEF TimerInv
<1>5. /\ dropped' = dropped \cup ({slot[a]} \ {NoCallback})
      /\ dropped' \subseteq 1..starts
  <2>1. dropped' = dropped \cup ({slot[a]} \ {NoCallback})
    BY DEF Begin
  <2> QED BY <2>1, DroppedType
<1>6. called' \subseteq Nat \X (0..starts') /\ dropped' \subseteq 1..starts'
  BY <1>1, <1>4, <1>5
<1>7. OnePlace'
  <2>1. ASSUME NEW b \in Addresses, slot'[b] # NoCallback
        PROVE  /\ slot'[b] \notin dropped'
               /\ \A c \in called' : c[2] # slot'[b]
               /\ \A e \in Addresses : slot'[e] = slot'[b] => e = b
    <3>1. CASE b = a
      <4>1. slot'[b] = starts + 1
        BY <1>3, <3>1
      <4>2. slot'[b] \notin dropped'
        BY <1>1, <1>5, <4>1
      <4>3. \A c \in called' : c[2] # slot'[b]
        BY <1>1, <1>4, <4>1
      <4>4. \A e \in Addresses : slot'[e] = slot'[b] => e = b
        BY <1>1, <1>2, <1>3, <3>1, <4>1
      <4> QED BY <4>2, <4>3, <4>4
    <3>2. CASE b # a
      <4>1. slot'[b] = slot[b] /\ slot[b] \in 0..starts
        BY <1>2, <1>3, <3>2
      <4>2. /\ slot[b] \notin dropped /\ slot[b] # slot[a]
            /\ \A c \in called : c[2] # slot[b]
            /\ \A e \in Addresses : slot[e] = slot[b] => e = b
        BY <2>1, <3>2, <4>1 DEF TimerInv, OnePlace
      <4>3. slot'[b] \notin dropped'
        BY <1>5, <4>1, <4>2
      <4>4. \A e \in Addresses : slot'[e] = slot'[b] => e = b
        BY <1>1, <1>3, <4>1, <4>2
      <4> QED BY <1>1, <4>1, <4>2, <4>3, <4>4
    <3> QED BY <3>1, <3>2
  <2>2. ASSUME NEW c \in called
        PROVE  /\ c[2] \notin dropped'
               /\ c[2] # NoCallback => \A d \in called : d[2] = c[2] => d = c
    BY <1>5 DEF TimerInv, OnePlace
  <2> QED BY <1>1, <2>1, <2>2 DEF OnePlace
<1>8. PICK w : w = [id |-> starts + 1, state |-> "waiting"]
  OBVIOUS
<1>9. w \in Waits /\ w.id = starts + 1
  BY <1>1, <1>8 DEF Waits, WaitStates
<1>10. PICK cs : cs = Cancelled(waits[a])
  OBVIOUS
<1>11. /\ waits \in [Addresses -> Seq(Waits)] /\ waits[a] \in Seq(Waits)
       /\ waits' = [waits EXCEPT ![a] = Append(cs, w)]
  BY <1>8, <1>10 DEF TimerInv, Begin
<1>12. /\ cs \in Seq(Waits) /\ Len(cs) = Len(waits[a])
       /\ \A i \in 1..Len(waits[a]) :
             /\ cs[i].id = waits[a][i].id
             /\ cs[i].state # "aborted" => waits[a][i].state = "expired"
  BY <1>10, <1>11, CancelledEffect
<1>13. /\ Append(cs, w) \in Seq(Waits)
       /\ \A i \in 1..Len(Append(cs, w)) : i \in 1..Len(cs) \/ i = Len(cs) + 1
       /\ \A i \in 1..Len(cs) : Append(cs, w)[i] = cs[i]
       /\ Append(cs, w)[Len(cs) + 1] = w
  BY <1>9, <1>12
<1>14. /\ waits' \in [Addresses -> Seq(Waits)]
       /\ waits'[a] = Append(cs, w)
       /\ \A b \in Addresses \ {a} : waits'[b] = waits[b]
  BY <1>11, <1>13
<1>15. /\ overtaken \in {"yes", "no"}
       /\ overtaken' = IF \E i \in 1..Len(waits[a]) : waits[a][i].state = "expired"
                       THEN "yes" ELSE overtaken
  BY <1>11 DEF TimerInv, Begin
<1>16. WaitsMatch'
  <2> SUFFICES ASSUME overtaken' = "no"
               PROVE  /\ \A b \in Addresses : \A i \in 1..Len(waits'[b]) :
                            waits'[b][i].state # "aborted" =>
                               slot'[b] \in {waits'[b][i].id, NoCallback}
                      /\ \A c \in called' : c[2] \in {c[1], NoCallback}
      BY DEF WaitsMatch
  <2>1. overtaken = "no" /\ \A i \in 1..Len(waits[a]) : waits[a][i].state # "expired"
    BY <1>15
  <2>2. ASSUME NEW b \in Addresses, NEW i \in 1..Len(waits'[b]),
               waits'[b][i].state # "aborted"
        PROVE  slot'[b] \in {waits'[b][i].id, NoCallback}
    <3>1. CASE b # a
      BY <1>3, <1>14, <2>1, <2>2, <3>1 DEF TimerInv, WaitsMatch
    <3>2. CASE b = a
      <4>1. i = Len(cs) + 1
        BY <1>12, <1>13, <1>14, <2>1, <2>2, <3>2
      <4> QED BY <1>3, <1>9, <1>13, <1>14, <3>2, <4>1
    <3> QED BY <3>1, <3>2
  <2> QED BY <1>1, <2>1, <2>2 DEF TimerInv, WaitsMatch
<1>17. overtaken' \in {"yes", "no"}
  BY <1>15
<1> QED BY <1>1, <1>3, <1>6, <1>7, <1>14, <1>16, <1>17 DEF TimerInv

\* cancel and l_gc: the callback goes from the registry to the removed ones.
LEMMA ForgetKeeps ==
    ASSUME TimerInv, NEW a \in Addresses, Forget(a), live' \subseteq Addresses
    PROVE  TimerInv'
<1>1. /\ starts' = starts /\ called' = called /\ overtaken' = overtaken
      /\ starts \in Nat /\ slot \in [Addresses -> 0..starts]
      /\ slot' = [slot EXCEPT ![a] = NoCallback]
      /\ waits \in [Addresses -> Seq(Waits)]
      /\ waits' = [waits EXCEPT ![a] = Cancelled(waits[a])]
      /\ dropped' = dropped \cup ({slot[a]} \ {NoCallback})
      /\ dropped \subseteq 1..starts
  BY TimerAssumption DEF TimerInv, Forget
<1>2. /\ slot' \in [Addresses -> 0..starts] /\ slot'[a] = NoCallback
      /\ \A b \in Addresses \ {a} : slot'[b] = slot[b]
  BY <1>1 DEF NoCallback
<1>3. dropped' \subseteq 1..starts
  BY <1>1, DroppedType
<1>4. OnePlace'
  <2>1. ASSUME NEW b \in Addresses, slot'[b] # NoCallback
        PROVE  /\ slot'[b] \notin dropped'
               /\ \A c \in called' : c[2] # slot'[b]
               /\ \A e \in Addresses : slot'[e] = slot'[b] => e = b
    <3>1. b # a /\ slot'[b] = slot[b]
      BY <1>2, <2>1
    <3>2. /\ slot[b] \notin dropped /\ slot[b] # slot[a]
          /\ \A c \in called : c[2] # slot[b]
          /\ \A e \in Addresses : slot[e] = slot[b] => e = b
      BY <2>1, <3>1 DEF TimerInv, OnePlace
    <3> QED BY <1>1, <1>2, <2>1, <3>1, <3>2
  <2>2. ASSUME NEW c \in called
        PROVE  /\ c[2] \notin dropped'
               /\ c[2] # NoCallback => \A d \in called : d[2] = c[2] => d = c
    BY <1>1 DEF TimerInv, OnePlace
  <2> QED BY <1>1, <2>1, <2>2 DEF OnePlace
<1>5. Cancelled(waits[a]) \in Seq(Waits)
  BY <1>1, CancelledEffect
<1>6. /\ waits' \in [Addresses -> Seq(Waits)]
      /\ \A b \in Addresses \ {a} : waits'[b] = waits[b]
  BY <1>1, <1>5
<1>7. WaitsMatch'
  <2>1. \A b \in Addresses : slot'[b] = NoCallback \/ (b # a /\ slot'[b] = slot[b])
    BY <1>2
  <2> QED BY <1>1, <1>6, <2>1 DEF TimerInv, WaitsMatch
<1> QED BY <1>1, <1>2, <1>3, <1>4, <1>6, <1>7 DEF TimerInv

\* A wait expires; the callback stays where it is.
LEMMA ExpireKeeps ==
    ASSUME TimerInv, NEW a \in Addresses, Expire(a)
    PROVE  TimerInv'
<1>1. UNCHANGED <<live, slot, starts, called, dropped, overtaken>>
  BY DEF Expire
<1>2. PICK i \in DOMAIN waits[a] : /\ waits[a][i].state = "waiting"
                                   /\ waits' = [waits EXCEPT ![a][i].state = "expired"]
  BY DEF Expire
<1>3. waits \in [Addresses -> Seq(Waits)] /\ waits[a] \in Seq(Waits) /\ i \in 1..Len(waits[a])
  BY <1>2 DEF TimerInv
<1>4. PICK w : w = [waits[a][i] EXCEPT !.state = "expired"]
  OBVIOUS
<1>5. w \in Waits /\ w.id = waits[a][i].id
  <2>1. waits[a][i] \in Waits
    BY <1>3
  <2> QED BY <1>4, <2>1 DEF Waits, WaitStates
<1>6. waits' = [waits EXCEPT ![a] = [waits[a] EXCEPT ![i] = w]]
  BY <1>2, <1>3, <1>4
<1>7. /\ [waits[a] EXCEPT ![i] = w] \in Seq(Waits)
      /\ Len([waits[a] EXCEPT ![i] = w]) = Len(waits[a])
  BY <1>3, <1>5
<1>8. /\ waits' \in [Addresses -> Seq(Waits)]
      /\ \A b \in Addresses \ {a} : waits'[b] = waits[b]
      /\ Len(waits'[a]) = Len(waits[a])
      /\ \A j \in 1..Len(waits[a]) : waits'[a][j] = IF j = i THEN w ELSE waits[a][j]
  BY <1>3, <1>6, <1>7
<1>9. ASSUME NEW b \in Addresses, NEW j \in 1..Len(waits'[b]),
             waits'[b][j].state # "aborted"
      PROVE  /\ j \in 1..Len(waits[b]) /\ waits[b][j].state # "aborted"
             /\ waits'[b][j].id = waits[b][j].id
  <2>1. CASE b # a
    BY <1>8, <1>9, <2>1
  <2>2. CASE b = a /\ j = i
    BY <1>2, <1>3, <1>5, <1>8, <2>2
  <2>3. CASE b = a /\ j # i
    BY <1>8, <1>9, <2>3
  <2> QED BY <2>1, <2>2, <2>3
<1>10. WaitsMatch'
  BY <1>1, <1>9 DEF TimerInv, WaitsMatch
<1>11. OnePlace'
  BY <1>1 DEF TimerInv, OnePlace
<1> QED BY <1>1, <1>8, <1>10, <1>11 DEF TimerInv

\* What is left of the waits when the oldest has been handled.
LEMMA WithoutOldest ==
    ASSUME NEW ws \in Seq(Waits), ws # <<>>
    PROVE  /\ Tail(ws) \in Seq(Waits) /\ 1 \in 1..Len(ws) /\ Head(ws) = ws[1]
           /\ \A i \in 1..Len(Tail(ws)) : i + 1 \in 1..Len(ws) /\ Tail(ws)[i] = ws[i + 1]
OBVIOUS

\* The handler of a cancelled wait changes nothing but the queue.
LEMMA AbortedKeeps ==
    ASSUME TimerInv, NEW a \in Addresses, AbortedHandler(a)
    PROVE  TimerInv'
<1>1. /\ UNCHANGED <<live, slot, starts, called, dropped, overtaken>>
      /\ waits[a] # <<>> /\ waits' = [waits EXCEPT ![a] = Tail(waits[a])]
      /\ waits \in [Addresses -> Seq(Waits)] /\ waits[a] \in Seq(Waits)
  BY DEF AbortedHandler, TimerInv
<1>2. /\ Tail(waits[a]) \in Seq(Waits)
      /\ \A i \in 1..Len(Tail(waits[a])) : /\ i + 1 \in 1..Len(waits[a])
                                           /\ Tail(waits[a])[i] = waits[a][i + 1]
  BY <1>1, WithoutOldest
<1>3. /\ waits' \in [Addresses -> Seq(Waits)] /\ waits'[a] = Tail(waits[a])
      /\ \A b \in Addresses \ {a} : waits'[b] = waits[b]
  BY <1>1, <1>2
<1>4. WaitsMatch'
  <2>1. ASSUME NEW b \in Addresses, NEW i \in 1..Len(waits'[b])
        PROVE  \E j \in 1..Len(waits[b]) : waits'[b][i] = waits[b][j]
    <3>1. CASE b = a
      BY <1>2, <1>3, <3>1
    <3>2. CASE b # a
      BY <1>3, <3>2
    <3> QED BY <3>1, <3>2
  <2> QED BY <1>1, <2>1 DEF TimerInv, WaitsMatch
<1>5. OnePlace'
  BY <1>1 DEF TimerInv, OnePlace
<1> QED BY <1>1, <1>3, <1>4, <1>5 DEF TimerInv

\* The handler of an expired wait takes the callback from the registry.
LEMMA HandlerKeeps ==
    ASSUME TimerInv, NEW a \in Addresses, Handler(a)
    PROVE  TimerInv'
<1>1. /\ UNCHANGED <<live, starts, dropped, overtaken>>
      /\ waits[a] # <<>> /\ waits' = [waits EXCEPT ![a] = Tail(waits[a])]
      /\ waits \in [Addresses -> Seq(Waits)] /\ waits[a] \in Seq(Waits)
      /\ slot \in [Addresses -> 0..starts] /\ starts \in Nat
      /\ slot' = [slot EXCEPT ![a] = NoCallback]
      /\ Head(waits[a]).state = "expired"
  BY TimerAssumption DEF Handler, TimerInv
<1>2. /\ Tail(waits[a]) \in Seq(Waits) /\ 1 \in 1..Len(waits[a])
      /\ Head(waits[a]) = waits[a][1]
      /\ \A i \in 1..Len(Tail(waits[a])) : /\ i + 1 \in 1..Len(waits[a])
                                           /\ Tail(waits[a])[i] = waits[a][i + 1]
  BY <1>1, WithoutOldest
<1>3. /\ waits' \in [Addresses -> Seq(Waits)]
      /\ \A b \in Addresses \ {a} : waits'[b] = waits[b]
  BY <1>1, <1>2
<1>4. PICK new : new = <<Head(waits[a]).id, slot[a]>>
  OBVIOUS
<1>5. called' = called \cup {new} /\ called \subseteq Nat \X (0..starts)
  BY <1>4 DEF Handler, TimerInv
<1>6. new \in Nat \X (0..starts) /\ new[1] = waits[a][1].id /\ new[2] = slot[a]
  <2>1. waits[a][1] \in Waits
    BY <1>1, <1>2
  <2>2. waits[a][1].id \in Nat /\ slot[a] \in 0..starts
    BY <1>1, <2>1, TimerAssumption DEF Waits
  <2> QED BY <1>2, <1>4, <2>2
<1>7. called' \subseteq Nat \X (0..starts)
  BY <1>5, <1>6
<1>8. /\ slot' \in [Addresses -> 0..starts] /\ slot'[a] = NoCallback
      /\ \A b \in Addresses \ {a} : slot'[b] = slot[b]
  BY <1>1 DEF NoCallback
<1>9. OnePlace'
  <2>1. ASSUME NEW b \in Addresses, slot'[b] # NoCallback
        PROVE  /\ slot'[b] \notin dropped'
               /\ \A c \in called' : c[2] # slot'[b]
               /\ \A e \in Addresses : slot'[e] = slot'[b] => e = b
    <3>1. b # a /\ slot'[b] = slot[b]
      BY <1>8, <2>1
    <3>2. /\ slot[b] \notin dropped /\ slot[b] # slot[a]
          /\ \A c \in called : c[2] # slot[b]
          /\ \A e \in Addresses : slot[e] = slot[b] => e = b
      BY <2>1, <3>1 DEF TimerInv, OnePlace
    <3>3. \A c \in called' : c[2] # slot'[b]
      BY <1>5, <1>6, <3>1, <3>2
    <3> QED BY <1>1, <1>8, <2>1, <3>1, <3>2, <3>3
  <2>2. new[2] \notin dropped
    <3>1. CASE slot[a] = NoCallback
      BY <1>1, <1>6, <3>1 DEF TimerInv, NoCallback
    <3>2. CASE slot[a] # NoCallback
      BY <1>6, <3>2 DEF TimerInv, OnePlace
    <3> QED BY <3>1, <3>2
  <2>3. new[2] # NoCallback => \A d \in called : d[2] # new[2]
    BY <1>6 DEF TimerInv, OnePlace
  <2>4. ASSUME NEW c \in called'
        PROVE  /\ c[2] \notin dropped'
               /\ c[2] # NoCallback => \A d \in called' : d[2] = c[2] => d = c
    <3>1. \A d \in called : /\ d[2] \notin dropped
                            /\ d[2] # NoCallback => \A e \in called : e[2] = d[2] => e = d
      BY DEF TimerInv, OnePlace
    <3> QED BY <1>1, <1>5, <2>2, <2>3, <2>4, <3>1
  <2> QED BY <2>1, <2>4 DEF OnePlace
<1>10. WaitsMatch'
  <2> SUFFICES ASSUME overtaken' = "no"
               PROVE  /\ \A b \in Addresses : \A i \in 1..Len(waits'[b]) :
                            waits'[b][i].state # "aborted" =>
                               slot'[b] \in {waits'[b][i].id, NoCallback}
                      /\ \A c \in called' : c[2] \in {c[1], NoCallback}
      BY DEF WaitsMatch
  <2>1. overtaken = "no"
    BY <1>1
  <2>2. \A b \in Addresses : slot'[b] = NoCallback
                             \/ (waits'[b] = waits[b] /\ slot'[b] = slot[b])
    BY <1>3, <1>8
  <2>3. slot[a] \in {waits[a][1].id, NoCallback}
    BY <1>1, <1>2, <2>1 DEF TimerInv, WaitsMatch
  <2>4. new[2] \in {new[1], NoCallback}
    BY <1>6, <2>3
  <2>5. \A c \in called' : c[2] \in {c[1], NoCallback}
    BY <1>5, <2>1, <2>4 DEF TimerInv, WaitsMatch
  <2> QED BY <2>1, <2>2, <2>5 DEF TimerInv, WaitsMatch
<1> QED BY <1>1, <1>3, <1>7, <1>8, <1>9, <1>10 DEF TimerInv

\* A new timer of other code, and steps that leave the timers alone.
LEMMA QuietKeeps ==
    ASSUME TimerInv, UNCHANGED timerVars \/ \E a \in Addresses : New(a)
    PROVE  TimerInv'
<1>1. /\ UNCHANGED <<slot, waits, starts, called, dropped, overtaken>>
      /\ live' \subseteq Addresses
  BY DEF timerVars, New, TimerInv
<1> QED BY <1>1 DEF TimerInv, OnePlace, WaitsMatch

\* Every step of the tasks does to the timers what some timer operation does.
LEMMA TimersStep == TimerInv /\ [Next]_vars => TimerInv'
<1> SUFFICES ASSUME TimerInv, [Next]_vars PROVE TimerInv'
    OBVIOUS
<1>1. ASSUME NEW t \in TaskIds, Spawn(t) \/ WaitIrc(t) \/ Lookup(t) \/ Ask(t) \/ Finish(t)
                                \/ ResumeIrc(t) \/ LookupHandler(t)
      PROVE  TimerInv'
  BY <1>1, QuietKeeps DEF Spawn, WaitIrc, Lookup, Ask, Finish, ResumeIrc, LookupHandler
<1>2. ASSUME NEW t \in TaskIds, WaitIrcTimeout(t) \/ Sleep(t)
      PROVE  TimerInv'
  <2>1. PICK a \in Addresses : live' = live \cup {a} /\ Begin(a)
    BY <1>2 DEF WaitIrcTimeout, Sleep, StartTimer
  <2>2. live' \subseteq Addresses
    BY <2>1 DEF TimerInv
  <2> QED BY <2>1, <2>2, BeginKeeps
<1>3. ASSUME NEW a \in Addresses, OtherTimers(a)
      PROVE  TimerInv'
  <2>1. CASE New(a)
    BY <2>1, QuietKeeps
  <2>2. CASE Start(a)
    BY <2>2, BeginKeeps DEF Start, TimerInv
  <2>3. CASE Cancel(a) \/ Gc(a)
    <3>1. Forget(a) /\ live' \subseteq Addresses
      BY <2>3 DEF Cancel, Gc, TimerInv
    <3> QED BY <3>1, ForgetKeeps
  <2> QED BY <1>3, <2>1, <2>2, <2>3 DEF OtherTimers
<1>4. ASSUME NEW a \in Addresses, TimerService(a)
      PROVE  TimerInv'
  BY <1>4, ExpireKeeps, AbortedKeeps DEF TimerService
<1>5. ASSUME NEW a \in Addresses, TimerHandler(a)
      PROVE  TimerInv'
  BY <1>5, HandlerKeeps DEF TimerHandler
<1>6. CASE PromptEnds \/ CloseIrc \/ UNCHANGED vars
  BY <1>6, QuietKeeps DEF PromptEnds, CloseIrc, vars
<1> QED BY <1>1, <1>2, <1>3, <1>4, <1>5, <1>6 DEF Next, TaskStep

\* There is no timer at the start.
LEMMA TimersInit == Init => TimerInv
<1> SUFFICES ASSUME Init PROVE TimerInv
    OBVIOUS
<1>1. /\ live = {} /\ slot = [a \in Addresses |-> NoCallback]
      /\ waits = [a \in Addresses |-> <<>>]
      /\ starts = 0 /\ called = {} /\ dropped = {} /\ overtaken = "no"
  BY DEF Init, TimerInit
<1>2. starts \in 0..MaxStarts /\ slot \in [Addresses -> 0..starts]
  BY <1>1, TimerAssumption DEF NoCallback
<1>3. waits \in [Addresses -> Seq(Waits)] /\ \A a \in Addresses : Len(waits[a]) = 0
  BY <1>1
<1>4. OnePlace
  BY <1>1 DEF OnePlace
<1>5. WaitsMatch
  BY <1>1, <1>3 DEF WaitsMatch
<1> QED BY <1>1, <1>2, <1>3, <1>4, <1>5 DEF TimerInv

\* For any number of timers and starts, a callback that was cancelled is never
\* called, none is called twice, and unless a start overtook an expired wait
\* each wait calls its own callback or none.
THEOREM TimersCorrect == Spec => []TimerIsTrue
<1>1. ASSUME TimerInv PROVE TimerIsTrue
  <2>1. slot \in [Addresses -> 0..MaxStarts]
    BY <1>1, TimerAssumption DEF TimerInv
  <2>2. ASSUME NEW a \in Addresses, NEW i \in DOMAIN waits[a]
        PROVE  /\ waits[a][i].id \in 1..MaxStarts
               /\ waits[a][i].state \in {"waiting", "expired", "aborted"}
    <3>1. waits[a][i] \in Waits
      BY <1>1 DEF TimerInv
    <3> QED BY <3>1 DEF Waits, WaitStates
  <2>3. TimerTypeOK
    BY <1>1, <2>1, <2>2 DEF TimerInv, TimerTypeOK
  <2> QED BY <1>1, <2>3 DEF TimerInv, OnePlace, WaitsMatch, TimerIsTrue
<1> QED BY <1>1, TimersInit, TimersStep, PTL DEF Spec

-----------------------------------------------------------------------------
(* The tasks                                                                *)

Owners == [task : TaskIds \cup {NoTask}, call : {"sleep", "wait_irc", "other"}]

\* As long as nobody has asked while being told, a task that waits for the
\* password has the prompt, and so has the lower one of two coroutines.
Prompted ==
    askedAgain = "no" =>
       /\ \A t \in TaskIds : co[t] = "suspended" /\ why[t] = "password" => password_task = t
       /\ Len(stack) <= 2
       /\ Len(stack) = 2 => password_task = stack[1]

\* A task that was started and is not dead is in the queue or its cancel has
\* raised.
Accounted ==
    /\ IsFiniteSet(stragglers)
    /\ \A t \in TaskIds : co[t] \in {"new", "dead"} \/ t \in queue \cup stragglers
    /\ \A t \in queue \cup stragglers : co[t] # "new"
    /\ session = "closed" => queue = {}
    /\ ClosingGetsThrough

\* The inductive invariant of the tasks.
TaskInv ==
    /\ TypeOK
    /\ owner \in [1..MaxStarts -> Owners]
    /\ why \in [TaskIds -> {"nil", "irc", "sleep", "dns", "password"}]
    /\ Prompted
    /\ Accounted

\* What is on a stack.
LEMMA OnStack ==
    ASSUME NEW s \in Seq(TaskIds)
    PROVE  /\ \A x : x \in Range(s) <=> \E i \in 1..Len(s) : x = s[i]
           /\ Range(s) \subseteq TaskIds
           /\ s # <<>> => Last(s) = s[Len(s)] /\ Last(s) \in Range(s) /\ Len(s) \in 1..Len(s)
BY DEF Range, Last

\* The stacks that the steps make.
LEMMA NewStacks ==
    /\ Range(<<>>) = {} /\ Len(<<>>) = 0 /\ <<>> \in Seq(TaskIds)
    /\ \A t \in TaskIds : /\ <<t>> \in Seq(TaskIds) /\ Len(<<t>>) = 1
                          /\ Range(<<t>>) = {t}
BY DEF Range

\* In a stack of two, the one that is not on top is the first.
LEMMA BelowTheTop ==
    ASSUME NEW n \in Nat, n <= 2, NEW i \in 1..n, i # n
    PROVE  i = 1 /\ n = 2
OBVIOUS

\* When the innermost coroutine stops, the others wait for the password, and
\* no task that was down comes up.
LEMMA UnwindEffect ==
    ASSUME TaskInv, NEW t \in TaskIds, Running(t),
           NEW to \in {"suspended", "dead"}, Unwind(t, to)
    PROVE  /\ stack' = <<>> /\ co[t] \in {"running", "normal"} /\ co'[t] = to
           /\ co' \in [TaskIds -> {"new", "running", "normal", "suspended", "dead"}]
           /\ \A x \in TaskIds : co'[x] \notin {"running", "normal"}
           /\ \A x \in TaskIds : co[x] = "dead" => co'[x] = "dead"
           /\ \A x \in TaskIds : co'[x] = "new" <=> co[x] = "new"
           /\ \A x \in TaskIds \ {t} : co'[x] = "suspended" =>
                 \/ co[x] = "suspended"
                 \/ askedAgain = "no" => password_task = x
           /\ Len(stack) = 1 => \A x \in TaskIds \ {t} : co'[x] = co[x]
<1>1. /\ stack \in Seq(TaskIds) /\ stack # <<>> /\ t = Last(stack)
      /\ co \in [TaskIds -> {"new", "running", "normal", "suspended", "dead"}]
      /\ \A x \in TaskIds : co[x] \in {"running", "normal"} <=> x \in Range(stack)
  BY DEF TaskInv, TypeOK, Running
<1>2. /\ stack' = <<>>
      /\ co' = [x \in TaskIds |-> IF x = t THEN to
                                  ELSE IF x \in Range(stack) THEN "suspended" ELSE co[x]]
  BY DEF Unwind
<1>3. /\ t \in Range(stack) /\ t = stack[Len(stack)]
      /\ \A x \in Range(stack) : \E i \in 1..Len(stack) : x = stack[i]
      /\ Len(stack) \in Nat
  BY <1>1, OnStack
<1>4. /\ co' \in [TaskIds -> {"new", "running", "normal", "suspended", "dead"}]
      /\ co'[t] = to
      /\ \A x \in TaskIds \ {t} : co'[x] = IF x \in Range(stack) THEN "suspended" ELSE co[x]
  BY <1>1, <1>2
<1>5. ASSUME NEW x \in TaskIds \ {t}, x \in Range(stack), askedAgain = "no"
      PROVE  password_task = x
  <2>1. PICK i \in 1..Len(stack) : x = stack[i]
    BY <1>3, <1>5
  <2>2. Len(stack) <= 2 /\ (Len(stack) = 2 => password_task = stack[1])
    BY <1>5 DEF TaskInv, Prompted
  <2>3. i # Len(stack)
    BY <1>3, <1>5, <2>1
  <2>4. i = 1 /\ Len(stack) = 2
    BY <1>3, <2>2, <2>3, BelowTheTop
  <2> QED BY <2>1, <2>2, <2>4
<1>6. ASSUME Len(stack) = 1, NEW x \in TaskIds \ {t} PROVE x \notin Range(stack)
  BY <1>3, <1>6
<1> QED BY <1>1, <1>2, <1>3, <1>4, <1>5, <1>6

\* Resuming a task: a suspended one runs, nothing else changes.
LEMMA ResumeEffect ==
    ASSUME TaskInv, Idle, NEW t \in TaskIds \cup {NoTask}, Resume(t)
    PROVE  /\ co' \in [TaskIds -> {"new", "running", "normal", "suspended", "dead"}]
           /\ stack' \in Seq(TaskIds) /\ Len(stack') <= 1
           /\ \A x \in TaskIds : co'[x] \in {"running", "normal"} <=> x \in Range(stack')
           /\ \A x \in TaskIds : co[x] = "dead" => co'[x] = "dead"
           /\ \A x \in TaskIds : co'[x] = "new" <=> co[x] = "new"
           /\ \A x \in TaskIds : co'[x] = "suspended" => co[x] = "suspended" /\ x # t
<1>1. /\ stack = <<>>
      /\ co \in [TaskIds -> {"new", "running", "normal", "suspended", "dead"}]
      /\ \A x \in TaskIds : co[x] \notin {"running", "normal"}
  BY NewStacks DEF TaskInv, TypeOK, Idle
<1>2. CASE t # NoTask /\ co[t] = "suspended"
  <2>1. t \in TaskIds /\ co' = [co EXCEPT ![t] = "running"] /\ stack' = <<t>>
    BY <1>2 DEF Resume
  <2>2. /\ co'[t] = "running" /\ \A x \in TaskIds \ {t} : co'[x] = co[x]
        /\ co' \in [TaskIds -> {"new", "running", "normal", "suspended", "dead"}]
    BY <1>1, <2>1
  <2>3. stack' \in Seq(TaskIds) /\ Len(stack') = 1 /\ Range(stack') = {t}
    BY <2>1, NewStacks
  <2> QED BY <1>1, <1>2, <2>1, <2>2, <2>3
<1>3. CASE ~(t # NoTask /\ co[t] = "suspended")
  <2>1. co' = co /\ stack' = <<>>
    BY <1>1, <1>3 DEF Resume
  <2>2. \A x \in TaskIds : co[x] = "suspended" => x # t
    BY <1>3, TasksAssumption
  <2>3. stack' \in Seq(TaskIds) /\ Len(stack') <= 1 /\ Range(stack') = {}
    BY <2>1, NewStacks
  <2> QED BY <1>1, <2>1, <2>2, <2>3
<1> QED BY <1>2, <1>3

\* A step that starts no task and brings none back up, and takes at most a dead
\* one out of the queue.
LEMMA AccountedKept ==
    ASSUME TaskInv,
           \A x \in TaskIds : co[x] = "dead" => co'[x] = "dead",
           \A x \in TaskIds : co'[x] = "new" <=> co[x] = "new",
           NEW Q \in SUBSET TaskIds, queue' = queue \ Q, \A x \in Q : co'[x] = "dead",
           UNCHANGED <<session, stragglers, failures>>
    PROVE  Accounted'
<1>1. queue \subseteq TaskIds /\ stragglers \subseteq TaskIds /\ Accounted
  BY DEF TaskInv, TypeOK
<1>2. /\ IsFiniteSet(stragglers)'
      /\ (session = "closed" => queue = {})'
      /\ (queue \cap stragglers = {})'
      /\ (failures = Cardinality(stragglers))'
  BY <1>1 DEF Accounted, ClosingGetsThrough
<1>3. \A x \in TaskIds : co'[x] \in {"new", "dead"} \/ x \in queue' \cup stragglers'
  BY <1>1 DEF Accounted
<1>4. \A x \in queue' \cup stragglers' : co'[x] # "new"
  BY <1>1 DEF Accounted
<1>5. ClosingGetsThrough'
  BY <1>2, <1>3 DEF ClosingGetsThrough
<1> QED BY <1>2, <1>3, <1>4, <1>5 DEF Accounted

\* A task ends, or yields for something else than the password.
LEMMA StopKeeps ==
    ASSUME TaskInv, NEW t \in TaskIds, Running(t),
           NEW to \in {"suspended", "dead"}, Unwind(t, to),
           why' \in [TaskIds -> {"nil", "irc", "sleep", "dns", "password"}],
           \A x \in TaskIds \ {t} : why'[x] = why[x],
           to = "suspended" => why'[t] # "password",
           owner' \in [1..MaxStarts -> Owners],
           want' \subseteq TaskIds, lookups' \subseteq TaskIds,
           queue' = IF to = "dead" THEN queue \ {t} ELSE queue,
           UNCHANGED <<password_task, session, stragglers, failures, askedAgain>>
    PROVE  TaskInv'
<1>1. /\ stack' = <<>> /\ co'[t] = to
      /\ co' \in [TaskIds -> {"new", "running", "normal", "suspended", "dead"}]
      /\ \A x \in TaskIds : co'[x] \notin {"running", "normal"}
      /\ \A x \in TaskIds : co[x] = "dead" => co'[x] = "dead"
      /\ \A x \in TaskIds : co'[x] = "new" <=> co[x] = "new"
      /\ \A x \in TaskIds \ {t} : co'[x] = "suspended" =>
            \/ co[x] = "suspended"
            \/ askedAgain = "no" => password_task = x
  BY UnwindEffect
<1>2. stack' \in Seq(TaskIds) /\ Len(stack') = 0 /\ Range(stack') = {}
  BY <1>1, NewStacks
<1>3. TypeOK'
  BY <1>1, <1>2 DEF TaskInv, TypeOK
<1>4. Prompted'
  <2>1. \A x \in TaskIds : askedAgain = "no" /\ co'[x] = "suspended" /\ why'[x] = "password"
                              => password_task = x
    BY <1>1 DEF TaskInv, Prompted
  <2> QED BY <1>2, <2>1 DEF Prompted
<1>5. Accounted'
  <2>1. CASE to = "dead"
    <3>1. {t} \in SUBSET TaskIds /\ queue' = queue \ {t} /\ \A x \in {t} : co'[x] = "dead"
      BY <1>1, <2>1
    <3> QED BY <1>1, <3>1, AccountedKept
  <2>2. CASE to # "dead"
    <3>1. {} \in SUBSET TaskIds /\ queue' = queue \ {} /\ \A x \in {} : co'[x] = "dead"
      BY <2>2
    <3> QED BY <1>1, <3>1, AccountedKept
  <2> QED BY <2>1, <2>2
<1> QED BY <1>3, <1>4, <1>5 DEF TaskInv

\* An event resumes a task, or tries to; the prompt may be gone if it was his.
LEMMA ResumeKeeps ==
    ASSUME TaskInv, Idle, NEW t \in TaskIds \cup {NoTask}, Resume(t),
           want' \subseteq TaskIds, lookups' \subseteq TaskIds,
           UNCHANGED <<queue, why, owner, session, stragglers, failures, askedAgain>>,
           password_task' = password_task \/ (password_task' = NoTask /\ password_task = t)
    PROVE  TaskInv'
<1>1. /\ co' \in [TaskIds -> {"new", "running", "normal", "suspended", "dead"}]
      /\ stack' \in Seq(TaskIds) /\ Len(stack') <= 1
      /\ \A x \in TaskIds : co'[x] \in {"running", "normal"} <=> x \in Range(stack')
      /\ \A x \in TaskIds : co[x] = "dead" => co'[x] = "dead"
      /\ \A x \in TaskIds : co'[x] = "new" <=> co[x] = "new"
      /\ \A x \in TaskIds : co'[x] = "suspended" => co[x] = "suspended" /\ x # t
  BY ResumeEffect
<1>2. TypeOK'
  BY <1>1 DEF TaskInv, TypeOK
<1>3. Len(stack') \in Nat /\ Len(stack') <= 1
  BY <1>1
<1>4. Len(stack') <= 2 /\ Len(stack') # 2
  BY <1>3
<1>5. \A x \in TaskIds : askedAgain = "no" /\ co'[x] = "suspended" /\ why[x] = "password"
                            => password_task' = x
  BY <1>1 DEF TaskInv, Prompted
<1>6. Prompted'
  BY <1>4, <1>5 DEF Prompted
<1>7. Accounted'
  <2>1. {} \in SUBSET TaskIds /\ queue' = queue \ {} /\ \A x \in {} : co'[x] = "dead"
    OBVIOUS
  <2> QED BY <1>1, <2>1, AccountedKept
<1> QED BY <1>2, <1>6, <1>7 DEF TaskInv

\* A task takes the prompt: it yields, or resumes the one that had it.
LEMMA AskKeeps ==
    ASSUME TaskInv, NEW t \in TaskIds, Ask(t)
    PROVE  TaskInv'
<1>1. /\ Running(t) /\ password_task' = t
      /\ askedAgain' = IF Len(stack) > 1 THEN "yes" ELSE askedAgain
      /\ why' = [why EXCEPT ![t] = "password"]
      /\ UNCHANGED <<queue, want, lookups, owner, session, stragglers, failures>>
  BY DEF Ask, Yield
<1>2. /\ why' \in [TaskIds -> {"nil", "irc", "sleep", "dns", "password"}]
      /\ \A x \in TaskIds \ {t} : why'[x] = why[x]
  BY <1>1 DEF TaskInv
<1>3. /\ stack \in Seq(TaskIds) /\ stack # <<>> /\ Len(stack) \in Nat \ {0}
      /\ t = stack[Len(stack)] /\ t \in Range(stack)
      /\ co \in [TaskIds -> {"new", "running", "normal", "suspended", "dead"}]
      /\ \A x \in TaskIds : co[x] \in {"running", "normal"} <=> x \in Range(stack)
      /\ Range(stack) \subseteq TaskIds
      /\ \A x : x \in Range(stack) <=> \E i \in 1..Len(stack) : x = stack[i]
  BY <1>1, OnStack DEF TaskInv, TypeOK, Running
<1>4. askedAgain' = "no" => askedAgain = "no" /\ Len(stack) = 1
  <2>1. askedAgain' = "no" => askedAgain = "no" /\ ~(Len(stack) > 1)
    BY <1>1
  <2>2. Len(stack) \in Nat \ {0}
    BY <1>3
  <2>3. ~(Len(stack) > 1) => Len(stack) = 1
    BY <2>2
  <2> QED BY <2>1, <2>3
<1>5. CASE password_task # NoTask /\ co[password_task] = "suspended"
  <2>1. /\ password_task \in TaskIds /\ password_task # t
        /\ password_task \notin Range(stack)
    BY <1>3, <1>5 DEF TaskInv, TypeOK
  <2>2. /\ co' = [co EXCEPT ![t] = "normal", ![password_task] = "running"]
        /\ stack' = Append(stack, password_task)
    BY <1>5 DEF Ask
  <2>3. /\ co' \in [TaskIds -> {"new", "running", "normal", "suspended", "dead"}]
        /\ co'[t] = "normal" /\ co'[password_task] = "running"
        /\ \A x \in TaskIds \ {t, password_task} : co'[x] = co[x]
    BY <1>3, <2>1, <2>2
  <2>4. /\ stack' \in Seq(TaskIds) /\ Len(stack') = Len(stack) + 1
        /\ \A i \in 1..Len(stack) : stack'[i] = stack[i]
        /\ stack'[Len(stack) + 1] = password_task
    BY <1>3, <2>1, <2>2
  <2>5. \A x : x \in Range(stack') <=> \E i \in 1..Len(stack') : x = stack'[i]
    BY <2>4, OnStack
  <2>6. \A x \in TaskIds : x \in Range(stack') <=> x \in Range(stack) \/ x = password_task
    <3>1. ASSUME NEW x \in TaskIds, x \in Range(stack') PROVE x \in Range(stack) \/ x = password_task
      <4>1. PICK i \in 1..Len(stack') : x = stack'[i]
        BY <2>5, <3>1
      <4>2. i \in 1..Len(stack) \/ i = Len(stack) + 1
        BY <1>3, <2>4, <4>1
      <4> QED BY <1>3, <2>4, <4>1, <4>2
    <3>2. ASSUME NEW x \in TaskIds, x \in Range(stack) PROVE x \in Range(stack')
      <4>1. PICK i \in 1..Len(stack) : x = stack[i]
        BY <1>3, <3>2
      <4>2. i \in 1..Len(stack')
        BY <1>3, <2>4, <4>1
      <4> QED BY <2>4, <2>5, <4>1, <4>2
    <3>3. password_task \in Range(stack')
      <4>1. Len(stack) + 1 \in 1..Len(stack')
        BY <1>3, <2>4
      <4> QED BY <2>4, <2>5, <4>1
    <3> QED BY <3>1, <3>2, <3>3
  <2>7. \A x \in TaskIds : co'[x] \in {"running", "normal"} <=> x \in Range(stack')
    BY <1>3, <2>3, <2>6
  <2>8. TypeOK'
    BY <1>1, <2>3, <2>4, <2>7 DEF TaskInv, TypeOK
  <2>9. Prompted'
    <3> SUFFICES ASSUME askedAgain' = "no"
                 PROVE  /\ \A x \in TaskIds : co'[x] = "suspended" /\ why'[x] = "password"
                                                => password_task' = x
                        /\ Len(stack') <= 2
                        /\ Len(stack') = 2 => password_task' = stack'[1]
        BY DEF Prompted
    <3>1. Len(stack) = 1 /\ stack'[1] = t
      <4>1. Len(stack) = 1
        BY <1>4
      <4>2. 1 \in 1..Len(stack) /\ stack[1] = t
        BY <1>3, <4>1
      <4> QED BY <2>4, <4>1, <4>2
    <3>2. Len(stack') = 2
      BY <2>4, <3>1
    <3>3. \A x \in TaskIds : ~(co'[x] = "suspended" /\ why'[x] = "password")
      BY <1>2, <1>4, <2>3 DEF TaskInv, Prompted
    <3> QED BY <1>1, <3>1, <3>2, <3>3
  <2>10. \A x \in TaskIds : /\ co[x] = "dead" => co'[x] = "dead"
                            /\ co'[x] = "new" <=> co[x] = "new"
    BY <1>3, <1>5, <2>3
  <2>11. Accounted'
    <3>1. {} \in SUBSET TaskIds /\ queue' = queue \ {} /\ \A x \in {} : co'[x] = "dead"
      BY <1>1
    <3> QED BY <1>1, <2>10, <3>1, AccountedKept
  <2> QED BY <1>1, <1>2, <2>8, <2>9, <2>11 DEF TaskInv
<1>6. CASE ~(password_task # NoTask /\ co[password_task] = "suspended")
  <2>1. Unwind(t, "suspended")
    BY <1>6 DEF Ask, Yield
  <2>2. /\ stack' = <<>> /\ co'[t] = "suspended"
        /\ co' \in [TaskIds -> {"new", "running", "normal", "suspended", "dead"}]
        /\ \A x \in TaskIds : co'[x] \notin {"running", "normal"}
        /\ \A x \in TaskIds : co[x] = "dead" => co'[x] = "dead"
        /\ \A x \in TaskIds : co'[x] = "new" <=> co[x] = "new"
        /\ Len(stack) = 1 => \A x \in TaskIds \ {t} : co'[x] = co[x]
    BY <1>1, <2>1, UnwindEffect
  <2>3. stack' \in Seq(TaskIds) /\ Len(stack') = 0 /\ Range(stack') = {}
    BY <2>2, NewStacks
  <2>4. TypeOK'
    BY <1>1, <2>2, <2>3 DEF TaskInv, TypeOK
  <2>5. Prompted'
    <3> SUFFICES ASSUME askedAgain' = "no"
                 PROVE  \A x \in TaskIds : co'[x] = "suspended" /\ why'[x] = "password"
                                             => password_task' = x
        BY <2>3 DEF Prompted
    <3>1. ASSUME NEW x \in TaskIds \ {t} PROVE ~(co'[x] = "suspended" /\ why'[x] = "password")
      BY <1>2, <1>4, <1>6, <2>2, TasksAssumption DEF TaskInv, Prompted
    <3> QED BY <1>1, <3>1
  <2>6. Accounted'
    <3>1. {} \in SUBSET TaskIds /\ queue' = queue \ {} /\ \A x \in {} : co'[x] = "dead"
      BY <1>1
    <3> QED BY <1>1, <2>2, <3>1, AccountedKept
  <2> QED BY <1>1, <1>2, <2>4, <2>5, <2>6 DEF TaskInv
<1> QED BY <1>5, <1>6

\* What a running task does.
LEMMA TaskKeeps ==
    ASSUME TimerInv, TaskInv, NEW t \in TaskIds, TaskStep(t)
    PROVE  TaskInv'
<1>1. queue \subseteq TaskIds /\ want \subseteq TaskIds /\ lookups \subseteq TaskIds
  BY DEF TaskInv, TypeOK
<1>2. ASSUME NEW reason \in {"irc", "sleep", "dns"}, Yield(t, reason)
      PROVE  /\ Unwind(t, "suspended")
             /\ why' \in [TaskIds -> {"nil", "irc", "sleep", "dns", "password"}]
             /\ \A x \in TaskIds \ {t} : why'[x] = why[x]
             /\ why'[t] # "password"
  BY <1>2 DEF Yield, TaskInv
<1>3. ASSUME NEW call \in {"sleep", "wait_irc"}, StartTimer(t, call)
      PROVE  owner' \in [1..MaxStarts -> Owners]
  <2>1. owner' = [owner EXCEPT ![starts + 1] = [task |-> t, call |-> call]]
    BY <1>3 DEF StartTimer
  <2>2. [task |-> t, call |-> call] \in Owners
    BY DEF Owners
  <2> QED BY <2>1, <2>2 DEF TaskInv
<1>4. owner \in [1..MaxStarts -> Owners]
  BY DEF TaskInv
<1>5. CASE WaitIrc(t)
  <2>1. /\ Running(t) /\ Yield(t, "irc") /\ want' = want \cup {t}
        /\ UNCHANGED <<queue, lookups, owner, password_task, session,
                       stragglers, failures, askedAgain>>
    BY <1>5 DEF WaitIrc
  <2> QED BY <1>1, <1>2, <1>4, <2>1, StopKeeps
<1>6. CASE WaitIrcTimeout(t)
  <2>1. /\ Running(t) /\ Yield(t, "irc") /\ StartTimer(t, "wait_irc") /\ want' = want \cup {t}
        /\ UNCHANGED <<queue, lookups, password_task, session,
                       stragglers, failures, askedAgain>>
    BY <1>6 DEF WaitIrcTimeout
  <2> QED BY <1>1, <1>2, <1>3, <2>1, StopKeeps
<1>7. CASE Sleep(t)
  <2>1. /\ Running(t) /\ Yield(t, "sleep") /\ StartTimer(t, "sleep")
        /\ UNCHANGED <<queue, want, lookups, password_task, session,
                       stragglers, failures, askedAgain>>
    BY <1>7 DEF Sleep
  <2> QED BY <1>1, <1>2, <1>3, <2>1, StopKeeps
<1>8. CASE Lookup(t)
  <2>1. /\ Running(t) /\ Yield(t, "dns") /\ lookups' = lookups \cup {t}
        /\ UNCHANGED <<queue, want, owner, password_task, session,
                       stragglers, failures, askedAgain>>
    BY <1>8 DEF Lookup
  <2> QED BY <1>1, <1>2, <1>4, <2>1, StopKeeps
<1>9. CASE Ask(t)
  BY <1>9, AskKeeps
<1>10. CASE Finish(t)
  <2>1. /\ Running(t) /\ Unwind(t, "dead") /\ queue' = queue \ {t}
        /\ UNCHANGED <<why, want, lookups, owner, password_task, session,
                       stragglers, failures, askedAgain>>
    BY <1>10 DEF Finish
  <2>2. why \in [TaskIds -> {"nil", "irc", "sleep", "dns", "password"}]
    BY DEF TaskInv
  <2> QED BY <1>1, <1>4, <2>1, <2>2, StopKeeps
<1> QED BY <1>5, <1>6, <1>7, <1>8, <1>9, <1>10 DEF TaskStep

\* A task is started.
LEMMA SpawnKeeps ==
    ASSUME TaskInv, NEW t \in TaskIds, Spawn(t)
    PROVE  TaskInv'
<1>1. /\ Idle /\ co[t] = "new" /\ co' = [co EXCEPT ![t] = "running"] /\ stack' = <<t>>
      /\ session = "open"
      /\ queue' = queue \cup {t}
      /\ UNCHANGED <<why, want, lookups, owner, password_task, session,
                       stragglers, failures, askedAgain>>
  BY DEF Spawn
<1>2. /\ co \in [TaskIds -> {"new", "running", "normal", "suspended", "dead"}]
      /\ \A x \in TaskIds : co[x] \notin {"running", "normal"}
  BY <1>1, NewStacks DEF TaskInv, TypeOK, Idle
<1>3. /\ co' \in [TaskIds -> {"new", "running", "normal", "suspended", "dead"}]
      /\ co'[t] = "running" /\ \A x \in TaskIds \ {t} : co'[x] = co[x]
  BY <1>1, <1>2
<1>4. stack' \in Seq(TaskIds) /\ Len(stack') = 1 /\ Range(stack') = {t}
  BY <1>1, NewStacks
<1>5. TypeOK'
  BY <1>1, <1>2, <1>3, <1>4 DEF TaskInv, TypeOK
<1>6. Prompted'
  <2>1. Len(stack') <= 2 /\ Len(stack') # 2
    BY <1>4
  <2> QED BY <1>1, <1>3, <2>1 DEF TaskInv, Prompted
<1>7. Accounted'
  <2>1. Accounted /\ queue \subseteq TaskIds /\ stragglers \subseteq TaskIds
    BY DEF TaskInv, TypeOK
  <2>2. t \notin stragglers
    BY <1>1, <2>1 DEF Accounted
  <2>3. (queue \cap stragglers = {})'
    BY <1>1, <2>1, <2>2 DEF Accounted, ClosingGetsThrough
  <2>4. /\ \A x \in TaskIds : co'[x] \in {"new", "dead"} \/ x \in queue' \cup stragglers'
        /\ \A x \in queue' \cup stragglers' : co'[x] # "new"
    BY <1>1, <1>3, <2>1 DEF Accounted
  <2> QED BY <1>1, <2>1, <2>3, <2>4 DEF Accounted, ClosingGetsThrough
<1> QED BY <1>1, <1>5, <1>6, <1>7 DEF TaskInv

\* Events: a message, a timer, an answer, a password.
LEMMA EventKeeps ==
    ASSUME TimerInv, TaskInv,
           \/ \E t \in TaskIds : ResumeIrc(t) \/ LookupHandler(t)
           \/ \E a \in Addresses : TimerHandler(a)
           \/ PromptEnds
    PROVE  TaskInv'
<1>1. queue \subseteq TaskIds /\ want \subseteq TaskIds /\ lookups \subseteq TaskIds
      /\ password_task \in TaskIds \cup {NoTask}
  BY DEF TaskInv, TypeOK
<1>2. ASSUME NEW t \in TaskIds, ResumeIrc(t) PROVE TaskInv'
  <2>1. /\ Idle /\ Resume(t) /\ want' = want \ {t}
        /\ UNCHANGED <<queue, why, lookups, owner, password_task, session,
                       stragglers, failures, askedAgain>>
    BY <1>2 DEF ResumeIrc
  <2> QED BY <1>1, <2>1, ResumeKeeps
<1>3. ASSUME NEW t \in TaskIds, LookupHandler(t) PROVE TaskInv'
  <2>1. /\ Idle /\ Resume(t) /\ lookups' = lookups \ {t}
        /\ UNCHANGED <<queue, why, want, owner, password_task, session,
                       stragglers, failures, askedAgain>>
    BY <1>3 DEF LookupHandler
  <2> QED BY <1>1, <2>1, ResumeKeeps
<1>4. ASSUME NEW a \in Addresses, TimerHandler(a) PROVE TaskInv'
  <2> DEFINE o == IF slot[a] = NoCallback THEN NoOwner ELSE owner[slot[a]]
  <2>1. /\ Idle /\ Resume(o.task)
        /\ want' = IF o.call = "wait_irc" THEN want \ {o.task} ELSE want
        /\ UNCHANGED <<queue, why, lookups, owner, password_task, session,
                       stragglers, failures, askedAgain>>
    BY <1>4 DEF TimerHandler
  <2>2. o \in Owners
    <3>1. CASE slot[a] = NoCallback
      BY <3>1 DEF NoOwner, Owners
    <3>2. CASE slot[a] # NoCallback
      <4>1. slot[a] \in 1..MaxStarts
        BY <3>2, TimerAssumption DEF TimerInv, NoCallback
      <4> QED BY <3>2, <4>1 DEF TaskInv
    <3> QED BY <3>1, <3>2
  <2>3. o.task \in TaskIds \cup {NoTask}
    BY <2>2 DEF Owners
  <2> HIDE DEF o
  <2>4. want' \subseteq TaskIds
    BY <1>1, <2>1
  <2> QED BY <1>1, <2>1, <2>3, <2>4, ResumeKeeps
<1>5. CASE PromptEnds
  <2>1. /\ Idle /\ Resume(password_task) /\ password_task' = NoTask
        /\ UNCHANGED <<queue, why, want, lookups, owner, session,
                       stragglers, failures, askedAgain>>
    BY <1>5 DEF PromptEnds
  <2> QED BY <1>1, <2>1, ResumeKeeps
<1> QED BY <1>2, <1>3, <1>4, <1>5

\* Irc:close: the tasks it reaches are dead, all of them unless one raises.
LEMMA CloseKeeps ==
    ASSUME TaskInv, CloseIrc
    PROVE  TaskInv'
<1>1. PICK done \in SUBSET queue :
         /\ co' = [t \in TaskIds |-> IF t \in done THEN "dead" ELSE co[t]]
         /\ \/ /\ done = queue /\ queue' = {} /\ session' = "closed"
               /\ UNCHANGED <<stragglers, failures>>
            \/ \E t \in queue : /\ queue' = queue \ (done \cup {t})
                                /\ stragglers' = stragglers \cup {t}
                                /\ failures' = failures + 1
                                /\ session' = session
  BY DEF CloseIrc, CancelledOut
<1>2. /\ Idle /\ session = "open"
      /\ UNCHANGED <<stack, why, want, lookups, owner, password_task, askedAgain>>
  BY DEF CloseIrc
<1>3. /\ co \in [TaskIds -> {"new", "running", "normal", "suspended", "dead"}]
      /\ stack = <<>> /\ queue \subseteq TaskIds
      /\ \A x \in TaskIds : co[x] \notin {"running", "normal"}
  BY <1>2, NewStacks DEF TaskInv, TypeOK, Idle
<1>4. /\ co' \in [TaskIds -> {"new", "running", "normal", "suspended", "dead"}]
      /\ \A x \in TaskIds : co'[x] = IF x \in done THEN "dead" ELSE co[x]
  BY <1>1, <1>3
<1>5. stack' \in Seq(TaskIds) /\ Len(stack') = 0 /\ Range(stack') = {}
  BY <1>2, <1>3, NewStacks
<1>6. TypeOK'
  <2>1. /\ queue' \subseteq TaskIds /\ stragglers' \subseteq TaskIds
        /\ session' \in {"open", "closed"}
    BY <1>1, <1>2, <1>3 DEF TaskInv, TypeOK
  <2> QED BY <1>1, <1>2, <1>3, <1>4, <1>5, <2>1 DEF TaskInv, TypeOK
<1>7. Prompted'
  BY <1>2, <1>4, <1>5 DEF TaskInv, Prompted
<1>8. Accounted'
  <2>1. Accounted /\ stragglers \subseteq TaskIds
    BY DEF TaskInv, TypeOK
  <2>2. CASE /\ done = queue /\ queue' = {} /\ session' = "closed"
             /\ UNCHANGED <<stragglers, failures>>
    <3>1. /\ \A x \in TaskIds : co'[x] \in {"new", "dead"} \/ x \in stragglers'
          /\ \A x \in stragglers' : co'[x] # "new"
      BY <1>3, <1>4, <2>1, <2>2 DEF Accounted
    <3> QED BY <2>1, <2>2, <3>1 DEF Accounted, ClosingGetsThrough
  <2>3. ASSUME NEW t \in queue, queue' = queue \ (done \cup {t}),
               stragglers' = stragglers \cup {t}, failures' = failures + 1,
               session' = session
        PROVE  Accounted'
    <3>1. t \notin stragglers /\ IsFiniteSet(stragglers)
      BY <2>1 DEF Accounted, ClosingGetsThrough
    <3>2. /\ IsFiniteSet(stragglers')
          /\ Cardinality(stragglers') = Cardinality(stragglers) + 1
      BY <2>3, <3>1, FS_AddElement
    <3>3. /\ \A x \in TaskIds : co'[x] \in {"new", "dead"} \/ x \in queue' \cup stragglers'
          /\ \A x \in queue' \cup stragglers' : co'[x] # "new"
      BY <1>3, <1>4, <2>1, <2>3 DEF Accounted
    <3>4. (queue \cap stragglers = {})'
      BY <2>1, <2>3 DEF Accounted, ClosingGetsThrough
    <3>5. (failures = Cardinality(stragglers))'
      BY <2>1, <2>3, <3>2 DEF Accounted, ClosingGetsThrough
    <3>6. session' # "closed"
      BY <1>2, <2>3
    <3> QED BY <3>2, <3>3, <3>4, <3>5, <3>6 DEF Accounted, ClosingGetsThrough
  <2> QED BY <1>1, <2>2, <2>3
<1> QED BY <1>2, <1>6, <1>7, <1>8 DEF TaskInv

\* Every step preserves the invariant of the tasks.
LEMMA TasksStep == TimerInv /\ TaskInv /\ [Next]_vars => TaskInv'
<1> SUFFICES ASSUME TimerInv, TaskInv, [Next]_vars PROVE TaskInv'
    OBVIOUS
<1>1. ASSUME NEW t \in TaskIds, Spawn(t) PROVE TaskInv'
  BY <1>1, SpawnKeeps
<1>2. ASSUME NEW t \in TaskIds, TaskStep(t) PROVE TaskInv'
  BY <1>2, TaskKeeps
<1>3. CASE \/ \E t \in TaskIds : ResumeIrc(t) \/ LookupHandler(t)
           \/ \E a \in Addresses : TimerHandler(a)
           \/ PromptEnds
  BY <1>3, EventKeeps
<1>4. CASE CloseIrc
  BY <1>4, CloseKeeps
<1>5. CASE UNCHANGED taskVars
  BY <1>5 DEF taskVars, TaskInv, TypeOK, Prompted, Accounted, ClosingGetsThrough
<1>6. ASSUME NEW a \in Addresses, OtherTimers(a) \/ TimerService(a) PROVE UNCHANGED taskVars
  BY <1>6 DEF OtherTimers, TimerService
<1> QED BY <1>1, <1>2, <1>3, <1>4, <1>5, <1>6 DEF Next, vars

\* No task exists at the start.
LEMMA TasksInit == Init => TaskInv
<1> SUFFICES ASSUME Init PROVE TaskInv
    OBVIOUS
<1>1. /\ co = [t \in TaskIds |-> "new"] /\ stack = <<>> /\ queue = {}
      /\ why = [t \in TaskIds |-> "nil"] /\ want = {} /\ lookups = {}
      /\ session = "open" /\ stragglers = {} /\ failures = 0
      /\ owner = [n \in 1..MaxStarts |-> NoOwner] /\ password_task = NoTask
  BY DEF Init, Nil
<1>2. stack \in Seq(TaskIds) /\ Len(stack) = 0 /\ Range(stack) = {}
  BY <1>1, NewStacks
<1>3. TypeOK
  BY <1>1, <1>2 DEF TypeOK
<1>4. NoOwner \in Owners
  BY DEF NoOwner, Owners
<1>5. owner \in [1..MaxStarts -> Owners]
  BY <1>1, <1>4
<1>6. why \in [TaskIds -> {"nil", "irc", "sleep", "dns", "password"}]
  BY <1>1
<1>7. Prompted
  BY <1>1, <1>2 DEF Prompted
<1>8. Accounted
  <2>1. IsFiniteSet({}) /\ Cardinality({}) = 0
    BY FS_EmptySet
  <2> QED BY <1>1, <2>1 DEF Accounted, ClosingGetsThrough
<1> QED BY <1>3, <1>5, <1>6, <1>7, <1>8 DEF TaskInv

\* For any number of tasks and calls: a task that waits for a password has the
\* prompt, as long as no task asks again while it is told that it lost it.
THEOREM PromptCorrect == Spec => []PromptHasAnOwner
<1>1. TaskInv => PromptHasAnOwner
  BY DEF TaskInv, Prompted, PromptHasAnOwner
<1> QED BY <1>1, TimersInit, TimersStep, TasksInit, TasksStep, PTL DEF Spec

\* For any number of tasks, timers, lookups and messages that still arrive: no
\* task makes closing the session fail twice, and when it has got through no
\* task runs but those whose cancel raised.
THEOREM ClosingCorrect == Spec => []ClosingGetsThrough
<1>1. TaskInv => ClosingGetsThrough
  BY DEF TaskInv, Accounted
<1> QED BY <1>1, TimersInit, TimersStep, TasksInit, TasksStep, PTL DEF Spec
=============================================================================
