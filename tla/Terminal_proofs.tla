-------------------------- MODULE Terminal_proofs --------------------------
(***************************************************************************)
(* Proofs about Terminal, for every finite set of executions and every     *)
(* number of reloads: the keyboard comes back, it is read by nobody else   *)
(* while a program has the terminal, and the callback of a program comes   *)
(* exactly once, when the last operation started for it has completed.     *)
(*                                                                         *)
(* The argument counts.  The suspensions are the executions that hold the  *)
(* terminal; a coroutine of the keyboard is paid for by an execution that  *)
(* has ended, which bounds the coroutines that exist at the same time; and *)
(* stage_ is the number of operations that have not completed.             *)
(*                                                                         *)
(* About Keyboard, for an input of any length: the keys are read as what   *)
(* they are.  Its lemmas say that reading on does not change what the keys *)
(* before were, and what one more key adds to a run of Esc, to a paste and *)
(* to a character; the state of the coroutine agrees with the input.       *)
(*                                                                         *)
(* And about Editor, which the keys reach, for texts, histories and lists  *)
(* of completions of any length: kills are undone by paste, tab replaces   *)
(* what it inserted, and no line of the history is empty.  Its arguments   *)
(* cut the text into what is before, at and after the place of the change. *)
(***************************************************************************)
EXTENDS Terminal, Keyboard, Editor, SequenceTheorems, FiniteSetTheorems, TLAPS

\* executions that have ended, or could not be started
Ended == {p \in Progs : co[p] # "none" /\ outstanding[p] = {}}

ReaderStates == {"none", "waiting", "ready", "aborted", "running"}

\* coroutines that have not ended
Busy(rs) == {r \in Readers : rs[r] # "none"}

\* coroutines that have taken or may take a key, in rs
Awake(rs) == {r \in Readers : rs[r] \in {"waiting", "ready"}}

Counted ==
    /\ drawing_suspended <= Cardinality(Outstanding)
    /\ -Cardinality(Ended) <= drawing_suspended
    /\ reloads = 0 => drawing_suspended = Cardinality(Outstanding)

Slots == Cardinality(Busy(reader)) <= 1 + Cardinality(Ended)

\* what TypeOK says of the variables but drawing_suspended
Typed ==
    /\ reader \in [Readers -> ReaderStates \ {"running"}]
    /\ open \in BOOLEAN
    /\ drawing_suspended \in Int
    /\ outstanding \in [Progs -> SUBSET Stages]
    /\ use_tty \in [Progs -> BOOLEAN]
    /\ co \in [Progs -> {"none", "suspended", "resumed", "cancelled"}]
    /\ reloads \in 0 .. MaxReloads
    /\ missed \in BOOLEAN

Unstarted == \A p \in Progs : co[p] = "none" => outstanding[p] = {}

\* stage_ is the number of operations that have not completed
CallsInv ==
    /\ stage \in [Progs -> Int]
    /\ called \in [Progs -> Nat]
    /\ \A p \in Progs : stage[p] = Cardinality(outstanding[p])
    /\ ResumedAtTheEnd

Alive == open /\ reloads = 0 /\ Outstanding = {} => Awake(reader) # {}

Exclusive ==
    ~missed /\ reloads = 0
    => /\ \A r, s \in Awake(reader) : r = s
       /\ Outstanding # {} => Awake(reader) = {}

\* The inductive invariant.
IInv ==
    /\ Typed
    /\ Unstarted
    /\ CallsInv
    /\ Counted
    /\ Slots
    /\ Alive
    /\ Exclusive

----------------------------------------------------------------------------
(***************************************************************************)
(* Counting                                                                *)
(***************************************************************************)

\* The sets that are counted are finite and no larger than Progs.
LEMMA Finite ==
    /\ Cardinality(Progs) \in Nat
    /\ IsFiniteSet(Outstanding) /\ Cardinality(Outstanding) \in Nat
    /\ IsFiniteSet(Ended) /\ Cardinality(Ended) \in Nat
    /\ Cardinality(Outstanding) <= Cardinality(Progs)
    /\ Cardinality(Ended) <= Cardinality(Progs)
<1>1. IsFiniteSet(Progs)
  BY TerminalAssumption
<1>2. Outstanding \in SUBSET Progs /\ Ended \in SUBSET Progs
  BY DEF Outstanding, Ended
<1>3. /\ IsFiniteSet(Outstanding) /\ Cardinality(Outstanding) <= Cardinality(Progs)
      /\ IsFiniteSet(Ended) /\ Cardinality(Ended) <= Cardinality(Progs)
  BY <1>1, <1>2, FS_Subset
<1> QED BY <1>1, <1>3, FS_CardinalityType

\* There is one coroutine more than there are executions.
LEMMA ReadersFinite ==
    /\ IsFiniteSet(Readers)
    /\ Cardinality(Readers) = Cardinality(Progs) + 1
    /\ \A rs : IsFiniteSet(Busy(rs)) /\ Cardinality(Busy(rs)) \in Nat
<1>1. Cardinality(Progs) \in Nat
  BY Finite
<1>2. IsFiniteSet(Readers) /\ Cardinality(Readers) = Cardinality(Progs) + 1
  <2>1. /\ IsFiniteSet(0 .. Cardinality(Progs))
        /\ Cardinality(0 .. Cardinality(Progs))
             = IF 0 > Cardinality(Progs) THEN 0 ELSE Cardinality(Progs) - 0 + 1
    BY <1>1, FS_Interval
  <2> QED BY <1>1, <2>1 DEF Readers
<1>3. ASSUME NEW rs
      PROVE  IsFiniteSet(Busy(rs)) /\ Cardinality(Busy(rs)) \in Nat
  <2>1. Busy(rs) \in SUBSET Readers
    BY DEF Busy
  <2>2. IsFiniteSet(Busy(rs))
    BY <1>2, <2>1, FS_Subset
  <2> QED BY <2>2, FS_CardinalityType
<1> QED BY <1>2, <1>3

\* While an execution has not ended there is a coroutine for start_input.
LEMMA FreeSlot ==
    ASSUME NEW rs \in [Readers -> ReaderStates],
           Cardinality(Busy(rs)) <= Cardinality(Progs)
    PROVE  \E f \in Readers : rs[f] = "none" /\ StartInput(rs) = [rs EXCEPT ![f] = NewWait]
<1> DEFINE free == {r \in Readers : rs[r] = "none"}
           f == CHOOSE r \in free : TRUE
<1>1. free # {}
  <2> SUFFICES ASSUME free = {} PROVE FALSE
      OBVIOUS
  <2>1. Busy(rs) = Readers
    BY DEF Busy
  <2>2. Cardinality(Progs) \in Nat /\ Cardinality(Readers) = Cardinality(Progs) + 1
    BY Finite, ReadersFinite
  <2> QED BY <2>1, <2>2
<1>2. f \in free
  BY <1>1
<1>3. StartInput(rs) = [rs EXCEPT ![f] = NewWait]
  BY DEF StartInput
<1> HIDE DEF f
<1> QED BY <1>2, <1>3

\* A coroutine started in a free slot.
LEMMA BusyAfterStart ==
    ASSUME NEW rs \in [Readers -> ReaderStates],
           NEW f \in Readers, rs[f] = "none", NEW v
    PROVE  Cardinality(Busy([rs EXCEPT ![f] = v])) <= Cardinality(Busy(rs)) + 1
<1> DEFINE new == [rs EXCEPT ![f] = v]
<1>1. new \in [Readers -> ReaderStates \cup {v}] /\ new[f] = v
      /\ \A r \in Readers \ {f} : new[r] = rs[r]
  OBVIOUS
<1>2. IsFiniteSet(Busy(rs)) /\ Cardinality(Busy(rs)) \in Nat
  BY ReadersFinite
<1>3. Busy(new) = Busy(rs) \/ (Busy(new) = Busy(rs) \cup {f} /\ f \notin Busy(rs))
  BY <1>1 DEF Busy
<1> HIDE DEF new
<1>4. f \notin Busy(rs) => Cardinality(Busy(rs) \cup {f}) = Cardinality(Busy(rs)) + 1
  BY <1>2, FS_AddElement
<1>5. \/ Cardinality(Busy(new)) = Cardinality(Busy(rs))
      \/ Cardinality(Busy(new)) = Cardinality(Busy(rs)) + 1
  BY <1>3, <1>4, Zenon
<1>6. Cardinality(Busy(new)) <= Cardinality(Busy(rs)) + 1
  BY <1>2, <1>5
<1> QED BY <1>6 DEF new

\* stop_input ends no coroutine by itself and puts every wait to sleep.
LEMMA StopEffect ==
    ASSUME NEW rs \in [Readers -> ReaderStates]
    PROVE  /\ StopInput(rs) \in [Readers -> ReaderStates]
           /\ Busy(StopInput(rs)) = Busy(rs)
           /\ \A r \in Readers : /\ StopInput(rs)[r] # "waiting"
                                 /\ StopInput(rs)[r] \in {"ready", "running"}
                                      => StopInput(rs)[r] = rs[r]
           /\ \A r \in Readers : rs[r] # "waiting" => StopInput(rs)[r] = rs[r]
BY DEF StopInput, Busy, ReaderStates

----------------------------------------------------------------------------
(***************************************************************************)
(* The start of an execution                                               *)
(***************************************************************************)

\* stage_ begins at the number of operations that initiation starts.
LEMMA InitiatedCounted ==
    ASSUME NEW tty \in BOOLEAN, NEW ok \in BOOLEAN
    PROVE  Cardinality(Initiated(tty, ok)) = IF ok THEN InitialStage(tty) ELSE 0
<1>1. Cardinality({}) = 0
  BY FS_EmptySet
<1>2. IsFiniteSet({"exit"}) /\ Cardinality({"exit"}) = 1
  BY FS_Singleton
<1>3. /\ IsFiniteSet({"exit"} \cup {"stderr"})
      /\ Cardinality({"exit"} \cup {"stderr"}) = 2
  BY <1>2, FS_AddElement
<1>4. /\ IsFiniteSet(({"exit"} \cup {"stderr"}) \cup {"stdout"})
      /\ Cardinality(({"exit"} \cup {"stderr"}) \cup {"stdout"}) = 3
  BY <1>3, FS_AddElement
<1>5. Cardinality((({"exit"} \cup {"stderr"}) \cup {"stdout"}) \cup {"stdin"}) = 4
  BY <1>4, FS_AddElement
<1>6. /\ Stages = (({"exit"} \cup {"stderr"}) \cup {"stdout"}) \cup {"stdin"}
      /\ Stages \ {"stdin"} = ({"exit"} \cup {"stderr"}) \cup {"stdout"}
  BY DEF Stages
<1>7. Cardinality(Stages) = 4 /\ Cardinality(Stages \ {"stdin"}) = 3
  BY <1>4, <1>5, <1>6, Zenon
<1> QED BY <1>1, <1>7 DEF Initiated, InitialStage

\* A completion counts one operation off, and reaches 0 with the last.
LEMMA CountedOff ==
    ASSUME NEW X \in SUBSET Stages, NEW s \in X
    PROVE  /\ Cardinality(X) \in Int
           /\ Cardinality(X \ {s}) = Cardinality(X) - 1
           /\ Cardinality(X) - 1 = 0 <=> X = {s}
<1>1. IsFiniteSet(Stages)
  <2>1. /\ IsFiniteSet({"exit"}) /\ IsFiniteSet({"exit"} \cup {"stderr"})
        /\ IsFiniteSet(({"exit"} \cup {"stderr"}) \cup {"stdout"})
        /\ IsFiniteSet((({"exit"} \cup {"stderr"}) \cup {"stdout"}) \cup {"stdin"})
    BY FS_Singleton, FS_AddElement
  <2>2. Stages = (({"exit"} \cup {"stderr"}) \cup {"stdout"}) \cup {"stdin"}
    BY DEF Stages
  <2> QED BY <2>1, <2>2, Zenon
<1>2. IsFiniteSet(X)
  BY <1>1, FS_Subset
<1>3. /\ Cardinality(X) \in Nat /\ IsFiniteSet(X \ {s})
      /\ Cardinality(X \ {s}) = Cardinality(X) - 1
  BY <1>2, FS_CardinalityType, FS_RemoveElement
<1>4. Cardinality(X \ {s}) = 0 <=> X \ {s} = {}
  BY <1>3, FS_EmptySet
<1> QED BY <1>3, <1>4

\* An execution that is started holds the terminal, has ended at once, or
\* runs without the terminal.
LEMMA ExecuteEffect ==
    ASSUME Typed, Unstarted, CallsInv,
           NEW p \in Progs, NEW tty \in BOOLEAN, NEW ok \in BOOLEAN,
           Execute(p, tty, ok)
    PROVE  /\ p \notin Outstanding /\ p \notin Ended
           /\ Outstanding' = IF tty /\ ok THEN Outstanding \cup {p} ELSE Outstanding
           /\ Ended' = IF ok THEN Ended ELSE Ended \cup {p}
           /\ outstanding' \in [Progs -> SUBSET Stages]
           /\ use_tty' \in [Progs -> BOOLEAN]
           /\ co' \in [Progs -> {"none", "suspended", "resumed", "cancelled"}]
           /\ Unstarted' /\ CallsInv'
<1>1. /\ co[p] = "none" /\ outstanding[p] = {}
      /\ co' = [co EXCEPT ![p] = "suspended"]
      /\ use_tty' = [use_tty EXCEPT ![p] = tty]
      /\ outstanding' = [outstanding EXCEPT ![p] = Initiated(tty, ok)]
  BY DEF Execute, Unstarted
<1>2. /\ Initiated(tty, ok) \in SUBSET Stages
      /\ ok => "exit" \in Initiated(tty, ok)
      /\ ~ok => Initiated(tty, ok) = {}
  BY DEF Initiated, Stages
<1>3. /\ outstanding' \in [Progs -> SUBSET Stages]
      /\ use_tty' \in [Progs -> BOOLEAN]
      /\ co' \in [Progs -> {"none", "suspended", "resumed", "cancelled"}]
  BY <1>1, <1>2 DEF Typed
<1>4. /\ co'[p] = "suspended" /\ use_tty'[p] = tty /\ outstanding'[p] = Initiated(tty, ok)
      /\ \A q \in Progs \ {p} : /\ co'[q] = co[q]
                                /\ use_tty'[q] = use_tty[q]
                                /\ outstanding'[q] = outstanding[q]
  BY <1>1 DEF Typed
<1>5. p \notin Outstanding /\ p \notin Ended
  BY <1>1 DEF Outstanding, Ended
<1>6. \A q \in Progs \ {p} : /\ q \in Outstanding' <=> q \in Outstanding
                             /\ q \in Ended' <=> q \in Ended
  BY <1>4 DEF Outstanding, Ended
<1>7. /\ p \in Outstanding' <=> tty /\ ok
      /\ p \in Ended' <=> ~ok
  BY <1>2, <1>4 DEF Outstanding, Ended
<1>8. /\ Outstanding \subseteq Progs /\ Outstanding' \subseteq Progs
      /\ Ended \subseteq Progs /\ Ended' \subseteq Progs
  BY DEF Outstanding, Ended
<1>9. Outstanding' = IF tty /\ ok THEN Outstanding \cup {p} ELSE Outstanding
  BY <1>5, <1>6, <1>7, <1>8
<1>10. Ended' = IF ok THEN Ended ELSE Ended \cup {p}
  BY <1>5, <1>6, <1>7, <1>8
<1>11. Unstarted'
  BY <1>4 DEF Unstarted
<1>12. CallsInv'
  <2>1. /\ stage' = [stage EXCEPT ![p] = IF ok THEN InitialStage(tty) ELSE 0]
        /\ called' = [called EXCEPT ![p] = IF ok THEN @ ELSE @ + 1]
    BY DEF Execute
  <2>2. /\ stage \in [Progs -> Int] /\ called \in [Progs -> Nat] /\ ResumedAtTheEnd
        /\ \A q \in Progs : stage[q] = Cardinality(outstanding[q])
    BY DEF CallsInv
  <2>3. InitialStage(tty) \in Int /\ called[p] = 0
    BY <1>1, <2>2 DEF InitialStage, ResumedAtTheEnd
  <2>4. /\ stage' \in [Progs -> Int] /\ called' \in [Progs -> Nat]
        /\ stage'[p] = (IF ok THEN InitialStage(tty) ELSE 0)
        /\ called'[p] = (IF ok THEN 0 ELSE 1)
        /\ \A q \in Progs \ {p} : stage'[q] = stage[q] /\ called'[q] = called[q]
    BY <2>1, <2>2, <2>3
  <2>5. stage'[p] = Cardinality(outstanding'[p])
    BY <1>4, <2>4, InitiatedCounted
  <2>6. \A q \in Progs : stage'[q] = Cardinality(outstanding'[q])
    BY <1>4, <2>2, <2>4, <2>5
  <2>7. ResumedAtTheEnd'
    BY <1>2, <1>4, <2>2, <2>4 DEF ResumedAtTheEnd
  <2> QED BY <2>4, <2>6, <2>7 DEF CallsInv
<1> QED BY <1>3, <1>5, <1>9, <1>10, <1>11, <1>12

\* The start of an execution keeps the count.
LEMMA ExecuteCounted ==
    ASSUME IInv,
           NEW p \in Progs, NEW tty \in BOOLEAN, NEW ok \in BOOLEAN,
           Execute(p, tty, ok), reloads' = reloads
    PROVE  /\ Counted' /\ drawing_suspended' \in Int
           /\ Cardinality(Ended') = IF ok THEN Cardinality(Ended) ELSE Cardinality(Ended) + 1
           /\ Cardinality(Ended) + 1 <= Cardinality(Progs)
           /\ tty /\ ok => Outstanding' # {}
           /\ ~(tty /\ ok) => Outstanding' = Outstanding
<1> DEFINE o == Cardinality(Outstanding)
           e == Cardinality(Ended)
<1>1. /\ p \notin Outstanding /\ p \notin Ended
      /\ Outstanding' = IF tty /\ ok THEN Outstanding \cup {p} ELSE Outstanding
      /\ Ended' = IF ok THEN Ended ELSE Ended \cup {p}
  BY ExecuteEffect DEF IInv
<1>2. IsFiniteSet(Outstanding) /\ IsFiniteSet(Ended) /\ o \in Nat /\ e \in Nat
  BY Finite
<1>3. Cardinality(Outstanding \cup {p}) = o + 1 /\ Cardinality(Ended \cup {p}) = e + 1
  BY <1>1, <1>2, FS_AddElement
<1>4. Cardinality(Outstanding') = IF tty /\ ok THEN o + 1 ELSE o
  BY <1>1, <1>3
<1>5. Cardinality(Ended') = IF ok THEN e ELSE e + 1
  BY <1>1, <1>3
<1>6. e + 1 <= Cardinality(Progs)
  <2>1. IsFiniteSet(Progs) /\ Ended \cup {p} \in SUBSET Progs
    BY TerminalAssumption DEF Ended
  <2> QED BY <1>3, <2>1, FS_Subset
<1>7. /\ drawing_suspended' = IF tty /\ ok THEN drawing_suspended + 1 ELSE drawing_suspended
      /\ drawing_suspended \in Int
      /\ drawing_suspended <= o /\ -e <= drawing_suspended
      /\ reloads = 0 => drawing_suspended = o
  BY DEF Execute, IInv, Typed, Counted
<1> HIDE DEF o, e
<1>8. Counted' /\ drawing_suspended' \in Int
  <2>1. CASE tty /\ ok
    <3>1. drawing_suspended' = drawing_suspended + 1 /\ Cardinality(Outstanding') = o + 1
          /\ Cardinality(Ended') = e
      BY <1>4, <1>5, <1>7, <2>1
    <3> QED BY <1>2, <1>7, <3>1 DEF Counted
  <2>2. CASE ~(tty /\ ok)
    <3>1. drawing_suspended' = drawing_suspended /\ Cardinality(Outstanding') = o
      BY <1>4, <1>7, <2>2
    <3>2. Cardinality(Ended') = e \/ Cardinality(Ended') = e + 1
      BY <1>5
    <3> QED BY <1>2, <1>7, <3>1, <3>2 DEF Counted
  <2> QED BY <2>1, <2>2
<1> QED BY <1>1, <1>5, <1>6, <1>8 DEF e

\* The cases of the keyboard after Task:execute: nothing happens without the
\* terminal or while it is suspended already; otherwise the wait is cancelled,
\* and started again when there is no program.
LEMMA AfterExecuteCases ==
    ASSUME NEW tty \in BOOLEAN, NEW ok \in BOOLEAN, NEW rs
    PROVE  AfterExecute(tty, ok, rs) =
             IF ~tty \/ drawing_suspended # 0 THEN rs
             ELSE IF ok THEN StopInput(rs) ELSE StartInput(StopInput(rs))
BY DEF AfterExecute, ResumeTty

\* The coroutines after Task:execute: a new one only for a program that could
\* not be started, and then it waits if it can.
LEMMA AfterExecuteEffect ==
    ASSUME NEW rs \in [Readers -> ReaderStates], Cardinality(Busy(rs)) <= Cardinality(Progs),
           NEW tty \in BOOLEAN, NEW ok \in BOOLEAN
    PROVE  /\ AfterExecute(tty, ok, rs) \in [Readers -> ReaderStates]
           /\ \A r \in Readers : AfterExecute(tty, ok, rs)[r] = "running" => rs[r] = "running"
           /\ \A r \in Readers : rs[r] = "running" => AfterExecute(tty, ok, rs)[r] = "running"
           /\ \A r \in Readers : AfterExecute(tty, ok, rs)[r] = "ready" => rs[r] = "ready"
           /\ Cardinality(Busy(AfterExecute(tty, ok, rs)))
                <= IF ok THEN Cardinality(Busy(rs)) ELSE Cardinality(Busy(rs)) + 1
           /\ \/ AfterExecute(tty, ok, rs) = rs /\ (~tty \/ drawing_suspended # 0)
              \/ /\ tty /\ drawing_suspended = 0 /\ ok
                 /\ \A r \in Readers : AfterExecute(tty, ok, rs)[r] = "waiting" => FALSE
              \/ /\ tty /\ drawing_suspended = 0 /\ ~ok
                 /\ \E f \in Readers :
                       /\ rs[f] = "none" /\ AfterExecute(tty, ok, rs)[f] = NewWait
                       /\ \A r \in Readers \ {f} : AfterExecute(tty, ok, rs)[r] # "waiting"
<1>0. Cardinality(Busy(rs)) \in Nat
  BY ReadersFinite
<1>1. CASE ~tty \/ drawing_suspended # 0
  <2>1. AfterExecute(tty, ok, rs) = rs
    BY <1>1, AfterExecuteCases
  <2> QED BY <1>0, <1>1, <2>1
<1>2. CASE tty /\ drawing_suspended = 0 /\ ok
  <2>1. AfterExecute(tty, ok, rs) = StopInput(rs)
    BY <1>2, AfterExecuteCases
  <2> DEFINE st == StopInput(rs)
  <2>2. /\ st \in [Readers -> ReaderStates] /\ Busy(st) = Busy(rs)
        /\ \A r \in Readers : /\ st[r] # "waiting"
                              /\ st[r] = "running" <=> rs[r] = "running"
                              /\ st[r] = "ready" => rs[r] = "ready"
    BY StopEffect DEF StopInput
  <2> HIDE DEF st
  <2>3. Cardinality(Busy(st)) <= Cardinality(Busy(rs))
    BY <1>0, <2>2
  <2> QED BY <1>2, <2>1, <2>2, <2>3 DEF st
<1>3. CASE tty /\ drawing_suspended = 0 /\ ~ok
  <2> DEFINE st == StopInput(rs)
  <2>1. AfterExecute(tty, ok, rs) = StartInput(st)
    BY <1>3, AfterExecuteCases
  <2>2. st \in [Readers -> ReaderStates] /\ Busy(st) = Busy(rs)
        /\ \A r \in Readers : /\ st[r] # "waiting"
                              /\ st[r] = "running" <=> rs[r] = "running"
                              /\ st[r] = "ready" => rs[r] = "ready"
                              /\ st[r] = "none" <=> rs[r] = "none"
    BY StopEffect DEF StopInput
  <2> HIDE DEF st
  <2>3. PICK f \in Readers : st[f] = "none" /\ StartInput(st) = [st EXCEPT ![f] = NewWait]
    BY <2>2, FreeSlot
  <2>4. NewWait \in {"waiting", "aborted"}
    BY DEF NewWait
  <2>5. Cardinality(Busy(StartInput(st))) <= Cardinality(Busy(rs)) + 1
    <3>1. Cardinality(Busy([st EXCEPT ![f] = NewWait])) <= Cardinality(Busy(st)) + 1
      BY <2>2, <2>3, BusyAfterStart
    <3> QED BY <2>2, <2>3, <3>1
  <2>6. /\ StartInput(st) \in [Readers -> ReaderStates]
        /\ StartInput(st)[f] = NewWait /\ rs[f] = "none"
        /\ \A r \in Readers \ {f} : StartInput(st)[r] = st[r]
    BY <2>2, <2>3, <2>4 DEF ReaderStates
  <2> QED BY <1>3, <2>1, <2>2, <2>4, <2>5, <2>6
<1> QED BY <1>1, <1>2, <1>3

\* An execution cannot start without a coroutine to spare.
LEMMA RoomForOne ==
    ASSUME IInv, Cardinality(Ended) + 1 <= Cardinality(Progs)
    PROVE  Cardinality(Busy(reader)) <= Cardinality(Progs)
<1>1. Cardinality(Ended) \in Nat /\ Cardinality(Progs) \in Nat
  BY Finite
<1>2. Cardinality(Busy(reader)) \in Nat
  BY ReadersFinite
<1>3. Cardinality(Busy(reader)) <= 1 + Cardinality(Ended)
  BY DEF IInv, Slots
<1> QED BY <1>1, <1>2, <1>3

\* With no reload, nothing is suspended exactly when nobody has the terminal.
LEMMA SuspendedIsOutstanding ==
    ASSUME IInv, reloads = 0
    PROVE  drawing_suspended = 0 <=> Outstanding = {}
<1>1. IsFiniteSet(Outstanding) /\ drawing_suspended = Cardinality(Outstanding)
  BY Finite DEF IInv, Counted
<1> QED BY <1>1, FS_EmptySet

\* A program is started outside the keyboard's coroutine.
LEMMA InvExecuteElsewhere ==
    ASSUME IInv, NEW p \in Progs, NEW tty \in BOOLEAN, NEW ok \in BOOLEAN,
           ExecuteElsewhere(p, tty, ok)
    PROVE  IInv'
<1> DEFINE new == AfterExecute(tty, ok, reader)
<1>1. /\ Execute(p, tty, ok) /\ reader' = new
      /\ missed' = (missed \/ Misses(tty, reader))
      /\ open' = open /\ reloads' = reloads
  BY DEF ExecuteElsewhere
<1>2. /\ outstanding' \in [Progs -> SUBSET Stages]
      /\ use_tty' \in [Progs -> BOOLEAN]
      /\ co' \in [Progs -> {"none", "suspended", "resumed", "cancelled"}]
      /\ Unstarted' /\ CallsInv'
  BY <1>1, ExecuteEffect DEF IInv
<1>3. /\ Counted' /\ drawing_suspended' \in Int
      /\ Cardinality(Ended') = IF ok THEN Cardinality(Ended) ELSE Cardinality(Ended) + 1
      /\ Cardinality(Ended) + 1 <= Cardinality(Progs)
      /\ tty /\ ok => Outstanding' # {}
      /\ ~(tty /\ ok) => Outstanding' = Outstanding
  BY <1>1, ExecuteCounted
<1>4. reader \in [Readers -> ReaderStates] /\ \A r \in Readers : reader[r] # "running"
  BY DEF IInv, Typed
<1>5. Cardinality(Busy(reader)) <= Cardinality(Progs)
  BY <1>3, RoomForOne
<1>6. /\ new \in [Readers -> ReaderStates]
      /\ \A r \in Readers : new[r] = "running" => reader[r] = "running"
      /\ \A r \in Readers : new[r] = "ready" => reader[r] = "ready"
      /\ Cardinality(Busy(new))
           <= IF ok THEN Cardinality(Busy(reader)) ELSE Cardinality(Busy(reader)) + 1
      /\ \/ new = reader /\ (~tty \/ drawing_suspended # 0)
         \/ /\ tty /\ drawing_suspended = 0 /\ ok
            /\ \A r \in Readers : new[r] = "waiting" => FALSE
         \/ /\ tty /\ drawing_suspended = 0 /\ ~ok
            /\ \E f \in Readers : /\ reader[f] = "none" /\ new[f] = NewWait
                                  /\ \A r \in Readers \ {f} : new[r] # "waiting"
  BY <1>4, <1>5, AfterExecuteEffect
<1> HIDE DEF new
<1>7. Typed'
  <2>1. reader' \in [Readers -> ReaderStates \ {"running"}]
    BY <1>1, <1>4, <1>6
  <2>2. missed' \in BOOLEAN /\ open' \in BOOLEAN /\ reloads' \in 0 .. MaxReloads
    BY <1>1 DEF IInv, Typed
  <2> QED BY <1>2, <1>3, <2>1, <2>2 DEF Typed
<1>8. Slots'
  <2> DEFINE b == Cardinality(Busy(reader))
             c == Cardinality(Busy(new))
             e == Cardinality(Ended)
  <2>1. b \in Nat /\ c \in Nat /\ e \in Nat
    BY ReadersFinite, Finite
  <2>2. b <= 1 + e /\ c <= IF ok THEN b ELSE b + 1
    BY <1>6 DEF IInv, Slots
  <2>3. c <= 1 + Cardinality(Ended')
    <3> HIDE DEF b, c, e
    <3>1. Cardinality(Ended') = IF ok THEN e ELSE e + 1
      BY <1>3 DEF e
    <3> QED BY <2>1, <2>2, <3>1
  <2>4. Busy(reader)' = Busy(new)
    BY <1>1 DEF Busy
  <2> QED BY <2>3, <2>4 DEF Slots
<1>9. Alive'
  <2> SUFFICES ASSUME open', reloads' = 0, Outstanding' = {}
               PROVE  Awake(reader') # {}
      BY DEF Alive
  <2>1. ~(tty /\ ok) /\ Outstanding = {} /\ open /\ reloads = 0
    BY <1>1, <1>3
  <2>2. Awake(reader) # {}
    BY <2>1 DEF IInv, Alive
  <2>3. NewWait = "waiting"
    BY <2>1 DEF NewWait
  <2> QED BY <1>1, <1>6, <2>1, <2>2, <2>3 DEF Awake
<1>10. Exclusive'
  <2> SUFFICES ASSUME ~missed', reloads' = 0
               PROVE  /\ \A r, s \in Awake(reader') : r = s
                      /\ Outstanding' # {} => Awake(reader') = {}
      BY DEF Exclusive
  <2>1. ~missed /\ ~Misses(tty, reader) /\ reloads = 0
    BY <1>1 DEF IInv, Typed
  <2>2. /\ \A r, s \in Awake(reader) : r = s
        /\ Outstanding # {} => Awake(reader) = {}
    BY <2>1 DEF IInv, Exclusive
  <2>3. drawing_suspended = 0 <=> Outstanding = {}
    BY <2>1, SuspendedIsOutstanding
  <2>4. CASE ~tty
    <3>1. reader' = reader /\ Outstanding' = Outstanding
      BY <1>1, <1>3, <1>6, <2>4
    <3> QED BY <2>2, <3>1
  <2>5. CASE tty /\ drawing_suspended # 0
    <3>1. reader' = reader /\ Awake(reader) = {}
      BY <1>1, <1>6, <2>2, <2>3, <2>5
    <3> QED BY <3>1
  <2>6. CASE tty /\ drawing_suspended = 0
    <3>1. \A r \in Readers : reader'[r] # "ready"
      BY <1>1, <1>4, <1>6, <2>1, <2>6 DEF Misses
    <3>2. CASE ok
      BY <1>1, <1>6, <2>6, <3>1, <3>2 DEF Awake
    <3>3. CASE ~ok
      <4>1. PICK f \in Readers : \A r \in Readers \ {f} : reader'[r] # "waiting"
        BY <1>1, <1>6, <2>6, <3>3
      <4>2. \A r \in Awake(reader') : r = f
        BY <3>1, <4>1 DEF Awake
      <4>3. Outstanding' = {}
        BY <1>3, <2>3, <2>6, <3>3
      <4> QED BY <4>2, <4>3
    <3> QED BY <3>2, <3>3
  <2> QED BY <2>4, <2>5, <2>6
<1> QED BY <1>2, <1>3, <1>7, <1>8, <1>9, <1>10 DEF IInv

\* A key starts no program: the coroutine waits again.
LEMMA InvRunNothing ==
    ASSUME IInv, NEW r \in Readers, reader[r] = "ready",
           reader' = [reader EXCEPT ![r] = NewWait],
           UNCHANGED <<open, drawing_suspended, outstanding, stage, use_tty, co, reloads, missed, called>>
    PROVE  IInv'
<1>1. NewWait \in {"waiting", "aborted"} /\ (open => NewWait = "waiting")
  BY DEF NewWait
<1>2. /\ reader \in [Readers -> ReaderStates \ {"running"}]
      /\ reader' \in [Readers -> ReaderStates \ {"running"}]
      /\ reader'[r] = NewWait
      /\ \A q \in Readers \ {r} : reader'[q] = reader[q]
  BY <1>1 DEF IInv, Typed, ReaderStates
<1>3. Typed' /\ Unstarted' /\ CallsInv'
  BY <1>2 DEF IInv, Typed, Unstarted, CallsInv, ResumedAtTheEnd
<1>4. Outstanding' = Outstanding /\ Ended' = Ended
  BY DEF Outstanding, Ended
<1>5. Counted'
  BY <1>4 DEF IInv, Counted
<1>6. Busy(reader)' = Busy(reader)
  BY <1>1, <1>2 DEF Busy
<1>7. Slots'
  BY <1>4, <1>6 DEF IInv, Slots
<1>8. Alive'
  BY <1>1, <1>2 DEF Alive, Awake
<1>9. Awake(reader') \subseteq Awake(reader)
  BY <1>2 DEF Awake
<1>10. Exclusive'
  BY <1>4, <1>9 DEF IInv, Exclusive
<1> QED BY <1>3, <1>5, <1>7, <1>8, <1>10 DEF IInv

\* A key starts a program: the coroutine is not waiting while it runs, and
\* waits again afterwards whatever happened to the terminal.
LEMMA InvRunProgram ==
    ASSUME IInv, NEW r \in Readers, reader[r] = "ready",
           NEW p \in Progs, NEW tty \in BOOLEAN, NEW ok \in BOOLEAN,
           Execute(p, tty, ok),
           NEW running \in [Readers -> ReaderStates], running[r] = "running",
           \A q \in Readers \ {r} : running[q] = reader[q],
           reader' = [AfterExecute(tty, ok, running) EXCEPT ![r] = NewWait],
           missed' = (missed \/ Misses(tty, running)),
           UNCHANGED <<open, reloads>>
    PROVE  IInv'
<1> DEFINE new == AfterExecute(tty, ok, running)
<1>1. /\ outstanding' \in [Progs -> SUBSET Stages]
      /\ use_tty' \in [Progs -> BOOLEAN]
      /\ co' \in [Progs -> {"none", "suspended", "resumed", "cancelled"}]
      /\ Unstarted' /\ CallsInv'
  BY ExecuteEffect DEF IInv
<1>2. /\ Counted' /\ drawing_suspended' \in Int
      /\ Cardinality(Ended') = IF ok THEN Cardinality(Ended) ELSE Cardinality(Ended) + 1
      /\ Cardinality(Ended) + 1 <= Cardinality(Progs)
      /\ ~(tty /\ ok) => Outstanding' = Outstanding
  BY ExecuteCounted
<1>3. /\ reader \in [Readers -> ReaderStates \ {"running"}]
      /\ running \in [Readers -> ReaderStates] /\ running[r] = "running"
      /\ \A q \in Readers \ {r} : running[q] = reader[q] /\ running[q] # "running"
  BY DEF IInv, Typed, ReaderStates
<1>4. Busy(running) = Busy(reader)
  BY <1>3 DEF Busy
<1>5. Cardinality(Busy(running)) <= Cardinality(Progs)
  BY <1>2, <1>4, RoomForOne
<1>6. /\ new \in [Readers -> ReaderStates]
      /\ \A q \in Readers : new[q] = "running" => running[q] = "running"
      /\ \A q \in Readers : running[q] = "running" => new[q] = "running"
      /\ Cardinality(Busy(new))
           <= IF ok THEN Cardinality(Busy(running)) ELSE Cardinality(Busy(running)) + 1
  BY <1>3, <1>5, AfterExecuteEffect
<1>7. /\ reader' = [new EXCEPT ![r] = NewWait]
      /\ ~tty => new = running
  BY AfterExecuteCases
<1> HIDE DEF new
<1>8. NewWait \in {"waiting", "aborted"} /\ (open => NewWait = "waiting")
  BY DEF NewWait
<1>9. /\ reader' \in [Readers -> ReaderStates \ {"running"}]
      /\ reader'[r] = NewWait
      /\ \A q \in Readers \ {r} : reader'[q] = new[q]
  BY <1>3, <1>6, <1>7, <1>8 DEF ReaderStates
<1>10. Typed'
  <2>1. missed' \in BOOLEAN /\ open' \in BOOLEAN /\ reloads' \in 0 .. MaxReloads
    BY DEF IInv, Typed
  <2> QED BY <1>1, <1>2, <1>9, <2>1 DEF Typed
<1>11. Slots'
  <2> DEFINE b == Cardinality(Busy(reader))
             c == Cardinality(Busy(new))
             e == Cardinality(Ended)
  <2>1. b \in Nat /\ c \in Nat /\ e \in Nat
    BY ReadersFinite, Finite
  <2>2. b <= 1 + e /\ c <= IF ok THEN b ELSE b + 1
    BY <1>4, <1>6 DEF IInv, Slots
  <2>3. c <= 1 + Cardinality(Ended')
    <3> HIDE DEF b, c, e
    <3>1. Cardinality(Ended') = IF ok THEN e ELSE e + 1
      BY <1>2 DEF e
    <3> QED BY <2>1, <2>2, <3>1
  <2>4. Busy(reader)' = Busy(new)
    BY <1>3, <1>6, <1>8, <1>9 DEF Busy
  <2> QED BY <2>3, <2>4 DEF Slots
<1>12. Alive'
  BY <1>8, <1>9 DEF Alive, Awake
<1>13. Exclusive'
  <2> SUFFICES ASSUME ~missed', reloads' = 0
               PROVE  /\ \A q, s \in Awake(reader') : q = s
                      /\ Outstanding' # {} => Awake(reader') = {}
      BY DEF Exclusive
  <2>1. ~missed /\ ~Misses(tty, running) /\ reloads = 0
    BY DEF IInv, Typed
  <2>2. r \in Awake(reader)
    BY DEF Awake
  <2>3. /\ \A q, s \in Awake(reader) : q = s
        /\ Outstanding # {} => Awake(reader) = {}
    BY <2>1 DEF IInv, Exclusive
  <2>4. drawing_suspended = 0
    BY <2>1, <2>2, <2>3, SuspendedIsOutstanding
  <2>5. ~tty
    BY <1>3, <2>1, <2>4 DEF Misses
  <2>6. new = running /\ Outstanding' = Outstanding
    BY <1>2, <1>7, <2>5
  <2>7. Awake(reader') \subseteq Awake(reader)
    BY <1>3, <1>9, <2>2, <2>6 DEF Awake
  <2> QED BY <2>2, <2>3, <2>6, <2>7
<1> QED BY <1>1, <1>2, <1>10, <1>11, <1>12, <1>13 DEF IInv

\* stdin_thread has run the handlers of its keys.
LEMMA InvRunKeys ==
    ASSUME IInv, NEW r \in Readers, RunKeys(r)
    PROVE  IInv'
<1> DEFINE running == [reader EXCEPT ![r] = "running"]
<1>1. reader[r] = "ready" /\ UNCHANGED <<open, reloads>>
  BY DEF RunKeys
<1>2. CASE /\ reader' = [running EXCEPT ![r] = NewWait]
           /\ UNCHANGED <<drawing_suspended, outstanding, stage, use_tty, co, missed, called>>
  <2>1. reader' = [reader EXCEPT ![r] = NewWait]
    BY <1>2 DEF IInv, Typed
  <2> QED BY <1>1, <1>2, <2>1, InvRunNothing
<1>3. ASSUME NEW p \in Progs, NEW tty \in BOOLEAN, NEW ok \in BOOLEAN,
             Execute(p, tty, ok),
             reader' = [AfterExecute(tty, ok, running) EXCEPT ![r] = NewWait],
             missed' = (missed \/ Misses(tty, running))
      PROVE  IInv'
  <2>1. /\ running \in [Readers -> ReaderStates] /\ running[r] = "running"
        /\ \A q \in Readers \ {r} : running[q] = reader[q]
    BY DEF IInv, Typed, ReaderStates
  <2> HIDE DEF running
  <2> QED BY <1>1, <1>3, <2>1, InvRunProgram
<1> QED BY <1>2, <1>3 DEF RunKeys

----------------------------------------------------------------------------
(***************************************************************************)
(* The end of an execution and the other steps                             *)
(***************************************************************************)

\* The last operation of an execution: it moves from the outstanding ones, if
\* it had the terminal, to the ended ones.
LEMMA LastEffect ==
    ASSUME IInv, NEW p \in Progs, NEW s \in Stages,
           Complete(p, s), outstanding[p] = {s}
    PROVE  /\ p \notin Ended /\ (p \in Outstanding <=> use_tty[p])
           /\ Ended' = Ended \cup {p} /\ Outstanding' = Outstanding \ {p}
           /\ outstanding' \in [Progs -> SUBSET Stages]
           /\ co' \in [Progs -> {"none", "suspended", "resumed", "cancelled"}]
           /\ Unstarted' /\ CallsInv'
<1>1. /\ co[p] # "none" /\ outstanding[p] # {}
      /\ outstanding' = [outstanding EXCEPT ![p] = {}]
      /\ co' = [co EXCEPT ![p] = IF @ = "suspended" THEN "resumed" ELSE @]
      /\ use_tty' = use_tty
  <2>1. Cardinality({s}) - 1 = 0
    BY FS_Singleton
  <2>2. stage[p] - 1 = 0
    BY <2>1 DEF IInv, CallsInv
  <2> QED BY <2>2 DEF Complete, Callback, IInv, Unstarted
<1>2. /\ outstanding' \in [Progs -> SUBSET Stages]
      /\ co' \in [Progs -> {"none", "suspended", "resumed", "cancelled"}]
      /\ outstanding'[p] = {} /\ co'[p] # "none"
      /\ \A q \in Progs \ {p} : outstanding'[q] = outstanding[q] /\ co'[q] = co[q]
  BY <1>1 DEF IInv, Typed
<1>3. \A q \in Progs \ {p} : /\ q \in Outstanding' <=> q \in Outstanding
                             /\ q \in Ended' <=> q \in Ended
  BY <1>1, <1>2 DEF Outstanding, Ended
<1>4. /\ p \notin Ended /\ p \in Ended' /\ p \notin Outstanding'
      /\ p \in Outstanding <=> use_tty[p]
  BY <1>1, <1>2 DEF Outstanding, Ended
<1>5. /\ Outstanding \subseteq Progs /\ Outstanding' \subseteq Progs
      /\ Ended \subseteq Progs /\ Ended' \subseteq Progs
  BY DEF Outstanding, Ended
<1>6. Ended' = Ended \cup {p} /\ Outstanding' = Outstanding \ {p}
  BY <1>3, <1>4, <1>5
<1>7. Unstarted'
  BY <1>2 DEF IInv, Unstarted
<1>8. CallsInv'
  <2>0. Cardinality({s}) = 1 /\ Cardinality({}) = 0
    BY FS_Singleton, FS_EmptySet
  <2>1. /\ stage \in [Progs -> Int] /\ called \in [Progs -> Nat] /\ ResumedAtTheEnd
        /\ \A q \in Progs : stage[q] = Cardinality(outstanding[q])
    BY DEF IInv, CallsInv
  <2>2. stage[p] = 1 /\ called[p] = 0
    BY <1>1, <2>0, <2>1 DEF ResumedAtTheEnd
  <2>3. /\ stage' = [stage EXCEPT ![p] = @ - 1]
        /\ called' = [called EXCEPT ![p] = @ + 1]
    BY <2>2 DEF Complete, Callback
  <2>4. /\ stage' \in [Progs -> Int] /\ called' \in [Progs -> Nat]
        /\ stage'[p] = 0 /\ called'[p] = 1
        /\ \A q \in Progs \ {p} : stage'[q] = stage[q] /\ called'[q] = called[q]
    BY <2>1, <2>2, <2>3
  <2>5. \A q \in Progs : stage'[q] = Cardinality(outstanding'[q])
    BY <1>2, <2>0, <2>1, <2>4
  <2>6. ResumedAtTheEnd'
    BY <1>2, <2>1, <2>4 DEF ResumedAtTheEnd
  <2> QED BY <2>4, <2>5, <2>6 DEF CallsInv
<1> QED BY <1>2, <1>4, <1>6, <1>7, <1>8

\* The last operation of an execution and its callback.
LEMMA InvCompleteLast ==
    ASSUME IInv, NEW p \in Progs, NEW s \in Stages,
           Complete(p, s), outstanding[p] = {s}
    PROVE  IInv'
<1> DEFINE o == Cardinality(Outstanding)
           e == Cardinality(Ended)
           d == drawing_suspended
<1>1. /\ p \notin Ended /\ (p \in Outstanding <=> use_tty[p])
      /\ Ended' = Ended \cup {p} /\ Outstanding' = Outstanding \ {p}
      /\ outstanding' \in [Progs -> SUBSET Stages]
      /\ co' \in [Progs -> {"none", "suspended", "resumed", "cancelled"}]
      /\ Unstarted' /\ CallsInv'
  BY LastEffect
<1>2. /\ UNCHANGED <<open, use_tty, reloads, missed>>
      /\ IF use_tty[p]
         THEN /\ drawing_suspended' = d - 1
              /\ reader' = ResumeTty(reader, d - 1)
         ELSE UNCHANGED <<drawing_suspended, reader>>
  <2>1. Cardinality({s}) - 1 = 0
    BY FS_Singleton
  <2>2. stage[p] - 1 = 0
    BY <2>1 DEF IInv, CallsInv
  <2> QED BY <2>2 DEF Complete, Callback
<1>3. /\ IsFiniteSet(Outstanding) /\ IsFiniteSet(Ended) /\ o \in Nat /\ e \in Nat
      /\ d \in Int /\ d <= o /\ -e <= d /\ (reloads = 0 => d = o)
  BY Finite DEF IInv, Typed, Counted
<1>4. Cardinality(Ended') = e + 1
  BY <1>1, <1>3, FS_AddElement
<1>5. e + 1 <= Cardinality(Progs)
  BY <1>4, Finite, TerminalAssumption, FS_Subset DEF Ended
<1>6. /\ reader \in [Readers -> ReaderStates \ {"running"}]
      /\ reader \in [Readers -> ReaderStates]
  BY DEF IInv, Typed
<1>7. /\ open' \in BOOLEAN /\ use_tty' \in [Progs -> BOOLEAN] /\ missed' \in BOOLEAN
      /\ reloads' \in 0 .. MaxReloads
  BY <1>2 DEF IInv, Typed
<1>8. Cardinality(Busy(reader)) \in Nat /\ Cardinality(Busy(reader)) <= 1 + e
  BY ReadersFinite DEF IInv, Slots
<1>9. CASE ~use_tty[p]
  <2>1. reader' = reader /\ drawing_suspended' = d /\ Outstanding' = Outstanding
    BY <1>1, <1>2, <1>9
  <2>2. Counted'
    <3> HIDE DEF o, e, d
    <3>1. drawing_suspended' = d /\ Cardinality(Outstanding') = o /\ Cardinality(Ended') = e + 1
      BY <1>4, <2>1 DEF o
    <3> QED BY <1>2, <1>3, <3>1 DEF Counted
  <2>3. Slots'
    <3>1. Busy(reader)' = Busy(reader)
      BY <2>1 DEF Busy
    <3> HIDE DEF o, e, d
    <3> QED BY <1>3, <1>4, <1>8, <3>1 DEF Slots
  <2>4. Alive' /\ Exclusive'
    BY <1>2, <2>1 DEF IInv, Alive, Exclusive
  <2>5. Typed'
    BY <1>1, <1>3, <1>6, <1>7, <2>1 DEF Typed
  <2> QED BY <1>1, <2>2, <2>3, <2>4, <2>5 DEF IInv
<1>10. CASE use_tty[p]
  <2>1. reader' = ResumeTty(reader, d - 1) /\ drawing_suspended' = d - 1
    BY <1>2, <1>10
  <2>2. Cardinality(Outstanding') = o - 1
    BY <1>1, <1>3, <1>10, FS_RemoveElement
  <2>3. Counted'
    <3> HIDE DEF o, e, d
    <3> QED BY <1>2, <1>3, <1>4, <2>1, <2>2 DEF Counted
  <2>4. CASE d - 1 # 0
    <3>1. reader' = reader
      BY <2>1, <2>4 DEF ResumeTty
    <3>2. reloads = 0 => Outstanding' # {}
      <4>1. reloads = 0 => Cardinality(Outstanding') # 0
        BY <1>3, <2>2, <2>4
      <4> QED BY <4>1, FS_EmptySet
    <3>3. Alive' /\ Exclusive'
      BY <1>1, <1>2, <3>1, <3>2 DEF IInv, Alive, Exclusive
    <3>4. Slots'
      <4>1. Busy(reader)' = Busy(reader)
        BY <3>1 DEF Busy
      <4> HIDE DEF o, e, d
      <4> QED BY <1>3, <1>4, <1>8, <4>1 DEF Slots
    <3>5. Typed'
      BY <1>1, <1>3, <1>6, <1>7, <2>1, <3>1 DEF Typed
    <3> QED BY <1>1, <2>3, <3>3, <3>4, <3>5 DEF IInv
  <2>5. CASE d - 1 = 0
    <3>1. reader' = StartInput(reader)
      BY <2>1, <2>5 DEF ResumeTty
    <3>2. Cardinality(Busy(reader)) <= Cardinality(Progs)
      BY <1>5, RoomForOne
    <3>3. PICK f \in Readers : /\ reader[f] = "none"
                               /\ StartInput(reader) = [reader EXCEPT ![f] = NewWait]
      BY <1>6, <3>2, FreeSlot
    <3>4. NewWait \in {"waiting", "aborted"} /\ (open => NewWait = "waiting")
      BY DEF NewWait
    <3>5. /\ reader' \in [Readers -> ReaderStates \ {"running"}]
          /\ reader'[f] = NewWait
          /\ \A q \in Readers \ {f} : reader'[q] = reader[q]
      BY <1>6, <3>1, <3>3, <3>4 DEF ReaderStates
    <3>6. Slots'
      <4>1. Cardinality(Busy([reader EXCEPT ![f] = NewWait])) <= Cardinality(Busy(reader)) + 1
        BY <1>6, <3>3, BusyAfterStart
      <4>2. Busy(reader)' = Busy([reader EXCEPT ![f] = NewWait])
        BY <3>1, <3>3 DEF Busy
      <4>3. Cardinality(Busy(reader)') \in Nat
        BY <4>2, ReadersFinite
      <4>4. Cardinality(Busy(reader)') <= Cardinality(Busy(reader)) + 1
        BY <4>1, <4>2
      <4> HIDE DEF o, e, d
      <4> QED BY <1>3, <1>4, <1>8, <4>3, <4>4 DEF Slots
    <3>7. Alive'
      BY <1>2, <3>4, <3>5 DEF Alive, Awake
    <3>8. Exclusive'
      <4> SUFFICES ASSUME ~missed', reloads' = 0
                   PROVE  /\ \A q, t \in Awake(reader') : q = t
                          /\ Outstanding' # {} => Awake(reader') = {}
          BY DEF Exclusive
      <4>1. ~missed /\ reloads = 0
        BY <1>2
      <4>2. Awake(reader) = {}
        BY <1>1, <1>10, <4>1 DEF IInv, Exclusive
      <4>3. \A q \in Awake(reader') : q = f
        BY <3>5, <4>2 DEF Awake
      <4>4. Cardinality(Outstanding') = 0
        BY <1>3, <2>2, <2>5, <4>1
      <4>5. Outstanding' = {}
        BY <4>4, <1>1, <1>3, FS_RemoveElement, FS_EmptySet
      <4> QED BY <4>3, <4>5
    <3>9. Typed'
      BY <1>1, <1>3, <1>7, <2>1, <3>5 DEF Typed
    <3> QED BY <1>1, <2>3, <3>6, <3>7, <3>8, <3>9 DEF IInv
  <2> QED BY <2>4, <2>5
<1> QED BY <1>9, <1>10 DEF IInv, Typed

\* One of several operations of an execution has completed.
LEMMA InvCompleteOther ==
    ASSUME IInv, NEW p \in Progs, NEW s \in Stages,
           Complete(p, s), outstanding[p] # {s}
    PROVE  IInv'
<1>1. /\ s \in outstanding[p]
      /\ outstanding' = [outstanding EXCEPT ![p] = @ \ {s}]
      /\ stage' = [stage EXCEPT ![p] = @ - 1]
      /\ UNCHANGED <<co, drawing_suspended, reader, open, use_tty, reloads, missed, called>>
  <2>1. outstanding[p] \in SUBSET Stages /\ stage[p] = Cardinality(outstanding[p])
    BY DEF IInv, Typed, CallsInv
  <2>2. s \in outstanding[p]
    BY DEF Complete
  <2>3. ~(stage[p] - 1 = 0)
    BY <2>1, <2>2, CountedOff
  <2> QED BY <2>3 DEF Complete
<1>2. /\ outstanding' \in [Progs -> SUBSET Stages]
      /\ \A q \in Progs : outstanding'[q] = {} <=> outstanding[q] = {}
  BY <1>1 DEF IInv, Typed
<1>3. Outstanding' = Outstanding /\ Ended' = Ended
  BY <1>1, <1>2 DEF Outstanding, Ended
<1>4. Typed' /\ Unstarted'
  BY <1>1, <1>2 DEF IInv, Typed, Unstarted
<1>5. Busy(reader)' = Busy(reader)
  BY <1>1 DEF Busy
<1>6. Counted' /\ Slots' /\ Alive' /\ Exclusive'
  BY <1>1, <1>3, <1>5 DEF IInv, Counted, Slots, Alive, Exclusive
<1>7. CallsInv'
  <2>1. /\ stage \in [Progs -> Int] /\ called \in [Progs -> Nat] /\ ResumedAtTheEnd
        /\ outstanding \in [Progs -> SUBSET Stages]
        /\ \A q \in Progs : stage[q] = Cardinality(outstanding[q])
    BY DEF IInv, Typed, CallsInv
  <2>2. /\ Cardinality(outstanding[p] \ {s}) = Cardinality(outstanding[p]) - 1
        /\ Cardinality(outstanding[p]) \in Int
    BY <1>1, <2>1, CountedOff
  <2>3. \A q \in Progs : stage'[q] = Cardinality(outstanding'[q])
    <3>1. /\ stage'[p] = stage[p] - 1 /\ outstanding'[p] = outstanding[p] \ {s}
          /\ \A q \in Progs \ {p} : stage'[q] = stage[q] /\ outstanding'[q] = outstanding[q]
      BY <1>1, <2>1
    <3> QED BY <2>1, <2>2, <3>1
  <2>4. stage' \in [Progs -> Int] /\ called' = called
    BY <1>1, <2>1, <2>2
  <2>5. ResumedAtTheEnd'
    BY <1>1, <1>2, <2>1 DEF ResumedAtTheEnd
  <2> QED BY <2>1, <2>3, <2>4, <2>5 DEF CallsInv
<1> QED BY <1>4, <1>6, <1>7 DEF IInv

\* A key arrives for a waiting coroutine, or a cancelled wait ends its one.
LEMMA InvReader ==
    ASSUME IInv, NEW r \in Readers, KeyArrives(r) \/ Aborted(r)
    PROVE  IInv'
<1>1. UNCHANGED <<open, drawing_suspended, outstanding, stage, use_tty, co, reloads, missed, called>>
  BY DEF KeyArrives, Aborted
<1>2. /\ reader \in [Readers -> ReaderStates \ {"running"}]
      /\ reader' \in [Readers -> ReaderStates \ {"running"}]
      /\ \A q \in Readers \ {r} : reader'[q] = reader[q]
      /\ reader[r] # "none"
      /\ \/ reader[r] = "waiting" /\ reader'[r] = "ready"
         \/ reader[r] = "aborted" /\ reader'[r] = "none"
  BY DEF KeyArrives, Aborted, IInv, Typed, ReaderStates
<1>3. Outstanding' = Outstanding /\ Ended' = Ended
  BY <1>1 DEF Outstanding, Ended
<1>4. Typed' /\ Unstarted' /\ CallsInv'
  BY <1>1, <1>2 DEF IInv, Typed, Unstarted, CallsInv, ResumedAtTheEnd
<1>5. Awake(reader') = Awake(reader)
  BY <1>2 DEF Awake
<1>6. Counted' /\ Alive' /\ Exclusive'
  BY <1>1, <1>3, <1>5 DEF IInv, Counted, Alive, Exclusive
<1>7. Slots'
  <2>1. Busy(reader') \in SUBSET Busy(reader)
    BY <1>2 DEF Busy
  <2>2. /\ IsFiniteSet(Busy(reader)) /\ Cardinality(Busy(reader)) \in Nat
        /\ Cardinality(Busy(reader')) \in Nat
    BY ReadersFinite
  <2>3. Cardinality(Busy(reader')) <= Cardinality(Busy(reader))
    BY <2>1, <2>2, FS_Subset
  <2>4. Busy(reader)' = Busy(reader')
    BY DEF Busy
  <2>5. Cardinality(Busy(reader)) <= 1 + Cardinality(Ended) /\ Cardinality(Ended) \in Nat
    BY Finite DEF IInv, Slots
  <2>6. Cardinality(Busy(reader')) <= 1 + Cardinality(Ended)
    BY <2>2, <2>3, <2>5
  <2> QED BY <1>3, <2>4, <2>6 DEF Slots
<1> QED BY <1>4, <1>6, <1>7 DEF IInv

\* shutdown closes the terminal for good; a cancelled task and a reload leave
\* the coroutines alone.
LEMMA InvCalls ==
    ASSUME IInv, Shutdown \/ Reload \/ \E p \in Progs : Cancel(p)
    PROVE  IInv'
<1>1. CASE Shutdown
  <2>1. /\ open' = FALSE /\ reader' = StopInput(reader)
        /\ UNCHANGED <<drawing_suspended, outstanding, stage, use_tty, co, reloads, missed, called>>
    BY <1>1 DEF Shutdown
  <2>2. /\ reader \in [Readers -> ReaderStates \ {"running"}]
        /\ reader' \in [Readers -> ReaderStates \ {"running"}]
        /\ Busy(reader') = Busy(reader) /\ Awake(reader') \subseteq Awake(reader)
    BY <2>1 DEF IInv, Typed, ReaderStates, StopInput, Busy, Awake
  <2>3. Outstanding' = Outstanding /\ Ended' = Ended
    BY <2>1 DEF Outstanding, Ended
  <2>4. Typed' /\ Unstarted' /\ CallsInv' /\ Counted'
    BY <2>1, <2>2, <2>3 DEF IInv, Typed, Unstarted, CallsInv, ResumedAtTheEnd, Counted
  <2>5. Busy(reader)' = Busy(reader)
    BY <2>2 DEF Busy
  <2>6. Slots' /\ Alive' /\ Exclusive'
    BY <2>1, <2>2, <2>3, <2>5 DEF IInv, Slots, Alive, Exclusive
  <2> QED BY <2>4, <2>6 DEF IInv
<1>2. CASE Reload
  <2>1. /\ reloads' = reloads + 1 /\ reloads < MaxReloads /\ drawing_suspended' = 0
        /\ UNCHANGED <<reader, open, outstanding, stage, use_tty, co, missed, called>>
    BY <1>2 DEF Reload
  <2>2. reloads' \in 0 .. MaxReloads /\ reloads' # 0
    BY <2>1, TerminalAssumption DEF IInv, Typed
  <2>3. Outstanding' = Outstanding /\ Ended' = Ended
    BY <2>1 DEF Outstanding, Ended
  <2>4. Typed' /\ Unstarted' /\ CallsInv'
    BY <2>1, <2>2 DEF IInv, Typed, Unstarted, CallsInv, ResumedAtTheEnd
  <2>5. Counted'
    BY <2>1, <2>2, <2>3, Finite DEF Counted
  <2>6. Busy(reader)' = Busy(reader)
    BY <2>1 DEF Busy
  <2>7. Slots' /\ Alive' /\ Exclusive'
    BY <2>2, <2>3, <2>6 DEF IInv, Slots, Alive, Exclusive
  <2> QED BY <2>4, <2>5, <2>7 DEF IInv
<1>3. ASSUME NEW p \in Progs, Cancel(p)
      PROVE  IInv'
  <2>1. /\ co[p] = "suspended" /\ co' = [co EXCEPT ![p] = "cancelled"]
        /\ UNCHANGED <<reader, open, drawing_suspended, outstanding, stage, use_tty, reloads, missed, called>>
    BY <1>3 DEF Cancel
  <2>2. /\ co' \in [Progs -> {"none", "suspended", "resumed", "cancelled"}]
        /\ \A q \in Progs : /\ co'[q] = "none" <=> co[q] = "none"
                            /\ co'[q] = "resumed" <=> co[q] = "resumed"
    BY <2>1 DEF IInv, Typed
  <2>3. Outstanding' = Outstanding /\ Ended' = Ended
    BY <2>1, <2>2 DEF Outstanding, Ended
  <2>4. Typed' /\ Unstarted' /\ CallsInv'
    BY <2>1, <2>2 DEF IInv, Typed, Unstarted, CallsInv, ResumedAtTheEnd
  <2>5. Busy(reader)' = Busy(reader)
    BY <2>1 DEF Busy
  <2>6. Counted' /\ Slots' /\ Alive' /\ Exclusive'
    BY <2>1, <2>3, <2>5 DEF IInv, Counted, Slots, Alive, Exclusive
  <2> QED BY <2>4, <2>6 DEF IInv
<1> QED BY <1>1, <1>2, <1>3

----------------------------------------------------------------------------

\* Nobody has the terminal at the start and one coroutine waits.
LEMMA InvInit == Init => IInv
<1> SUFFICES ASSUME Init PROVE IInv
    OBVIOUS
<1>1. 0 \in Readers /\ Cardinality(Progs) \in Nat
  BY Finite DEF Readers
<1>2. Typed /\ Unstarted /\ CallsInv
  <2>1. reader \in [Readers -> ReaderStates \ {"running"}]
    BY DEF Init, ReaderStates
  <2>2. outstanding \in [Progs -> SUBSET Stages] /\ use_tty \in [Progs -> BOOLEAN]
    BY DEF Init
  <2>3. /\ co \in [Progs -> {"none", "suspended", "resumed", "cancelled"}]
        /\ Unstarted
    BY DEF Init, Unstarted
  <2>4. reloads \in 0 .. MaxReloads /\ drawing_suspended \in Int
    BY TerminalAssumption DEF Init
  <2>5. open \in BOOLEAN /\ missed \in BOOLEAN
    BY DEF Init
  <2>6. CallsInv
    <3>1. Cardinality({}) = 0
      BY FS_EmptySet
    <3> QED BY <3>1 DEF Init, CallsInv, ResumedAtTheEnd
  <2> QED BY <2>1, <2>2, <2>3, <2>4, <2>5, <2>6 DEF Typed
<1>3. Outstanding = {} /\ Ended = {}
  BY DEF Init, Outstanding, Ended
<1>4. Cardinality(Outstanding) = 0 /\ Cardinality(Ended) = 0
  BY <1>3, FS_EmptySet
<1>5. Counted
  BY <1>4 DEF Init, Counted
<1>6. Busy(reader) = {0} /\ Awake(reader) = {0}
  BY <1>1 DEF Init, Busy, Awake
<1>7. Cardinality(Busy(reader)) = 1
  BY <1>6, FS_Singleton
<1>8. Slots
  BY <1>4, <1>7 DEF Slots
<1>9. Alive /\ Exclusive
  BY <1>3, <1>6 DEF Alive, Exclusive
<1> QED BY <1>2, <1>5, <1>8, <1>9 DEF IInv

\* Every step preserves the invariant.
LEMMA InvNext == IInv /\ [Next]_vars => IInv'
<1> SUFFICES ASSUME IInv, [Next]_vars PROVE IInv'
    OBVIOUS
<1>1. ASSUME NEW r \in Readers, RunKeys(r)
      PROVE  IInv'
  BY <1>1, InvRunKeys
<1>2. ASSUME NEW r \in Readers, KeyArrives(r) \/ Aborted(r)
      PROVE  IInv'
  BY <1>2, InvReader
<1>3. ASSUME NEW p \in Progs, NEW s \in Stages, Complete(p, s)
      PROVE  IInv'
  BY <1>3, InvCompleteLast, InvCompleteOther
<1>4. ASSUME NEW p \in Progs, NEW tty \in BOOLEAN, NEW ok \in BOOLEAN,
             ExecuteElsewhere(p, tty, ok)
      PROVE  IInv'
  BY <1>4, InvExecuteElsewhere
<1>5. CASE Shutdown \/ Reload \/ \E p \in Progs : Cancel(p)
  BY <1>5, InvCalls
<1>6. CASE UNCHANGED vars
  <2>1. UNCHANGED <<reader, open, drawing_suspended, outstanding, stage, use_tty, co, reloads, missed, called>>
    BY <1>6 DEF vars
  <2>2. Outstanding' = Outstanding /\ Ended' = Ended /\ Busy(reader)' = Busy(reader)
    BY <2>1 DEF Outstanding, Ended, Busy
  <2> QED BY <2>1, <2>2 DEF IInv, Typed, Unstarted, CallsInv, ResumedAtTheEnd, Counted,
                            Slots, Alive, Exclusive
<1> QED BY <1>1, <1>2, <1>3, <1>4, <1>5, <1>6 DEF Next, Handler

\* The counts bound drawing_suspended as TypeOK says.
LEMMA InvTyped ==
    ASSUME IInv
    PROVE  TypeOK
<1>1. /\ Cardinality(Progs) \in Nat
      /\ Cardinality(Outstanding) \in Nat /\ Cardinality(Outstanding) <= Cardinality(Progs)
      /\ Cardinality(Ended) \in Nat /\ Cardinality(Ended) <= Cardinality(Progs)
  BY Finite
<1>2. /\ drawing_suspended \in Int
      /\ drawing_suspended <= Cardinality(Outstanding)
      /\ -Cardinality(Ended) <= drawing_suspended
      /\ reloads = 0 => drawing_suspended = Cardinality(Outstanding)
  BY DEF IInv, Typed, Counted
<1>3. drawing_suspended \in
         (IF reloads = 0 THEN 0 ELSE -Cardinality(Progs)) .. Cardinality(Progs)
  <2>1. CASE reloads = 0
    BY <1>1, <1>2, <2>1
  <2>2. CASE reloads # 0
    BY <1>1, <1>2, <2>2
  <2> QED BY <2>1, <2>2
<1> QED BY <1>3 DEF IInv, Typed, CallsInv, TypeOK, ReaderStates

\* For any number of executions that overlap in any way: whenever no program
\* has the terminal, and no reload has lost the count, a coroutine reads the
\* keyboard.
THEOREM KeyboardCorrect == Spec => []KeyboardComesBack
<1>1. ASSUME IInv PROVE KeyboardComesBack
  <2>1. TypeOK
    BY <1>1, InvTyped
  <2>2. open /\ reloads = 0 /\ Outstanding = {} => \E r \in Readers : Live(r)
    BY <1>1 DEF IInv, Alive, Awake, Live
  <2> QED BY <2>1, <2>2 DEF KeyboardComesBack
<1> QED BY <1>1, InvInit, InvNext, PTL DEF Spec

\* For any number of executions: unless stop_input has missed a coroutine or a
\* reload has lost the count, one coroutine at most reads the keyboard, and
\* none while a program has the terminal.
THEOREM ExclusiveCorrect == Spec => []TerminalIsExclusive
<1>1. ASSUME IInv PROVE TerminalIsExclusive
  <2> DEFINE L == {r \in Readers : Live(r)}
  <2> SUFFICES ASSUME ~missed, reloads = 0
               PROVE  /\ Cardinality(L) <= 1
                      /\ Outstanding # {} => \A r \in Readers : ~Live(r)
      BY DEF TerminalIsExclusive
  <2>1. L = Awake(reader)
    BY DEF Live, Awake
  <2>2. /\ \A r, s \in L : r = s
        /\ Outstanding # {} => L = {}
    BY <1>1, <2>1 DEF IInv, Exclusive
  <2>3. Cardinality(L) <= 1
    <3>1. CASE L = {}
      <4>1. Cardinality(L) = 0
        BY <3>1, FS_EmptySet
      <4> QED BY <4>1
    <3>2. CASE L # {}
      <4>1. PICK r \in L : TRUE
        BY <3>2
      <4>2. L = {r}
        BY <2>2, <4>1
      <4>3. Cardinality(L) = 1
        BY <4>2, FS_Singleton
      <4> QED BY <4>3
    <3> QED BY <3>1, <3>2
  <2> QED BY <2>2, <2>3
<1> QED BY <1>1, InvInit, InvNext, PTL DEF Spec

\* For any number of executions, with an input and without: the callback comes
\* exactly once, when every operation that was started has completed.
THEOREM ResumedCorrect == Spec => []ResumedAtTheEnd
<1>1. IInv => ResumedAtTheEnd
  BY DEF IInv, CallsInv
<1> QED BY <1>1, InvInit, InvNext, PTL DEF Spec

(***************************************************************************)
(* The editor                                                              *)
(***************************************************************************)

\* the text, the cursor and what the editor remembers
EditorTyped ==
    /\ buffer \in Seq(Nat) /\ yank \in Seq(Nat) /\ stash \in Seq(Nat)
    /\ cursor \in 1 .. Len(buffer) + 1
    /\ history \in Seq(Seq(Nat))
    /\ retrospect \in 0 .. Len(history)
    /\ state \in {"edit", "kill", "tab"}
    /\ tablist \in Seq(Seq(Nat)) /\ tabix \in 0 .. Len(tablist)

\* while tab goes round, base holds the text on both sides of a word of the list
Tabbing ==
    state = "tab" =>
        /\ base[1] \in Seq(Nat) /\ base[2] \in Seq(Nat)
        /\ tabix \in 1 .. Len(tablist)
        /\ TabsReplace

\* a run of kills is undone by paste
Killing == state = "kill" => InsertValues(buffer, cursor, yank) = base

EditorInv == EditorTyped /\ Tabbing /\ Killing /\ NoEmptyHistory

----------------------------------------------------------------------------

\* A part of a sequence, possibly empty, and its length.
LEMMA PartOf ==
    ASSUME NEW S, NEW s \in Seq(S), NEW i \in 1 .. Len(s) + 1, NEW j \in i - 1 .. Len(s)
    PROVE  SubSeq(s, i, j) \in Seq(S) /\ Len(SubSeq(s, i, j)) = j - i + 1
<1>1. Len(s) \in Nat /\ i \in Int /\ j \in Int /\ i \in Nat \ {0} /\ j \in Nat
  BY LenProperties
<1>2. \A k \in i .. j : k \in 1 .. Len(s)
  BY <1>1
<1>3. \A k \in i .. j : s[k] \in S
  BY <1>2, ElementOfSeq
<1>4. /\ SubSeq(s, i, j) \in Seq(S)
      /\ Len(SubSeq(s, i, j)) = IF i <= j THEN j - i + 1 ELSE 0
  BY <1>1, <1>3, SubSeqProperties
<1> QED BY <1>1, <1>4

\* A sequence is what is before i, from i to j, and after j.
LEMMA ThreeParts ==
    ASSUME NEW S, NEW s \in Seq(S), NEW i \in 1 .. Len(s) + 1, NEW j \in i - 1 .. Len(s)
    PROVE  /\ SubSeq(s, 1, i - 1) \in Seq(S) /\ Len(SubSeq(s, 1, i - 1)) = i - 1
           /\ SubSeq(s, i, j) \in Seq(S) /\ Len(SubSeq(s, i, j)) = j - i + 1
           /\ SubSeq(s, j + 1, Len(s)) \in Seq(S) /\ Len(SubSeq(s, j + 1, Len(s))) = Len(s) - j
           /\ SubSeq(s, i, Len(s)) = SubSeq(s, i, j) \o SubSeq(s, j + 1, Len(s))
           /\ SubSeq(s, 1, j) = SubSeq(s, 1, i - 1) \o SubSeq(s, i, j)
           /\ s = SubSeq(s, 1, i - 1) \o SubSeq(s, i, Len(s))
<1>1. Len(s) \in Nat /\ i \in Nat \ {0} /\ j \in Nat
  BY LenProperties
<1>2. PICK h \in Nat : h = i - 1
  BY <1>1
<1>3. h \in 0 .. Len(s) /\ h + 1 = i /\ h \in 1 - 1 .. j /\ h \in 1 - 1 .. Len(s) /\ j \in h .. Len(s)
  BY <1>1, <1>2
<1>4. PICK k \in Nat : k = j + 1
  BY <1>1
<1>5. 1 \in 1 .. Len(s) + 1 /\ k \in 1 .. Len(s) + 1 /\ Len(s) \in k - 1 .. Len(s) /\ Len(s) - k + 1 = Len(s) - j
  BY <1>1, <1>4
<1>6. SubSeq(s, 1, h) \in Seq(S) /\ Len(SubSeq(s, 1, h)) = h - 1 + 1
  BY <1>3, <1>5, PartOf
<1>7. SubSeq(s, i, j) \in Seq(S) /\ Len(SubSeq(s, i, j)) = j - i + 1
  BY PartOf
<1>8. SubSeq(s, k, Len(s)) \in Seq(S) /\ Len(SubSeq(s, k, Len(s))) = Len(s) - k + 1
  BY <1>5, PartOf
<1>9. SubSeq(s, i, j) \o SubSeq(s, j + 1, Len(s)) = SubSeq(s, i, Len(s))
  <2>1. Len(s) \in j .. Len(s)
    BY <1>1
  <2> QED BY <2>1, ConcatAdjacentSubSeq
<1>10. SubSeq(s, 1, h) \o SubSeq(s, h + 1, j) = SubSeq(s, 1, j)
  BY <1>3, <1>5, ConcatAdjacentSubSeq
<1>11. SubSeq(s, 1, h) \o SubSeq(s, h + 1, Len(s)) = SubSeq(s, 1, Len(s))
  <2>1. Len(s) \in h .. Len(s)
    BY <1>1, <1>3
  <2> QED BY <1>3, <1>5, <2>1, ConcatAdjacentSubSeq
<1>12. SubSeq(s, 1, Len(s)) = s
  BY SubSeqFull
<1>13. h - 1 + 1 = h
  BY <1>2
<1> QED BY <1>2, <1>3, <1>4, <1>5, <1>6, <1>7, <1>8, <1>9, <1>10, <1>11, <1>12, <1>13, Zenon

\* What follows a position.
LEMMA RestOf ==
    ASSUME NEW S, NEW s \in Seq(S), NEW j \in 0 .. Len(s)
    PROVE  SubSeq(s, j + 1, Len(s)) \in Seq(S) /\ Len(SubSeq(s, j + 1, Len(s))) = Len(s) - j
<1>1. Len(s) \in Nat
  BY LenProperties
<1>2. PICK k \in 1 .. Len(s) + 1 : k = j + 1
  BY <1>1
<1>3. Len(s) \in k - 1 .. Len(s) /\ Len(s) - k + 1 = Len(s) - j
  BY <1>1, <1>2
<1> QED BY <1>2, <1>3, PartOf

\* The parts of a concatenation are the sequences it was made of.
LEMMA PartsOfConcat ==
    ASSUME NEW S, NEW s \in Seq(S), NEW t \in Seq(S)
    PROVE  /\ SubSeq(s \o t, 1, Len(s)) = s
           /\ SubSeq(s \o t, Len(s) + 1, Len(s \o t)) = t
<1>1. s \o t \in Seq(S) /\ Len(s) \in Nat /\ Len(t) \in Nat /\ Len(s \o t) = Len(s) + Len(t)
  BY ConcatProperties, LenProperties
<1>2. PICK n \in Nat : n = Len(s) + 1
  BY <1>1
<1>3. n \in 1 .. Len(s \o t) + 1 /\ Len(s) \in n - 1 .. Len(s \o t)
      /\ Len(s \o t) \in n - 1 .. Len(s \o t) /\ Len(s \o t) - n + 1 = Len(t)
      /\ 1 \in 1 .. Len(s \o t) + 1 /\ Len(s) \in 1 - 1 .. Len(s \o t) /\ Len(s) - 1 + 1 = Len(s)
  BY <1>1, <1>2
<1> DEFINE a == SubSeq(s \o t, 1, Len(s))
           b == SubSeq(s \o t, n, Len(s \o t))
<1>4. a \in Seq(S) /\ Len(a) = Len(s)
  BY <1>1, <1>3, PartOf
<1>5. b \in Seq(S) /\ Len(b) = Len(t)
  BY <1>1, <1>3, PartOf
<1>6. \A k \in 1 .. Len(s) : a[k] = s[k]
  BY <1>1
<1>7. \A k \in 1 .. Len(t) : b[k] = t[k]
  BY <1>1, <1>2
<1> HIDE DEF a, b
<1>8. a = s
  BY <1>4, <1>6, SeqEqual
<1>9. b = t
  BY <1>5, <1>7, SeqEqual
<1> QED BY <1>2, <1>8, <1>9 DEF a, b

\* Removing and inserting keep a sequence, of the length to be expected.
LEMMA Removed ==
    ASSUME NEW S, NEW s \in Seq(S), NEW i \in 1 .. Len(s) + 1, NEW j \in i - 1 .. Len(s)
    PROVE  /\ RemoveValues(s, i, j) \in Seq(S)
           /\ Len(RemoveValues(s, i, j)) = Len(s) - (j - i + 1)
<1> DEFINE a == SubSeq(s, 1, i - 1)
           c == SubSeq(s, j + 1, Len(s))
<1>1. a \in Seq(S) /\ Len(a) = i - 1 /\ c \in Seq(S) /\ Len(c) = Len(s) - j
  BY ThreeParts, Zenon
<1>2. RemoveValues(s, i, j) = a \o c
  BY DEF RemoveValues
<1> HIDE DEF a, c
<1>3. a \o c \in Seq(S) /\ Len(a \o c) = Len(a) + Len(c)
  BY <1>1, ConcatProperties
<1>4. Len(s) \in Nat /\ i \in Nat /\ j \in Nat
  BY LenProperties
<1> QED BY <1>1, <1>2, <1>3, <1>4

\* An inserted text.
LEMMA Inserted ==
    ASSUME NEW S, NEW s \in Seq(S), NEW t \in Seq(S), NEW i \in 1 .. Len(s) + 1
    PROVE  /\ InsertValues(s, i, t) \in Seq(S)
           /\ Len(InsertValues(s, i, t)) = Len(s) + Len(t)
<1> DEFINE a == SubSeq(s, 1, i - 1)
           c == SubSeq(s, i, Len(s))
<1>1. Len(s) \in Nat /\ Len(t) \in Nat /\ i \in Nat
  BY LenProperties
<1>2. Len(s) \in i - 1 .. Len(s) /\ i - 1 \in i - 1 .. Len(s)
  BY <1>1
<1>3. a \in Seq(S) /\ Len(a) = i - 1
  BY <1>2, ThreeParts, Zenon
<1>4. c \in Seq(S) /\ Len(c) = Len(s) - i + 1
  BY <1>2, PartOf
<1>5. InsertValues(s, i, t) = (a \o t) \o c
  BY DEF InsertValues
<1> HIDE DEF a, c
<1>6. a \o t \in Seq(S) /\ Len(a \o t) = Len(a) + Len(t)
  BY <1>3, ConcatProperties
<1>7. (a \o t) \o c \in Seq(S) /\ Len((a \o t) \o c) = Len(a \o t) + Len(c)
  BY <1>4, <1>6, ConcatProperties
<1> QED BY <1>1, <1>3, <1>4, <1>5, <1>6, <1>7

\* What is inserted where something was removed stands between what was around it.
LEMMA InsertedForRemoved ==
    ASSUME NEW S, NEW s \in Seq(S), NEW t \in Seq(S),
           NEW i \in 1 .. Len(s) + 1, NEW j \in i - 1 .. Len(s)
    PROVE  InsertValues(RemoveValues(s, i, j), i, t)
              = (SubSeq(s, 1, i - 1) \o t) \o SubSeq(s, j + 1, Len(s))
<1> DEFINE a == SubSeq(s, 1, i - 1)
           c == SubSeq(s, j + 1, Len(s))
<1>1. a \in Seq(S) /\ Len(a) = i - 1 /\ c \in Seq(S)
  BY ThreeParts, Zenon
<1>2. RemoveValues(s, i, j) = a \o c
  BY DEF RemoveValues
<1>3. InsertValues(a \o c, i, t)
        = (SubSeq(a \o c, 1, i - 1) \o t) \o SubSeq(a \o c, i, Len(a \o c))
  BY DEF InsertValues
<1> HIDE DEF a, c
<1>4. SubSeq(a \o c, 1, Len(a)) = a /\ SubSeq(a \o c, Len(a) + 1, Len(a \o c)) = c
  BY <1>1, PartsOfConcat
<1>5. Len(a) + 1 = i
  BY <1>1
<1> QED BY <1>1, <1>2, <1>3, <1>4, <1>5, Zenon DEF a, c

(***************************************************************************)
(* The steps that end a run of kills or tabs                               *)
(***************************************************************************)

\* what such a step leaves of the text
Edited ==
    /\ buffer' \in Seq(Nat) /\ cursor' \in 1 .. Len(buffer') + 1
    /\ state' = "edit" /\ tablist' = << >> /\ tabix' = 0

\* what any step leaves of the memory
Remembered ==
    /\ yank' \in Seq(Nat) /\ stash' \in Seq(Nat)
    /\ history' \in Seq(Seq(Nat)) /\ retrospect' \in 0 .. Len(history')
    /\ NoEmptyHistory'

\* Outside runs of kills and tabs only the types are left to show.
LEMMA EditedIsSound ==
    ASSUME Edited, Remembered
    PROVE  EditorInv'
<1>1. tablist' \in Seq(Seq(Nat)) /\ tabix' \in 0 .. Len(tablist')
  BY DEF Edited
<1>2. EditorTyped'
  BY <1>1 DEF Edited, Remembered, EditorTyped
<1>3. Tabbing' /\ Killing'
  BY Zenon DEF Edited, Tabbing, Killing
<1> QED BY <1>2, <1>3, Zenon DEF Remembered, EditorInv

\* A step that leaves yank and history alone.
LEMMA MemoryKept ==
    ASSUME EditorInv, UNCHANGED <<hist, yank>>
    PROVE  Remembered
BY DEF EditorInv, EditorTyped, Remembered, hist, NoEmptyHistory

\* The greatest number of a finite set of naturals, and the least.
LEMMA LeastIsLeast ==
    ASSUME NEW T, T \subseteq Nat, T # {}
    PROVE  Least(T) \in T
<1>1. PICK x \in T : \A y \in T : ~(<<y, x>> \in OpToRel(<, Nat))
  BY NatLessThanWellFounded, WFMin
<1>2. \A y \in T : ~(y < x)
  BY <1>1 DEF OpToRel
<1>3. \A y \in T : x <= y
  BY <1>2
<1> QED BY <1>3 DEF Least

\* A set of numbers up to n has a greatest one.
LEMMA GreatestIsGreatest ==
    ASSUME NEW n \in Nat, NEW T, T \subseteq 1 .. n, T # {}
    PROVE  Greatest(T) \in T
<1> DEFINE U == {n - k : k \in T}
<1>1. U \subseteq Nat /\ U # {}
  OBVIOUS
<1> HIDE DEF U
<1>2. PICK x \in U : \A y \in U : ~(<<y, x>> \in OpToRel(<, Nat))
  BY <1>1, NatLessThanWellFounded, WFMin
<1>2a. \A y \in U : ~(y < x)
  BY <1>1, <1>2 DEF OpToRel
<1>3. \A y \in U : x <= y
  BY <1>1, <1>2a
<1>4. PICK k \in T : x = n - k
  BY DEF U
<1>5. \A j \in T : n - k <= n - j
  BY <1>3, <1>4 DEF U
<1>6. \A j \in T : k >= j
  BY <1>5
<1> QED BY <1>6 DEF Greatest

\* The end of the next word is in the line, at or after the cursor.
LEMMA NextWord ==
    ASSUME EditorTyped
    PROVE  SearchNextWord \in cursor .. Len(buffer) + 1
<1>1. Len(buffer) \in Nat /\ cursor \in 1 .. Len(buffer) + 1
  BY DEF EditorTyped
<1>2. CASE cursor > Len(buffer)
  BY <1>1, <1>2 DEF SearchNextWord, Size
<1>3. CASE ~(cursor > Len(buffer))
  <2> DEFINE T == {j \in cursor + 1 .. Size + 1 :
                      j = Size + 1 \/ (buffer[j - 1] \in Alnum /\ buffer[j] \notin Alnum)}
  <2>1. SearchNextWord = Least(T)
    BY <1>3 DEF SearchNextWord, Size
  <2>2. T \subseteq Nat /\ T \subseteq cursor .. Len(buffer) + 1
    BY <1>1 DEF Size
  <2>3. Len(buffer) + 1 \in cursor + 1 .. Len(buffer) + 1
    BY <1>1, <1>3
  <2>4. T # {}
    BY <2>3 DEF Size
  <2> HIDE DEF T
  <2> QED BY <2>1, <2>2, <2>4, LeastIsLeast
<1> QED BY <1>2, <1>3

\* The beginning of a word is in the line, at or before the cursor.
LEMMA PrevWord ==
    ASSUME EditorTyped, NEW letters
    PROVE  SearchPrevWord(letters) \in 1 .. cursor
<1>1. cursor \in Nat \ {0}
  BY DEF EditorTyped
<1> DEFINE start == IF 1 < cursor THEN cursor - 1 ELSE cursor
           T     == {j \in 1 .. start : j = 1 \/ buffer[j] \in letters}
           last  == Greatest(T)
           U     == {j \in 1 .. last : j = 1 \/ buffer[j - 1] \notin letters}
<1>2. SearchPrevWord(letters) = Greatest(U)
  BY DEF SearchPrevWord
<1>3. start \in Nat /\ start \in 1 .. cursor
  BY <1>1
<1> HIDE DEF start
<1>4. T \subseteq 1 .. start /\ 1 \in T
  BY <1>3
<1> HIDE DEF T
<1>5. last \in T
  BY <1>3, <1>4, GreatestIsGreatest
<1> HIDE DEF last
<1>6. last \in 1 .. cursor /\ last \in Nat
  BY <1>1, <1>3, <1>4, <1>5
<1>7. U \subseteq 1 .. last /\ 1 \in U
  BY <1>6
<1> HIDE DEF U
<1>8. Greatest(U) \in U
  BY <1>6, <1>7, GreatestIsGreatest
<1>9. \A k \in 1 .. last : k \in 1 .. cursor
  BY <1>1, <1>6
<1> QED BY <1>2, <1>7, <1>8, <1>9, Zenon

\* The text after a move, whichever it is.
LEMMA MovedTo ==
    ASSUME EditorInv, NEW x, Move(x, "edit"), UNCHANGED <<hist, yank>>,
           buffer' \in Seq(Nat), x \in 1 .. Len(buffer') + 1
    PROVE  EditorInv'
<1>1. Edited
  BY DEF Move, Edited
<1> QED BY <1>1, MemoryKept, EditedIsSound

\* The typed text.
LEMMA TextTyped ==
    ASSUME EditorInv
    PROVE  /\ buffer \in Seq(Nat) /\ Len(buffer) \in Nat /\ Size = Len(buffer)
           /\ cursor \in 1 .. Len(buffer) + 1 /\ cursor \in Nat
BY DEF EditorInv, EditorTyped, Size

\* A key and a code of a paste.
LEMMA AddStep ==
    ASSUME EditorInv, NEW code \in Codes, Add(code)
    PROVE  EditorInv'
<1>1. buffer \in Seq(Nat) /\ Len(buffer) \in Nat /\ cursor \in 1 .. Len(buffer) + 1
  BY TextTyped
<1>2. <<code>> \in Seq(Nat) /\ Len(<<code>>) = 1
  BY EditorAssumption
<1>3. buffer' = InsertValues(buffer, cursor, <<code>>)
  BY DEF Add
<1>4. buffer' \in Seq(Nat) /\ Len(buffer') = Len(buffer) + 1
  BY <1>1, <1>2, <1>3, Inserted
<1>5. cursor + 1 \in 1 .. Len(buffer') + 1
  BY <1>1, <1>4
<1> QED BY <1>4, <1>5, MovedTo DEF Add

\* One code is removed.
LEMMA OneRemoved ==
    ASSUME NEW s \in Seq(Nat), NEW i \in 1 .. Len(s)
    PROVE  RemoveAt(s, i) \in Seq(Nat) /\ Len(RemoveAt(s, i)) = Len(s) - 1
<1>1. Len(s) \in Nat
  OBVIOUS
<1>2. i \in 1 .. Len(s) + 1 /\ i \in i - 1 .. Len(s) /\ Len(s) - (i - i + 1) = Len(s) - 1
  BY <1>1
<1> QED BY <1>2, Removed DEF RemoveAt

\* backspace
LEMMA BackspaceStep ==
    ASSUME EditorInv, Backspace
    PROVE  EditorInv'
<1>1. buffer \in Seq(Nat) /\ Len(buffer) \in Nat /\ cursor \in 1 .. Len(buffer) + 1 /\ 1 < cursor
  BY TextTyped DEF Backspace
<1>2. PICK i \in 1 .. Len(buffer) : i = cursor - 1
  BY <1>1
<1>3. buffer' = RemoveAt(buffer, i)
  BY <1>2 DEF Backspace
<1>4. buffer' \in Seq(Nat) /\ Len(buffer') = Len(buffer) - 1
  BY <1>1, <1>3, OneRemoved
<1>5. i \in 1 .. Len(buffer') + 1
  BY <1>1, <1>2, <1>4
<1> QED BY <1>2, <1>4, <1>5, MovedTo DEF Backspace

\* delete
LEMMA DeleteStep ==
    ASSUME EditorInv, Delete
    PROVE  EditorInv'
<1>1. buffer \in Seq(Nat) /\ Len(buffer) \in Nat /\ cursor \in 1 .. Len(buffer) + 1 /\ Size = Len(buffer)
  BY TextTyped
<1>2. buffer' \in Seq(Nat) /\ cursor \in 1 .. Len(buffer') + 1
  <2>1. CASE cursor <= Size
    <3>1. cursor \in 1 .. Len(buffer) /\ buffer' = RemoveAt(buffer, cursor)
      BY <1>1, <2>1 DEF Delete
    <3>2. buffer' \in Seq(Nat) /\ Len(buffer') = Len(buffer) - 1
      BY <1>1, <3>1, OneRemoved
    <3> QED BY <1>1, <3>1, <3>2
  <2>2. CASE ~(cursor <= Size)
    BY <1>1, <2>2 DEF Delete
  <2> QED BY <2>1, <2>2
<1> QED BY <1>2, MovedTo DEF Delete

\* The moves stay in the line.
LEMMA MoveToStep ==
    ASSUME EditorInv, MoveTo
    PROVE  EditorInv'
<1>1. buffer \in Seq(Nat) /\ Len(buffer) \in Nat /\ cursor \in 1 .. Len(buffer) + 1 /\ Size = Len(buffer)
  BY TextTyped
<1>2. EditorTyped
  BY DEF EditorInv
<1>3. SearchNextWord \in cursor .. Len(buffer) + 1 /\ SearchPrevWord(Alnum) \in 1 .. cursor
  BY <1>2, NextWord, PrevWord
<1>4. PICK x \in {1, Size + 1, SearchNextWord, SearchPrevWord(Alnum)} \cup
               (IF 1 < cursor THEN {cursor - 1} ELSE {}) \cup
               (IF cursor <= Size THEN {cursor + 1} ELSE {}) : Move(x, "edit")
  BY DEF MoveTo
<1>5. x \in 1 .. Len(buffer) + 1
  BY <1>1, <1>3, <1>4
<1>6. buffer' = buffer /\ UNCHANGED <<hist, yank>>
  BY DEF MoveTo
<1> QED BY <1>1, <1>4, <1>5, <1>6, MovedTo

\* swap
LEMMA SwapStep ==
    ASSUME EditorInv, Swap
    PROVE  EditorInv'
<1>1. /\ buffer \in Seq(Nat) /\ Len(buffer) \in Nat /\ cursor \in 1 .. Len(buffer) + 1
      /\ Size = Len(buffer) /\ Size > 1
  BY TextTyped DEF Swap
<1> DEFINE i == IF cursor = 1 THEN 3 ELSE IF cursor <= Size THEN cursor + 1 ELSE cursor
<1>2. i \in 3 .. Len(buffer) + 1
  BY <1>1
<1>3. /\ buffer' = [buffer EXCEPT ![i - 2] = buffer[i - 1], ![i - 1] = buffer[i - 2]]
      /\ Move(i, "edit") /\ UNCHANGED <<hist, yank>>
  BY DEF Swap
<1> HIDE DEF i
<1>4. i - 2 \in 1 .. Len(buffer) /\ i - 1 \in 1 .. Len(buffer)
  BY <1>1, <1>2
<1>5. PICK x \in Nat, y \in Nat : x = buffer[i - 1] /\ y = buffer[i - 2]
  BY <1>1, <1>4
<1>6. [buffer EXCEPT ![i - 2] = x] \in Seq(Nat) /\ Len([buffer EXCEPT ![i - 2] = x]) = Len(buffer)
  BY <1>1, <1>4, <1>5, ExceptSeq
<1>7. PICK s \in Seq(Nat) : s = [buffer EXCEPT ![i - 2] = x] /\ Len(s) = Len(buffer)
  BY <1>6
<1>8. [s EXCEPT ![i - 1] = y] \in Seq(Nat) /\ Len([s EXCEPT ![i - 1] = y]) = Len(s)
  BY <1>4, <1>5, <1>7, ExceptSeq
<1>9. buffer' = [s EXCEPT ![i - 1] = y]
  BY <1>3, <1>5, <1>7
<1>10. buffer' \in Seq(Nat) /\ Len(buffer') = Len(buffer)
  BY <1>7, <1>8, <1>9
<1>11. i \in 1 .. Len(buffer') + 1
  BY <1>1, <1>2, <1>10
<1> QED BY <1>3, <1>10, <1>11, MovedTo

\* ^A: a control character for two codes.
LEMMA ControlStep ==
    ASSUME EditorInv, IsControl, Control, UNCHANGED <<hist, yank>>
    PROVE  EditorInv'
<1>1. /\ buffer \in Seq(Nat) /\ Len(buffer) \in Nat /\ cursor \in 1 .. Len(buffer) + 1
      /\ cursor > 2 /\ buffer[cursor - 1] \in 65 .. 95
  BY TextTyped DEF IsControl
<1>2. PICK last \in 2 .. Len(buffer) : last = cursor - 1
  BY <1>1
<1>3. PICK c \in Nat : c = buffer[last] - 64
  <2>1. buffer[last] \in 65 .. 95
    BY <1>1, <1>2, Zenon
  <2>2. \A k \in 65 .. 95 : k - 64 \in Nat
    OBVIOUS
  <2> QED BY <2>1, <2>2, Zenon
<1>4. last - 1 \in 1 .. Len(buffer)
  BY <1>1, <1>2
<1>5. [buffer EXCEPT ![last - 1] = c] \in Seq(Nat) /\ Len([buffer EXCEPT ![last - 1] = c]) = Len(buffer)
  BY <1>1, <1>3, <1>4, ExceptSeq
<1>6. PICK s \in Seq(Nat) : s = [buffer EXCEPT ![last - 1] = c] /\ Len(s) = Len(buffer)
  BY <1>5
<1>7. buffer' = RemoveAt(s, last) /\ Move(last, "edit")
  BY <1>2, <1>3, <1>6 DEF Control
<1>8. last \in 1 .. Len(s)
  BY <1>2, <1>6
<1>9. buffer' \in Seq(Nat) /\ Len(buffer') = Len(buffer) - 1
  BY <1>6, <1>7, <1>8, OneRemoved
<1>10. last \in 1 .. Len(buffer') + 1
  BY <1>1, <1>2, <1>9
<1> QED BY <1>7, <1>9, <1>10, MovedTo

\* A code point is a number.
LEMMA CodeIsNumber ==
    ASSUME NEW n, NEW v \in 1 .. n
    PROVE  v \in Nat
OBVIOUS

\* x0123: a code point for its digits.
LEMMA HexStep ==
    ASSUME EditorInv, Hex, UNCHANGED <<hist, yank>>
    PROVE  EditorInv'
<1>1. buffer \in Seq(Nat) /\ Len(buffer) \in Nat /\ cursor \in 1 .. Len(buffer) + 1
  BY TextTyped
<1>2. PICK last \in 0 .. Len(buffer) : last = cursor - 1
  BY <1>1
<1> DEFINE starts == {p \in 1 .. last - 1 :
                        /\ buffer[p] = 120
                        /\ \A j \in p + 1 .. last : HexDigit(buffer[j]) < 16}
           x      == Greatest(starts)
<1>3. /\ starts # {} /\ HexValue(x, last) \in 1 .. MaxCode
      /\ buffer' = [RemoveValues(buffer, x + 1, last) EXCEPT ![x] = HexValue(x, last)]
      /\ Move(x + 1, "edit")
  BY <1>2, Zenon DEF Hex
<1>4. starts \subseteq 1 .. last
  BY <1>2
<1>5. starts \subseteq 1 .. last - 1
  OBVIOUS
<1> HIDE DEF starts
<1>6. x \in starts
  <2>1. last \in Nat
    BY <1>2
  <2> QED BY <1>3, <1>4, <2>1, GreatestIsGreatest, Zenon
<1>7. x \in 1 .. last - 1
  BY <1>5, <1>6
<1> HIDE DEF x
<1>8. PICK i \in 1 .. Len(buffer) + 1 : i = x + 1
  BY <1>1, <1>2, <1>7
<1>9. last \in i - 1 .. Len(buffer)
  BY <1>1, <1>2, <1>7, <1>8
<1>10. /\ RemoveValues(buffer, i, last) \in Seq(Nat)
       /\ Len(RemoveValues(buffer, i, last)) = Len(buffer) - (last - i + 1)
  BY <1>1, <1>9, Removed
<1>11. PICK s \in Seq(Nat) : s = RemoveValues(buffer, i, last) /\ Len(s) = Len(buffer) - (last - i + 1)
  BY <1>10
<1>12. x \in 1 .. Len(s)
  BY <1>1, <1>2, <1>7, <1>8, <1>11
<1>13. PICK v \in Nat : v = HexValue(x, last)
  BY <1>3, CodeIsNumber, Zenon
<1>14. [s EXCEPT ![x] = v] \in Seq(Nat) /\ Len([s EXCEPT ![x] = v]) = Len(s)
  BY <1>11, <1>12, <1>13, ExceptSeq
<1>15. buffer' = [s EXCEPT ![x] = v] /\ Move(i, "edit")
  BY <1>3, <1>8, <1>11, <1>13, Zenon
<1>16. buffer' \in Seq(Nat) /\ Len(buffer') = Len(s)
  BY <1>14, <1>15, Zenon
<1>17. i \in 1 .. Len(buffer') + 1
  BY <1>8, <1>12, <1>16
<1> QED BY <1>15, <1>16, <1>17, MovedTo

\* hexinput
LEMMA HexInputStep ==
    ASSUME EditorInv, HexInput
    PROVE  EditorInv'
<1>1. UNCHANGED <<hist, yank>>
  BY DEF HexInput
<1>2. CASE IsControl
  BY <1>1, <1>2, ControlStep DEF HexInput
<1>3. CASE ~IsControl
  BY <1>1, <1>3, HexStep DEF HexInput
<1> QED BY <1>2, <1>3

\* paste
LEMMA PasteStep ==
    ASSUME EditorInv, Paste
    PROVE  EditorInv'
<1>1. buffer \in Seq(Nat) /\ Len(buffer) \in Nat /\ cursor \in 1 .. Len(buffer) + 1
  BY TextTyped
<1>2. yank \in Seq(Nat) /\ Len(yank) \in Nat
  BY DEF EditorInv, EditorTyped
<1>3. buffer' = InsertValues(buffer, cursor, yank)
  BY DEF Paste
<1>4. buffer' \in Seq(Nat) /\ Len(buffer') = Len(buffer) + Len(yank)
  BY <1>1, <1>2, <1>3, Inserted
<1>5. cursor + Len(yank) \in 1 .. Len(buffer') + 1
  BY <1>1, <1>2, <1>4
<1> QED BY <1>4, <1>5, MovedTo DEF Paste

(***************************************************************************)
(* Kills                                                                   *)
(***************************************************************************)

\* Concatenation of texts is associative.
LEMMA Associates ==
    ASSUME NEW s \in Seq(Nat), NEW t \in Seq(Nat), NEW u \in Seq(Nat)
    PROVE  (s \o t) \o u = s \o (t \o u)
BY ConcatAssociative

\* Putting back at i what was killed, together with what was killed before it
\* to the left or to the right of the cursor, gives what the text was.
LEMMA KilledComesBack ==
    ASSUME NEW s \in Seq(Nat), NEW y \in Seq(Nat),
           NEW i \in 1 .. Len(s) + 1, NEW j \in i - 1 .. Len(s)
    PROVE  /\ SubSeq(s, i, j) \in Seq(Nat)
           /\ SubSeq(s, i, j) \o y \in Seq(Nat) /\ y \o SubSeq(s, i, j) \in Seq(Nat)
           /\ InsertValues(RemoveValues(s, i, j), i, SubSeq(s, i, j)) = s
           /\ InsertValues(RemoveValues(s, i, j), i, SubSeq(s, i, j) \o y)
                = InsertValues(s, j + 1, y)
           /\ InsertValues(RemoveValues(s, i, j), i, y \o SubSeq(s, i, j))
                = InsertValues(s, i, y)
<1> DEFINE a == SubSeq(s, 1, i - 1)
           b == SubSeq(s, i, j)
           c == SubSeq(s, j + 1, Len(s))
<1>1. /\ a \in Seq(Nat) /\ b \in Seq(Nat) /\ c \in Seq(Nat)
      /\ SubSeq(s, i, Len(s)) = b \o c
      /\ SubSeq(s, 1, j) = a \o b
      /\ s = a \o SubSeq(s, i, Len(s))
  <2>1. a \in Seq(Nat) /\ b \in Seq(Nat) /\ c \in Seq(Nat)
    BY ThreeParts, Zenon
  <2>2. SubSeq(s, i, Len(s)) = b \o c
    BY ThreeParts, Zenon
  <2>3. SubSeq(s, 1, j) = a \o b
    BY ThreeParts
  <2>4. s = a \o SubSeq(s, i, Len(s))
    BY ThreeParts, Zenon
  <2> QED BY <2>1, <2>2, <2>3, <2>4, Zenon
<1>2. \A t \in Seq(Nat) : InsertValues(RemoveValues(s, i, j), i, t) = (a \o t) \o c
  BY InsertedForRemoved, Zenon
<1>3. InsertValues(s, i, y) = (a \o y) \o SubSeq(s, i, Len(s))
  BY DEF InsertValues
<1>4. InsertValues(s, j + 1, y) = (SubSeq(s, 1, j) \o y) \o c
  <2>1. (j + 1) - 1 = j
    OBVIOUS
  <2> QED BY <2>1, Zenon DEF InsertValues
<1> HIDE DEF a, b, c
<1>5. b \o y \in Seq(Nat) /\ y \o b \in Seq(Nat) /\ a \o y \in Seq(Nat)
  BY <1>1, ConcatProperties
<1>6. (a \o b) \o c = a \o (b \o c)
  BY <1>1, Associates, Zenon
<1>7. a \o (b \o y) = (a \o b) \o y
  BY <1>1, Associates, Zenon
<1>8. a \o (y \o b) = (a \o y) \o b
  BY <1>1, Associates, Zenon
<1>9. ((a \o y) \o b) \o c = (a \o y) \o (b \o c)
  <2>1. \A d \in Seq(Nat) : (d \o b) \o c = d \o (b \o c)
    BY <1>1, Associates, Zenon
  <2> QED BY <1>5, <2>1, Zenon
<1>10. InsertValues(RemoveValues(s, i, j), i, b) = s
  BY <1>1, <1>2, <1>6, Zenon
<1>11. InsertValues(RemoveValues(s, i, j), i, b \o y) = InsertValues(s, j + 1, y)
  BY <1>1, <1>2, <1>4, <1>5, <1>7, Zenon
<1>12. InsertValues(RemoveValues(s, i, j), i, y \o b) = InsertValues(s, i, y)
  BY <1>1, <1>2, <1>3, <1>5, <1>8, <1>9, Zenon
<1> QED BY <1>1, <1>5, <1>10, <1>11, <1>12, Zenon DEF b

\* A kill to the left ends before the cursor, a kill to the right begins at it.
LEMMA KillStep ==
    ASSUME EditorInv, NEW i \in 1 .. Len(buffer) + 1, NEW j \in i - 1 .. Len(buffer),
           NEW left, left \in BOOLEAN,
           left => j + 1 = cursor, ~left => i = cursor, Kill(i, j, left)
    PROVE  EditorInv'
<1>1. buffer \in Seq(Nat) /\ Len(buffer) \in Nat /\ yank \in Seq(Nat)
  BY TextTyped DEF EditorInv, EditorTyped
<1> DEFINE b == SubSeq(buffer, i, j)
           r == RemoveValues(buffer, i, j)
<1>2. /\ b \in Seq(Nat) /\ b \o yank \in Seq(Nat) /\ yank \o b \in Seq(Nat)
      /\ InsertValues(r, i, b) = buffer
      /\ InsertValues(r, i, b \o yank) = InsertValues(buffer, j + 1, yank)
      /\ InsertValues(r, i, yank \o b) = InsertValues(buffer, i, yank)
  <2>1. b \in Seq(Nat) /\ b \o yank \in Seq(Nat) /\ yank \o b \in Seq(Nat)
    BY <1>1, KilledComesBack, Zenon
  <2>2. InsertValues(r, i, b) = buffer
    BY <1>1, KilledComesBack
  <2>3. InsertValues(r, i, b \o yank) = InsertValues(buffer, j + 1, yank)
    BY <1>1, KilledComesBack, Zenon
  <2>4. InsertValues(r, i, yank \o b) = InsertValues(buffer, i, yank)
    BY <1>1, KilledComesBack, Zenon
  <2> QED BY <2>1, <2>2, <2>3, <2>4, Zenon
<1>3. r \in Seq(Nat) /\ Len(r) = Len(buffer) - (j - i + 1)
  BY <1>1, Removed
<1>4. /\ yank' = IF state # "kill" THEN b ELSE IF left THEN b \o yank ELSE yank \o b
      /\ base' = IF state = "kill" THEN base ELSE buffer
      /\ buffer' = r /\ UNCHANGED hist
      /\ cursor' = i /\ state' = "kill" /\ tablist' = << >> /\ tabix' = 0
  BY Zenon DEF Kill, Move
<1> HIDE DEF b, r
<1>5. i \in 1 .. Len(r) + 1
  BY <1>1, <1>3
<1>6. state = "kill" => InsertValues(buffer, cursor, yank) = base
  BY Zenon DEF EditorInv, Killing
<1>7. yank' \in Seq(Nat) /\ InsertValues(r, i, yank') = base'
  <2>1. CASE state # "kill"
    BY <1>2, <1>4, <2>1, Zenon
  <2>2. CASE state = "kill" /\ left
    BY <1>2, <1>4, <1>6, <2>2, Zenon
  <2>3. CASE state = "kill" /\ ~left
    BY <1>2, <1>4, <1>6, <2>3, Zenon
  <2> QED BY <2>1, <2>2, <2>3, Zenon
<1>8. Killing'
  BY <1>4, <1>7, Zenon DEF Killing
<1>9. Tabbing'
  BY <1>4, Zenon DEF Tabbing
<1>10. NoEmptyHistory'
  BY <1>4, Zenon DEF EditorInv, NoEmptyHistory, hist
<1>11. stash' \in Seq(Nat) /\ history' \in Seq(Seq(Nat)) /\ retrospect' \in 0 .. Len(history')
  BY <1>4 DEF EditorInv, EditorTyped, hist
<1>12. tablist' \in Seq(Seq(Nat)) /\ tabix' \in 0 .. Len(tablist')
  BY <1>4
<1>13. cursor' \in 1 .. Len(buffer') + 1 /\ buffer' \in Seq(Nat) /\ state' \in {"edit", "kill", "tab"}
  BY <1>3, <1>4, <1>5, Zenon
<1>14. EditorTyped'
  BY <1>7, <1>11, <1>12, <1>13, Zenon DEF EditorTyped
<1> QED BY <1>8, <1>9, <1>10, <1>14, Zenon DEF EditorInv

\* The four kills.
LEMMA KillsStep ==
    ASSUME EditorInv, KillToBeg \/ KillToEnd \/ KillPrevWord \/ KillNextWord
    PROVE  EditorInv'
<1>1. /\ Len(buffer) \in Nat /\ cursor \in 1 .. Len(buffer) + 1 /\ Size = Len(buffer)
      /\ TRUE \in BOOLEAN /\ FALSE \in BOOLEAN
  BY TextTyped
<1>2. EditorTyped
  BY DEF EditorInv
<1>3. PICK l \in 0 .. Len(buffer) : l = cursor - 1 /\ l + 1 = cursor
  BY <1>1
<1>4. CASE KillToBeg
  <2>1. 1 \in 1 .. Len(buffer) + 1 /\ l \in 1 - 1 .. Len(buffer)
    BY <1>1, <1>3
  <2> QED BY <1>1, <1>3, <1>4, <2>1, KillStep, Zenon DEF KillToBeg
<1>5. CASE KillToEnd
  <2>1. Len(buffer) \in cursor - 1 .. Len(buffer)
    BY <1>1
  <2> QED BY <1>1, <1>5, <2>1, KillStep, Zenon DEF KillToEnd
<1>6. CASE KillPrevWord
  <2>1. SearchPrevWord(Alnum) \in 1 .. cursor
    BY <1>2, PrevWord
  <2>2. PICK i \in 1 .. Len(buffer) + 1 : i = SearchPrevWord(Alnum) /\ l \in i - 1 .. Len(buffer)
    BY <1>1, <1>3, <2>1
  <2> QED BY <1>1, <1>3, <1>6, <2>2, KillStep, Zenon DEF KillPrevWord
<1>7. CASE KillNextWord
  <2>1. SearchNextWord \in cursor .. Len(buffer) + 1
    BY <1>2, NextWord
  <2>2. PICK j \in cursor - 1 .. Len(buffer) : j = SearchNextWord - 1
    BY <1>1, <2>1
  <2> QED BY <1>1, <1>7, <2>2, KillStep, Zenon DEF KillNextWord
<1> QED BY <1>4, <1>5, <1>6, <1>7, Zenon

(***************************************************************************)
(* Completion                                                              *)
(***************************************************************************)

\* What is between i and the cursor becomes a word of the list, and base
\* holds what is around it.
LEMMA ReplaceStep ==
    ASSUME EditorInv, NEW i \in 1 .. cursor, NEW word \in Seq(Nat), Replace(i, word),
           tablist' \in Seq(Seq(Nat)), tabix' \in 1 .. Len(tablist'), tablist'[tabix'] = word,
           base'[1] = SubSeq(buffer, 1, i - 1), base'[2] = SubSeq(buffer, cursor, Len(buffer))
    PROVE  EditorInv'
<1>1. buffer \in Seq(Nat) /\ Len(buffer) \in Nat /\ cursor \in 1 .. Len(buffer) + 1
  BY TextTyped
<1>2. PICK j \in 0 .. Len(buffer) : j = cursor - 1 /\ j + 1 = cursor
  BY <1>1
<1>3. i \in 1 .. Len(buffer) + 1 /\ j \in i - 1 .. Len(buffer)
  BY <1>1, <1>2
<1> DEFINE a == SubSeq(buffer, 1, i - 1)
           c == SubSeq(buffer, j + 1, Len(buffer))
<1>4. a \in Seq(Nat) /\ Len(a) = i - 1
  BY <1>1, <1>3, ThreeParts, Zenon
<1>5. c \in Seq(Nat) /\ Len(c) = Len(buffer) - j
  BY <1>1, <1>2, RestOf
<1>6. InsertValues(RemoveValues(buffer, i, j), i, word) = (a \o word) \o c
  BY <1>1, <1>3, InsertedForRemoved, Zenon
<1>7. /\ buffer' = InsertValues(RemoveValues(buffer, i, j), i, word)
      /\ cursor' = i + Len(word) /\ state' = "tab"
      /\ UNCHANGED <<hist, yank>>
  BY <1>2, Zenon DEF Replace, Move
<1>8. base'[1] = a /\ base'[2] = c
  BY <1>2, Zenon
<1> HIDE DEF a, c
<1>9. a \o word \in Seq(Nat) /\ Len(a \o word) = Len(a) + Len(word) /\ Len(word) \in Nat
  BY <1>4, ConcatProperties, LenProperties
<1>10. (a \o word) \o c \in Seq(Nat) /\ Len((a \o word) \o c) = Len(a \o word) + Len(c)
  BY <1>5, <1>9, ConcatProperties
<1>11. i + Len(word) = Len(a) + Len(word) + 1
  BY <1>3, <1>4, <1>9
<1>12. buffer' = (a \o word) \o c
  BY <1>6, <1>7, Zenon
<1>13. buffer' \in Seq(Nat) /\ Len(buffer') = (i - 1) + Len(word) + (Len(buffer) - j)
  BY <1>4, <1>5, <1>9, <1>10, <1>12
<1>14. i + Len(word) \in 1 .. Len(buffer') + 1
  BY <1>1, <1>2, <1>3, <1>9, <1>13
<1>15. TabsReplace'
  BY <1>7, <1>8, <1>11, <1>12, Zenon DEF TabsReplace
<1>16. Tabbing'
  BY <1>4, <1>5, <1>8, <1>15, Zenon DEF Tabbing
<1>17. Killing'
  BY <1>7, Zenon DEF Killing
<1>18. Remembered
  BY <1>7, MemoryKept
<1>19. tabix' \in 0 .. Len(tablist')
  OBVIOUS
<1>20. cursor' \in 1 .. Len(buffer') + 1 /\ state' \in {"edit", "kill", "tab"}
  BY <1>7, <1>14, Zenon
<1>21. EditorTyped'
  BY <1>13, <1>18, <1>19, <1>20, Zenon DEF EditorTyped, Remembered
<1> QED BY <1>16, <1>17, <1>18, <1>21, Zenon DEF EditorInv, Remembered

\* The first tab takes the word before the cursor.
LEMMA TabFirstStep ==
    ASSUME EditorInv, TabFirst
    PROVE  EditorInv'
<1>1. EditorTyped /\ Size = Len(buffer)
  BY DEF EditorInv, Size
<1>2. PICK i \in 1 .. cursor : i = SearchPrevWord(NotSpace)
  BY <1>1, PrevWord
<1>3. PICK list \in Lists : tablist' = list /\ tabix' = 1 /\ Replace(i, list[1])
  BY <1>2, Zenon DEF TabFirst
<1>4. base' = <<SubSeq(buffer, 1, i - 1), SubSeq(buffer, cursor, Len(buffer))>>
  BY <1>1, <1>2 DEF TabFirst
<1>5. list \in Seq(Seq(Nat)) /\ list # << >>
  BY EditorAssumption, Zenon
<1>6. 1 \in 1 .. Len(list) /\ list[1] \in Seq(Nat)
  BY <1>5
<1>7. base'[1] = SubSeq(buffer, 1, i - 1) /\ base'[2] = SubSeq(buffer, cursor, Len(buffer))
  BY <1>4
<1> QED BY <1>3, <1>5, <1>6, <1>7, ReplaceStep, Zenon

\* Another tab takes what the last one inserted.
LEMMA TabAgainStep ==
    ASSUME EditorInv, NEW dir \in Int, TabAgain(dir)
    PROVE  EditorInv'
<1>1. state = "tab"
  BY DEF TabAgain
<1>2. /\ base[1] \in Seq(Nat) /\ base[2] \in Seq(Nat) /\ tabix \in 1 .. Len(tablist)
      /\ buffer = base[1] \o tablist[tabix] \o base[2]
      /\ cursor = Len(base[1]) + Len(tablist[tabix]) + 1
  BY <1>1, Zenon DEF EditorInv, Tabbing, TabsReplace
<1>3. tablist \in Seq(Seq(Nat)) /\ Len(tablist) \in Nat
  BY DEF EditorInv, EditorTyped
<1>4. PICK a \in Seq(Nat), w \in Seq(Nat), c \in Seq(Nat) :
        a = base[1] /\ w = tablist[tabix] /\ c = base[2]
  BY <1>2, <1>3
<1>5. buffer = (a \o w) \o c /\ cursor = Len(a) + Len(w) + 1
  BY <1>2, <1>4, Zenon
<1>6. Len(tablist) \in Nat \ {0} /\ tabix \in Int
  BY <1>2, <1>3
<1>7. PICK ix \in 1 .. Len(tablist) : ix = ((tabix + dir - 1) % Len(tablist)) + 1
  BY <1>6
<1>8. /\ tabix' = ix /\ tablist' = tablist /\ base' = base
      /\ Replace(cursor - Len(w), tablist[ix])
  BY <1>4, <1>7, Zenon DEF TabAgain
<1>9. Len(a) \in Nat /\ Len(w) \in Nat
  BY <1>4
<1>10. PICK i \in 1 .. cursor : i = cursor - Len(w) /\ i - 1 = Len(a)
  <2>1. \A m, n \in Nat : /\ m + 1 \in 1 .. m + n + 1 /\ m + 1 = (m + n + 1) - n
                           /\ (m + 1) - 1 = m
    OBVIOUS
  <2> QED BY <1>5, <1>9, <2>1, Zenon
<1>11. tablist[ix] \in Seq(Nat)
  BY <1>3
<1>12. a \o w \in Seq(Nat) /\ Len(a \o w) = Len(a) + Len(w)
  BY <1>4, ConcatProperties
<1>13. SubSeq((a \o w) \o c, Len(a \o w) + 1, Len((a \o w) \o c)) = c
  BY <1>4, <1>12, PartsOfConcat
<1>14. SubSeq(a \o (w \o c), 1, Len(a)) = a
  <2>1. w \o c \in Seq(Nat)
    BY <1>4, ConcatProperties
  <2> QED BY <1>4, <2>1, PartsOfConcat
<1>15. (a \o w) \o c = a \o (w \o c)
  BY <1>4, Associates
<1>16. SubSeq(buffer, 1, i - 1) = a
  BY <1>5, <1>10, <1>14, <1>15, Zenon
<1>17. SubSeq(buffer, cursor, Len(buffer)) = c
  BY <1>5, <1>12, <1>13, Zenon
<1>18. base'[1] = SubSeq(buffer, 1, i - 1) /\ base'[2] = SubSeq(buffer, cursor, Len(buffer))
  BY <1>4, <1>8, <1>16, <1>17, Zenon
<1>19. /\ tablist' \in Seq(Seq(Nat)) /\ tabix' \in 1 .. Len(tablist') /\ tablist'[tabix'] = tablist[ix]
       /\ Replace(i, tablist[ix])
  BY <1>3, <1>7, <1>8, <1>10, Zenon
<1> QED BY <1>10, <1>11, <1>18, <1>19, ReplaceStep, Zenon

(***************************************************************************)
(* History                                                                 *)
(***************************************************************************)

\* Lists of lines that are not empty.
LEMMA NoneEmpty ==
    ASSUME NEW s \in Seq(Seq(Nat)), NEW t \in Seq(Seq(Nat)),
           \A k \in 1 .. Len(s) : s[k] # << >>, \A k \in 1 .. Len(t) : t[k] # << >>
    PROVE  /\ s \o t \in Seq(Seq(Nat)) /\ Len(s \o t) = Len(s) + Len(t)
           /\ \A k \in 1 .. Len(s \o t) : (s \o t)[k] # << >>
<1>1. /\ s \o t \in Seq(Seq(Nat)) /\ Len(s \o t) = Len(s) + Len(t)
      /\ \A k \in 1 .. Len(s) + Len(t) : (s \o t)[k] = IF k <= Len(s) THEN s[k] ELSE t[k - Len(s)]
  BY ConcatProperties
<1>2. Len(s) \in Nat /\ Len(t) \in Nat
  OBVIOUS
<1> SUFFICES ASSUME NEW k \in 1 .. Len(s) + Len(t) PROVE (s \o t)[k] # << >>
  BY <1>1
<1>3. CASE k <= Len(s)
  <2>1. (s \o t)[k] = s[k] /\ k \in 1 .. Len(s)
    BY <1>1, <1>2, <1>3
  <2> QED BY <2>1, Zenon
<1>4. CASE ~(k <= Len(s))
  <2>1. (s \o t)[k] = t[k - Len(s)] /\ k - Len(s) \in 1 .. Len(t)
    BY <1>1, <1>2, <1>4
  <2> QED BY <2>1, Zenon
<1> QED BY <1>3, <1>4

\* The history with an entry saved: it is the text, or it is gone.
LEMMA SavedHistory ==
    ASSUME EditorInv, NEW r \in 1 .. Len(history)
    PROVE  /\ Saved(r) \in Seq(Seq(Nat))
           /\ Len(Saved(r)) = IF buffer # << >> THEN Len(history) ELSE Len(history) - 1
           /\ \A k \in 1 .. Len(Saved(r)) : Saved(r)[k] # << >>
<1>1. /\ history \in Seq(Seq(Nat)) /\ Len(history) \in Nat /\ buffer \in Seq(Nat)
      /\ \A k \in 1 .. Len(history) : history[k] # << >>
  BY DEF EditorInv, EditorTyped, NoEmptyHistory
<1>2. CASE buffer # << >>
  <2>1. Saved(r) = [history EXCEPT ![r] = buffer]
    BY <1>2 DEF Saved
  <2> QED BY <1>1, <1>2, <2>1
<1>3. CASE buffer = << >>
  <2> DEFINE a == SubSeq(history, 1, r - 1)
             c == SubSeq(history, r + 1, Len(history))
  <2>1. Saved(r) = a \o c
    BY <1>3 DEF Saved, RemoveAt, RemoveValues
  <2>2. r \in 1 .. Len(history) + 1 /\ r \in r - 1 .. Len(history)
    BY <1>1
  <2>3. a \in Seq(Seq(Nat)) /\ Len(a) = r - 1
    BY <1>1, <2>2, ThreeParts, Zenon
  <2>4. c \in Seq(Seq(Nat)) /\ Len(c) = Len(history) - r
    <3>1. r \in 0 .. Len(history)
      BY <1>1
    <3> QED BY <1>1, <3>1, RestOf
  <2>5. \A k \in 1 .. Len(a) : a[k] # << >>
    BY <1>1, <2>3
  <2>6. \A k \in 1 .. Len(c) : c[k] # << >>
    BY <1>1, <2>4
  <2> HIDE DEF a, c
  <2>7. /\ a \o c \in Seq(Seq(Nat)) /\ Len(a \o c) = Len(a) + Len(c)
        /\ \A k \in 1 .. Len(a \o c) : (a \o c)[k] # << >>
    BY <2>3, <2>4, <2>5, <2>6, NoneEmpty
  <2>8. Len(a \o c) = Len(history) - 1
    BY <1>1, <2>3, <2>4, <2>7
  <2> QED BY <1>3, <2>1, <2>7, <2>8
<1> QED BY <1>2, <1>3

\* A line of the history, or the stash, is shown.
LEMMA Shown ==
    ASSUME NEW text \in Seq(Nat), Show(text)
    PROVE  Edited
<1>1. Len(text) \in Nat
  OBVIOUS
<1>2. Len(text) + 1 \in 1 .. Len(text) + 1
  BY <1>1
<1>3. buffer' = text /\ cursor' = Len(text) + 1 /\ state' = "edit" /\ tablist' = << >> /\ tabix' = 0
  BY DEF Show, Move
<1> QED BY <1>2, <1>3, Zenon DEF Edited

\* The empty line.
LEMMA Emptied ==
    ASSUME buffer' = << >>, Move(1, "edit")
    PROVE  Edited
BY DEF Move, Edited

\* reset
LEMMA ResetStep ==
    ASSUME EditorInv, Reset
    PROVE  EditorInv'
<1>1. Edited
  BY Emptied DEF Reset
<1>2. /\ yank' = yank /\ history' = history /\ stash' = << >> /\ retrospect' = 0
  BY DEF Reset
<1>3. Remembered
  BY <1>2 DEF Remembered, EditorInv, EditorTyped, NoEmptyHistory
<1> QED BY <1>1, <1>3, EditedIsSound

\* confirm
LEMMA ConfirmStep ==
    ASSUME EditorInv, Confirm
    PROVE  EditorInv'
<1>1. Edited
  BY Emptied DEF Confirm
<1>2. yank' = yank /\ stash' = << >> /\ retrospect' = 0
  BY DEF Confirm
<1>3. history' = history \/ history' = Append(history, buffer)
  BY Zenon DEF Confirm
<1>4. buffer # << >>
  <2>1. PICK i \in DOMAIN buffer : buffer[i] \notin {9, 10, 11, 12, 13, 32}
    BY DEF Confirm
  <2> QED BY <2>1
<1>5. /\ history \in Seq(Seq(Nat)) /\ buffer \in Seq(Nat)
      /\ \A k \in DOMAIN history : history[k] # << >>
  BY DEF EditorInv, EditorTyped, NoEmptyHistory
<1>6. history' \in Seq(Seq(Nat)) /\ \A k \in DOMAIN history' : history'[k] # << >>
  <2>1. CASE history' = history
    BY <1>5, <2>1, Zenon
  <2>2. CASE history' = Append(history, buffer)
    <3>1. <<buffer>> \in Seq(Seq(Nat)) /\ \A k \in 1 .. Len(<<buffer>>) : <<buffer>>[k] # << >>
      BY <1>4, <1>5
    <3>2. \A k \in 1 .. Len(history) : history[k] # << >>
      BY <1>5
    <3>3. history' = history \o <<buffer>>
      BY <1>5, <2>2, AppendIsConcat
    <3>4. /\ history' \in Seq(Seq(Nat))
          /\ \A k \in 1 .. Len(history') : history'[k] # << >>
      BY <1>5, <3>1, <3>2, <3>3, NoneEmpty, Zenon
    <3> QED BY <3>4
  <2> QED BY <1>3, <2>1, <2>2
<1>7. yank \in Seq(Nat)
  BY DEF EditorInv, EditorTyped
<1>8. Remembered
  BY <1>2, <1>6, <1>7 DEF Remembered, NoEmptyHistory
<1> QED BY <1>1, <1>8, EditedIsSound

\* older_history
LEMMA OlderStep ==
    ASSUME EditorInv, OlderHistory
    PROVE  EditorInv'
<1>1. /\ history \in Seq(Seq(Nat)) /\ Len(history) \in Nat /\ buffer \in Seq(Nat)
      /\ retrospect \in 0 .. Len(history) /\ yank \in Seq(Nat) /\ stash \in Seq(Nat)
  BY DEF EditorInv, EditorTyped
<1>2. yank' = yank
  BY DEF OlderHistory
<1>3. CASE 1 < retrospect /\ history' = Saved(retrospect) /\ retrospect' = retrospect - 1
           /\ Show(history[retrospect - 1]) /\ stash' = stash
  <2>1. retrospect \in 1 .. Len(history)
    BY <1>1, <1>3
  <2>2. retrospect - 1 \in 1 .. Len(history)
    BY <1>1, <1>3
  <2>3. history[retrospect - 1] \in Seq(Nat)
    BY <1>1, <2>2
  <2>4. Edited
    BY <1>3, <2>3, Shown
  <2>5. /\ Saved(retrospect) \in Seq(Seq(Nat))
        /\ Len(Saved(retrospect)) = IF buffer # << >> THEN Len(history) ELSE Len(history) - 1
        /\ \A k \in 1 .. Len(Saved(retrospect)) : Saved(retrospect)[k] # << >>
    BY <2>1, SavedHistory
  <2>6. /\ history' \in Seq(Seq(Nat)) /\ \A k \in DOMAIN history' : history'[k] # << >>
        /\ Len(history') \in {Len(history), Len(history) - 1}
    BY <1>3, <2>5
  <2>7. retrospect' \in 0 .. Len(history')
    BY <1>1, <1>3, <2>6
  <2>8. Remembered
    BY <1>1, <1>2, <1>3, <2>6, <2>7, Zenon DEF Remembered, NoEmptyHistory
  <2> QED BY <2>4, <2>8, EditedIsSound
<1>4. CASE history # << >> /\ retrospect' = Len(history) /\ stash' = buffer
           /\ Show(history[Len(history)]) /\ history' = history
  <2>1. history[Len(history)] \in Seq(Nat)
    BY <1>1, <1>4
  <2>2. Edited
    BY <1>4, <2>1, Shown
  <2>3. retrospect' \in 0 .. Len(history')
    BY <1>1, <1>4
  <2>4. NoEmptyHistory'
    BY <1>4, Zenon DEF EditorInv, NoEmptyHistory
  <2>5. Remembered
    BY <1>1, <1>2, <1>4, <2>3, <2>4, Zenon DEF Remembered
  <2> QED BY <2>2, <2>5, EditedIsSound
<1> QED BY <1>3, <1>4, Zenon DEF OlderHistory

\* newer_history
LEMMA NewerStep ==
    ASSUME EditorInv, NewerHistory
    PROVE  EditorInv'
<1>1. /\ history \in Seq(Seq(Nat)) /\ Len(history) \in Nat /\ buffer \in Seq(Nat)
      /\ retrospect \in 1 .. Len(history) /\ yank \in Seq(Nat) /\ stash \in Seq(Nat)
  BY DEF EditorInv, EditorTyped, NewerHistory
<1>2. yank' = yank /\ history' = Saved(retrospect)
  BY DEF NewerHistory
<1>3. /\ Saved(retrospect) \in Seq(Seq(Nat))
      /\ \A k \in 1 .. Len(Saved(retrospect)) : Saved(retrospect)[k] # << >>
  BY <1>1, SavedHistory
<1>4. history' \in Seq(Seq(Nat)) /\ \A k \in DOMAIN history' : history'[k] # << >>
  BY <1>2, <1>3
<1> DEFINE r == IF buffer # << >> THEN retrospect + 1 ELSE retrospect
<1>5. r \in Nat \ {0}
  BY <1>1
<1>6. IF r > Len(history') THEN retrospect' = 0 /\ stash' = << >> /\ Show(stash)
      ELSE retrospect' = r /\ stash' = stash /\ Show(history'[r])
  BY Zenon DEF NewerHistory
<1> HIDE DEF r
<1>7. CASE r > Len(history')
  <2>1. retrospect' = 0 /\ stash' = << >> /\ Show(stash)
    BY <1>6, <1>7
  <2>2. Edited
    BY <1>1, <2>1, Shown
  <2>3. retrospect' \in 0 .. Len(history') /\ stash' \in Seq(Nat)
    BY <1>4, <2>1
  <2>4. Remembered
    BY <1>1, <1>2, <1>4, <2>3, Zenon DEF Remembered, NoEmptyHistory
  <2> QED BY <2>2, <2>4, EditedIsSound
<1>8. CASE ~(r > Len(history'))
  <2>1. retrospect' = r /\ stash' = stash /\ Show(history'[r])
    BY <1>6, <1>8
  <2>2. r \in 1 .. Len(history') /\ r \in 0 .. Len(history')
    BY <1>4, <1>5, <1>8
  <2>3. history'[r] \in Seq(Nat)
    BY <1>4, <2>2
  <2>4. Edited
    BY <2>1, <2>3, Shown
  <2>5. Remembered
    BY <1>1, <1>2, <1>4, <2>1, <2>2, Zenon DEF Remembered, NoEmptyHistory
  <2> QED BY <2>4, <2>5, EditedIsSound
<1> QED BY <1>7, <1>8

(***************************************************************************)
(* The theorems                                                            *)
(***************************************************************************)

\* Every state of the editor satisfies the inductive invariant.
LEMMA EditorInvariant == EditorSpec => []EditorInv
<1>1. EditorInit => EditorInv
  <2> SUFFICES ASSUME EditorInit PROVE EditorInv
    OBVIOUS
  <2>1. EditorTyped
    BY DEF EditorInit, EditorTyped
  <2>2. Tabbing /\ Killing
    BY Zenon DEF EditorInit, Tabbing, Killing
  <2>3. NoEmptyHistory
    BY DEF EditorInit, NoEmptyHistory
  <2> QED BY <2>1, <2>2, <2>3 DEF EditorInv
<1>2. EditorInv /\ [EditorNext]_editorVars => EditorInv'
  <2> SUFFICES ASSUME EditorInv, [EditorNext]_editorVars PROVE EditorInv'
    OBVIOUS
  <2>1. CASE \E code \in Codes : Add(code)
    BY <2>1, AddStep
  <2>2. CASE Backspace
    BY <2>2, BackspaceStep
  <2>3. CASE Delete
    BY <2>3, DeleteStep
  <2>4. CASE MoveTo
    BY <2>4, MoveToStep
  <2>5. CASE Swap
    BY <2>5, SwapStep
  <2>6. CASE HexInput
    BY <2>6, HexInputStep
  <2>7. CASE KillToBeg \/ KillToEnd \/ KillPrevWord \/ KillNextWord
    BY <2>7, KillsStep
  <2>8. CASE Paste
    BY <2>8, PasteStep
  <2>9. CASE TabAgain(1) \/ TabAgain(-1)
    BY <2>9, TabAgainStep
  <2>10. CASE TabFirst
    BY <2>10, TabFirstStep
  <2>11. CASE Reset \/ Confirm
    BY <2>11, ResetStep, ConfirmStep
  <2>12. CASE OlderHistory \/ NewerHistory
    BY <2>12, OlderStep, NewerStep
  <2>13. CASE UNCHANGED editorVars
    BY <2>13 DEF editorVars, hist, tabs, EditorInv, EditorTyped, Tabbing, Killing, TabsReplace,
                 NoEmptyHistory
  <2> QED
    BY <2>1, <2>2, <2>3, <2>4, <2>5, <2>6, <2>7, <2>8, <2>9, <2>10, <2>11, <2>12, <2>13, Zenon
       DEF EditorNext
<1> QED BY <1>1, <1>2, PTL DEF EditorSpec

\* A run of kills is undone by paste (Editor.lua:123-176, 324-327), for texts and
\* runs of any length, and the cursor and the places in the history and
\* in the list of completions are always in range.
THEOREM KillsCorrect == EditorSpec => []KillsComeBack
<1>1. EditorInv => KillsComeBack
  BY Zenon DEF EditorInv, EditorTyped, Killing, KillsComeBack, EditorTypeOK, Size
<1> QED BY <1>1, EditorInvariant, PTL

\* Tab replaces the word it inserted before and nothing else (Editor.lua:329-355),
\* for lists of any words.
THEOREM TabsCorrect == EditorSpec => []TabsReplace
<1>1. EditorInv => TabsReplace
  BY Zenon DEF EditorInv, Tabbing, TabsReplace
<1> QED BY <1>1, EditorInvariant, PTL

\* No line of the history is empty (Editor.lua:46-103), however lines are
\* edited on the way through it.
THEOREM HistoryCorrect == EditorSpec => []NoEmptyHistory
<1>1. EditorInv => NoEmptyHistory
  BY DEF EditorInv
<1> QED BY <1>1, EditorInvariant, PTL

----------------------------------------------------------------------------
(***************************************************************************)
(* The keyboard                                                            *)
(***************************************************************************)

\* Reading further does not change what is before: the run of Esc
LEMMA EscRunPrefix ==
    ASSUME NEW input \in Seq(Int), NEW key \in Int, NEW i \in 1..(Len(input) + 1),
           NEW n \in 0..(i - 1)
    PROVE  EscRun(Append(input, key), i, n) <=> EscRun(input, i, n)
<1>1. \A j \in 1..Len(input) : Append(input, key)[j] = input[j]
  OBVIOUS
<1>2. \A j \in (i - n)..(i - 1) : j \in 1..Len(input)
  OBVIOUS
<1>3. n # i - 1 => i - n - 1 \in 1..Len(input)
  OBVIOUS
<1> QED
  BY <1>1, <1>2, <1>3 DEF EscRun

LEMMA EscapedPrefix ==
    ASSUME NEW input \in Seq(Int), NEW key \in Int, NEW i \in 1..(Len(input) + 1)
    PROVE  Escaped(Append(input, key), i) <=> Escaped(input, i)
<1>1. \A n \in 1..(i - 1) : n \in 0..(i - 1)
  OBVIOUS
<1> QED
  BY <1>1, EscRunPrefix DEF Escaped

\* A run has one length
LEMMA EscRunUnique ==
    ASSUME NEW input \in Seq(Int), NEW i \in Nat, NEW m \in 0..(i - 1), NEW n \in 0..(i - 1),
           EscRun(input, i, m), EscRun(input, i, n)
    PROVE  m = n
<1>1. ASSUME NEW a \in 0..(i - 1), NEW b \in 0..(i - 1), a < b, EscRun(input, i, a), EscRun(input, i, b)
      PROVE  FALSE
  <2>1. a # i - 1
    BY <1>1
  <2>2. input[i - a - 1] # Esc
    BY <1>1, <2>1 DEF EscRun
  <2>3. i - a - 1 \in (i - b)..(i - 1)
    BY <1>1
  <2> QED
    BY <1>1, <2>2, <2>3 DEF EscRun
<1>2. m < n \/ n < m \/ m = n
  OBVIOUS
<1> QED
  BY <1>1, <1>2

LEMMA EscRunNext ==
    ASSUME NEW input \in Seq(Int), NEW key \in Int, NEW n \in 0..Len(input),
           EscRun(input, Len(input) + 1, n)
    PROVE  /\ key = Esc => EscRun(Append(input, key), Len(input) + 2, n + 1)
           /\ key # Esc => EscRun(Append(input, key), Len(input) + 2, 0)
<1>1. \A j \in 1..Len(input) : Append(input, key)[j] = input[j]
  OBVIOUS
<1>2. Append(input, key)[Len(input) + 1] = key
  OBVIOUS
<1>3. ASSUME key = Esc
      PROVE  EscRun(Append(input, key), Len(input) + 2, n + 1)
  <2>1. ASSUME NEW j \in (Len(input) + 2 - (n + 1))..(Len(input) + 2 - 1)
        PROVE  Append(input, key)[j] = Esc
    <3>1. j = Len(input) + 1 \/ (j \in 1..Len(input) /\ j \in (Len(input) + 1 - n)..(Len(input) + 1 - 1))
      OBVIOUS
    <3> QED
      BY <3>1, <1>1, <1>2, <1>3 DEF EscRun
  <2>2. n + 1 = Len(input) + 2 - 1 \/ Append(input, key)[Len(input) + 2 - (n + 1) - 1] # Esc
    <3>1. CASE n = Len(input)
      BY <3>1
    <3>2. CASE n # Len(input)
      <4>1. input[Len(input) + 1 - n - 1] # Esc
        BY <3>2 DEF EscRun
      <4>2. Len(input) + 2 - (n + 1) - 1 = Len(input) + 1 - n - 1 /\ Len(input) + 1 - n - 1 \in 1..Len(input)
        BY <3>2
      <4> QED
        BY <4>1, <4>2, <1>1
    <3> QED
      BY <3>1, <3>2
  <2> QED
    BY <2>1, <2>2 DEF EscRun
<1>4. ASSUME key # Esc
      PROVE  EscRun(Append(input, key), Len(input) + 2, 0)
  <2>1. Len(input) + 2 - 0 - 1 = Len(input) + 1
    OBVIOUS
  <2>2. \A j \in (Len(input) + 2 - 0)..(Len(input) + 2 - 1) : FALSE
    OBVIOUS
  <2> QED
    BY <1>2, <1>4, <2>1, <2>2 DEF EscRun
<1> QED
  BY <1>3, <1>4

\* the parity of the run alternates
LEMMA EscapedNext ==
    ASSUME NEW input \in Seq(Int), NEW key \in Int, NEW n \in 0..Len(input),
           EscRun(input, Len(input) + 1, n)
    PROVE  Escaped(Append(input, key), Len(input) + 2)
             <=> key = Esc /\ ~Escaped(input, Len(input) + 1)
<1> DEFINE longer == Append(input, key)
<1>0. longer \in Seq(Int) /\ Len(longer) = Len(input) + 1
  OBVIOUS
<1>. HIDE DEF longer
<1>u. \A a, b \in 0..(Len(input) + 2 - 1) :
        EscRun(longer, Len(input) + 2, a) /\ EscRun(longer, Len(input) + 2, b) => a = b
  <2>1. Len(input) + 2 \in Nat
    OBVIOUS
  <2> QED
    BY <1>0, <2>1, EscRunUnique
<1>1. CASE key # Esc
  <2>1. EscRun(longer, Len(input) + 2, 0)
    BY <1>1, EscRunNext DEF longer
  <2>2. ASSUME NEW m \in 1..(Len(input) + 2 - 1), EscRun(longer, Len(input) + 2, m)
        PROVE  FALSE
    <3>1. m \in 0..(Len(input) + 2 - 1) /\ 0 \in 0..(Len(input) + 2 - 1) /\ Len(input) + 2 \in Nat
      OBVIOUS
    <3>2. m = 0
      BY <1>u, <2>1, <2>2, <3>1
    <3> QED
      BY <3>2
  <2> QED
    BY <1>1, <2>2 DEF Escaped, longer
<1>2. CASE key = Esc
  <2>1. EscRun(longer, Len(input) + 2, n + 1)
    BY <1>2, EscRunNext DEF longer
  <2>2. ASSUME NEW m \in 0..(Len(input) + 2 - 1), EscRun(longer, Len(input) + 2, m)
        PROVE  m = n + 1
    <3>1. n + 1 \in 0..(Len(input) + 2 - 1) /\ Len(input) + 2 \in Nat
      OBVIOUS
    <3> QED
      BY <1>u, <2>1, <2>2, <3>1
  <2>3. ASSUME NEW m \in 0..(Len(input) + 1 - 1), EscRun(input, Len(input) + 1, m)
        PROVE  m = n
    <3>1. n \in 0..(Len(input) + 1 - 1) /\ Len(input) + 1 \in Nat
      OBVIOUS
    <3> QED
      BY <2>3, <3>1, EscRunUnique
  <2>4. Escaped(longer, Len(input) + 2) <=> (n + 1) % 2 = 1
    <3>1. n + 1 \in 1..(Len(input) + 2 - 1)
      OBVIOUS
    <3>2. \A m \in 1..(Len(input) + 2 - 1) : m \in 0..(Len(input) + 2 - 1)
      OBVIOUS
    <3> QED
      BY <2>1, <2>2, <3>1, <3>2 DEF Escaped
  <2>5. Escaped(input, Len(input) + 1) <=> n % 2 = 1
    <3>1. n % 2 = 1 => n \in 1..(Len(input) + 1 - 1)
      OBVIOUS
    <3>2. \A m \in 1..(Len(input) + 1 - 1) : m \in 0..(Len(input) + 1 - 1)
      OBVIOUS
    <3> QED
      BY <2>3, <3>1, <3>2 DEF Escaped
  <2>6. (n + 1) % 2 = 1 <=> ~(n % 2 = 1)
    OBVIOUS
  <2> QED
    BY <1>2, <2>4, <2>5, <2>6 DEF longer
<1> QED
  BY <1>1, <1>2

LEMMA IntervalAdd ==
    ASSUME NEW a \in Int, NEW b \in Int, a <= b + 1
    PROVE  a..(b + 1) = (a..b) \cup {b + 1}
  OBVIOUS

LEMMA OpensPrefix ==
    ASSUME NEW input \in Seq(Int), NEW key \in Int, NEW i \in 1..(Len(input) + 1),
           NEW j \in 1..(i - 1)
    PROVE  Opens(Append(input, key), i, j) <=> Opens(input, i, j)
<1>1. \A k \in 1..Len(input) : Append(input, key)[k] = input[k]
  OBVIOUS
<1>2. j \in 1..Len(input) /\ \A k \in (j + 1)..(i - 1) : k \in 1..Len(input)
  OBVIOUS
<1>3. Escaped(Append(input, key), j) <=> Escaped(input, j)
  BY EscapedPrefix
<1> QED
  BY <1>1, <1>2, <1>3 DEF Opens

LEMMA InPastePrefix ==
    ASSUME NEW input \in Seq(Int), NEW key \in Int, NEW i \in 1..(Len(input) + 1)
    PROVE  InPaste(Append(input, key), i) <=> InPaste(input, i)
  BY OpensPrefix DEF InPaste

LEMMA TypedPrefix ==
    ASSUME NEW input \in Seq(Int), NEW key \in Int, NEW i \in 1..(Len(input) + 1)
    PROVE  IsTyped(Append(input, key), i) <=> IsTyped(input, i)
  BY InPastePrefix, EscapedPrefix DEF IsTyped

\* a paste goes on, or begins with the new key
LEMMA OpensNext ==
    ASSUME NEW input \in Seq(Int), NEW key \in Int, NEW j \in 1..(Len(input) + 1)
    PROVE  Opens(Append(input, key), Len(input) + 2, j) <=>
              IF j = Len(input) + 1
              THEN key = start_paste /\ ~Escaped(input, Len(input) + 1)
              ELSE Opens(input, Len(input) + 1, j) /\ key \notin {end_paste, Restart}
<1> DEFINE longer == Append(input, key)
<1>1. /\ \A k \in 1..Len(input) : longer[k] = input[k]
      /\ longer[Len(input) + 1] = key
  OBVIOUS
<1>2. Escaped(longer, j) <=> Escaped(input, j)
  BY EscapedPrefix
<1>. HIDE DEF longer
<1>3. CASE j = Len(input) + 1
  <2>1. \A k \in (j + 1)..(Len(input) + 2 - 1) : FALSE
    BY <1>3
  <2> QED
    BY <1>1, <1>2, <1>3, <2>1 DEF Opens, longer
<1>4. CASE j # Len(input) + 1
  <2>1. j \in 1..Len(input)
    BY <1>4
  <2>2. \A k \in Int : k \in (j + 1)..(Len(input) + 2 - 1) <=>
                          k = Len(input) + 1 \/ k \in (j + 1)..(Len(input) + 1 - 1)
    BY <2>1
  <2>3. \A k \in (j + 1)..(Len(input) + 1 - 1) : k \in 1..Len(input)
    BY <2>1
  <2>4. (\A k \in (j + 1)..(Len(input) + 2 - 1) : longer[k] \notin {end_paste, Restart})
           <=> /\ \A k \in (j + 1)..(Len(input) + 1 - 1) : input[k] \notin {end_paste, Restart}
               /\ key \notin {end_paste, Restart}
    <3>1. \A k \in (j + 1)..(Len(input) + 2 - 1) : k \in Int
      OBVIOUS
    <3>2. \A k \in (j + 1)..(Len(input) + 1 - 1) : k \in Int
      OBVIOUS
    <3>3. Len(input) + 1 \in Int
      OBVIOUS
    <3> QED
      BY <1>1, <2>2, <2>3, <3>1, <3>2, <3>3, Zenon
  <2>5. longer[j] = input[j]
    BY <1>1, <2>1
  <2>6. Opens(longer, Len(input) + 2, j)
           <=> Opens(input, Len(input) + 1, j) /\ key \notin {end_paste, Restart}
    BY <1>2, <2>4, <2>5, SMT DEF Opens
  <2> QED
    BY <1>4, <2>6 DEF longer
<1> QED
  BY <1>3, <1>4

LEMMA InPasteNext ==
    ASSUME NEW input \in Seq(Int), NEW key \in Int
    PROVE  InPaste(Append(input, key), Len(input) + 2) <=>
              \/ InPaste(input, Len(input) + 1) /\ key \notin {end_paste, Restart}
              \/ key = start_paste /\ ~Escaped(input, Len(input) + 1)
<1>1. \A j : j \in 1..(Len(input) + 2 - 1) <=> j = Len(input) + 1 \/ j \in 1..(Len(input) + 1 - 1)
  OBVIOUS
<1>2. \A j \in 1..(Len(input) + 1 - 1) : j # Len(input) + 1
  OBVIOUS
<1>3. \A j : j \in 1..(Len(input) + 2 - 1) <=> j \in 1..(Len(input) + 1)
  OBVIOUS
<1>. DEFINE longer == Append(input, key)
<1>4. ASSUME NEW j \in 1..(Len(input) + 1)
      PROVE  Opens(longer, Len(input) + 2, j) <=>
                IF j = Len(input) + 1
                THEN key = start_paste /\ ~Escaped(input, Len(input) + 1)
                ELSE Opens(input, Len(input) + 1, j) /\ key \notin {end_paste, Restart}
  BY OpensNext
<1>. HIDE DEF longer
<1>5. ASSUME InPaste(longer, Len(input) + 2)
      PROVE  \/ InPaste(input, Len(input) + 1) /\ key \notin {end_paste, Restart}
             \/ key = start_paste /\ ~Escaped(input, Len(input) + 1)
  <2>1. PICK j \in 1..(Len(input) + 2 - 1) : Opens(longer, Len(input) + 2, j)
    BY <1>5 DEF InPaste
  <2>2. CASE j = Len(input) + 1
    BY <1>3, <1>4, <2>1, <2>2
  <2>3. CASE j # Len(input) + 1
    BY <1>1, <1>3, <1>4, <2>1, <2>3 DEF InPaste
  <2> QED
    BY <2>2, <2>3
<1>6. ASSUME InPaste(input, Len(input) + 1), key \notin {end_paste, Restart}
      PROVE  InPaste(longer, Len(input) + 2)
  <2>1. PICK j \in 1..(Len(input) + 1 - 1) : Opens(input, Len(input) + 1, j)
    BY <1>6 DEF InPaste
  <2>2. Opens(longer, Len(input) + 2, j)
    BY <1>1, <1>2, <1>3, <1>4, <1>6, <2>1
  <2> QED
    BY <1>1, <2>2 DEF InPaste
<1>7. ASSUME key = start_paste, ~Escaped(input, Len(input) + 1)
      PROVE  InPaste(longer, Len(input) + 2)
  <2>1. Opens(longer, Len(input) + 2, Len(input) + 1)
    BY <1>4, <1>7
  <2> QED
    BY <1>1, <2>1 DEF InPaste
<1> QED
  BY <1>5, <1>6, <1>7, Zenon DEF longer

\* The text of a paste
LEMMA InsideFinite ==
    ASSUME NEW input, NEW i \in Int, NEW j \in Int
    PROVE  /\ IsFiniteSet(Inside(input, i, j)) /\ Cardinality(Inside(input, i, j)) \in Nat
           /\ \A k \in Inside(input, i, j) : k \in Int
<1>1. IsFiniteSet((j + 1)..(i - 1))
  BY FS_Interval
<1>2. Inside(input, i, j) \subseteq (j + 1)..(i - 1)
  BY DEF Inside
<1>3. IsFiniteSet(Inside(input, i, j))
  BY <1>1, <1>2, FS_Subset
<1> QED
  BY <1>2, <1>3, FS_CardinalityType

LEMMA UpToRank ==
    ASSUME NEW set, IsFiniteSet(set), \A m \in set : m \in Int, NEW k \in set
    PROVE  Cardinality(UpTo(set, k)) \in 1..Cardinality(set)
<1>1. k \in UpTo(set, k) /\ UpTo(set, k) \subseteq set
  BY DEF UpTo
<1>2. IsFiniteSet(UpTo(set, k)) /\ Cardinality(UpTo(set, k)) <= Cardinality(set)
  BY <1>1, FS_Subset
<1>3. Cardinality(UpTo(set, k)) \in Nat /\ Cardinality(set) \in Nat
  BY <1>2, FS_CardinalityType
<1>4. Cardinality(UpTo(set, k)) # 0
  BY <1>1, <1>2, FS_EmptySet
<1> QED
  BY <1>2, <1>3, <1>4

\* a set that gets a new greatest element
LEMMA UpToAdd ==
    ASSUME NEW set, NEW x \in Int, \A m \in set : m \in Int /\ m < x
    PROVE  /\ UpTo(set \cup {x}, x) = set \cup {x}
           /\ \A k \in set : UpTo(set \cup {x}, k) = UpTo(set, k)
<1>1. \A m \in set \cup {x} : m <= x
  OBVIOUS
<1>2. \A k \in set : ~(x <= k)
  OBVIOUS
<1> QED
  BY <1>1, <1>2 DEF UpTo

LEMMA TextPrefix ==
    ASSUME NEW input \in Seq(Int), NEW key \in Int, NEW i \in 1..(Len(input) + 1),
           NEW j \in 1..(i - 1), NEW text
    PROVE  IsText(text, Append(input, key), i, j) <=> IsText(text, input, i, j)
<1>1. \A k \in (j + 1)..(i - 1) : Append(input, key)[k] = input[k]
  OBVIOUS
<1>2. Inside(Append(input, key), i, j) = Inside(input, i, j)
  BY <1>1 DEF Inside
<1>3. \A k \in Inside(input, i, j) : Append(input, key)[k] = input[k]
  BY <1>1 DEF Inside
<1> QED
  BY <1>2, <1>3 DEF IsText

LEMMA TextNext ==
    ASSUME NEW input \in Seq(Int), NEW key \in Int, NEW j \in 1..Len(input),
           NEW text \in Seq(Nat), IsText(text, input, Len(input) + 1, j)
    PROVE  /\ key = Gap => IsText(text, Append(input, key), Len(input) + 2, j)
           /\ key # Gap => IsText(Append(text, PastedByte(key)), Append(input, key), Len(input) + 2, j)
<1> DEFINE longer == Append(input, key)
           old == Inside(input, Len(input) + 1, j)
           new == Inside(longer, Len(input) + 2, j)
           last == Len(input) + 1
           t == Append(text, PastedByte(key))
<1>1. /\ \A k \in (j + 1)..(Len(input) + 1 - 1) : longer[k] = input[k]
      /\ longer[last] = key
  OBVIOUS
<1>i. (j + 1)..(Len(input) + 2 - 1) = ((j + 1)..(Len(input) + 1 - 1)) \cup {last}
  <2>1. /\ j + 1 \in Int /\ Len(input) \in Int /\ j + 1 <= Len(input) + 1
        /\ Len(input) + 2 - 1 = Len(input) + 1 /\ Len(input) + 1 - 1 = Len(input)
    OBVIOUS
  <2>2. (j + 1)..(Len(input) + 1) = ((j + 1)..Len(input)) \cup {Len(input) + 1}
    BY <2>1, IntervalAdd
  <2> QED
    BY <2>1, <2>2
<1>j. \A k \in (j + 1)..(Len(input) + 1 - 1) : k \in Int /\ k < last
  OBVIOUS
<1>l. last \in Int
  OBVIOUS
<1>5. IsFiniteSet(old) /\ Cardinality(old) \in Nat
  BY InsideFinite
<1>t. /\ Len(text) \in Nat /\ Len(t) = Len(text) + 1 /\ t[Len(text) + 1] = PastedByte(key)
      /\ \A k \in 1..Len(text) : t[k] = text[k]
  OBVIOUS
<1>. HIDE DEF longer, last, t
<1>2. new = IF key = Gap THEN old ELSE old \cup {last}
  BY <1>1, <1>i DEF Inside
<1>3. \A k \in old : k \in Int /\ k < last /\ longer[k] = input[k]
  BY <1>1, <1>j DEF Inside
<1>4. /\ Len(text) = Cardinality(old)
      /\ \A k \in old : text[Cardinality(UpTo(old, k))] = PastedByte(input[k])
  BY DEF IsText
<1>. HIDE DEF old, new
<1>6. CASE key = Gap
  <2>1. new = old
    BY <1>2, <1>6
  <2>2. IsText(text, longer, Len(input) + 2, j)
    BY <2>1, <1>3, <1>4 DEF new, IsText
  <2> QED
    BY <1>6, <2>2 DEF longer
<1>7. CASE key # Gap
  <2>1. new = old \cup {last} /\ last \notin old
    BY <1>2, <1>3, <1>7
  <2>2. Cardinality(new) = Cardinality(old) + 1
    BY <1>5, <2>1, FS_AddElement
  <2>u. UpTo(new, last) = new /\ \A k \in old : UpTo(new, k) = UpTo(old, k)
    BY <1>l, <1>3, <2>1, UpToAdd
  <2>3. Len(t) = Cardinality(new)
    BY <1>4, <1>t, <2>2
  <2>4. ASSUME NEW k \in new
        PROVE  t[Cardinality(UpTo(new, k))] = PastedByte(longer[k])
    <3>1. CASE k = last
      BY <1>1, <1>4, <1>t, <2>2, <3>1, <2>u
    <3>2. CASE k # last
      <4>1. k \in old
        BY <2>1, <3>2
      <4>2. Cardinality(UpTo(old, k)) \in 1..Len(text)
        BY <1>3, <1>4, <1>5, <4>1, UpToRank
      <4> QED
        BY <1>3, <1>4, <1>t, <2>u, <4>1, <4>2
    <3> QED
      BY <3>1, <3>2
  <2>5. IsText(t, longer, Len(input) + 2, j)
    BY <2>3, <2>4 DEF new, IsText
  <2> QED
    BY <1>7, <2>5 DEF longer, t
<1> QED
  BY <1>6, <1>7

LEMMA TextBegin ==
    ASSUME NEW input, NEW i \in Int, NEW j \in Int, i = j + 1
    PROVE  IsText(<<>>, input, i, j)
<1>1. Inside(input, i, j) = {}
  BY DEF Inside
<1>2. Cardinality({}) = 0
  BY FS_EmptySet
<1> QED
  BY <1>1, <1>2 DEF IsText

\* The last byte of a longer character
LEMMA LastBytePrefix ==
    ASSUME NEW input \in Seq(Int), NEW key \in Int, NEW i \in 1..(Len(input) + 1),
           NEW j \in 1..(i - 1)
    PROVE  LastByte(Append(input, key), i, j) <=> LastByte(input, i, j)
<1> DEFINE longer == Append(input, key)
<1>1. \A k \in 1..Len(input) : longer[k] = input[k]
  OBVIOUS
<1>2. \A k \in 1..Len(input) : IsTyped(longer, k) <=> IsTyped(input, k)
  BY TypedPrefix
<1>3. j \in 1..Len(input) /\ \A k \in (j + 1)..(i - 1) : k \in 1..Len(input)
  OBVIOUS
<1>. HIDE DEF longer
<1>4. LastByte(longer, i, j) <=> LastByte(input, i, j)
  BY <1>1, <1>2, <1>3 DEF LastByte
<1> QED
  BY <1>4 DEF longer

LEMMA LastByteNext ==
    ASSUME NEW input \in Seq(Int), NEW key \in Int, NEW j \in 1..(Len(input) + 1)
    PROVE  LastByte(Append(input, key), Len(input) + 2, j) <=>
              IF j = Len(input) + 1
              THEN IsTyped(input, Len(input) + 1) /\ IsByte(key)
              ELSE /\ LastByte(input, Len(input) + 1, j)
                   /\ key # Restart /\ ~(IsTyped(input, Len(input) + 1) /\ IsByte(key))
<1> DEFINE longer == Append(input, key)
<1>1. /\ \A k \in 1..Len(input) : longer[k] = input[k]
      /\ longer[Len(input) + 1] = key
  OBVIOUS
<1>2. \A k \in 1..(Len(input) + 1) : IsTyped(longer, k) <=> IsTyped(input, k)
  BY TypedPrefix
<1>. HIDE DEF longer
<1>3. CASE j = Len(input) + 1
  <2>1. \A k \in (j + 1)..(Len(input) + 2 - 1) : FALSE
    BY <1>3
  <2> QED
    BY <1>1, <1>2, <1>3, <2>1 DEF LastByte, longer
<1>4. CASE j # Len(input) + 1
  <2>1. j \in 1..Len(input) /\ j \in 1..(Len(input) + 1)
    BY <1>4
  <2>2. (j + 1)..(Len(input) + 2 - 1) = ((j + 1)..(Len(input) + 1 - 1)) \cup {Len(input) + 1}
    <3>1. /\ j + 1 \in Int /\ Len(input) \in Int /\ j + 1 <= Len(input) + 1
          /\ Len(input) + 2 - 1 = Len(input) + 1 /\ Len(input) + 1 - 1 = Len(input)
      BY <2>1
    <3>2. (j + 1)..(Len(input) + 1) = ((j + 1)..Len(input)) \cup {Len(input) + 1}
      BY <3>1, IntervalAdd
    <3> QED
      BY <3>1, <3>2
  <2>3. \A k \in (j + 1)..(Len(input) + 1 - 1) : k \in 1..Len(input) /\ k \in 1..(Len(input) + 1)
    BY <2>1
  <2>4. Len(input) + 1 \in 1..(Len(input) + 1)
    OBVIOUS
  <2>5. LastByte(longer, Len(input) + 2, j) <=>
           /\ LastByte(input, Len(input) + 1, j)
           /\ key # Restart /\ ~(IsTyped(input, Len(input) + 1) /\ IsByte(key))
    <3> DEFINE Quiet(s, k) == s[k] # Restart /\ ~(IsTyped(s, k) /\ IsByte(s[k]))
    <3>1. \A k \in (j + 1)..(Len(input) + 1 - 1) : Quiet(longer, k) <=> Quiet(input, k)
      BY <1>1, <1>2, <2>3
    <3>2. Quiet(longer, Len(input) + 1)
             <=> key # Restart /\ ~(IsTyped(input, Len(input) + 1) /\ IsByte(key))
      BY <1>1, <1>2, <2>4
    <3>3. IsTyped(longer, j) /\ IsByte(longer[j]) <=> IsTyped(input, j) /\ IsByte(input[j])
      BY <1>1, <1>2, <2>1
    <3>4. /\ LastByte(longer, Len(input) + 2, j) <=>
               /\ IsTyped(longer, j) /\ IsByte(longer[j])
               /\ \A k \in (j + 1)..(Len(input) + 2 - 1) : Quiet(longer, k)
          /\ LastByte(input, Len(input) + 1, j) <=>
               /\ IsTyped(input, j) /\ IsByte(input[j])
               /\ \A k \in (j + 1)..(Len(input) + 1 - 1) : Quiet(input, k)
      BY DEF LastByte
    <3>. HIDE DEF Quiet
    <3>5. (\A k \in (j + 1)..(Len(input) + 2 - 1) : Quiet(longer, k)) <=>
             /\ \A k \in (j + 1)..(Len(input) + 1 - 1) : Quiet(longer, k)
             /\ Quiet(longer, Len(input) + 1)
      BY <2>2, Zenon
    <3> QED
      BY <3>1, <3>2, <3>3, <3>4, <3>5, Zenon
  <2> QED
    BY <1>4, <2>5 DEF longer
<1> QED
  BY <1>3, <1>4

\* there is one last byte
LEMMA LastByteUnique ==
    ASSUME NEW input, NEW i \in Int, NEW j \in 1..(i - 1), NEW h \in 1..(i - 1),
           LastByte(input, i, j), LastByte(input, i, h)
    PROVE  j = h
<1>1. ASSUME NEW a \in 1..(i - 1), NEW b \in 1..(i - 1), a < b,
             LastByte(input, i, a), LastByte(input, i, b)
      PROVE  FALSE
  <2>1. b \in (a + 1)..(i - 1)
    BY <1>1
  <2> QED
    BY <1>1, <2>1 DEF LastByte
<1>2. j < h \/ h < j \/ j = h
  OBVIOUS
<1> QED
  BY <1>1, <1>2

LEMMA PlainPrefix ==
    ASSUME NEW input \in Seq(Int), NEW key \in Int, NEW i \in 1..Len(input)
    PROVE  /\ IsPlain(Append(input, key), i) <=> IsPlain(input, i)
           /\ EndsPaste(Append(input, key), i) <=> EndsPaste(input, i)
           /\ IsMeta(Append(input, key), i) <=> IsMeta(input, i)
<1>1. i \in 1..(Len(input) + 1) /\ Append(input, key)[i] = input[i]
  OBVIOUS
<1>2. /\ IsTyped(Append(input, key), i) <=> IsTyped(input, i)
      /\ InPaste(Append(input, key), i) <=> InPaste(input, i)
      /\ Escaped(Append(input, key), i) <=> Escaped(input, i)
  BY <1>1, TypedPrefix, InPastePrefix, EscapedPrefix
<1> QED
  BY <1>1, <1>2 DEF IsPlain, EndsPaste, IsMeta

\* used and more are the calls before and after a key is read
LEMMA EndsPrefix ==
    ASSUME NEW input \in Seq(Int), NEW key \in Int, NEW i \in 1..Len(input),
           NEW used, NEW more, \A k \in 1..Len(input) : Called(more, k) <=> Called(used, k)
    PROVE  /\ Ends(Append(input, key), more, i) <=> Ends(input, used, i)
           /\ MayEnd(Append(input, key), more, i) <=> MayEnd(input, used, i)
<1> DEFINE longer == Append(input, key)
<1>1. /\ \A k \in 1..Len(input) : longer[k] = input[k]
      /\ \A k \in 1..Len(input) : IsTyped(longer, k) <=> IsTyped(input, k)
  BY TypedPrefix
<1>2. \A k \in 1..(Len(input) + 1) : \A j \in 1..(k - 1) :
         LastByte(longer, k, j) <=> LastByte(input, k, j)
  BY LastBytePrefix
<1>3. /\ i \in 1..(Len(input) + 1)
      /\ \A j \in 1..(i - 1) : j \in 1..Len(input) /\ j \in 1..(Len(input) + 1)
      /\ \A j \in 1..(i - 1) : \A h \in 1..(j - 1) : h \in 1..Len(input)
  OBVIOUS
<1>. HIDE DEF longer
<1>4. Ends(longer, more, i) <=> Ends(input, used, i)
  <2>1. ASSUME NEW j \in 1..(i - 1)
        PROVE  /\ LastByte(longer, i, j) <=> LastByte(input, i, j)
               /\ longer[j] = input[j]
               /\ (\A h \in 1..(j - 1) : LastByte(longer, j, h) => Called(more, h))
                     <=> (\A h \in 1..(j - 1) : LastByte(input, j, h) => Called(used, h))
    BY <1>1, <1>2, <1>3, Zenon
  <2> QED
    BY <1>1, <2>1 DEF Ends
<1>5. MayEnd(longer, more, i) <=> MayEnd(input, used, i)
  BY <1>1, <1>2, <1>3 DEF MayEnd
<1> QED
  BY <1>4, <1>5 DEF longer

LEMMA RightPrefix ==
    ASSUME NEW input \in Seq(Int), NEW key \in Int, NEW i \in 1..Len(input), NEW call,
           NEW used, NEW more, \A k \in 1..Len(input) : Called(more, k) <=> Called(used, k),
           IsRight(call, input, used, i)
    PROVE  IsRight(call, Append(input, key), more, i)
<1> DEFINE longer == Append(input, key)
<1>1. longer[i] = input[i] /\ i \in 1..(Len(input) + 1)
  OBVIOUS
<1>2. /\ IsPlain(longer, i) <=> IsPlain(input, i)
      /\ EndsPaste(longer, i) <=> EndsPaste(input, i)
      /\ IsMeta(longer, i) <=> IsMeta(input, i)
  BY PlainPrefix
<1>3. MayEnd(longer, more, i) <=> MayEnd(input, used, i)
  BY EndsPrefix
<1>4. IsTyped(longer, i) <=> IsTyped(input, i)
  BY <1>1, TypedPrefix
<1>5. ASSUME NEW j \in 1..(i - 1)
      PROVE  /\ Opens(longer, i, j) <=> Opens(input, i, j)
             /\ InPaste(longer, j) <=> InPaste(input, j)
             /\ IsText(call[2], longer, i, j) <=> IsText(call[2], input, i, j)
  <2>1. j \in 1..(Len(input) + 1)
    OBVIOUS
  <2> QED
    BY <1>1, <2>1, OpensPrefix, InPastePrefix, TextPrefix
<1>. HIDE DEF longer
<1>6. IsRight(call, longer, more, i)
  BY <1>1, <1>2, <1>3, <1>4, <1>5 DEF IsRight
<1> QED
  BY <1>6 DEF longer

-----------------------------------------------------------------------------
(* The invariant                                                            *)

KeyboardTypes ==
    /\ keys \in Seq(Int)
    /\ place \in {"typing", "escape", "paste"}
    /\ paste \in Seq(Nat)
    /\ mbstate \in {"initial", "pending"}
    /\ at \in Seq(Nat)
    /\ calls \in Seq(({"key", "mouse"} \X Int) \cup ({"paste"} \X Seq(Nat)))

\* what the coroutine remembers of an Esc and of a paste is what the keys say
PlaceInv ==
    /\ \E n \in 0..Len(keys) : EscRun(keys, Len(keys) + 1, n)
    /\ place = "paste" <=> InPaste(keys, Len(keys) + 1)
    /\ place = "escape" => Escaped(keys, Len(keys) + 1)
    /\ place = "typing" => ~Escaped(keys, Len(keys) + 1)
    /\ place # "paste" => paste = <<>>
    /\ place = "paste" =>
          \E j \in 1..Len(keys) : /\ Opens(keys, Len(keys) + 1, j) /\ ~InPaste(keys, j)
                                  /\ IsText(paste, keys, Len(keys) + 1, j)

\* inside a character the last byte began it, or was part of none; otherwise
\* a last byte that could begin one came after another that was part of none
ByteInv ==
    /\ mbstate = "pending" =>
          \E j \in 1..Len(keys) : /\ LastByte(keys, Len(keys) + 1, j)
                                  /\ IsLead(keys[j]) \/ ~Called(at, j)
    /\ mbstate = "initial" =>
          \A j \in 1..Len(keys) :
             LastByte(keys, Len(keys) + 1, j) /\ IsLead(keys[j]) =>
                \E h \in 1..(j - 1) : LastByte(keys, j, h) /\ ~Called(at, h)

KeyboardInv == KeyboardTypes /\ PlaceInv /\ ByteInv /\ KeysAreRead

\* The place and the text of a paste after a key
NewPlace(key) ==
    IF place = "paste" THEN (IF key \in {end_paste, Restart} THEN "typing" ELSE "paste")
    ELSE IF place = "escape" THEN "typing"
    ELSE IF key = Esc THEN "escape"
    ELSE IF key = start_paste THEN "paste"
    ELSE "typing"

NewPaste(key) ==
    IF place = "paste" /\ key \notin {end_paste, Restart}
    THEN (IF key = Gap THEN paste ELSE Append(paste, PastedByte(key)))
    ELSE <<>>

LEMMA KeyNames ==
    /\ Esc # end_paste /\ Esc # Restart /\ Esc # start_paste /\ Esc # Gap
    /\ start_paste # end_paste /\ start_paste # Restart /\ start_paste # Gap
    /\ end_paste # Restart /\ end_paste # Gap /\ Gap # Restart
    /\ Gap \in Int /\ Restart \in Int /\ Esc \in Int /\ start_paste \in Int /\ end_paste \in Int
    /\ KEY_MOUSE \in Int
  BY DEF Esc, end_paste, start_paste, Restart, Gap, KEY_MOUSE

LEMMA PlaceStep ==
    ASSUME KeyboardTypes, PlaceInv, NEW key \in Int, keys' = Append(keys, key),
           place' = NewPlace(key), paste' = NewPaste(key)
    PROVE  PlaceInv'
<1> DEFINE longer == Append(keys, key)
           L == Len(keys)
<1>1. keys \in Seq(Int) /\ L \in Nat /\ Len(longer) = L + 1 /\ longer \in Seq(Int)
  BY DEF KeyboardTypes
<1>2. PICK n \in 0..L : EscRun(keys, L + 1, n)
  BY DEF PlaceInv
<1>3. \E m \in 0..(L + 1) : EscRun(longer, L + 2, m)
  <2>1. /\ key = Esc => EscRun(longer, L + 2, n + 1)
        /\ key # Esc => EscRun(longer, L + 2, 0)
    BY <1>1, <1>2, EscRunNext
  <2>2. n + 1 \in 0..(L + 1) /\ 0 \in 0..(L + 1)
    BY <1>1, <1>2
  <2> QED
    BY <2>1, <2>2
<1>4. Escaped(longer, L + 2) <=> key = Esc /\ ~Escaped(keys, L + 1)
  BY <1>1, <1>2, EscapedNext
<1>5. InPaste(longer, L + 2) <=>
         \/ InPaste(keys, L + 1) /\ key \notin {end_paste, Restart}
         \/ key = start_paste /\ ~Escaped(keys, L + 1)
  BY <1>1, InPasteNext
<1>6. ASSUME NEW j \in 1..(L + 1)
      PROVE  Opens(longer, L + 2, j) <=>
              IF j = L + 1
              THEN key = start_paste /\ ~Escaped(keys, L + 1)
              ELSE Opens(keys, L + 1, j) /\ key \notin {end_paste, Restart}
  BY <1>1, OpensNext
<1>7. ASSUME NEW j \in 1..(L + 1)
      PROVE  InPaste(longer, j) <=> InPaste(keys, j)
  BY <1>1, InPastePrefix
<1>8. ASSUME NEW j \in 1..L, IsText(paste, keys, L + 1, j)
      PROVE  /\ key = Gap => IsText(paste, longer, L + 2, j)
             /\ key # Gap => IsText(Append(paste, PastedByte(key)), longer, L + 2, j)
  BY <1>1, <1>8, TextNext DEF KeyboardTypes
<1>9. IsText(<<>>, longer, L + 2, L + 1)
  <2>1. L + 2 \in Int /\ L + 1 \in Int /\ L + 2 = (L + 1) + 1
    BY <1>1
  <2>. HIDE DEF L, longer
  <2> QED
    BY <2>1, TextBegin
<1>10. Len(longer) + 1 = L + 2
  BY <1>1
<1>11. \A j \in 1..L : j \in 1..(L + 1) /\ j # L + 1
  BY <1>1
<1>12. L + 1 \in 1..(L + 1)
  BY <1>1
<1>13. keys' = longer
  OBVIOUS
<1>. HIDE DEF longer, L
<1>a. PlaceInv =>
        /\ place = "paste" <=> InPaste(keys, L + 1)
        /\ place = "escape" => Escaped(keys, L + 1)
        /\ place = "typing" => ~Escaped(keys, L + 1)
  BY DEF PlaceInv, L
<1>b. place \in {"typing", "escape", "paste"}
  BY DEF KeyboardTypes
<1>14. /\ place' = "paste" <=> InPaste(longer, L + 2)
       /\ place' = "escape" => Escaped(longer, L + 2)
       /\ place' = "typing" => ~Escaped(longer, L + 2)
  BY <1>4, <1>5, <1>a, <1>b, KeyNames DEF NewPlace
<1>15. place' # "paste" => paste' = <<>>
  BY DEF NewPlace, NewPaste
<1>16. ASSUME place' = "paste"
       PROVE  \E j \in 1..(L + 1) : /\ Opens(longer, L + 2, j) /\ ~InPaste(longer, j)
                                    /\ IsText(paste', longer, L + 2, j)
  <2>1. CASE place = "paste"
    <3>1. key \notin {end_paste, Restart}
      BY <1>16, <2>1 DEF NewPlace
    <3>2. PICK j \in 1..L : /\ Opens(keys, L + 1, j) /\ ~InPaste(keys, j)
                            /\ IsText(paste, keys, L + 1, j)
      BY <2>1 DEF PlaceInv, L
    <3>3. paste' = IF key = Gap THEN paste ELSE Append(paste, PastedByte(key))
      BY <2>1, <3>1 DEF NewPaste
    <3>4. IsText(paste', longer, L + 2, j)
      BY <1>8, <3>2, <3>3
    <3>5. Opens(longer, L + 2, j) /\ ~InPaste(longer, j)
      BY <1>6, <1>7, <1>11, <3>1, <3>2
    <3> QED
      BY <1>11, <3>4, <3>5
  <2>2. CASE place # "paste"
    <3>1. place = "typing" /\ key = start_paste
      BY <1>16, <1>b, <2>2 DEF NewPlace
    <3>2. paste' = <<>>
      BY <2>2 DEF NewPaste
    <3>3. ~Escaped(keys, L + 1) /\ ~InPaste(keys, L + 1)
      BY <1>a, <3>1
    <3>4. Opens(longer, L + 2, L + 1) /\ ~InPaste(longer, L + 1)
      BY <1>6, <1>7, <1>12, <3>1, <3>3
    <3> QED
      BY <1>9, <1>12, <3>2, <3>4
  <2> QED
    BY <2>1, <2>2
<1>17. Len(longer) = L + 1
  BY <1>1 DEF longer, L
<1> QED
  BY <1>3, <1>10, <1>13, <1>14, <1>15, <1>16, <1>17 DEF PlaceInv

\* at' holds the same positions, and perhaps the new one
Extends == at' = at \/ at' = Append(at, Len(keys) + 1)

LEMMA CalledStep ==
    ASSUME KeyboardTypes, KeysAreRead, Extends
    PROVE  /\ \A k \in 1..Len(keys) : Called(at', k) <=> Called(at, k)
           /\ ~Called(at, Len(keys) + 1)
           /\ at' = Append(at, Len(keys) + 1) => Called(at', Len(keys) + 1)
<1>1. at \in Seq(Nat) /\ Len(keys) \in Nat
  BY DEF KeyboardTypes
<1>2. \A n \in DOMAIN at : at[n] \in 1..Len(keys)
  BY DEF KeysAreRead
<1>3. ~Called(at, Len(keys) + 1)
  BY <1>1, <1>2 DEF Called
<1>4. CASE at' = at
  <2>1. at' # Append(at, Len(keys) + 1)
    BY <1>1, <1>4
  <2> QED
    BY <1>3, <1>4, <2>1
<1>5. CASE at' = Append(at, Len(keys) + 1)
  <2>1. /\ DOMAIN at' = DOMAIN at \cup {Len(at) + 1}
        /\ \A n \in DOMAIN at : at'[n] = at[n]
        /\ at'[Len(at) + 1] = Len(keys) + 1
    BY <1>1, <1>5
  <2>2. \A k \in 1..Len(keys) : k # Len(keys) + 1
    BY <1>1
  <2>3. \A k \in 1..Len(keys) : Called(at', k) <=> Called(at, k)
    BY <2>1, <2>2 DEF Called
  <2>4. Called(at', Len(keys) + 1)
    BY <2>1 DEF Called
  <2> QED
    BY <1>3, <2>3, <2>4
<1> QED
  BY <1>4, <1>5 DEF Extends

\* position i needs a call
Speaks(input, used, i) ==
    EndsPaste(input, i) \/ IsMeta(input, i) \/ IsPlain(input, i) \/ Ends(input, used, i)

LEMMA SpeaksPrefix ==
    ASSUME KeyboardTypes, KeysAreRead, Extends, NEW key \in Int, keys' = Append(keys, key),
           NEW i \in 1..Len(keys)
    PROVE  /\ Speaks(keys', at', i) <=> Speaks(keys, at, i)
           /\ \A call : IsRight(call, keys, at, i) => IsRight(call, keys', at', i)
<1>1. keys \in Seq(Int)
  BY DEF KeyboardTypes
<1>2. \A k \in 1..Len(keys) : Called(at', k) <=> Called(at, k)
  BY CalledStep
<1>3. /\ IsPlain(keys', i) <=> IsPlain(keys, i)
      /\ EndsPaste(keys', i) <=> EndsPaste(keys, i)
      /\ IsMeta(keys', i) <=> IsMeta(keys, i)
  BY <1>1, PlainPrefix
<1>4. Ends(keys', at', i) <=> Ends(keys, at, i)
  BY <1>1, <1>2, EndsPrefix
<1>5. \A call : IsRight(call, keys, at, i) => IsRight(call, keys', at', i)
  BY <1>1, <1>2, RightPrefix
<1> QED
  BY <1>3, <1>4, <1>5 DEF Speaks

LEMMA ReadIs ==
    KeysAreRead <=>
    /\ Len(at) = Len(calls)
    /\ \A m, n \in DOMAIN at : m < n => at[m] < at[n]
    /\ \A n \in DOMAIN at : at[n] \in 1..Len(keys) /\ IsRight(calls[n], keys, at, at[n])
    /\ \A i \in 1..Len(keys) : Speaks(keys, at, i) => Called(at, i)
  BY Zenon DEF KeysAreRead, Speaks

LEMMA SilentStep ==
    ASSUME KeyboardTypes, KeysAreRead, NEW key \in Int, keys' = Append(keys, key), NoCall,
           ~Speaks(keys', at, Len(keys) + 1)
    PROVE  KeysAreRead'
<1>1. keys \in Seq(Int) /\ Len(keys) \in Nat /\ Len(keys') = Len(keys) + 1
  BY DEF KeyboardTypes
<1>2. at' = at /\ calls' = calls /\ Extends
  BY DEF NoCall, Extends
<1>3. \A i \in 1..Len(keys) : /\ Speaks(keys', at, i) <=> Speaks(keys, at, i)
                              /\ \A call : IsRight(call, keys, at, i) => IsRight(call, keys', at, i)
  BY <1>2, SpeaksPrefix
<1>4. \A i : i \in 1..Len(keys') <=> i = Len(keys) + 1 \/ i \in 1..Len(keys)
  BY <1>1
<1>5. /\ Len(at) = Len(calls)
      /\ \A m, n \in DOMAIN at : m < n => at[m] < at[n]
      /\ \A n \in DOMAIN at : at[n] \in 1..Len(keys) /\ IsRight(calls[n], keys, at, at[n])
      /\ \A i \in 1..Len(keys) : Speaks(keys, at, i) => Called(at, i)
  BY ReadIs
<1>6. \A n \in DOMAIN at : at[n] \in 1..Len(keys') /\ IsRight(calls[n], keys', at, at[n])
  BY <1>3, <1>4, <1>5
<1>7. \A i \in 1..Len(keys') : Speaks(keys', at, i) => Called(at, i)
  BY <1>3, <1>4, <1>5
<1>8. /\ Len(at') = Len(calls')
      /\ \A m, n \in DOMAIN at' : m < n => at'[m] < at'[n]
      /\ \A n \in DOMAIN at' : at'[n] \in 1..Len(keys') /\ IsRight(calls'[n], keys', at', at'[n])
      /\ \A i \in 1..Len(keys') : Speaks(keys', at', i) => Called(at', i)
  BY <1>2, <1>5, <1>6, <1>7
<1> QED
  BY <1>8, Zenon DEF KeysAreRead, Speaks

LEMMA CallStep ==
    ASSUME KeyboardTypes, KeysAreRead, NEW key \in Int, keys' = Append(keys, key),
           NEW kind, NEW arg, Call(kind, arg), 
           IsRight(<<kind, arg>>, keys', at', Len(keys) + 1)
    PROVE  KeysAreRead'
<1>1. /\ keys \in Seq(Int) /\ Len(keys) \in Nat /\ Len(keys') = Len(keys) + 1
      /\ at \in Seq(Nat) /\ Len(at) \in Nat
      /\ calls \in Seq(({"key", "mouse"} \X Int) \cup ({"paste"} \X Seq(Nat)))
  BY DEF KeyboardTypes
<1>2. at' = Append(at, Len(keys) + 1) /\ calls' = Append(calls, <<kind, arg>>) /\ Extends
  BY DEF Call, Extends
<1>3. \A i \in 1..Len(keys) : /\ Speaks(keys', at', i) <=> Speaks(keys, at, i)
                              /\ \A call : IsRight(call, keys, at, i) => IsRight(call, keys', at', i)
  BY <1>2, SpeaksPrefix
<1>4. \A i : i \in 1..Len(keys') <=> i = Len(keys) + 1 \/ i \in 1..Len(keys)
  BY <1>1
<1>5. /\ Len(at) = Len(calls)
      /\ \A m, n \in DOMAIN at : m < n => at[m] < at[n]
      /\ \A n \in DOMAIN at : at[n] \in 1..Len(keys) /\ IsRight(calls[n], keys, at, at[n])
      /\ \A i \in 1..Len(keys) : Speaks(keys, at, i) => Called(at, i)
  BY ReadIs
<1>6. /\ DOMAIN at' = DOMAIN at \cup {Len(at) + 1}
      /\ \A n \in DOMAIN at : at'[n] = at[n] /\ n < Len(at) + 1 /\ n \in Int
      /\ at'[Len(at) + 1] = Len(keys) + 1
      /\ Len(at') = Len(at) + 1
  BY <1>1, <1>2
<1>7. /\ \A n \in DOMAIN at : calls'[n] = calls[n]
      /\ calls'[Len(at) + 1] = <<kind, arg>>
      /\ Len(calls') = Len(at) + 1
  BY <1>1, <1>2, <1>5
<1>8. /\ \A k \in 1..Len(keys) : Called(at', k) <=> Called(at, k)
      /\ Called(at', Len(keys) + 1)
  BY <1>2, CalledStep
<1>9. \A m, n \in DOMAIN at' : m < n => at'[m] < at'[n]
  <2>1. ASSUME NEW m \in DOMAIN at', NEW n \in DOMAIN at', m < n
        PROVE  at'[m] < at'[n]
    <3>1. m \in DOMAIN at
      BY <1>1, <1>6, <2>1
    <3>2. at[m] \in 1..Len(keys) /\ at'[m] = at[m]
      BY <1>5, <1>6, <3>1
    <3>3. CASE n \in DOMAIN at
      BY <1>5, <1>6, <2>1, <3>1, <3>3
    <3>4. CASE n = Len(at) + 1
      BY <1>1, <1>6, <3>2, <3>4
    <3> QED
      BY <1>6, <3>3, <3>4
  <2> QED
    BY <2>1
<1>10. \A n \in DOMAIN at' : at'[n] \in 1..Len(keys') /\ IsRight(calls'[n], keys', at', at'[n])
  <2>1. \A n \in DOMAIN at : at'[n] \in 1..Len(keys') /\ IsRight(calls'[n], keys', at', at'[n])
    BY <1>3, <1>4, <1>5, <1>6, <1>7
  <2>2. at'[Len(at) + 1] \in 1..Len(keys') /\ IsRight(calls'[Len(at) + 1], keys', at', at'[Len(at) + 1])
    BY <1>4, <1>6, <1>7
  <2> QED
    BY <1>6, <2>1, <2>2
<1>11. \A i \in 1..Len(keys') : Speaks(keys', at', i) => Called(at', i)
  BY <1>3, <1>4, <1>5, <1>8
<1>12. Len(at') = Len(calls')
  BY <1>6, <1>7
<1> QED
  BY <1>9, <1>10, <1>11, <1>12, Zenon DEF KeysAreRead, Speaks

\* a key that is no byte of a longer character leaves the state of mbrtowc
LEMMA ByteStay ==
    ASSUME KeyboardTypes, KeysAreRead, ByteInv, Extends, NEW key \in Int,
           keys' = Append(keys, key), mbstate' = mbstate, key # Restart,
           ~(IsTyped(keys, Len(keys) + 1) /\ IsByte(key))
    PROVE  ByteInv'
<1> DEFINE L == Len(keys)
           longer == Append(keys, key)
<1>1. keys \in Seq(Int) /\ L \in Nat /\ Len(longer) = L + 1 /\ Len(longer) + 1 = L + 2
  BY DEF KeyboardTypes
<1>2. \A k \in 1..L : Called(at', k) <=> Called(at, k)
  BY CalledStep
<1>3. ASSUME NEW j \in 1..(L + 1)
      PROVE  LastByte(longer, L + 2, j) <=> j # L + 1 /\ LastByte(keys, L + 1, j)
  BY <1>1, LastByteNext
<1>4. ASSUME NEW j \in 1..(L + 1), NEW h \in 1..(j - 1)
      PROVE  LastByte(longer, j, h) <=> LastByte(keys, j, h)
  BY <1>1, LastBytePrefix
<1>5. /\ \A j \in 1..L : j \in 1..(L + 1) /\ j # L + 1 /\ longer[j] = keys[j]
      /\ \A j \in 1..(L + 1) : j # L + 1 => j \in 1..L
      /\ \A j \in 1..L : \A h \in 1..(j - 1) : h \in 1..L
  BY <1>1
<1>6. keys' = longer
  OBVIOUS
<1>. HIDE DEF longer, L
<1>7. ASSUME mbstate' = "pending"
      PROVE  \E j \in 1..(L + 1) : /\ LastByte(longer, L + 2, j)
                                   /\ IsLead(longer[j]) \/ ~Called(at', j)
  <2>1. PICK j \in 1..L : LastByte(keys, L + 1, j) /\ (IsLead(keys[j]) \/ ~Called(at, j))
    BY <1>7 DEF ByteInv, L
  <2> QED
    BY <1>2, <1>3, <1>5, <2>1
<1>8. ASSUME mbstate' = "initial", NEW j \in 1..(L + 1),
             LastByte(longer, L + 2, j), IsLead(longer[j])
      PROVE  \E h \in 1..(j - 1) : LastByte(longer, j, h) /\ ~Called(at', h)
  <2>1. j \in 1..L /\ LastByte(keys, L + 1, j) /\ IsLead(keys[j])
    BY <1>3, <1>5, <1>8
  <2>2. PICK h \in 1..(j - 1) : LastByte(keys, j, h) /\ ~Called(at, h)
    BY <1>8, <2>1 DEF ByteInv, L
  <2> QED
    BY <1>2, <1>4, <1>5, <2>1, <2>2
<1>9. Len(longer) = L + 1 /\ Len(longer) + 1 = L + 2
  BY <1>1 DEF longer, L
<1> QED
  BY <1>6, <1>7, <1>8, <1>9 DEF ByteInv

LEMMA ByteRestart ==
    ASSUME KeyboardTypes, keys' = Append(keys, Restart), mbstate' = "initial",
           ~IsByte(Restart)
    PROVE  ByteInv'
<1> DEFINE L == Len(keys)
           longer == Append(keys, Restart)
<1>1. keys \in Seq(Int) /\ L \in Nat /\ Len(longer) = L + 1 /\ Len(longer) + 1 = L + 2
  BY DEF KeyboardTypes
<1>2. ASSUME NEW j \in 1..(L + 1)
      PROVE  ~LastByte(longer, L + 2, j)
  <2>1. LastByte(longer, L + 2, j) <=>
              IF j = L + 1
              THEN IsTyped(keys, L + 1) /\ IsByte(Restart)
              ELSE /\ LastByte(keys, L + 1, j)
                   /\ Restart # Restart /\ ~(IsTyped(keys, L + 1) /\ IsByte(Restart))
    BY <1>1, LastByteNext, KeyNames
  <2> QED
    BY <2>1
<1>3. mbstate' # "pending"
  OBVIOUS
<1>4. keys' = longer
  OBVIOUS
<1>. HIDE DEF longer, L
<1>5. Len(longer) = L + 1 /\ Len(longer) + 1 = L + 2
  BY <1>1 DEF longer, L
<1> QED
  BY <1>2, <1>3, <1>4, <1>5 DEF ByteInv

\* what the new position is, from the place
LEMMA NewPosition ==
    ASSUME KeyboardTypes, PlaceInv, NEW key \in Int, keys' = Append(keys, key)
    PROVE  LET i == Len(keys) + 1 IN
           /\ i \in 1..(Len(keys) + 1) /\ keys'[i] = key
           /\ InPaste(keys', i) <=> place = "paste"
           /\ IsTyped(keys', i) <=> place = "typing"
           /\ IsTyped(keys, i) <=> place = "typing"
           /\ IsMeta(keys', i) <=> place = "escape"
           /\ EndsPaste(keys', i) <=> place = "paste" /\ key = end_paste
           /\ IsPlain(keys', i) <=> place = "typing" /\ key \notin Silent /\ ~IsByte(key)
<1> DEFINE i == Len(keys) + 1
<1>1. keys \in Seq(Int) /\ i \in 1..(Len(keys) + 1) /\ keys'[i] = key
  BY DEF KeyboardTypes
<1>2. /\ InPaste(keys', i) <=> InPaste(keys, i)
      /\ Escaped(keys', i) <=> Escaped(keys, i)
  BY <1>1, InPastePrefix, EscapedPrefix
<1>3. /\ place = "paste" <=> InPaste(keys, i)
      /\ place = "escape" => Escaped(keys, i)
      /\ place = "typing" => ~Escaped(keys, i)
  BY DEF PlaceInv
<1>4. place \in {"typing", "escape", "paste"}
  BY DEF KeyboardTypes
<1>. HIDE DEF i
<1>5. /\ InPaste(keys', i) <=> place = "paste"
      /\ IsTyped(keys', i) <=> place = "typing"
      /\ IsTyped(keys, i) <=> place = "typing"
      /\ IsMeta(keys', i) <=> place = "escape"
      /\ EndsPaste(keys', i) <=> place = "paste" /\ key = end_paste
  BY <1>1, <1>2, <1>3, <1>4 DEF IsTyped, IsMeta, EndsPaste
<1>6. IsPlain(keys', i) <=> place = "typing" /\ key \notin Silent /\ ~IsByte(key)
  BY <1>1, <1>5 DEF IsPlain
<1> QED
  BY <1>1, <1>5, <1>6 DEF i

\* such a position needs no call, unless it is a byte that ends a character
LEMMA NoSpeech ==
    ASSUME KeyboardTypes, PlaceInv, NEW key \in Int, keys' = Append(keys, key),
           \/ place = "paste" /\ key # end_paste
           \/ place = "typing" /\ key \in Silent /\ ~IsByte(key)
    PROVE  ~Speaks(keys', at, Len(keys) + 1)
<1> DEFINE i == Len(keys) + 1
<1>1. /\ keys'[i] = key
      /\ IsTyped(keys', i) <=> place = "typing"
      /\ IsMeta(keys', i) <=> place = "escape"
      /\ EndsPaste(keys', i) <=> place = "paste" /\ key = end_paste
      /\ IsPlain(keys', i) <=> place = "typing" /\ key \notin Silent /\ ~IsByte(key)
  BY NewPosition
<1>. HIDE DEF i
<1>2. ~Ends(keys', at, i)
  BY <1>1 DEF Ends
<1>3. ~Speaks(keys', at, i)
  BY <1>1, <1>2 DEF Speaks
<1> QED
  BY <1>3 DEF i

LEMMA NotBytes ==
    /\ ~IsByte(Gap) /\ ~IsByte(Restart) /\ ~IsByte(Esc) /\ ~IsByte(KEY_MOUSE)
    /\ ~IsByte(start_paste) /\ ~IsByte(end_paste)
  BY DEF IsByte, Gap, Restart, Esc, KEY_MOUSE, start_paste, end_paste

LEMMA TypesStep ==
    ASSUME KeyboardTypes, NEW key \in Int, keys' = Append(keys, key),
           place' \in {"typing", "escape", "paste"}, paste' = NewPaste(key),
           mbstate' \in {"initial", "pending"},
           \/ NoCall
           \/ \E kind \in {"key", "mouse"}, arg \in Int : Call(kind, arg)
           \/ Call("paste", paste)
    PROVE  KeyboardTypes'
<1>1. PastedByte(key) \in Nat
  BY DEF PastedByte
<1>2. keys' \in Seq(Int) /\ paste' \in Seq(Nat)
  BY <1>1 DEF KeyboardTypes, NewPaste
<1>3. at' \in Seq(Nat)
  <2>1. Len(keys) + 1 \in Nat
    BY DEF KeyboardTypes
  <2> QED
    <3>1. at' = at \/ at' = Append(at, Len(keys) + 1)
      BY DEF NoCall, Call
    <3>2. at \in Seq(Nat)
      BY DEF KeyboardTypes
    <3> QED
      BY <2>1, <3>1, <3>2
<1>4. calls' \in Seq(({"key", "mouse"} \X Int) \cup ({"paste"} \X Seq(Nat)))
  <2> DEFINE C == ({"key", "mouse"} \X Int) \cup ({"paste"} \X Seq(Nat))
  <2>1. calls \in Seq(C)
    BY DEF KeyboardTypes
  <2>2. CASE NoCall
    BY <2>1, <2>2 DEF NoCall
  <2>3. ASSUME NEW kind \in {"key", "mouse"}, NEW arg \in Int, Call(kind, arg)
        PROVE  calls' \in Seq(C)
    <3>1. <<kind, arg>> \in C
      OBVIOUS
    <3>. HIDE DEF C
    <3> QED
      BY <2>1, <2>3, <3>1 DEF Call
  <2>4. ASSUME Call("paste", paste)
        PROVE  calls' \in Seq(C)
    <3>1. <<"paste", paste>> \in C
      BY DEF KeyboardTypes
    <3>. HIDE DEF C
    <3> QED
      BY <2>1, <2>4, <3>1 DEF Call
  <2> QED
    BY <2>2, <2>3, <2>4
<1> QED
  BY <1>2, <1>3, <1>4 DEF KeyboardTypes

\* the invariant after a step that leaves the state of mbrtowc
LEMMA StepInv ==
    ASSUME KeyboardInv, NEW key \in Int, keys' = Append(keys, key),
           place' = NewPlace(key), paste' = NewPaste(key), mbstate' = mbstate,
           key # Restart, ~(place = "typing" /\ IsByte(key)),
           \/ NoCall
           \/ \E kind \in {"key", "mouse"}, arg \in Int : Call(kind, arg)
           \/ Call("paste", paste),
           KeysAreRead'
    PROVE  KeyboardInv'
<1>1. KeyboardTypes'
  <2>1. place' \in {"typing", "escape", "paste"}
    BY DEF NewPlace
  <2> QED
    BY <2>1, TypesStep DEF KeyboardInv, KeyboardTypes
<1>2. PlaceInv'
  BY PlaceStep DEF KeyboardInv
<1>3. ByteInv'
  <2>1. Extends
    BY DEF Extends, NoCall, Call
  <2>2. ~(IsTyped(keys, Len(keys) + 1) /\ IsByte(key))
    BY NewPosition DEF KeyboardInv
  <2> QED
    BY <2>1, <2>2, ByteStay DEF KeyboardInv
<1> QED
  BY <1>1, <1>2, <1>3 DEF KeyboardInv

LEMMA PasteKeyInv ==
    ASSUME KeyboardInv, NEW key \in Keys, PasteKey(key)
    PROVE  KeyboardInv'
<1>1. key \in Int /\ key # Gap /\ key # Restart
  BY KeyboardAssumption DEF Gap, Restart
<1>2. /\ place = "paste" /\ key # end_paste /\ keys' = Append(keys, key) /\ NoCall
      /\ paste' = Append(paste, PastedByte(key)) /\ place' = place /\ mbstate' = mbstate
  BY DEF PasteKey, Got
<1>3. place' = NewPlace(key) /\ paste' = NewPaste(key)
  BY <1>1, <1>2 DEF NewPlace, NewPaste
<1>4. KeysAreRead'
  BY <1>1, <1>2, NoSpeech, SilentStep DEF KeyboardInv
<1> QED
  BY <1>1, <1>2, <1>3, <1>4, StepInv

LEMMA PasteEndInv ==
    ASSUME KeyboardInv, PasteEnd
    PROVE  KeyboardInv'
<1>1. /\ place = "paste" /\ keys' = Append(keys, end_paste) /\ Call("paste", paste)
      /\ paste' = <<>> /\ place' = "typing" /\ mbstate' = mbstate
      /\ end_paste \in Int /\ end_paste # Restart
  BY KeyNames DEF PasteEnd, Got
<1>2. place' = NewPlace(end_paste) /\ paste' = NewPaste(end_paste)
  BY <1>1 DEF NewPlace, NewPaste
<1>3. keys \in Seq(Int) /\ Len(keys) \in Nat /\ Len(keys) + 1 - 1 = Len(keys)
  BY DEF KeyboardInv, KeyboardTypes
<1>4. PICK j \in 1..Len(keys) : /\ Opens(keys, Len(keys) + 1, j) /\ ~InPaste(keys, j)
                                /\ IsText(paste, keys, Len(keys) + 1, j)
  BY <1>1 DEF KeyboardInv, PlaceInv
<1>5. EndsPaste(keys', Len(keys) + 1)
  BY <1>1, NewPosition DEF KeyboardInv
<1>6. /\ j \in 1..(Len(keys) + 1 - 1) /\ j \in 1..(Len(keys) + 1)
      /\ Len(keys) + 1 \in 1..(Len(keys) + 1)
  BY <1>3, <1>4
<1>7. /\ Opens(keys', Len(keys) + 1, j) /\ ~InPaste(keys', j)
      /\ IsText(paste, keys', Len(keys) + 1, j)
  <2>1. Opens(keys', Len(keys) + 1, j)
    BY <1>1, <1>3, <1>4, <1>6, OpensPrefix
  <2>2. ~InPaste(keys', j)
    BY <1>1, <1>3, <1>4, <1>6, InPastePrefix
  <2>3. IsText(paste, keys', Len(keys) + 1, j)
    BY <1>1, <1>3, <1>4, <1>6, TextPrefix
  <2> QED
    BY <2>1, <2>2, <2>3
<1>8. IsRight(<<"paste", paste>>, keys', at', Len(keys) + 1)
  <2> DEFINE call == <<"paste", paste>>
  <2>1. call[1] = "paste" /\ call[2] = paste
    OBVIOUS
  <2>. HIDE DEF call
  <2>2. IsRight(call, keys', at', Len(keys) + 1)
    BY <1>5, <1>6, <1>7, <2>1 DEF IsRight
  <2> QED
    BY <2>2 DEF call
<1>9. KeysAreRead'
  BY <1>1, <1>8, CallStep DEF KeyboardInv
<1> QED
  BY <1>1, <1>2, <1>9, NotBytes, StepInv

LEMMA EscKeyInv ==
    ASSUME KeyboardInv, NEW key \in Keys, EscKey(key)
    PROVE  KeyboardInv'
<1>1. key \in Int /\ key # Gap /\ key # Restart /\ -key \in Int
  BY KeyboardAssumption DEF Gap, Restart
<1>2. /\ place = "escape" /\ keys' = Append(keys, key) /\ Call("key", -key)
      /\ paste' = paste /\ place' = "typing" /\ mbstate' = mbstate
  BY DEF EscKey, Got
<1>3. place' = NewPlace(key) /\ paste' = NewPaste(key)
  BY <1>2 DEF NewPlace, NewPaste, KeyboardInv, PlaceInv
<1>4. IsRight(<<"key", -key>>, keys', at', Len(keys) + 1)
  <2>1. IsMeta(keys', Len(keys) + 1) /\ keys'[Len(keys) + 1] = key
    BY <1>1, <1>2, NewPosition DEF KeyboardInv
  <2> QED
    BY <1>1, <2>1 DEF IsRight
<1>5. KeysAreRead'
  BY <1>1, <1>2, <1>4, CallStep DEF KeyboardInv
<1> QED
  BY <1>1, <1>2, <1>3, <1>5, StepInv

LEMMA EscAloneInv ==
    ASSUME KeyboardInv, EscAlone
    PROVE  KeyboardInv'
<1>1. /\ place = "escape" /\ keys' = Append(keys, Gap) /\ Call("key", Esc)
      /\ paste' = paste /\ place' = "typing" /\ mbstate' = mbstate
      /\ Gap \in Int /\ Gap # Restart /\ Esc \in Int
  BY KeyNames DEF EscAlone, Got
<1>2. place' = NewPlace(Gap) /\ paste' = NewPaste(Gap)
  BY <1>1 DEF NewPlace, NewPaste, KeyboardInv, PlaceInv
<1>3. IsRight(<<"key", Esc>>, keys', at', Len(keys) + 1)
  <2>1. IsMeta(keys', Len(keys) + 1) /\ keys'[Len(keys) + 1] = Gap
    BY <1>1, NewPosition DEF KeyboardInv
  <2> QED
    BY <1>1, <2>1 DEF IsRight
<1>4. KeysAreRead'
  BY <1>1, <1>3, CallStep DEF KeyboardInv
<1> QED
  BY <1>1, <1>2, <1>4, StepInv

\* the steps that read a key and call nothing
SilentKey == EscBegin \/ PasteBegin \/ Waits \/ (MouseKey /\ NoCall)

LEMMA SilentKeyInv ==
    ASSUME KeyboardInv, SilentKey
    PROVE  KeyboardInv'
<1>1. PICK key \in {Esc, start_paste, Gap, KEY_MOUSE} :
         /\ keys' = Append(keys, key) /\ NoCall /\ mbstate' = mbstate /\ paste' = paste
         /\ place' = NewPlace(key)
         /\ place = "typing" \/ (place = "paste" /\ key = Gap)
  <2>1. CASE EscBegin
    BY <2>1 DEF EscBegin, Got, NewPlace
  <2>2. CASE PasteBegin
    BY <2>2, KeyNames DEF PasteBegin, Got, NewPlace
  <2>3. CASE Waits
    BY <2>3, KeyNames DEF Waits, Got, NewPlace, KeyboardInv, KeyboardTypes
  <2>4. CASE MouseKey /\ NoCall
    <3>1. KEY_MOUSE # Esc /\ KEY_MOUSE # start_paste
      BY DEF KEY_MOUSE, Esc, start_paste
    <3> QED
      BY <2>4, <3>1 DEF MouseKey, Got, NewPlace
  <2> QED
    BY <2>1, <2>2, <2>3, <2>4 DEF SilentKey
<1>2. /\ key \in Int /\ key # Restart /\ key # end_paste /\ ~IsByte(key) /\ key \in Silent
      /\ key = Gap \/ place # "paste"
  BY <1>1, KeyNames, NotBytes DEF Silent, Pause, KEY_MOUSE, Restart, end_paste
<1>3. paste' = NewPaste(key)
  BY <1>1, <1>2 DEF NewPaste, KeyboardInv, PlaceInv
<1>4. KeysAreRead'
  BY <1>1, <1>2, NoSpeech, SilentStep DEF KeyboardInv
<1> QED
  BY <1>1, <1>2, <1>3, <1>4, StepInv

LEMMA ClickInv ==
    ASSUME KeyboardInv, MouseKey, Call("mouse", 0)
    PROVE  KeyboardInv'
<1>1. /\ place = "typing" /\ keys' = Append(keys, KEY_MOUSE)
      /\ paste' = paste /\ place' = place /\ mbstate' = mbstate
      /\ KEY_MOUSE \in Int /\ KEY_MOUSE # Restart /\ KEY_MOUSE # Esc /\ KEY_MOUSE # start_paste
  BY DEF MouseKey, Got, KEY_MOUSE, Restart, Esc, start_paste
<1>2. place' = NewPlace(KEY_MOUSE) /\ paste' = NewPaste(KEY_MOUSE)
  BY <1>1 DEF NewPlace, NewPaste, KeyboardInv, PlaceInv
<1>3. IsRight(<<"mouse", 0>>, keys', at', Len(keys) + 1)
  <2>1. IsTyped(keys', Len(keys) + 1) /\ keys'[Len(keys) + 1] = KEY_MOUSE
    BY <1>1, NewPosition DEF KeyboardInv
  <2> QED
    BY <2>1 DEF IsRight
<1>4. KeysAreRead'
  BY <1>1, <1>3, CallStep DEF KeyboardInv
<1>5. \E kind \in {"key", "mouse"}, arg \in Int : Call(kind, arg)
  OBVIOUS
<1> QED
  BY <1>1, <1>2, <1>4, <1>5, NotBytes, StepInv

LEMMA PlainKeyInv ==
    ASSUME KeyboardInv, NEW key \in Keys, PlainKey(key)
    PROVE  KeyboardInv'
<1>1. key \in Int /\ key \notin Pause /\ key # Restart
  BY KeyboardAssumption DEF Gap, Restart, Pause
<1>2. /\ place = "typing" /\ keys' = Append(keys, key) /\ Call("key", KeyCode(key))
      /\ paste' = paste /\ place' = place /\ mbstate' = mbstate
      /\ key \notin {Esc, KEY_MOUSE, start_paste} /\ ~IsByte(key)
  BY DEF PlainKey, Got
<1>3. place' = NewPlace(key) /\ paste' = NewPaste(key)
  BY <1>2 DEF NewPlace, NewPaste, KeyboardInv, PlaceInv
<1>4. IsRight(<<"key", KeyCode(key)>>, keys', at', Len(keys) + 1)
  <2>1. IsPlain(keys', Len(keys) + 1) /\ keys'[Len(keys) + 1] = key
    BY <1>1, <1>2, NewPosition DEF KeyboardInv, Silent
  <2> QED
    BY <2>1 DEF IsRight
<1>5. KeysAreRead'
  BY <1>1, <1>2, <1>4, CallStep DEF KeyboardInv
<1>6. KeyCode(key) \in Int
  BY <1>1 DEF KeyCode, KEY_RESUME, KEY_EXIT
<1> QED
  BY <1>1, <1>2, <1>3, <1>5, <1>6, StepInv

LEMMA RestartsInv ==
    ASSUME KeyboardInv, Restarts
    PROVE  KeyboardInv'
<1>1. /\ place \in {"typing", "paste"} /\ keys' = Append(keys, Restart) /\ NoCall
      /\ paste' = <<>> /\ place' = "typing" /\ mbstate' = "initial"
      /\ Restart \in Int /\ Restart # Esc /\ Restart # start_paste /\ Restart # end_paste
      /\ Restart \in Silent /\ ~IsByte(Restart)
  BY KeyNames, NotBytes DEF Restarts, Got, KeyboardInv, KeyboardTypes, Silent, Pause
<1>2. place' = NewPlace(Restart) /\ paste' = NewPaste(Restart)
  BY <1>1 DEF NewPlace, NewPaste
<1>3. KeyboardTypes'
  BY <1>1, <1>2, TypesStep DEF KeyboardInv
<1>4. PlaceInv'
  BY <1>1, <1>2, PlaceStep DEF KeyboardInv
<1>5. ByteInv'
  BY <1>1, ByteRestart DEF KeyboardInv
<1>6. KeysAreRead'
  BY <1>1, NoSpeech, SilentStep DEF KeyboardInv
<1> QED
  BY <1>3, <1>4, <1>5, <1>6 DEF KeyboardInv

\* a lead byte is never the end of a character
LEMMA LeadIsSilent ==
    ASSUME KeyboardTypes, KeysAreRead, NEW j \in 1..Len(keys),
           IsTyped(keys, j), IsByte(keys[j]), IsLead(keys[j])
    PROVE  ~Called(at, j)
<1>1. ASSUME Called(at, j)
      PROVE  FALSE
  <2>1. PICK n \in DOMAIN at : at[n] = j
    BY <1>1 DEF Called
  <2>2. IsRight(calls[n], keys, at, j)
    BY <2>1 DEF KeysAreRead
  <2>3. keys[j] # KEY_MOUSE
    BY NotBytes
  <2>4. ~EndsPaste(keys, j) /\ ~IsMeta(keys, j) /\ ~IsPlain(keys, j) /\ ~MayEnd(keys, at, j)
    BY DEF EndsPaste, IsMeta, IsPlain, MayEnd, IsTyped
  <2> QED
    BY <2>2, <2>3, <2>4 DEF IsRight
<1> QED
  BY <1>1

LEMMA ByteKeyInv ==
    ASSUME KeyboardInv, NEW key \in Keys, ByteKey(key)
    PROVE  KeyboardInv'
<1> DEFINE L == Len(keys)
<1>1. key \in Int /\ key # Restart
  BY KeyboardAssumption DEF Restart
<1>2. /\ place = "typing" /\ keys' = Append(keys, key) /\ IsByte(key)
      /\ paste' = paste /\ place' = place
      /\ \/ mbstate = "initial" /\ IsLead(key) /\ mbstate' = "pending" /\ NoCall
         \/ mbstate = "pending" /\ ~IsLead(key) /\ mbstate' = "initial" /\ Call("key", Code(key))
         \/ (mbstate = "pending") = IsLead(key) /\ mbstate' \in {"initial", "pending"} /\ NoCall
  BY DEF ByteKey, Got
<1>3. key # Esc /\ key # start_paste
  BY <1>2, NotBytes
<1>4. place' = NewPlace(key) /\ paste' = NewPaste(key)
  BY <1>2, <1>3 DEF NewPlace, NewPaste, KeyboardInv, PlaceInv
<1>5. PlaceInv'
  BY <1>1, <1>2, <1>4, PlaceStep DEF KeyboardInv
<1>6. Code(key) \in Int
  BY <1>1 DEF Code
<1>7. KeyboardTypes'
  <2>1. NoCall \/ \E kind \in {"key", "mouse"}, arg \in Int : Call(kind, arg)
    BY <1>2, <1>6
  <2>2. mbstate' \in {"initial", "pending"} /\ place' \in {"typing", "escape", "paste"}
    BY <1>2
  <2> QED
    BY <1>1, <1>2, <1>4, <2>1, <2>2, TypesStep DEF KeyboardInv
<1>8. Extends
  BY <1>2 DEF Extends, NoCall, Call
<1>9. /\ keys'[L + 1] = key /\ IsTyped(keys, L + 1) /\ IsTyped(keys', L + 1)
      /\ ~IsMeta(keys', L + 1) /\ ~EndsPaste(keys', L + 1) /\ ~IsPlain(keys', L + 1)
  BY <1>1, <1>2, NewPosition DEF KeyboardInv
<1>10. keys \in Seq(Int) /\ L \in Nat /\ Len(keys') = L + 1 /\ Len(keys') + 1 = L + 2
  BY <1>2 DEF KeyboardInv, KeyboardTypes
<1>11. /\ \A k \in 1..L : Called(at', k) <=> Called(at, k)
       /\ ~Called(at, L + 1)
  BY <1>8, CalledStep DEF KeyboardInv
<1>12. ASSUME NEW j \in 1..(L + 1)
       PROVE  LastByte(keys', L + 2, j) <=> j = L + 1
  <2>1. LastByte(keys', L + 2, j) <=>
              IF j = L + 1
              THEN IsTyped(keys, L + 1) /\ IsByte(key)
              ELSE /\ LastByte(keys, L + 1, j)
                   /\ key # Restart /\ ~(IsTyped(keys, L + 1) /\ IsByte(key))
    BY <1>1, <1>2, <1>10, LastByteNext
  <2> QED
    BY <1>2, <1>9, <2>1
<1>13. ASSUME NEW j \in 1..(L + 1), NEW h \in 1..(j - 1)
       PROVE  LastByte(keys', j, h) <=> LastByte(keys, j, h)
  BY <1>1, <1>2, <1>10, LastBytePrefix
<1>14. /\ L + 1 \in 1..(L + 1) /\ L + 1 - 1 = L
       /\ \A j \in 1..L : j \in 1..(L + 1) /\ keys'[j] = keys[j]
       /\ \A j \in 1..L : \A h \in 1..(j - 1) : h \in 1..L
  BY <1>2, <1>10
<1>14a. 1..(L + 1 - 1) = 1..L
  BY <1>14
<1>14b. L \in Nat
  BY <1>10
<1>14c. \A h \in 1..L : LastByte(keys', L + 1, h) <=> LastByte(keys, L + 1, h)
  BY <1>13, <1>14, <1>14a
<1>15. mbstate \in {"initial", "pending"}
  BY DEF KeyboardInv, KeyboardTypes
<1>16. ByteInv => 
         /\ mbstate = "pending" =>
               \E j \in 1..L : /\ LastByte(keys, L + 1, j)
                               /\ IsLead(keys[j]) \/ ~Called(at, j)
         /\ mbstate = "initial" =>
               \A j \in 1..L :
                  LastByte(keys, L + 1, j) /\ IsLead(keys[j]) =>
                     \E h \in 1..(j - 1) : LastByte(keys, j, h) /\ ~Called(at, h)
  BY DEF ByteInv
<1>17. ByteInv' <=>
         /\ mbstate' = "pending" =>
               \E j \in 1..(L + 1) : /\ LastByte(keys', L + 2, j)
                                     /\ IsLead(keys'[j]) \/ ~Called(at', j)
         /\ mbstate' = "initial" =>
               \A j \in 1..(L + 1) :
                  LastByte(keys', L + 2, j) /\ IsLead(keys'[j]) =>
                     \E h \in 1..(j - 1) : LastByte(keys', j, h) /\ ~Called(at', h)
  BY <1>10 DEF ByteInv
<1>. HIDE DEF L
<1>18. CASE mbstate = "initial" /\ IsLead(key) /\ mbstate' = "pending" /\ NoCall
  <2>1. ByteInv'
    BY <1>9, <1>12, <1>14, <1>17, <1>18
  <2>2. ~Speaks(keys', at, L + 1)
    BY <1>9, <1>18 DEF Speaks, Ends
  <2>3. KeysAreRead'
    BY <1>1, <1>2, <1>18, <2>2, SilentStep DEF KeyboardInv, L
  <2> QED
    BY <1>5, <1>7, <2>1, <2>3 DEF KeyboardInv
<1>19. CASE mbstate = "pending" /\ ~IsLead(key) /\ mbstate' = "initial" /\ Call("key", Code(key))
  <2>1. ByteInv'
    BY <1>9, <1>12, <1>14, <1>17, <1>19
  <2>2. PICK j \in 1..L : LastByte(keys, L + 1, j) /\ (IsLead(keys[j]) \/ ~Called(at, j))
    BY <1>16, <1>19 DEF KeyboardInv
  <2>3. LastByte(keys', L + 1, j) /\ (IsLead(keys'[j]) \/ ~Called(at', j))
    BY <1>11, <1>14, <1>14c, <2>2
  <2>4. MayEnd(keys', at', L + 1)
    <3>1. IsTyped(keys', L + 1) /\ IsByte(keys'[L + 1]) /\ ~IsLead(keys'[L + 1])
      BY <1>2, <1>9, <1>19
    <3>2. j \in 1..(L + 1 - 1)
      BY <1>14b
    <3> QED
      BY <1>14b, <2>3, <3>1, <3>2, SMT DEF MayEnd
  <2>5. IsRight(<<"key", Code(key)>>, keys', at', L + 1)
    BY <1>9, <2>4 DEF IsRight
  <2>6. KeysAreRead'
    BY <1>1, <1>2, <1>19, <2>5, CallStep DEF KeyboardInv, L
  <2> QED
    BY <1>5, <1>7, <2>1, <2>6 DEF KeyboardInv
<1>20. CASE (mbstate = "pending") = IsLead(key) /\ mbstate' \in {"initial", "pending"} /\ NoCall
  <2>0. at' = at
    BY <1>20 DEF NoCall
  <2>1. ASSUME mbstate' = "initial", IsLead(key)
        PROVE  \E h \in 1..L : LastByte(keys', L + 1, h) /\ ~Called(at', h)
    <3>1. PICK j \in 1..L : LastByte(keys, L + 1, j) /\ (IsLead(keys[j]) \/ ~Called(at, j))
      BY <1>16, <1>20, <2>1 DEF KeyboardInv
    <3>2. ~Called(at, j)
      <4>1. CASE IsLead(keys[j])
        <5>1. IsTyped(keys, j) /\ IsByte(keys[j])
          BY <3>1 DEF LastByte
        <5> QED
          BY <4>1, <5>1, LeadIsSilent DEF KeyboardInv, L
      <4> QED
        BY <3>1, <4>1
    <3> QED
      BY <1>11, <1>14c, <3>1, <3>2
  <2>2. ByteInv'
    <3>1. ASSUME mbstate' = "pending"
          PROVE  \E j \in 1..(L + 1) : /\ LastByte(keys', L + 2, j)
                                       /\ IsLead(keys'[j]) \/ ~Called(at', j)
      BY <1>11, <1>12, <1>14, <2>0
    <3>2. ASSUME mbstate' = "initial", NEW j \in 1..(L + 1),
                 LastByte(keys', L + 2, j) /\ IsLead(keys'[j])
          PROVE  \E h \in 1..(j - 1) : LastByte(keys', j, h) /\ ~Called(at', h)
      <4>1. j = L + 1
        BY <1>12, <3>2
      <4>2. IsLead(key)
        BY <1>9, <3>2, <4>1
      <4>3. 1..(j - 1) = 1..L
        BY <1>14b, <4>1
      <4> QED
        BY <2>1, <3>2, <4>1, <4>2, <4>3
    <3> QED
      BY <1>17, <3>1, <3>2
  <2>3. ~Ends(keys', at, L + 1)
    <3>1. CASE IsLead(key)
      BY <1>9, <3>1 DEF Ends
    <3>2. CASE ~IsLead(key)
      <4>1. mbstate = "initial"
        BY <1>15, <1>20, <3>2
      <4>2. ASSUME NEW j \in 1..L, LastByte(keys', L + 1, j), IsLead(keys'[j]),
                   \A h \in 1..(j - 1) : LastByte(keys', j, h) => Called(at, h)
            PROVE  FALSE
        <5>1. LastByte(keys, L + 1, j) /\ IsLead(keys[j])
          BY <1>14, <1>14c, <4>2
        <5>2. PICK h \in 1..(j - 1) : LastByte(keys, j, h) /\ ~Called(at, h)
          BY <1>16, <4>1, <5>1 DEF KeyboardInv
        <5>3. LastByte(keys', j, h)
          BY <1>13, <1>14, <5>2
        <5> QED
          BY <4>2, <5>2, <5>3
      <4> QED
        BY <1>14b, <4>2 DEF Ends
    <3> QED
      BY <3>1, <3>2
  <2>4. ~Speaks(keys', at, L + 1)
    BY <1>9, <2>3 DEF Speaks
  <2>5. KeysAreRead'
    BY <1>1, <1>2, <1>20, <2>4, SilentStep DEF KeyboardInv, L
  <2> QED
    BY <1>5, <1>7, <2>2, <2>5 DEF KeyboardInv
<1> QED
  BY <1>2, <1>18, <1>19, <1>20

LEMMA KeyboardInitInv ==
    ASSUME KeyboardInit
    PROVE  KeyboardInv
<1>1. /\ keys = <<>> /\ place = "typing" /\ paste = <<>> /\ mbstate = "initial"
      /\ calls = <<>> /\ at = <<>> /\ Len(keys) = 0 /\ Len(keys) + 1 = 1
  BY DEF KeyboardInit
<1>2. KeyboardTypes
  BY <1>1 DEF KeyboardTypes
<1>3. EscRun(<<>>, 1, 0)
  BY DEF EscRun
<1>4. ~Escaped(<<>>, 1) /\ ~InPaste(<<>>, 1)
  BY DEF Escaped, InPaste
<1>5. PlaceInv
  BY <1>1, <1>3, <1>4 DEF PlaceInv
<1>6. ByteInv
  BY <1>1 DEF ByteInv
<1>7. KeysAreRead
  BY <1>1 DEF KeysAreRead
<1> QED
  BY <1>2, <1>5, <1>6, <1>7 DEF KeyboardInv

\* Every key is seen once, in order, as what it is: pastes whole and alone, Esc
\* with the key that follows at once, characters of several bytes across
\* pauses; for any input (app.cpp:94-164).
THEOREM KeysCorrect == KeyboardSpec => []KeysAreRead
<1>1. KeyboardInit => KeyboardInv
  BY KeyboardInitInv
<1>2. KeyboardInv /\ [KeyboardNext]_keyboardVars => KeyboardInv'
  <2> SUFFICES ASSUME KeyboardInv, [KeyboardNext]_keyboardVars
               PROVE  KeyboardInv'
    OBVIOUS
  <2>1. CASE PasteEnd
    BY <2>1, PasteEndInv
  <2>2. CASE EscBegin \/ PasteBegin \/ Waits
    <3>1. SilentKey
      BY <2>2 DEF SilentKey
    <3> QED
      BY <3>1, SilentKeyInv
  <2>3. CASE MouseKey
    <3>1. CASE Call("mouse", 0)
      BY <2>3, <3>1, ClickInv
    <3>2. CASE NoCall
      <4>1. SilentKey
        BY <2>3, <3>2 DEF SilentKey
      <4> QED
        BY <4>1, SilentKeyInv
    <3> QED
      BY <2>3, <3>1, <3>2 DEF MouseKey
  <2>4. CASE EscAlone
    BY <2>4, EscAloneInv
  <2>5. CASE Restarts
    BY <2>5, RestartsInv
  <2>6. ASSUME NEW key \in Keys, PasteKey(key) \/ EscKey(key) \/ PlainKey(key) \/ ByteKey(key)
        PROVE  KeyboardInv'
    BY <2>6, PasteKeyInv, EscKeyInv, PlainKeyInv, ByteKeyInv
  <2>7. CASE UNCHANGED keyboardVars
    BY <2>7 DEF keyboardVars, KeyboardInv, KeyboardTypes, PlaceInv, ByteInv, KeysAreRead
  <2> QED
    BY <2>1, <2>2, <2>3, <2>4, <2>5, <2>6, <2>7 DEF KeyboardNext
<1>3. KeyboardInv => KeysAreRead
  BY DEF KeyboardInv
<1> QED
  BY <1>1, <1>2, <1>3, PTL DEF KeyboardSpec

============================================================================
