------------------------------ MODULE Terminal ------------------------------
(***************************************************************************)
(* The terminal shared between the client and the programs it runs: the    *)
(* keyboard coroutine stdin_thread and start_input, stop_input, shutdown   *)
(* (src/client/app.cpp), program execution (src/client/process.cpp), the   *)
(* tasks that wait for a program (Task:execute), and the count of          *)
(* suspensions in src/ircc/init.lua, which a reload starts anew.           *)
(*                                                                         *)
(* A keyboard coroutine that has been woken runs the handlers of all keys  *)
(* before it waits again, so a program may be started while the coroutine  *)
(* of the keyboard is running and has no wait that could be cancelled.     *)
(***************************************************************************)
EXTENDS Integers, FiniteSets

CONSTANTS Progs,        \* executions of a program, each by a task of its own
          MaxReloads    \* bound on the reloads

ASSUME TerminalAssumption == IsFiniteSet(Progs) /\ MaxReloads \in Nat

VARIABLES
    reader,             \* coroutines stdin_thread
    open,               \* stdin_poll has not been closed
    drawing_suspended,
    outstanding,        \* asynchronous operations of each execution
    stage,              \* stage_: how many of them are still to complete
    use_tty,
    co,                 \* coroutine of the task that executes
    reloads,
    missed,             \* some stop_input found a coroutine that was not waiting
    called              \* history: how often handler_ was called, per execution

vars == <<reader, open, drawing_suspended, outstanding, stage, use_tty, co, reloads,
          missed, called>>

\* every execution starts the keyboard at most once
Readers == 0 .. Cardinality(Progs)

Stages == {"stdin", "stdout", "stderr", "exit"}

\* App::startup: one keyboard coroutine
Init ==
    /\ reader = [r \in Readers |-> IF r = 0 THEN "waiting" ELSE "none"]
    /\ open = TRUE
    /\ drawing_suspended = 0
    /\ outstanding = [p \in Progs |-> {}]
    /\ stage = [p \in Progs |-> 0]
    /\ use_tty = [p \in Progs |-> FALSE]
    /\ co = [p \in Progs |-> "none"]
    /\ reloads = 0
    /\ missed = FALSE
    /\ called = [p \in Progs |-> 0]

\* mutant: shutdown only cancels, so a wait can still be started
NewWaitAlways == "waiting"

\* what becomes of a wait that is started now
NewWait == IF open THEN "waiting" ELSE "aborted"

\* App::start_input, applied to the keyboard coroutines rs
StartInput(rs) ==
    LET free == {r \in Readers : rs[r] = "none"}
    IN [rs EXCEPT ![CHOOSE r \in free : TRUE] = NewWait]

\* App::stop_input: stdin_poll.cancel() leaves alone a wait that has completed
StopInput(rs) ==
    [r \in Readers |-> IF rs[r] = "waiting" THEN "aborted" ELSE rs[r]]

\* mutant: the first program that ends starts the keyboard
ResumeFirst(rs, n) == StartInput(rs)

\* mutant: compares with the count before the decrement
ResumeLate(rs, n) == IF n = 1 THEN StartInput(rs) ELSE rs

\* resume_tty, with n suspensions left
ResumeTty(rs, n) == IF n = 0 THEN StartInput(rs) ELSE rs

\* the keyboard after Task:execute
AfterExecute(tty, ok, rs) ==
    LET stopped == IF drawing_suspended = 0 THEN StopInput(rs) ELSE rs
    IN IF ~tty THEN rs
       ELSE IF ok THEN stopped ELSE ResumeTty(stopped, drawing_suspended)

\* stop_input has no wait to cancel of a coroutine that runs or is about to
Misses(tty, rs) ==
    tty /\ drawing_suspended = 0 /\ \E r \in Readers : rs[r] \in {"ready", "running"}

\* initiation: the operations it starts; a program that takes the terminal has
\* no input of the client's
Initiated(tty, ok) ==
    IF ~ok THEN {} ELSE IF tty THEN Stages \ {"stdin"} ELSE Stages

\* mutant: the write of the input is not counted
InitialStageThree(tty) == 3

\* Exec::Exec: stage_; there is an input unless the program takes the terminal
InitialStage(tty) == IF tty THEN 3 ELSE 4

\* Task:execute and l_execute.  A program that cannot be started calls the
\* callback at once (stage_ is set to 1 and counted down), while the coroutine
\* of the task is still running: resume fails, and the coroutine yields
\* afterwards.
Execute(p, tty, ok) ==
    /\ co[p] = "none"
    /\ co' = [co EXCEPT ![p] = "suspended"]
    /\ use_tty' = [use_tty EXCEPT ![p] = tty]
    /\ drawing_suspended' = IF tty /\ ok THEN drawing_suspended + 1 ELSE drawing_suspended
    /\ outstanding' = [outstanding EXCEPT ![p] = Initiated(tty, ok)]
    /\ stage' = [stage EXCEPT ![p] = IF ok THEN InitialStage(tty) ELSE 0]
    /\ called' = [called EXCEPT ![p] = IF ok THEN @ ELSE @ + 1]

\* a program is started by a message, a timer or the end of another program
ExecuteElsewhere(p, tty, ok) ==
    /\ Execute(p, tty, ok)
    /\ reader' = AfterExecute(tty, ok, reader)
    /\ missed' = (missed \/ Misses(tty, reader))
    /\ UNCHANGED <<open, reloads>>

\* the terminal has input for a waiting coroutine
KeyArrives(r) ==
    /\ reader[r] = "waiting"
    /\ reader' = [reader EXCEPT ![r] = "ready"]
    /\ UNCHANGED <<open, drawing_suspended, outstanding, stage, use_tty, co, reloads,
                   missed, called>>

\* stdin_thread: the loop over the keys, then the next wait
RunKeys(r) ==
    /\ reader[r] = "ready"
    /\ LET running == [reader EXCEPT ![r] = "running"]
       IN \/ /\ reader' = [running EXCEPT ![r] = NewWait]
             /\ UNCHANGED <<drawing_suspended, outstanding, stage, use_tty, co, missed,
                            called>>
          \/ \E p \in Progs, tty \in BOOLEAN, ok \in BOOLEAN :
                /\ Execute(p, tty, ok)
                /\ reader' = [AfterExecute(tty, ok, running) EXCEPT ![r] = NewWait]
                /\ missed' = (missed \/ Misses(tty, running))
    /\ UNCHANGED <<open, reloads>>

\* the wait ends with an error, which ends stdin_thread
Aborted(r) ==
    /\ reader[r] = "aborted"
    /\ reader' = [reader EXCEPT ![r] = "none"]
    /\ UNCHANGED <<open, drawing_suspended, outstanding, stage, use_tty, co, reloads,
                   missed, called>>

\* handler_: the callback given to snowcone.execute
Callback(p) ==
    /\ called' = [called EXCEPT ![p] = @ + 1]
    /\ co' = [co EXCEPT ![p] = IF @ = "suspended" THEN "resumed" ELSE @]
    /\ IF use_tty[p]
       THEN /\ drawing_suspended' = drawing_suspended - 1
            /\ reader' = ResumeTty(reader, drawing_suspended - 1)
       ELSE UNCHANGED <<drawing_suspended, reader>>

\* Exec::complete after one of the operations; the callback when stage_ gets to 0
Complete(p, s) ==
    /\ s \in outstanding[p]
    /\ outstanding' = [outstanding EXCEPT ![p] = @ \ {s}]
    /\ stage' = [stage EXCEPT ![p] = @ - 1]
    /\ IF stage[p] - 1 = 0 THEN Callback(p)
       ELSE UNCHANGED <<co, drawing_suspended, reader, called>>
    /\ UNCHANGED <<open, use_tty, reloads, missed>>

\* Task:cancel, by Irc:close: the program goes on and its callback comes
Cancel(p) ==
    /\ co[p] = "suspended"
    /\ co' = [co EXCEPT ![p] = "cancelled"]
    /\ UNCHANGED <<reader, open, drawing_suspended, outstanding, stage, use_tty, reloads,
                   missed, called>>

\* App::reload: init.lua runs again and has a counter of its own
Reload ==
    /\ reloads < MaxReloads
    /\ reloads' = reloads + 1
    /\ drawing_suspended' = 0
    /\ UNCHANGED <<reader, open, outstanding, stage, use_tty, co, missed, called>>

\* App::shutdown
Shutdown ==
    /\ open
    /\ open' = FALSE
    /\ reader' = StopInput(reader)
    /\ UNCHANGED <<drawing_suspended, outstanding, stage, use_tty, co, reloads, missed,
                   called>>

Handler ==
    \/ \E r \in Readers : RunKeys(r) \/ Aborted(r)
    \/ \E p \in Progs, s \in Stages : Complete(p, s)

Next ==
    \/ Handler
    \/ \E p \in Progs, tty \in BOOLEAN, ok \in BOOLEAN : ExecuteElsewhere(p, tty, ok)
    \/ \E r \in Readers : KeyArrives(r)
    \/ \E p \in Progs : Cancel(p)
    \/ Reload
    \/ Shutdown

Spec == Init /\ [][Next]_vars

\* The handlers that are queued run, and programs end.
FairSpec == Spec /\ WF_vars(Handler)

----------------------------------------------------------------------------

Live(r) == reader[r] \in {"waiting", "ready"}

\* executions that have taken the terminal and not given it back
Outstanding == {p \in Progs : use_tty[p] /\ outstanding[p] # {}}

TypeOK ==
    /\ reader \in [Readers -> {"none", "waiting", "ready", "aborted"}]
    /\ open \in BOOLEAN
    /\ drawing_suspended \in
          (IF reloads = 0 THEN 0 ELSE -Cardinality(Progs)) .. Cardinality(Progs)
    /\ outstanding \in [Progs -> SUBSET Stages]
    /\ stage \in [Progs -> Int]
    /\ use_tty \in [Progs -> BOOLEAN]
    /\ co \in [Progs -> {"none", "suspended", "resumed", "cancelled"}]
    /\ reloads \in 0 .. MaxReloads
    /\ missed \in BOOLEAN
    /\ called \in [Progs -> Nat]

\* The keyboard comes back: whenever no program has the terminal, a coroutine
\* reads it, however programs, waits that were cancelled but whose handler has
\* not run yet, and tasks cancelled meanwhile overlap.  A reload breaks this.
KeyboardComesBack ==
    /\ TypeOK
    /\ open /\ reloads = 0 /\ Outstanding = {} => \E r \in Readers : Live(r)

\* While a program has the terminal the client takes no key from it, and one
\* coroutine at most reads the keyboard, unless stop_input has missed one: it
\* cancels a wait, and the coroutine in which a key starts a program has none.
TerminalIsExclusive ==
    ~missed /\ reloads = 0
    => /\ Cardinality({r \in Readers : Live(r)}) <= 1
       /\ Outstanding # {} => \A r \in Readers : ~Live(r)

\* The callback of a program comes exactly once, when the last of the operations
\* that were started for it has completed and no earlier: stage_ counts what
\* initiation starts, with an input and without, however the operations of
\* several programs interleave, and a program that cannot be started is
\* reported as well (process.cpp:57, 62-68, 100-105).  A task is resumed then
\* or not at all.
ResumedAtTheEnd ==
    \A p \in Progs :
       /\ called[p] = IF co[p] # "none" /\ outstanding[p] = {} THEN 1 ELSE 0
       /\ co[p] = "resumed" => outstanding[p] = {}

\* After shutdown nothing keeps the io_context running: every coroutine of the
\* keyboard ends, those started by a program that ends later included.
ShutdownEnds == []<>(open \/ \A r \in Readers : reader[r] = "none")
=============================================================================
