------------------------------- MODULE Tasks -------------------------------
(***************************************************************************)
(* Tasks of the chat client: ircc/components/Task.lua with the password     *)
(* prompt of ircc/init.lua (set_input_mode) and ircc/handlers/input.lua, on *)
(* top of the timers of client/timer.cpp and the lookups of                 *)
(* client/dnslookup.cpp.  Programs that a task runs are in module Terminal. *)
(*                                                                          *)
(* Everything runs on one thread.  stack holds the coroutines that are      *)
(* running, the innermost last: a task that asks for a password resumes the *)
(* task that was asking before, from inside its own coroutine.  Events are  *)
(* handled when the stack is empty.  The body of a task is any sequence of  *)
(* calls of the Task's methods.                                             *)
(***************************************************************************)
EXTENDS Timer, FiniteSets

CONSTANTS TaskIds,       \* the tasks of one irc_state
          NoTask,        \* nil
          MaxCalls       \* bound: suspending calls made by tasks

ASSUME TasksAssumption == NoTask \notin TaskIds /\ MaxCalls \in Nat

VARIABLES co,       \* co[t]: new, running, normal, suspended, dead
          stack,    \* running coroutines
          queue,    \* irc_state.tasks
          why,      \* why[t]: what the last yield of t waits for
          want,     \* tasks with a want_command that is not empty
          timer_handle,    \* timer_handle[t]: an address or "nil"
          lookups,  \* tasks with an async_resolve outstanding, which are
                    \* those whose dnslookup_handle is set
          owner,    \* owner[n]: the task that callback n resumes, and the
                    \* call that set it: sleep, wait_irc or other code
          password_task,
          calls,    \* suspending calls so far
          session,    \* irc_state: open, or closed once disconnect() let go of it
          stragglers, \* history: tasks whose cancel raised
          failures,   \* history: how often Irc:close raised
          askedAgain  \* history: a task asked while being told that it lost
                      \* the prompt

taskVars == <<co, stack, queue, why, want, timer_handle, lookups,
              owner, password_task, calls, session, stragglers, failures, askedAgain>>
vars == <<timerVars, taskVars>>

Nil == "nil"
NoOwner == [task |-> NoTask, call |-> "other"]

Init ==
    /\ TimerInit
    /\ co = [t \in TaskIds |-> "new"]
    /\ stack = <<>> /\ queue = {}
    /\ why = [t \in TaskIds |-> Nil]
    /\ want = {} /\ lookups = {}
    /\ timer_handle = [t \in TaskIds |-> Nil]
    /\ owner = [n \in 1..MaxStarts |-> NoOwner]
    /\ password_task = NoTask
    /\ calls = 0 /\ askedAgain = "no"
    /\ session = "open" /\ stragglers = {} /\ failures = 0

Idle == stack = <<>>
Running(t) == stack # <<>> /\ t = Last(stack)

-----------------------------------------------------------------------------
(* Resuming and yielding                                                    *)

\* M:resume, from an event: only a suspended coroutine can be resumed; any
\* other leads to a status message
Resume(t) ==
    IF t # NoTask /\ co[t] = "suspended"
    THEN /\ co' = [co EXCEPT ![t] = "running"]
         /\ stack' = <<t>>
    ELSE UNCHANGED <<co, stack>>

\* The innermost coroutine stops.  The ones below it were in set_input_mode of
\* ask_password, which returns, and they yield for the password.
Unwind(t, to) ==
    /\ co' = [x \in TaskIds |-> IF x = t THEN to
                                ELSE IF x \in Range(stack) THEN "suspended" ELSE co[x]]
    /\ stack' = <<>>

Yield(t, reason) ==
    /\ calls < MaxCalls
    /\ calls' = calls + 1
    /\ why' = [why EXCEPT ![t] = reason]
    /\ Unwind(t, "suspended")

\* mutant: the timer is made and not started
StartTimerForgets(t, call) ==
    \E a \in Addresses \ live :
       /\ live' = live \cup {a}
       /\ timer_handle' = [timer_handle EXCEPT ![t] = a]
       /\ UNCHANGED <<slot, waits, starts, called, dropped, overtaken, owner>>

\* newtimer and start, for a callback that resumes t
StartTimer(t, call) ==
    \E a \in Addresses \ live :
       /\ live' = live \cup {a}
       /\ Begin(a)
       /\ timer_handle' = [timer_handle EXCEPT ![t] = a]
       /\ owner' = [owner EXCEPT ![starts + 1] = [task |-> t, call |-> call]]

-----------------------------------------------------------------------------
(* What a running task can do                                               *)

\* M:_init: the task is queued and resumed at once
Spawn(t) ==
    /\ Idle /\ co[t] = "new" /\ session = "open"
    /\ co' = [co EXCEPT ![t] = "running"]
    /\ stack' = <<t>>
    /\ queue' = queue \cup {t}
    /\ UNCHANGED <<timerVars, why, want, timer_handle, lookups,
                   owner, password_task, calls, session, stragglers, failures,
                   askedAgain>>

WaitIrc(t) ==
    /\ Running(t)
    /\ want' = want \cup {t}
    /\ Yield(t, "irc")
    /\ UNCHANGED <<timerVars, queue, timer_handle, lookups, owner,
                   password_task, session, stragglers, failures,
                   askedAgain>>

WaitIrcTimeout(t) ==
    /\ Running(t)
    /\ StartTimer(t, "wait_irc")
    /\ want' = want \cup {t}
    /\ Yield(t, "irc")
    /\ UNCHANGED <<queue, lookups, password_task, session, stragglers, failures,
                   askedAgain>>

Sleep(t) ==
    /\ Running(t)
    /\ StartTimer(t, "sleep")
    /\ Yield(t, "sleep")
    /\ UNCHANGED <<queue, want, lookups, password_task,
                   session, stragglers, failures,
                   askedAgain>>

\* M:dnslookup; l_dnslookup returns the host name, which becomes the handle
Lookup(t) ==
    /\ Running(t)
    /\ lookups' = lookups \cup {t}
    /\ Yield(t, "dns")
    /\ UNCHANGED <<timerVars, queue, want, timer_handle, owner, password_task,
                   session, stragglers, failures,
                   askedAgain>>

\* mutant: the task that was asking before is not told
AskSilently(t) ==
    /\ Running(t)
    /\ password_task' = t
    /\ Yield(t, "password")
    /\ UNCHANGED <<timerVars, queue, want, timer_handle, lookups, owner, session, stragglers, failures,
                   askedAgain>>

\* ask_password and set_input_mode: take the prompt, then resume the task that
\* had it; t yields when that task stops
Ask(t) ==
    /\ Running(t)
    /\ password_task' = t
    /\ askedAgain' = IF Len(stack) > 1 THEN "yes" ELSE askedAgain
    /\ IF password_task # NoTask /\ co[password_task] = "suspended"
       THEN /\ calls < MaxCalls
            /\ calls' = calls + 1
            /\ why' = [why EXCEPT ![t] = "password"]
            /\ co' = [co EXCEPT ![t] = "normal", ![password_task] = "running"]
            /\ stack' = Append(stack, password_task)
       ELSE Yield(t, "password")
    /\ UNCHANGED <<timerVars, queue, want, timer_handle, lookups,
                   owner, session, stragglers, failures>>

\* the body returns or raises; M:resume takes the task out of the queue
Finish(t) ==
    /\ Running(t)
    /\ Unwind(t, "dead")
    /\ queue' = queue \ {t}
    /\ UNCHANGED <<timerVars, why, want, timer_handle, lookups,
                   owner, password_task, calls, session, stragglers, failures,
                   askedAgain>>

TaskStep(t) ==
    \/ WaitIrc(t) \/ WaitIrcTimeout(t) \/ Sleep(t) \/ Lookup(t) \/ Ask(t)
    \/ Finish(t)

-----------------------------------------------------------------------------
(* Events                                                                   *)

\* A message that t wants.  resume_irc calls cancel_timer first, which raises
\* when a timer is set (it calls timer.cancel without the timer): then nothing
\* has changed.
ResumeIrc(t) ==
    /\ Idle /\ t \in want \cap queue
    /\ timer_handle[t] = Nil
    /\ want' = want \ {t}
    /\ Resume(t)
    /\ UNCHANGED <<timerVars, queue, why, timer_handle, lookups,
                   owner, password_task, calls, session, stragglers, failures,
                   askedAgain>>

\* The handler of a timer: the callback of sleep or of a time-out forgets the
\* timer and resumes its task, for a time-out through resume_irc; the callback
\* of another timer is not of interest here
TimerHandler(a) ==
    /\ Idle
    /\ Handler(a)
    /\ LET o == IF slot[a] = NoCallback THEN NoOwner ELSE owner[slot[a]] IN
       /\ timer_handle' = IF o.task = NoTask THEN timer_handle
                          ELSE [timer_handle EXCEPT ![o.task] = Nil]
       /\ want' = IF o.call = "wait_irc" THEN want \ {o.task} ELSE want
       /\ Resume(o.task)
    /\ UNCHANGED <<queue, why, lookups, owner, password_task,
                   calls, session, stragglers, failures,
                   askedAgain>>

\* the callback of a lookup, with addresses or an error
LookupHandler(t) ==
    /\ Idle /\ t \in lookups
    /\ lookups' = lookups \ {t}
    /\ Resume(t)
    /\ UNCHANGED <<timerVars, queue, why, want, timer_handle, owner, password_task,
                   calls, session, stragglers, failures,
                   askedAgain>>

\* execute.password with the text, or set_input_mode for another mode or Esc
\* with nil: the prompt is gone before the task runs
PromptEnds ==
    /\ Idle /\ password_task # NoTask
    /\ password_task' = NoTask
    /\ Resume(password_task)
    /\ UNCHANGED <<timerVars, queue, why, want, timer_handle, lookups, owner, calls, session, stragglers, failures,
                   askedAgain>>

\* cancel_timer raises when a timer is set, cancel_dnslookup when a handle is
\* set (a string has no method cancel); both before coroutine.close
CancelRaises(t) == timer_handle[t] # Nil \/ t \in lookups

\* mutant: cancel takes the task out of the queue last
CancelledOutLast(done, t) == queue \ done

\* Task:cancel takes the task out of the queue before it does what may raise:
\* the queue when the tasks done have been cancelled and t has raised
CancelledOut(done, t) == queue \ (done \cup {t})

\* disconnect(): Irc:close cancels the tasks one by one, in any order, until one
\* raises; only when none does is irc_state let go of.  Otherwise the next END,
\* tick or command closes again.
CloseIrc ==
    /\ Idle /\ session = "open"
    /\ \E done \in SUBSET {t \in queue : ~CancelRaises(t)} :
          /\ co' = [t \in TaskIds |-> IF t \in done THEN "dead" ELSE co[t]]
          /\ \/ /\ done = queue /\ queue' = {} /\ session' = "closed"
                /\ UNCHANGED <<stragglers, failures>>
             \/ \E t \in queue : /\ CancelRaises(t)
                                 /\ queue' = CancelledOut(done, t)
                                 /\ stragglers' = stragglers \cup {t}
                                 /\ failures' = failures + 1
                                 /\ session' = session
    /\ UNCHANGED <<timerVars, stack, why, want, timer_handle, lookups, owner,
                   password_task, calls, askedAgain>>

\* Other Lua code uses timers of its own; a timer is collected when no task
\* holds it
OtherTimers(a) ==
    /\ Idle
    /\ \A t \in TaskIds : timer_handle[t] # a
    /\ New(a) \/ Start(a) \/ Cancel(a) \/ Gc(a)
    /\ UNCHANGED taskVars

TimerService(a) == (Expire(a) \/ AbortedHandler(a)) /\ Idle /\ UNCHANGED taskVars

Next ==
    \/ \E t \in TaskIds : Spawn(t) \/ TaskStep(t) \/ ResumeIrc(t) \/ LookupHandler(t)
    \/ \E a \in Addresses : OtherTimers(a) \/ TimerService(a) \/ TimerHandler(a)
    \/ PromptEnds \/ CloseIrc

\* Coroutines run until they yield; the kernel fires timers and the io_context
\* runs the queued handlers.  Nobody has to send messages or type passwords.
Spec ==
    /\ Init /\ [][Next]_vars
    /\ \A t \in TaskIds : WF_vars(TaskStep(t))
    /\ \A a \in Addresses : WF_vars(TimerService(a)) /\ WF_vars(TimerHandler(a))

-----------------------------------------------------------------------------
(* Properties                                                               *)

TypeOK ==
    /\ co \in [TaskIds -> {"new", "running", "normal", "suspended", "dead"}]
    /\ stack \in Seq(TaskIds)
    /\ \A t \in TaskIds : co[t] \in {"running", "normal"} <=> t \in Range(stack)
    /\ {queue, want, lookups, stragglers} \subseteq SUBSET TaskIds
    /\ session \in {"open", "closed"}
    /\ password_task \in TaskIds \cup {NoTask}

\* A task that waits for a password has the prompt: when another task takes
\* it, the first is told (init.lua:545-558).  A task that asks again while it
\* is being told takes the prompt from a task that cannot be resumed yet.
PromptHasAnOwner ==
    /\ TypeOK
    /\ askedAgain = "no" =>
          \A t \in TaskIds : co[t] = "suspended" /\ why[t] = "password" =>
             password_task = t

\* Closing gets through (init.lua:526-533, Irc.lua:98-103, Task.lua:43-49).  A
\* task with a timer or a lookup outstanding makes Irc:close raise, but no task
\* does so twice, so as many calls as there are such tasks and one more let go
\* of the session.  From then on, whatever messages, passwords, timers and
\* answers still arrive, no task runs but those whose cancel raised.
ClosingGetsThrough ==
    /\ queue \cap stragglers = {}
    /\ failures = Cardinality(stragglers)
    /\ session = "closed" =>
          \A t \in TaskIds : co[t] \in {"new", "dead"} \/ t \in stragglers

\* A task that sleeps is resumed or closed (Task.lua:67-77), even if the handler
\* of an older timer takes its callback.
SleepersWake ==
    \A t \in TaskIds :
       (co[t] = "suspended" /\ why[t] = "sleep") ~> co[t] # "suspended"

=============================================================================
