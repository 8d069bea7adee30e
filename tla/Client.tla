------------------------------- MODULE Client -------------------------------
(***************************************************************************)
(* The life cycle of the chat client (src/ircc/init.lua): the wanted and   *)
(* the current mode, the connect task, the irc_state of the session, the   *)
(* handlers of the connection's events, the one-second tick with its       *)
(* timeouts, the commands /connect, /disconnect, /quit and /reload.        *)
(*                                                                         *)
(* Every call of snowcone.connect makes a Link.  conn_handlers belongs to  *)
(* the program and not to a connection: the events of every link reach the *)
(* same handlers, which act on whatever irc_state is current.              *)
(*                                                                         *)
(* uptime is only compared with liveness and mode_timestamp, so the model  *)
(* keeps the differences: silent = uptime - irc_state.liveness and         *)
(* idleFor = uptime - mode_timestamp, the latter up to RetryAfter + 1,     *)
(* beyond which no comparison can succeed.                                 *)
(***************************************************************************)
EXTENDS Integers

CONSTANTS Conns,        \* identities of connections; one is free again at END
          nil,          \* the Lua value
          Configs,      \* the configurations a (re)load may find
          PingAfter,    \* 30 seconds
          DeadAfter,    \* 60 seconds
          RetryAfter    \* 5 seconds

ASSUME ClientAssumption ==
    /\ nil \notin Conns
    /\ Configs \subseteq {"good", "no_host", "bad_port"}
    /\ PingAfter \in Nat /\ DeadAfter \in Nat /\ RetryAfter \in Nat
    /\ 0 < PingAfter /\ PingAfter < DeadAfter /\ 0 < RetryAfter

VARIABLES
    mode_target,    \* exit, idle, connected
    mode_current,   \* idle, connecting, connected
    idleFor,        \* seconds since mode_current changed
    task,           \* the connect task is suspended in resolve_password
    irc,            \* the connection of irc_state, or nil
    phase,          \* irc_state.phase
    regs,           \* registration tasks in irc_state.tasks
    silent,         \* seconds since irc_state.liveness
    conns,          \* the links
    config,         \* configuration.server
    startup,        \* how the last startup() ended: done, failed
    app             \* running, or down once teardown() has run

mode  == <<mode_target, mode_current, idleFor, task>>
state == <<irc, phase, regs, silent>>
vars  == <<mode, state, conns, config, startup, app>>

L == INSTANCE Link WITH link <- conns

Free == {c \in Conns : conns[c].st = "ended"}

Saturate(n) == IF n > RetryAfter THEN RetryAfter + 1 ELSE n

(***************************************************************************)
(* connect() and its task                                                  *)
(***************************************************************************)

\* connect() with configuration cfg when mode_current is idle, now seconds
\* after it became so.  The task is left at its first suspension; without
\* passwords to resolve it runs on at once.
Connect(cfg, now) ==
    IF cfg = "no_host"
    THEN idleFor' = now /\ UNCHANGED <<mode_current, task>>
    ELSE idleFor' = 0 /\ mode_current' = "connecting" /\ task' = "suspended"

\* the task resolved its passwords and snowcone.connect returned a connection
ConnectTaskDone(c) ==
    /\ task = "suspended"
    /\ config = "good"
    /\ c \in Free
    /\ task' = "none"
    /\ conns' = [conns EXCEPT ![c] = L!Fresh]
    /\ irc' = c
    /\ phase' = "connecting"
    /\ regs' = 0
    /\ silent' = 0
    /\ mode_current' = "connected"
    /\ idleFor' = 0
    /\ UNCHANGED <<mode_target, config, startup, app>>

\* failure(): a password, certificate or key could not be had
ConnectTaskFails ==
    /\ task = "suspended"
    /\ task' = "none"
    /\ mode_current' = "idle"
    /\ idleFor' = 0
    /\ mode_target' = IF mode_target = "connected" THEN "idle" ELSE mode_target
    /\ UNCHANGED <<state, conns, config, startup, app>>

\* snowcone.connect raises an argument error, which ends the task; a /reload
\* may have taken the host away since connect() looked
ConnectTaskRaises ==
    /\ task = "suspended"
    /\ config # "good"
    /\ task' = "none"
    /\ UNCHANGED <<mode_target, mode_current, idleFor, state, conns, config,
                   startup, app>>

(***************************************************************************)
(* disconnect(), teardown() and quit()                                     *)
(***************************************************************************)

\* disconnect(), when the links are cs: irc_state:close() closes the
\* connection and cancels the tasks
Disconnect(cs) ==
    IF irc = nil
    THEN conns' = cs /\ UNCHANGED <<state, mode_current, idleFor>>
    ELSE /\ \E l \in L!Closed(cs[irc]) : conns' = [cs EXCEPT ![irc] = l]
         /\ irc' = nil
         /\ phase' = "closed"
         /\ regs' = 0
         /\ silent' = 0
         /\ mode_current' = "idle"
         /\ idleFor' = 0

\* teardown() cancels the tick timer; snowcone.shutdown() ends keyboard and
\* signal handling
Quit ==
    /\ app = "running"
    /\ mode_target' = "exit"
    /\ IF mode_current = "connected"
       THEN Disconnect(conns) /\ UNCHANGED app
       ELSE /\ app' = IF mode_current = "idle" THEN "down" ELSE app
            /\ UNCHANGED <<state, conns, mode_current, idleFor>>
    /\ UNCHANGED <<task, config, startup>>

(***************************************************************************)
(* The other commands and /reload                                          *)
(***************************************************************************)

\* mutant: /connect does not look at mode_current
CmdConnectAlways ==
    /\ app = "running"
    /\ mode_target' = "connected"
    /\ Connect(config, idleFor)
    /\ UNCHANGED <<state, conns, config, startup, app>>

CmdConnect ==
    /\ app = "running"
    /\ mode_target' = "connected"
    /\ IF mode_current = "idle"
       THEN Connect(config, idleFor)
       ELSE UNCHANGED <<mode_current, task, idleFor>>
    /\ UNCHANGED <<state, conns, config, startup, app>>

CmdDisconnect ==
    /\ app = "running"
    /\ mode_target' = "idle"
    /\ IF mode_current = "connected"
       THEN Disconnect(conns)
       ELSE UNCHANGED <<state, conns, mode_current, idleFor>>
    /\ UNCHANGED <<task, config, startup, app>>

\* startup() again, with the configuration found on disk now
Reload(found) ==
    /\ app = "running"
    /\ config' = found
    /\ startup' = "done"
    /\ IF mode_target = "connected" /\ mode_current = "idle"
       THEN Connect(found, idleFor)
       ELSE UNCHANGED <<mode_current, task, idleFor>>
    /\ UNCHANGED <<mode_target, state, conns, app>>

\* ... which fails after configuration has been assigned (schema.check, a
\* plugin), so that connect() is not reached
ReloadFails(found) ==
    /\ app = "running"
    /\ config' = found
    /\ startup' = "failed"
    /\ UNCHANGED <<mode, state, conns, app>>

(***************************************************************************)
(* conn_handlers                                                           *)
(***************************************************************************)

\* the network: the pending operation of c gets its result
OpDone(c) ==
    /\ \E l \in L!Completed(conns[c]) : conns' = [conns EXCEPT ![c] = l]
    /\ UNCHANGED <<mode, state, config, startup, app>>

\* the links after c has run on and reported event e
After(c, e) ==
    {[conns EXCEPT ![c] = r.link] :
        r \in {q \in L!Resumed(conns[c]) : q.event = e}}

\* the coroutine of c runs on without calling back
Progress(c) ==
    /\ conns' \in After(c, "none")
    /\ UNCHANGED <<mode, state, config, startup, app>>

\* CON: the target has changed, or the fingerprint is not the wanted one
OnConRejected(c) ==
    /\ \E cs \in After(c, "CON") : Disconnect(cs)
    /\ UNCHANGED <<mode_target, task, config, startup, app>>

\* mutant: CON does not look at mode_target
OnConAcceptedAnyway(c) ==
    /\ irc # nil
    /\ conns' \in After(c, "CON")
    /\ phase' = "registration"
    /\ regs' = IF regs = 0 THEN 1 ELSE 2
    /\ UNCHANGED <<mode, irc, silent, config, startup, app>>

\* CON: start a registration task on the current irc_state, which raises at
\* once when sasl.automatic names no credential; without an irc_state
\* irc_state.tasks raises, and nothing has changed
OnConAccepted(c) ==
    /\ mode_target = "connected"
    /\ conns' \in After(c, "CON")
    /\ IF irc = nil
       THEN UNCHANGED <<phase, regs>>
       ELSE /\ phase' = "registration"
            /\ regs' \in {regs, IF regs = 0 THEN 1 ELSE 2}
    /\ UNCHANGED <<mode, irc, silent, config, startup, app>>

\* MSG without irc_state is discarded
OnMsgDiscarded(c) ==
    /\ irc = nil
    /\ conns' \in After(c, "MSG")
    /\ UNCHANGED <<mode, state, config, startup, app>>

\* MSG: ERROR closes the phase; any other command may be the one a
\* registration task ends with, or one that it fails on
OnMsg(c) ==
    /\ irc # nil
    /\ conns' \in After(c, "MSG")
    /\ silent' = 0
    /\ \/ phase' \in {phase, "closed"} /\ regs' = regs
       \/ /\ regs > 0
          /\ phase' \in {phase, "connected"}
          /\ regs' = regs - 1
    /\ UNCHANGED <<mode, irc, config, startup, app>>

\* mutant: END does not tear down
OnEndStays(c) ==
    /\ \E cs \in After(c, "END") : Disconnect(cs)
    /\ UNCHANGED <<mode_target, task, config, startup, app>>

OnEnd(c) ==
    /\ \E cs \in After(c, "END") : Disconnect(cs)
    /\ app' = IF mode_target = "exit" THEN "down" ELSE app
    /\ UNCHANGED <<mode_target, task, config, startup>>

(***************************************************************************)
(* The tick, once a second                                                 *)
(***************************************************************************)

\* mutant: only a registered session times out
TickSessionRegistered ==
    /\ irc # nil
    /\ IF phase = "connected" /\ silent + 1 = DeadAfter
       THEN Disconnect(conns)
       ELSE /\ silent' = silent + 1
            /\ idleFor' = Saturate(idleFor + 1)
            /\ UNCHANGED <<irc, phase, regs, conns, mode_current>>
    /\ UNCHANGED task

\* with an irc_state: a PING after 30 seconds, which changes nothing here,
\* or the end of the session after 60
TickSession ==
    /\ irc # nil
    /\ IF ~(phase = "connected" /\ silent + 1 = PingAfter) /\ silent + 1 = DeadAfter
       THEN Disconnect(conns)
       ELSE /\ silent' = silent + 1
            /\ idleFor' = Saturate(idleFor + 1)
            /\ UNCHANGED <<irc, phase, regs, conns, mode_current>>
    /\ UNCHANGED task

\* without: connect again after 5 seconds
TickIdle ==
    /\ irc = nil
    /\ IF /\ mode_current = "idle"
          /\ mode_target = "connected"
          /\ idleFor + 1 = RetryAfter
       THEN Connect(config, RetryAfter)
       ELSE /\ idleFor' = Saturate(idleFor + 1)
            /\ UNCHANGED <<mode_current, task>>
    /\ UNCHANGED <<state, conns>>

Tick ==
    /\ app = "running"
    /\ TickSession \/ TickIdle
    /\ UNCHANGED <<mode_target, config, startup, app>>

----------------------------------------------------------------------------

\* after the first startup(), which called connect() unless it failed before
Init ==
    /\ mode_target = "connected"
    /\ config \in Configs
    /\ \/ startup = "done" /\ config # "no_host" /\ mode_current = "connecting"
       \/ startup = "done" /\ config = "no_host" /\ mode_current = "idle"
       \/ startup = "failed" /\ mode_current = "idle"
    /\ task = IF mode_current = "connecting" THEN "suspended" ELSE "none"
    /\ idleFor = 0
    /\ irc = nil
    /\ phase = "closed"
    /\ regs = 0
    /\ silent = 0
    /\ conns = [c \in Conns |-> L!Dead]
    /\ app = "running"

User ==
    \/ CmdConnect
    \/ CmdDisconnect
    \/ Quit
    \/ \E found \in Configs : Reload(found) \/ ReloadFails(found)

ConnectTask ==
    \/ \E c \in Conns : ConnectTaskDone(c)
    \/ ConnectTaskFails
    \/ ConnectTaskRaises

\* the coroutine of c is resumed, and runs up to where it suspends or ends
Completes(c) ==
    \/ Progress(c)
    \/ OnConRejected(c)
    \/ OnConAccepted(c)
    \/ OnEnd(c)

\* ... with messages before that
Handler(c) == Completes(c) \/ OnMsgDiscarded(c) \/ OnMsg(c)

Next ==
    \/ User
    \/ ConnectTask
    \/ Tick
    \/ \E c \in Conns : OpDone(c) \/ Handler(c)

Spec == Init /\ [][Next]_vars

(***************************************************************************)
(* io_context::run runs every queued handler to its end, and what has been *)
(* read holds finitely many messages; the kernel fires every timer, and    *)
(* getaddrinfo gives up at some time.  A peer may stay silent for ever     *)
(* while a connection is set up or read from: nothing is assumed of it.    *)
(***************************************************************************)
Fairness ==
    /\ WF_vars(Tick)
    /\ \A c \in Conns :
          /\ WF_vars(Completes(c))
          /\ WF_vars(conns[c].st = "resolving" /\ OpDone(c))

FairSpec == Spec /\ Fairness

\* ... and all the others do their part: the programs and the user that
\* passwords are asked of answer, and a peer answers too and ends the
\* connection at some time, however often it sends a message before that
AnsweringSpec ==
    /\ FairSpec
    /\ WF_vars(ConnectTask)
    /\ \A c \in Conns : WF_vars(OpDone(c)) /\ SF_vars(OnEnd(c))

----------------------------------------------------------------------------

TypeOK ==
    /\ mode_target \in {"exit", "idle", "connected"}
    /\ mode_current \in {"idle", "connecting", "connected"}
    /\ idleFor \in 0 .. RetryAfter + 1
    /\ task \in {"none", "suspended"}
    /\ irc \in Conns \cup {nil}
    /\ phase \in {"connecting", "registration", "connected", "closed"}
    /\ regs \in 0 .. 2
    /\ silent \in Nat
    /\ conns \in [Conns -> L!Links]
    /\ config \in Configs
    /\ startup \in {"done", "failed"}
    /\ app \in {"running", "down"}

\* irc_state and mode_current agree: there is an irc_state exactly in mode
\* connected, and the connect task of init.lua:335 is suspended only in mode
\* connecting, whatever commands, reloads and late events of older connections
\* came in between.
ModesAgree ==
    /\ mode_current = "connected" <=> irc # nil
    /\ task = "suspended" => mode_current = "connecting"

\* irc_state never outlives its connection: conn_handlers.END has not run for
\* the connection that rawsend would write to.
SessionIsLive == irc # nil => conns[irc].st # "ended"

\* irc_state is never replaced by that of another connection, which would
\* leave the first one open with nobody to close it.
NeverReplaced == [][irc # nil => irc' \in {irc, nil}]_vars

\* The tick compares uptime with liveness + 60 by ==.  No session gets past
\* that second: a silent server is always dropped.
SilenceIsBounded == irc # nil => silent < DeadAfter

\* The tick compares uptime with mode_timestamp + 5 by ==.  A client that
\* wants a connection, and knows of a host since its last startup, never gets
\* past that second in mode idle: the reconnect is not missed.
RetryIsNotMissed ==
    /\ mode_current = "idle"
    /\ mode_target = "connected"
    /\ config # "no_host"
    /\ startup = "done"
    => idleFor < RetryAfter

\* Whatever commands, reloads and late events of older connections come: the
\* modes agree with irc_state, irc_state belongs to a connection that has not
\* ended, no session outlives its silence limit and no reconnect is missed,
\* although both timeouts compare for equality (init.lua:502-540, 638-652).
ClientIsSound ==
    TypeOK /\ ModesAgree /\ SessionIsLive /\ SilenceIsBounded /\ RetryIsNotMissed

\* A connection that came about after the user asked for none is given up,
\* by conn_handlers.CON, by END or by the tick, even if its peer is silent.
\* Older connections that are still open could keep it alive, because their
\* messages count as liveness of the current irc_state.
UnwantedCloses ==
    /\ irc # nil
    /\ mode_target # "connected"
    /\ app = "running"
    /\ \A c \in Conns \ {irc} : conns[c].st = "ended"
    ~> irc = nil \/ mode_target = "connected"

\* After /quit the END of a connection that was closed beyond name resolution
\* ends the application.
ClosedQuitExits ==
    /\ mode_target = "exit"
    /\ \E c \in Conns : /\ conns[c].st \in {"connecting", "up"}
                        /\ conns[c].fd = "closed"
    ~> app = "down" \/ mode_target # "exit"

\* What README.md:100 says of /quit: "quit the IRC connection and exit the
\* application".
QuitExits == mode_target = "exit" ~> app = "down" \/ mode_target # "exit"
=============================================================================
