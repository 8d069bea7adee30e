---------------------------- MODULE Client_proofs ----------------------------
(***************************************************************************)
(* Safety of the client's life cycle, for any number of connections and    *)
(* any timeouts.  The four invariants are inductive together with the type *)
(* invariant.                                                              *)
(***************************************************************************)
EXTENDS Client, TLAPS

IInv ==
    /\ TypeOK
    /\ ModesAgree
    /\ SessionIsLive
    /\ SilenceIsBounded
    /\ RetryIsNotMissed

\* The steps of a link stay inside Links, and only END ends it.
LEMMA ClosedLink ==
    ASSUME NEW l \in L!Links, NEW m \in L!Closed(l)
    PROVE  m \in L!Links /\ m.st = l.st
BY DEF L!Links, L!Closed

\* The completion of an operation ends no link.
LEMMA CompletedLink ==
    ASSUME NEW l \in L!Links, NEW m \in L!Completed(l)
    PROVE  m \in L!Links /\ m.st = l.st
BY DEF L!Links, L!Completed

\* A resumption ends a link only when it reports END.
LEMMA ResumedLink ==
    ASSUME NEW l \in L!Links, NEW r \in L!Resumed(l)
    PROVE  /\ r.link \in L!Links
           /\ r.event # "END" => r.link.st # "ended"
BY DEF L!Links, L!Resumed, L!Await, L!Dead

\* The links after a resumption that reports e.
LEMMA AfterLinks ==
    ASSUME TypeOK, NEW c \in Conns, NEW e, NEW cs \in After(c, e)
    PROVE  /\ cs \in [Conns -> L!Links]
           /\ e # "END" =>
                \A d \in Conns : conns[d].st # "ended" => cs[d].st # "ended"
<1>1. conns \in [Conns -> L!Links] /\ conns[c] \in L!Links
  BY DEF TypeOK
<1>2. PICK r \in L!Resumed(conns[c]) :
         r.event = e /\ cs = [conns EXCEPT ![c] = r.link]
  BY DEF After
<1>3. r.link \in L!Links /\ (r.event # "END" => r.link.st # "ended")
  BY <1>1, <1>2, ResumedLink
<1> QED BY <1>1, <1>2, <1>3

\* disconnect() leaves no irc_state, and mode idle with a new timestamp if
\* there was one.
LEMMA DisconnectStep ==
    ASSUME TypeOK, ModesAgree,
           NEW cs \in [Conns -> L!Links],
           Disconnect(cs)
    PROVE  /\ irc' = nil
           /\ conns' \in [Conns -> L!Links]
           /\ phase' \in {"connecting", "registration", "connected", "closed"}
           /\ regs' \in 0 .. 2
           /\ silent' \in Nat
           /\ \/ irc # nil /\ mode_current' = "idle" /\ idleFor' = 0
              \/ irc = nil /\ mode_current' = mode_current /\ idleFor' = idleFor
<1>1. CASE irc = nil
  BY <1>1 DEF Disconnect, state, TypeOK
<1>2. CASE irc # nil
  <2>1. irc \in Conns /\ cs[irc] \in L!Links
    BY <1>2 DEF TypeOK
  <2>2. PICK l \in L!Closed(cs[irc]) : conns' = [cs EXCEPT ![irc] = l]
    BY <1>2 DEF Disconnect
  <2>3. l \in L!Links
    BY <2>1, <2>2, ClosedLink
  <2>4. conns' \in [Conns -> L!Links]
    BY <2>1, <2>2, <2>3
  <2> QED BY <1>2, <2>4 DEF Disconnect
<1> QED BY <1>1, <1>2

\* Everything but the connections stays as it is, and no link ends.
LEMMA LinkStep ==
    ASSUME IInv,
           UNCHANGED <<mode, irc, config, startup, app>>,
           phase' \in {"connecting", "registration", "connected", "closed"},
           regs' \in 0 .. 2,
           silent' \in {0, silent},
           conns' \in [Conns -> L!Links],
           \A d \in Conns : conns[d].st # "ended" => conns'[d].st # "ended"
    PROVE  IInv'
<1>1. DeadAfter \in Nat /\ 0 < DeadAfter
  BY ClientAssumption
<1>2. TypeOK'
  BY DEF IInv, TypeOK, mode
<1>3. ModesAgree' /\ RetryIsNotMissed'
  BY DEF IInv, ModesAgree, RetryIsNotMissed, mode
<1>4. SessionIsLive'
  BY DEF IInv, SessionIsLive, TypeOK
<1>5. SilenceIsBounded'
  BY <1>1 DEF IInv, SilenceIsBounded, TypeOK
<1> QED BY <1>2, <1>3, <1>4, <1>5 DEF IInv

\* disconnect() together with new values for the mode wanted and the
\* application's state.
LEMMA DisconnectKeepsIInv ==
    ASSUME IInv,
           NEW cs \in [Conns -> L!Links],
           Disconnect(cs),
           mode_target' \in {mode_target, "idle", "exit"},
           app' \in {"running", "down"},
           UNCHANGED <<task, config, startup>>
    PROVE  IInv'
<1>0. /\ RetryAfter \in Nat /\ 0 < RetryAfter
      /\ nil \notin Conns
  BY ClientAssumption
<1>1. TypeOK /\ ModesAgree
  BY DEF IInv
<1>2. /\ irc' = nil
      /\ conns' \in [Conns -> L!Links]
      /\ phase' \in {"connecting", "registration", "connected", "closed"}
      /\ regs' \in 0 .. 2
      /\ silent' \in Nat
      /\ \/ irc # nil /\ mode_current' = "idle" /\ idleFor' = 0
         \/ irc = nil /\ mode_current' = mode_current /\ idleFor' = idleFor
  BY <1>1, DisconnectStep
<1>3. TypeOK'
  BY <1>0, <1>1, <1>2 DEF TypeOK
<1>4. ModesAgree'
  BY <1>1, <1>2 DEF ModesAgree, TypeOK
<1>5. RetryIsNotMissed'
  BY <1>0, <1>1, <1>2 DEF IInv, RetryIsNotMissed, TypeOK
<1> QED BY <1>2, <1>3, <1>4, <1>5 DEF IInv, SessionIsLive, SilenceIsBounded

\* connect() from mode idle.
LEMMA ConnectKeepsIInv ==
    ASSUME IInv, mode_current = "idle",
           NEW cfg \in Configs, NEW now \in 0 .. RetryAfter + 1,
           Connect(cfg, now),
           mode_target' \in {"exit", "idle", "connected"},
           cfg = "no_host" => config' = cfg,
           config' \in Configs,
           startup' \in {"done", "failed"},
           UNCHANGED <<state, conns, app>>
    PROVE  IInv'
<1>0. RetryAfter \in Nat /\ 0 < RetryAfter
  BY ClientAssumption
<1>1. TypeOK'
  BY <1>0 DEF IInv, TypeOK, Connect, state
<1>2. ModesAgree'
  BY DEF IInv, ModesAgree, TypeOK, Connect, state
<1>3. RetryIsNotMissed'
  BY DEF RetryIsNotMissed, Connect
<1> QED BY <1>1, <1>2, <1>3
        DEF IInv, SessionIsLive, SilenceIsBounded, state

\* The state after startup() satisfies the invariant.
LEMMA Initially == Init => IInv
<1> SUFFICES ASSUME Init PROVE IInv
  OBVIOUS
<1>0. RetryAfter \in Nat /\ 0 < RetryAfter
  BY ClientAssumption
<1>1. conns \in [Conns -> L!Links]
  BY DEF Init, L!Links, L!Dead
<1>2. TypeOK
  BY <1>0, <1>1 DEF Init, TypeOK
<1>3. ModesAgree /\ SessionIsLive /\ SilenceIsBounded
  BY DEF Init, ModesAgree, SessionIsLive, SilenceIsBounded
<1>4. RetryIsNotMissed
  BY <1>0 DEF Init, RetryIsNotMissed
<1> QED BY <1>2, <1>3, <1>4 DEF IInv

\* The connect task: one step per way it can end.
LEMMA ConnectTaskKeepsIInv ==
    ASSUME IInv, ConnectTask
    PROVE  IInv'
<1>0. /\ RetryAfter \in Nat /\ 0 < RetryAfter
      /\ DeadAfter \in Nat /\ 0 < DeadAfter
      /\ nil \notin Conns
  BY ClientAssumption
<1>1. ASSUME NEW c \in Conns, ConnectTaskDone(c)
      PROVE  IInv'
  <2>1. conns' \in [Conns -> L!Links] /\ conns'[c] = L!Fresh
    BY <1>1 DEF ConnectTaskDone, IInv, TypeOK, L!Links, L!Fresh
  <2>2. TypeOK'
    BY <1>0, <1>1, <2>1 DEF ConnectTaskDone, IInv, TypeOK
  <2>3. ModesAgree' /\ RetryIsNotMissed'
    BY <1>0, <1>1 DEF ConnectTaskDone, ModesAgree, RetryIsNotMissed
  <2>4. SessionIsLive'
    BY <1>1, <2>1 DEF ConnectTaskDone, SessionIsLive, L!Fresh
  <2>5. SilenceIsBounded'
    BY <1>0, <1>1 DEF ConnectTaskDone, SilenceIsBounded
  <2> QED BY <2>2, <2>3, <2>4, <2>5 DEF IInv
<1>2. CASE ConnectTaskFails
  <2>1. TypeOK'
    BY <1>0, <1>2 DEF ConnectTaskFails, IInv, TypeOK, state
  <2>2. ModesAgree' /\ SessionIsLive' /\ SilenceIsBounded'
    BY <1>2 DEF ConnectTaskFails, IInv, ModesAgree, SessionIsLive,
                SilenceIsBounded, state
  <2>3. RetryIsNotMissed'
    BY <1>2 DEF ConnectTaskFails, RetryIsNotMissed
  <2> QED BY <2>1, <2>2, <2>3 DEF IInv
<1>3. CASE ConnectTaskRaises
  BY <1>3 DEF ConnectTaskRaises, IInv, TypeOK, ModesAgree, SessionIsLive,
              SilenceIsBounded, RetryIsNotMissed, state
<1> QED BY <1>1, <1>2, <1>3 DEF ConnectTask

\* The commands and /reload: one step per command.
LEMMA UserKeepsIInv ==
    ASSUME IInv, User
    PROVE  IInv'
<1>0. TypeOK /\ ModesAgree /\ conns \in [Conns -> L!Links]
  BY DEF IInv, TypeOK
<1>1. CASE CmdConnect
  <2>1. CASE mode_current = "idle"
    BY <1>0, <1>1, <2>1, ConnectKeepsIInv DEF CmdConnect, TypeOK
  <2>2. CASE mode_current # "idle"
    BY <1>1, <2>2 DEF CmdConnect, IInv, TypeOK, ModesAgree, SessionIsLive,
                      SilenceIsBounded, RetryIsNotMissed, state
  <2> QED BY <2>1, <2>2
<1>2. CASE CmdDisconnect
  <2>1. CASE mode_current = "connected"
    BY <1>0, <1>2, <2>1, DisconnectKeepsIInv DEF CmdDisconnect, TypeOK
  <2>2. CASE mode_current # "connected"
    BY <1>2, <2>2 DEF CmdDisconnect, IInv, TypeOK, ModesAgree, SessionIsLive,
                      SilenceIsBounded, RetryIsNotMissed, state
  <2> QED BY <2>1, <2>2
<1>3. CASE Quit
  <2>1. CASE mode_current = "connected"
    BY <1>0, <1>3, <2>1, DisconnectKeepsIInv DEF Quit, TypeOK
  <2>2. CASE mode_current # "connected"
    BY <1>3, <2>2 DEF Quit, IInv, TypeOK, ModesAgree, SessionIsLive,
                      SilenceIsBounded, RetryIsNotMissed, state
  <2> QED BY <2>1, <2>2
<1>4. ASSUME NEW found \in Configs, Reload(found)
      PROVE  IInv'
  <2>1. CASE mode_target = "connected" /\ mode_current = "idle"
    BY <1>0, <1>4, <2>1, ConnectKeepsIInv DEF Reload, TypeOK
  <2>2. CASE ~(mode_target = "connected" /\ mode_current = "idle")
    BY <1>4, <2>2 DEF Reload, IInv, TypeOK, ModesAgree, SessionIsLive,
                      SilenceIsBounded, RetryIsNotMissed, state
  <2> QED BY <2>1, <2>2
<1>5. ASSUME NEW found \in Configs, ReloadFails(found)
      PROVE  IInv'
  BY <1>5 DEF ReloadFails, IInv, TypeOK, ModesAgree, SessionIsLive,
              SilenceIsBounded, RetryIsNotMissed, mode, state
<1> QED BY <1>1, <1>2, <1>3, <1>4, <1>5 DEF User

\* The network and conn_handlers.
LEMMA LinkEventKeepsIInv ==
    ASSUME IInv, NEW c \in Conns, OpDone(c) \/ Handler(c)
    PROVE  IInv'
<1>0. TypeOK /\ ModesAgree /\ conns \in [Conns -> L!Links] /\ conns[c] \in L!Links
  BY DEF IInv, TypeOK
<1>1. CASE OpDone(c)
  <2>1. PICK l \in L!Completed(conns[c]) : conns' = [conns EXCEPT ![c] = l]
    BY <1>1 DEF OpDone
  <2>2. l \in L!Links /\ l.st = conns[c].st
    BY <1>0, <2>1, CompletedLink
  <2>3. /\ conns' \in [Conns -> L!Links]
        /\ \A d \in Conns : conns'[d].st = conns[d].st
    BY <1>0, <2>1, <2>2
  <2> QED BY <1>0, <1>1, <2>3, LinkStep DEF OpDone, state, TypeOK
<1>2. CASE Progress(c)
  BY <1>0, <1>2, AfterLinks, LinkStep DEF Progress, state, TypeOK
<1>3. CASE OnConRejected(c)
  BY <1>0, <1>3, AfterLinks, DisconnectKeepsIInv DEF OnConRejected, TypeOK
<1>4. CASE OnConAccepted(c)
  BY <1>0, <1>4, AfterLinks, LinkStep DEF OnConAccepted, TypeOK
<1>5. CASE OnMsgDiscarded(c)
  BY <1>0, <1>5, AfterLinks, LinkStep DEF OnMsgDiscarded, state, TypeOK
<1>6. CASE OnMsg(c)
  BY <1>0, <1>6, AfterLinks, LinkStep DEF OnMsg, TypeOK
<1>7. CASE OnEnd(c)
  BY <1>0, <1>7, AfterLinks, DisconnectKeepsIInv DEF OnEnd, TypeOK
<1> QED BY <1>1, <1>2, <1>3, <1>4, <1>5, <1>6, <1>7 DEF Handler, Completes

\* The tick, with and without an irc_state: neither comparison is overtaken.
LEMMA TickKeepsIInv ==
    ASSUME IInv, Tick
    PROVE  IInv'
<1>0. /\ TypeOK /\ ModesAgree
      /\ conns \in [Conns -> L!Links]
      /\ PingAfter \in Nat /\ DeadAfter \in Nat /\ RetryAfter \in Nat
      /\ PingAfter < DeadAfter /\ 0 < RetryAfter
      /\ idleFor \in 0 .. RetryAfter + 1 /\ silent \in Nat
  BY ClientAssumption DEF IInv, TypeOK
<1>1. Saturate(idleFor + 1) \in 0 .. RetryAfter + 1
  BY <1>0 DEF Saturate
<1>2. CASE TickSession
  <2>1. CASE Disconnect(conns)
    BY <1>0, <1>2, <2>1, DisconnectKeepsIInv DEF Tick, TickSession, TypeOK
  <2>2. CASE /\ silent + 1 # DeadAfter \/ silent + 1 = PingAfter
             /\ silent' = silent + 1
             /\ idleFor' = Saturate(idleFor + 1)
             /\ UNCHANGED <<irc, phase, regs, conns, mode_current>>
    <3>0. UNCHANGED <<mode_target, config, startup, app, task>> /\ irc # nil
      BY <1>2 DEF Tick, TickSession
    <3>1. silent' \in Nat
      BY <1>0, <2>2
    <3>2. TypeOK'
      BY <1>0, <1>1, <2>2, <3>0, <3>1 DEF TypeOK
    <3>3. ModesAgree' /\ SessionIsLive' /\ RetryIsNotMissed'
      BY <1>0, <2>2, <3>0
      DEF IInv, ModesAgree, SessionIsLive, RetryIsNotMissed
    <3>4. SilenceIsBounded'
      BY <1>0, <2>2, <3>0 DEF IInv, SilenceIsBounded
    <3> QED BY <3>2, <3>3, <3>4 DEF IInv
  <2> QED BY <1>2, <2>1, <2>2 DEF TickSession
<1>3. CASE TickIdle
  <2>0. UNCHANGED <<mode_target, config, startup, app, state, conns>> /\ irc = nil
    BY <1>3 DEF Tick, TickIdle
  <2>1. CASE /\ mode_current = "idle"
             /\ mode_target = "connected"
             /\ idleFor + 1 = RetryAfter
    <3>1. Connect(config, RetryAfter) /\ RetryAfter \in 0 .. RetryAfter + 1
      BY <1>0, <1>3, <2>1 DEF TickIdle
    <3> QED BY <1>0, <2>0, <2>1, <3>1, ConnectKeepsIInv DEF TypeOK
  <2>2. CASE ~ /\ mode_current = "idle"
               /\ mode_target = "connected"
               /\ idleFor + 1 = RetryAfter
    <3>0. idleFor' = Saturate(idleFor + 1) /\ UNCHANGED <<mode_current, task>>
      BY <1>3, <2>2 DEF TickIdle
    <3>1. TypeOK'
      BY <1>0, <1>1, <2>0, <3>0 DEF TypeOK, state
    <3>2. ModesAgree' /\ SessionIsLive' /\ SilenceIsBounded'
      BY <1>0, <2>0, <3>0
      DEF IInv, ModesAgree, SessionIsLive, SilenceIsBounded, state
    <3>3. RetryIsNotMissed'
      BY <1>0, <2>0, <2>2, <3>0 DEF IInv, RetryIsNotMissed, Saturate
    <3> QED BY <3>1, <3>2, <3>3 DEF IInv
  <2> QED BY <2>1, <2>2
<1> QED BY <1>2, <1>3 DEF Tick

\* Every step preserves the invariant.
LEMMA Inductive == IInv /\ [Next]_vars => IInv'
<1> SUFFICES ASSUME IInv, [Next]_vars PROVE IInv'
  OBVIOUS
<1>1. CASE Next
  BY <1>1, ConnectTaskKeepsIInv, UserKeepsIInv, LinkEventKeepsIInv, TickKeepsIInv
  DEF Next
<1>2. CASE UNCHANGED vars
  BY <1>2 DEF vars, mode, state, IInv, TypeOK, ModesAgree, SessionIsLive,
              SilenceIsBounded, RetryIsNotMissed
<1> QED BY <1>1, <1>2

\* Every reachable state of the client is well typed, its modes agree with
\* irc_state, irc_state belongs to a connection that has not ended, and neither
\* == of the tick is ever overtaken (init.lua:307-543, 634-654).
THEOREM ClientCorrect == Spec => []ClientIsSound
<1>1. IInv => ClientIsSound
  BY DEF IInv, ClientIsSound
<1> QED BY <1>1, Initially, Inductive, PTL DEF Spec

\* No step puts the irc_state of one connection in the place of another's
\* (init.lua:427-431): the connect task runs only without an irc_state.
THEOREM SessionsDoNotOverlap == Spec => NeverReplaced
<1>1. IInv /\ [Next]_vars => [irc # nil => irc' \in {irc, nil}]_vars
  <2> SUFFICES ASSUME IInv, Next PROVE irc # nil => irc' \in {irc, nil}
    BY DEF vars, mode, state
  <2>1. ASSUME NEW cs, Disconnect(cs) PROVE irc' \in {irc, nil}
    BY <2>1 DEF Disconnect, state
  <2>2. CASE User
    BY <2>1, <2>2 DEF User, CmdConnect, CmdDisconnect, Quit, Reload, ReloadFails,
                      state
  <2>3. CASE ConnectTask
    BY <2>3 DEF ConnectTask, ConnectTaskDone, ConnectTaskFails, ConnectTaskRaises,
                state, IInv, ModesAgree
  <2>4. CASE Tick
    BY <2>1, <2>4 DEF Tick, TickSession, TickIdle, state
  <2>5. ASSUME NEW c \in Conns, OpDone(c) \/ Handler(c)
        PROVE  irc' \in {irc, nil}
    BY <2>1, <2>5 DEF OpDone, Handler, Completes, Progress, OnConRejected,
                      OnConAccepted, OnMsgDiscarded, OnMsg, OnEnd, state
  <2> QED BY <2>2, <2>3, <2>4, <2>5 DEF Next
<1> QED BY <1>1, Initially, Inductive, PTL DEF Spec, NeverReplaced
=============================================================================
