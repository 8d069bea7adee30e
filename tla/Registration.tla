---------------------------- MODULE Registration ----------------------------
(***************************************************************************)
(* Registration with the server: the task irc_registration, capability     *)
(* negotiation (src/ircc/utils/cap_negotiation.lua, handlers/cap.lua), the *)
(* SASL exchange (src/ircc/sasl/init.lua) and the dispatch of a message to *)
(* the tasks that wait for its command (components/Task.lua, init.lua).    *)
(*                                                                         *)
(* A message runs irc_handlers first and is then passed to the waiting     *)
(* tasks in the order of pairs(), which is any order.  Each CAP NEW may     *)
(* start one more task beside the registration task, and so does every     *)
(* /sasl of the user (handlers/commands.lua); all of them see every CAP    *)
(* and AUTHENTICATE message.                                               *)
(*                                                                         *)
(* The server is external.  It answers every request in order, may         *)
(* announce and withdraw capabilities at any time (version 302 implies     *)
(* cap-notify), and welcomes the client when it has NICK and USER and no   *)
(* negotiation is open.  It may end an exchange with any of the numerics   *)
(* of the SASL specification, and what it sends may not be base64.         *)
(***************************************************************************)
EXTENDS Naturals, Sequences, FiniteSets

CONSTANTS Caps,         \* capabilities there are, "sasl" among them
          Wanted,       \* irc_state.caps_wanted
          Creds,        \* mechanisms of sasl.automatic, in order
          Kinds,        \* kinds of server: cap, bare, nocap
          ServerMechs,  \* mechanisms the server supports
          MaxChanges,   \* bound on CAP NEW and CAP DEL
          MaxSasl,      \* bound on /sasl
          MaxBeside,    \* bound on CAP NEW and CAP DEL in a session with /sasl
          MaxNicks      \* bound on the nicknames refused

ASSUME RegistrationAssumption ==
    /\ Wanted \subseteq Caps
    /\ Creds \in Seq({"PLAIN", "SCRAM"})
    /\ Kinds \subseteq {"cap", "bare", "nocap"}
    /\ MaxChanges \in Nat /\ MaxSasl \in Nat /\ MaxBeside \in Nat /\ MaxNicks \in Nat

VARIABLES
    task,           \* where each task is suspended
    outstanding,    \* caps requested and not yet answered, per task
    cred,           \* index of the credential in use, per task
    impl,           \* resumes left in the mechanism's coroutine, per task
    outcome,        \* of the exchange, per task
    crossed,        \* history: /sasl and another exchange were under way at once
    msg,            \* the message being dispatched
    todo,           \* tasks it has still to be passed to
    caps_available, caps_enabled, sasl_mechs, sasl_credentials, phase,
    toServer, toClient,
    server          \* the server's side of the session

tasks  == <<task, outstanding, cred, impl, outcome, crossed>>
irc    == <<caps_available, caps_enabled, sasl_mechs, sasl_credentials, phase>>
vars   == <<tasks, irc, msg, todo, toServer, toClient, server>>

\* the registration task, and one for every CAP NEW and every /sasl there may be
Tasks == 0 .. MaxChanges + MaxSasl

\* a task that /sasl starts: one credential, and nothing after it
Manual(t) == t > MaxChanges

\* A message: the command, what it is about, and the capabilities it names.
M(cmd, sub, arg) == [cmd |-> cmd, sub |-> sub, arg |-> arg]

NoMsg == M("none", "", {})

\* irc_state.sasl_mechs = nil
NilMechs == {"nil"}

\* how often a mechanism's coroutine is resumed before it is dead
Rounds(mech) == IF mech = "PLAIN" THEN 1 ELSE 3

\* mutant: sasl_commands without ERR_SASLABORTED
WantsNoAbort(p, cmd) ==
    CASE p = "ls"      -> cmd \in {"CAP", "001"}
      [] p = "req"     -> cmd = "CAP"
      [] p = "auth"    -> cmd \in {"AUTHENTICATE", "903", "904"}
      [] p = "welcome" -> cmd = "001"
      [] p = "motd"    -> cmd = "376"
      [] OTHER         -> FALSE

\* task.want_command
Wants(p, cmd) ==
    CASE p = "ls"      -> cmd \in {"CAP", "001"}
      [] p = "req"     -> cmd = "CAP"
      [] p = "auth"    -> cmd \in {"AUTHENTICATE", "903", "904", "906"}
      [] p = "welcome" -> cmd = "001"
      [] p = "motd"    -> cmd = "376"
      [] OTHER         -> FALSE

\* the registration task has been started and has sent CAP LS
Init ==
    /\ task = [t \in Tasks |-> IF t = 0 THEN "ls" ELSE "none"]
    /\ outstanding = [t \in Tasks |-> {}]
    /\ cred = [t \in Tasks |-> 0]
    /\ impl = [t \in Tasks |-> 0]
    /\ outcome = [t \in Tasks |-> TRUE]
    /\ crossed = FALSE
    /\ msg = NoMsg
    /\ todo = {}
    /\ caps_available = {}
    /\ caps_enabled = {}
    /\ sasl_mechs = NilMechs
    /\ sasl_credentials = IF Creds = << >> THEN "nil" ELSE "given"
    /\ phase = "registration"
    /\ toServer = <<M("CAP", "LS", {})>>
    /\ toClient = << >>
    /\ \E kind \in Kinds, offered \in SUBSET Caps :
          server = [kind |-> kind, avail |-> offered, enabled |-> {},
                    nego |-> "none", sasl |-> 0, odd |-> FALSE,
                    nick |-> FALSE, user |-> FALSE, welcomed |-> FALSE,
                    changes |-> 0, refused |-> 0]

(***************************************************************************)
(* cap_negotiation.REQ and sasl                                            *)
(***************************************************************************)

\* has_sasl_mech, given sasl_mechs
HasMech(mechs, mech) == mechs = NilMechs \/ mech \in mechs

\* add_caps: the mechanisms that come with the capability sasl
Mechs(caps) ==
    IF "sasl" \notin caps THEN sasl_mechs
    ELSE IF server.kind = "bare" THEN {} ELSE ServerMechs

\* send_reqs: one line, or more if it would be too long
ReqLines(caps) ==
    {<<M("CAP", "REQ", caps)>>} \cup
    {<<M("CAP", "REQ", part), M("CAP", "REQ", caps \ part)>> :
        part \in SUBSET caps \ {{}, caps}}

\* the end of REQ in task t, where LS goes on to CAP END, or of /sasl
Leave(t) ==
    /\ task' = [task EXCEPT ![t] = IF t = 0 THEN "pass"
                                   ELSE IF Manual(t) THEN "done" ELSE "none"]
    /\ toServer' = IF t = 0 THEN Append(toServer, M("CAP", "END", {})) ELSE toServer

\* the loop over the credentials, from the i-th
TryFrom(t, i) ==
    LET usable == {j \in i .. Len(Creds) : ~Manual(t) /\ HasMech(sasl_mechs, Creds[j])}
    IN IF usable = {}
       THEN Leave(t) /\ UNCHANGED cred
       ELSE /\ task' = [task EXCEPT ![t] = "cred"]
            /\ cred' = [cred EXCEPT ![t] = CHOOSE j \in usable : \A k \in usable : j <= k]
            /\ UNCHANGED toServer

\* mutant: the credentials stay in irc_state
AuthenticateAgain(t, enabled) ==
    /\ IF "sasl" \in enabled /\ Creds # << >> THEN TryFrom(t, 1)
       ELSE Leave(t) /\ UNCHANGED cred
    /\ UNCHANGED sasl_credentials

\* wait_for_ack has returned, with the capabilities enabled
Authenticate(t, enabled) ==
    IF "sasl" \in enabled /\ sasl_credentials = "given"
    THEN sasl_credentials' = "nil" /\ TryFrom(t, 1)
    ELSE Leave(t) /\ UNCHANGED <<cred, sasl_credentials>>

\* /sasl with the name of the j-th credential: the mechanisms of the server are
\* not looked at, nor is another exchange
Sasl(t, j) ==
    /\ todo = {}
    /\ "sasl" \in caps_enabled
    /\ Manual(t) /\ task[t] = "none" /\ server.changes <= MaxBeside
    /\ task' = [task EXCEPT ![t] = "cred"]
    /\ cred' = [cred EXCEPT ![t] = j]
    /\ UNCHANGED <<outstanding, impl, outcome, irc, msg, todo, toServer, toClient, server>>

\* resolve_password and mechanism_factory, with their result
Credential(t, ok) ==
    /\ task[t] = "cred"
    /\ todo = {}
    /\ IF ok
       THEN /\ task' = [task EXCEPT ![t] = "auth"]
            /\ impl' = [impl EXCEPT ![t] = Rounds(Creds[cred[t]])]
            /\ outcome' = [outcome EXCEPT ![t] = TRUE]
            /\ toServer' = Append(toServer, M("AUTHENTICATE", Creds[cred[t]], {}))
            /\ UNCHANGED cred
       ELSE TryFrom(t, cred[t] + 1) /\ UNCHANGED <<impl, outcome>>
    /\ UNCHANGED <<outstanding, irc, msg, todo, toClient, server>>

\* get_server_password: NICK and USER are sent whatever its result
Password ==
    /\ task[0] = "pass"
    /\ todo = {}
    /\ task' = [task EXCEPT ![0] = "welcome"]
    /\ toServer' = toServer \o <<M("NICK", "", {}), M("USER", "", {})>>
    /\ UNCHANGED <<outstanding, cred, impl, outcome, irc, msg, todo, toClient, server>>

(***************************************************************************)
(* conn_handlers.MSG                                                       *)
(***************************************************************************)

\* task t starts waiting for the answers to its request
Request(t, caps) ==
    /\ task' = [task EXCEPT ![t] = "req"]
    /\ outstanding' = [outstanding EXCEPT ![t] = caps]
    /\ \E ls \in ReqLines(caps) : toServer' = toServer \o ls

\* irc_handlers[command], with the tasks that want the message afterwards
Receive ==
    /\ todo = {}
    /\ toClient # << >>
    /\ msg' = Head(toClient)
    /\ toClient' = Tail(toClient)
    /\ LET m == Head(toClient)
           new == {c \in m.arg \cap Wanted : c \notin caps_enabled}
           free == {t \in 1 .. MaxChanges : task[t] = "none"}
       IN \/ /\ m.cmd = "CAP" /\ m.sub = "NEW"
             /\ caps_available' = caps_available \cup m.arg
             /\ sasl_mechs' = Mechs(m.arg)
             /\ IF new = {} THEN UNCHANGED <<task, outstanding, toServer>>
                ELSE \E t \in free : (\A u \in free : t <= u) /\ Request(t, new)
             /\ UNCHANGED <<caps_enabled, sasl_credentials, phase>>
          \/ /\ m.cmd = "CAP" /\ m.sub = "DEL"
             /\ caps_available' = caps_available \ m.arg
             /\ caps_enabled' = caps_enabled \ m.arg
             /\ sasl_mechs' = IF "sasl" \in m.arg THEN NilMechs ELSE sasl_mechs
             /\ UNCHANGED <<task, outstanding, toServer, sasl_credentials, phase>>
          \/ /\ m.cmd = "433"
             /\ toServer' = IF phase = "registration"
                            THEN Append(toServer, M("NICK", "", {})) ELSE toServer
             /\ UNCHANGED <<task, outstanding, irc>>
          \/ /\ m.cmd # "433" /\ (m.cmd = "CAP" => m.sub \notin {"NEW", "DEL"})
             /\ UNCHANGED <<task, outstanding, toServer, irc>>
    /\ todo' = {t \in Tasks : Wants(task'[t], msg'.cmd)}
    /\ UNCHANGED <<cred, impl, outcome, server>>

\* the loop of LS
OnLS(t) ==
    /\ task[t] = "ls"
    /\ CASE msg.cmd = "CAP" /\ msg.sub \in {"LS*", "LS"} ->
              LET available == caps_available \cup msg.arg
                  req == available \cap Wanted
              IN /\ caps_available' = available
                 /\ sasl_mechs' = Mechs(msg.arg)
                 /\ IF msg.sub = "LS*" THEN UNCHANGED <<task, outstanding, toServer>>
                    ELSE IF req # {} THEN Request(t, req)
                    ELSE Leave(t) /\ UNCHANGED outstanding
         [] msg.cmd = "001" ->
              /\ task' = [task EXCEPT ![t] = "pass"]
              /\ UNCHANGED <<outstanding, toServer, caps_available, sasl_mechs>>
         [] OTHER ->
              UNCHANGED <<task, outstanding, toServer, caps_available, sasl_mechs>>
    /\ UNCHANGED <<cred, impl, outcome, caps_enabled, sasl_credentials, phase>>

\* mutant: a NAK enables the capabilities too
OnAckOrNak(t) ==
    /\ task[t] = "req"
    /\ LET named   == IF msg.sub \in {"ACK", "NAK"} THEN msg.arg ELSE {}
           left    == outstanding[t] \ named
           enabled == caps_enabled \cup named
       IN /\ outstanding' = [outstanding EXCEPT ![t] = left]
          /\ caps_enabled' = enabled
          /\ IF left = {} THEN Authenticate(t, enabled)
             ELSE UNCHANGED <<task, cred, sasl_credentials, toServer>>
    /\ UNCHANGED <<impl, outcome, caps_available, sasl_mechs, phase>>

\* the loop of wait_for_ack and what follows it
OnAck(t) ==
    /\ task[t] = "req"
    /\ LET answered == msg.sub \in {"ACK", "NAK"}
           left     == IF answered THEN outstanding[t] \ msg.arg ELSE outstanding[t]
           enabled  == IF msg.sub = "ACK" THEN caps_enabled \cup msg.arg ELSE caps_enabled
       IN /\ outstanding' = [outstanding EXCEPT ![t] = left]
          /\ caps_enabled' = enabled
          /\ IF left = {} THEN Authenticate(t, enabled)
             ELSE UNCHANGED <<task, cred, sasl_credentials, toServer>>
    /\ UNCHANGED <<impl, outcome, caps_available, sasl_mechs, phase>>

\* AUTHENTICATE.  What is not base64 ends the task, by the assert, and what the
\* server has open stays open.  Otherwise the mechanism's coroutine is resumed;
\* it may raise, as a dead one does.  SCRAM ends without a message when the
\* server reports an error.
OnChallenge(t) ==
    /\ task[t] = "auth" /\ msg.cmd = "AUTHENTICATE"
    /\ LET told == /\ msg.sub = "error" /\ Creds[cred[t]] = "SCRAM"
                   /\ impl[t] \in {1, 2}
       IN \/ /\ msg.sub = "bad"
             /\ task' = [task EXCEPT ![t] = "dead"]
             /\ UNCHANGED <<impl, outcome, toServer>>
          \/ /\ told
             /\ impl' = [impl EXCEPT ![t] = 0]
             /\ UNCHANGED <<task, outcome, toServer>>
          \/ /\ msg.sub # "bad" /\ ~told /\ impl[t] > 0
             /\ impl' = [impl EXCEPT ![t] = impl[t] - 1]
             /\ toServer' = Append(toServer, M("AUTHENTICATE", "data", {}))
             /\ UNCHANGED <<task, outcome>>
          \/ /\ msg.sub # "bad" /\ ~told
             /\ impl' = [impl EXCEPT ![t] = 0]
             /\ toServer' = Append(toServer, M("AUTHENTICATE", "*", {}))
             /\ outcome' = [outcome EXCEPT ![t] = FALSE]
             /\ UNCHANGED task
    /\ UNCHANGED <<outstanding, cred, irc>>

\* 903, 904 and 906 end the exchange
OnSaslEnd(t) ==
    /\ task[t] = "auth" /\ msg.cmd \in {"903", "904", "906"}
    /\ IF msg.cmd = "903" /\ impl[t] = 0 /\ outcome[t]
       THEN Leave(t) /\ UNCHANGED cred
       ELSE TryFrom(t, cred[t] + 1)
    /\ impl' = [impl EXCEPT ![t] = 0]
    /\ outcome' = [outcome EXCEPT ![t] = TRUE]
    /\ UNCHANGED <<outstanding, irc>>

\* RPL_WELCOME, then the end of the MOTD
OnWelcome(t) ==
    /\ task[t] \in {"welcome", "motd"}
    /\ IF task[t] = "welcome"
       THEN task' = [task EXCEPT ![t] = "motd"] /\ UNCHANGED phase
       ELSE task' = [task EXCEPT ![t] = "done"] /\ phase' = "connected"
    /\ UNCHANGED <<outstanding, cred, impl, outcome, toServer,
                   caps_available, caps_enabled, sasl_mechs, sasl_credentials>>

\* task:resume_irc(irc)
Resume(t) ==
    /\ t \in todo
    /\ todo' = todo \ {t}
    /\ OnLS(t) \/ OnAck(t) \/ OnChallenge(t) \/ OnSaslEnd(t) \/ OnWelcome(t)
    /\ UNCHANGED <<msg, toClient, server>>

(***************************************************************************)
(* The server                                                              *)
(***************************************************************************)

Reply(ms) == toClient' = toClient \o ms

ServerCap(m) ==
    \/ /\ m.sub = "LS"
       /\ IF server.kind = "nocap"
          THEN Reply(<<M("421", "", {})>>) /\ UNCHANGED server
          ELSE /\ server' = [server EXCEPT !.nego = "open"]
               /\ \E first \in {{}, server.avail \cap {"sasl"}} :
                    Reply(IF first = {} THEN <<M("CAP", "LS", server.avail)>>
                          ELSE <<M("CAP", "LS*", first),
                                 M("CAP", "LS", server.avail \ first)>>)
    \/ /\ m.sub = "REQ"
       /\ IF m.arg \subseteq server.avail
          THEN /\ Reply(<<M("CAP", "ACK", m.arg)>>)
               /\ server' = [server EXCEPT !.enabled = @ \cup m.arg]
          ELSE Reply(<<M("CAP", "NAK", m.arg)>>) /\ UNCHANGED server
    \/ /\ m.sub = "END"
       /\ server' = [server EXCEPT !.nego = "closed", !.sasl = 0]
       /\ Reply(IF server.sasl > 0 THEN <<M("906", "", {})>> ELSE << >>)

\* the next message of the exchange, with n more to come
Challenge(n) ==
    /\ server' = [server EXCEPT !.sasl = n]
    /\ \E sub \in {"", "bad"} : Reply(<<M("AUTHENTICATE", sub, {})>>)

\* The server ends the exchange with a numeric that sasl_commands does not have:
\* 907 refuses a second authentication, 905 a message that is too long, and 902
\* an account.  No task waits for one of them and their handlers only print:
\* all three are 90x.
EndUnread ==
    /\ server' = [server EXCEPT !.sasl = 0, !.odd = TRUE]
    /\ Reply(<<M("90x", "", {})>>)

EndWith(ms) == server' = [server EXCEPT !.sasl = 0] /\ Reply(ms)

ServerSasl(m) ==
    \/ /\ m.sub \in {"PLAIN", "SCRAM"}
       /\ IF "sasl" \in server.enabled /\ m.sub \in ServerMechs
          THEN Challenge(Rounds(m.sub)) \/ EndUnread
          ELSE EndWith(<<M("904", "", {})>>)
    \/ /\ m.sub = "data" /\ server.sasl > 0
       /\ \/ server.sasl = 1 /\ EndWith(<<M("903", "", {})>>)
          \/ server.sasl > 1 /\ Challenge(server.sasl - 1)
          \/ server.sasl > 1 /\ EndWith(<<M("AUTHENTICATE", "error", {}), M("904", "", {})>>)
          \/ EndWith(<<M("904", "", {})>>)
          \/ EndUnread
    \/ /\ m.sub = "*" /\ server.sasl > 0
       /\ EndWith(<<M("906", "", {})>>)
    \/ /\ m.sub \in {"data", "*"} /\ server.sasl = 0     \* a late answer
       /\ Reply(<< >>) /\ UNCHANGED server

ServerNick(m) ==
    IF m.cmd = "USER" THEN server' = [server EXCEPT !.user = TRUE] /\ Reply(<< >>)
    ELSE \/ server' = [server EXCEPT !.nick = TRUE] /\ Reply(<< >>)
         \/ /\ server.refused < MaxNicks
            /\ server' = [server EXCEPT !.refused = @ + 1]
            /\ Reply(<<M("433", "", {})>>)

Serve ==
    /\ toServer # << >>
    /\ toServer' = Tail(toServer)
    /\ LET m == Head(toServer)
       IN CASE m.cmd = "CAP" -> ServerCap(m)
            [] m.cmd = "AUTHENTICATE" -> ServerSasl(m)
            [] OTHER -> ServerNick(m)
    /\ UNCHANGED <<tasks, irc, msg, todo>>

Welcome ==
    /\ server.nick /\ server.user /\ server.nego # "open" /\ ~server.welcomed
    /\ server' = [server EXCEPT !.welcomed = TRUE]
    /\ Reply(<<M("001", "", {}), M("376", "", {})>>)
    /\ UNCHANGED <<tasks, irc, msg, todo, toServer>>

\* cap-notify
Announce(c) ==
    /\ server.nego # "none" /\ server.changes < MaxChanges
    /\ (\E t \in Tasks : Manual(t) /\ task[t] # "none") => server.changes < MaxBeside
    /\ IF c \in server.avail
       THEN /\ server' = [server EXCEPT !.avail = @ \ {c}, !.enabled = @ \ {c},
                                        !.changes = @ + 1]
            /\ Reply(<<M("CAP", "DEL", {c})>>)
       ELSE /\ server' = [server EXCEPT !.avail = @ \cup {c}, !.changes = @ + 1]
            /\ Reply(<<M("CAP", "NEW", {c})>>)
    /\ UNCHANGED <<tasks, irc, msg, todo, toServer>>

\* the task has begun an exchange and has not seen its end
Unfinished(t) == task[t] \in {"cred", "auth", "dead"}

\* a task begins an exchange beside another, and one of the two is from /sasl
Overlaps ==
    \E t, u \in Tasks :
        /\ task'[t] = "cred" /\ ~Unfinished(t)
        /\ u # t /\ Unfinished(u)
        /\ Manual(t) \/ Manual(u)

Client ==
    /\ \/ Receive
       \/ \E t \in Tasks : Resume(t)
       \/ \E t \in Tasks, ok \in BOOLEAN : Credential(t, ok)
       \/ Password
    /\ crossed' = (crossed \/ Overlaps)

User ==
    /\ \E t \in Tasks, j \in 1 .. Len(Creds) : Sasl(t, j)
    /\ crossed' = (crossed \/ Overlaps)

Server == Serve \/ Welcome \/ \E c \in Caps : Announce(c)

Next == Client \/ User \/ Server

Spec == Init /\ [][Next]_vars

\* The client runs its handlers, password programs end, and the server
\* answers; capabilities need not change, and nobody has to type /sasl.
FairSpec == Spec /\ WF_vars(Client) /\ WF_vars(Serve) /\ WF_vars(Welcome)

----------------------------------------------------------------------------

Positions ==
    {"none", "ls", "req", "cred", "auth", "dead", "pass", "welcome", "motd", "done"}

TypeOK ==
    /\ task \in [Tasks -> Positions]
    /\ outstanding \in [Tasks -> SUBSET Caps]
    /\ cred \in [Tasks -> 0 .. Len(Creds)]
    /\ impl \in [Tasks -> 0 .. 3]
    /\ outcome \in [Tasks -> BOOLEAN]
    /\ crossed \in BOOLEAN
    /\ todo \subseteq Tasks
    /\ caps_available \subseteq Caps
    /\ caps_enabled \subseteq Caps
    /\ sasl_credentials \in {"nil", "given"}
    /\ phase \in {"registration", "connected"}

Quiet == toServer = << >> /\ toClient = << >> /\ todo = {}

\* When nothing is in flight the client relies on no capability that the server
\* has not in force, although requests of several tasks, their answers and
\* withdrawals by the server overlap.
EnabledIsReal == Quiet => caps_enabled \subseteq server.enabled

SaslReplies == {"AUTHENTICATE", "903", "904", "906"}

\* A message of the SASL exchange is for exactly one task: two tasks would both
\* answer it, and with none the exchange would hang.  The commands carry no
\* sign of the task they belong to; what keeps the tasks apart is that the
\* first to find sasl enabled takes sasl_credentials away, and that a task
\* reads until the end of its exchange.  Left out are the messages after a
\* /sasl that overlapped with another exchange, which nothing prevents
\* (handlers/commands.lua:209-225): they have two readers, or none.  A task that
\* died of the assert at sasl/init.lua:133 is counted: what is for it goes to
\* no other.
OneReader ==
    /\ TypeOK
    /\ toClient # << >> /\ todo = {} /\ Head(toClient).cmd \in SaslReplies /\ ~crossed
       => Cardinality({t \in Tasks : task[t] \in {"auth", "dead"}}) = 1

\* Registration with a server that knows CAP comes to its end, whatever
\* capabilities come and go, however many nicknames are in use, whatever /sasl
\* does beside it, and with every end of an exchange but two, on which the code
\* never gets to CAP END: a message that is not base64 kills the registration
\* task (sasl/init.lua:133), and the numerics 902, 905 and 907 are not in
\* sasl_commands (sasl/init.lua:8-13), so that it waits on.
Registers ==
    \/ <>(phase = "connected" \/ server.kind = "nocap" \/ task[0] = "dead")
    \/ <>[](server.odd /\ task[0] = "auth")
=============================================================================
