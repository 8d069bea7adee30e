----------------------------- MODULE HttpServer -----------------------------
(***************************************************************************)
(* The web server of client/httpd.cpp: a Listener with its acceptors, one   *)
(* Session per accepted connection, and the Websocket that a session can    *)
(* turn into.  Websockets share nothing, so one is modelled.                *)
(*                                                                          *)
(* The peers, the resolver and the kernel are external: they complete an    *)
(* operation with any result.  A completed accept is queued before its      *)
(* handler runs, because Listener::close can come in between; the other     *)
(* operations cannot be cancelled and their handlers are one step with the  *)
(* completion.                                                              *)
(***************************************************************************)
EXTENDS Websocket, FiniteSets

CONSTANTS MaxEndpoints,      \* bound: addresses the host name resolves to
          Sessions,          \* bound: connections that are accepted
          MaxHeaders         \* bound: headers of a response before the last

ASSUME ServerAssumption == {MaxEndpoints, MaxHeaders} \subseteq Nat

VARIABLES resolving, \* async_resolve: pending, done
          listening, \* listening[i]: acceptor i of acceptors_: none, open, closed
          accept,    \* accept[i]: none, waiting, accepted, aborted
          handle,    \* the listener in Lua: open, closed
          session,   \* session[s]: none, reading, keep, last, over, upgraded, threw
          stack,     \* values left on the Lua stack by handle_request
          closedEarly, \* history: close() came before on_resolve
          acceptFailed \* history: acceptors whose async_accept failed

listenerVars == <<resolving, listening, accept, handle, closedEarly, acceptFailed>>
sessionVars == <<session, stack>>
vars == <<listenerVars, sessionVars, wsVars>>

Endpoints == 1..MaxEndpoints

Init ==
    /\ WebsocketInit
    /\ resolving = "pending"
    /\ listening = [i \in Endpoints |-> "none"]
    /\ accept = [i \in Endpoints |-> "none"]
    /\ handle = "open" /\ closedEarly = "no"
    /\ acceptFailed = {}
    /\ session = [s \in Sessions |-> "none"]
    /\ stack = 0

\* an exception has left io_context::run when a session threw
Running == \A s \in Sessions : session[s] # "threw"

-----------------------------------------------------------------------------
(* Listener                                                                 *)

OnResolveError ==
    /\ resolving = "pending"
    /\ resolving' = "done"
    /\ UNCHANGED <<listening, accept, handle, closedEarly, acceptFailed,
                   sessionVars, wsVars>>

\* on_resolve: open, bind and listen on each of n addresses in turn; the
\* first that fails ends the loop and stays in acceptors_ without a listener
OnResolve ==
    /\ resolving = "pending"
    /\ resolving' = "done"
    /\ \E n \in Endpoints, good \in 0..MaxEndpoints :
          /\ good <= n
          /\ listening' = [i \in Endpoints |->
                IF i <= n /\ i <= good + 1 THEN "open" ELSE "none"]
          /\ accept' = [i \in Endpoints |-> IF i <= good THEN "waiting" ELSE "none"]
          /\ acceptFailed' = {i \in Endpoints : i = good + 1 /\ i <= n}
    /\ UNCHANGED <<handle, closedEarly, sessionVars, wsVars>>

\* async_accept completes; a success needs a connection of the bound
AcceptDone(i) ==
    /\ accept[i] = "waiting"
    /\ \/ /\ Cardinality({j \in Endpoints : accept[j] = "accepted"})
              < Cardinality({s \in Sessions : session[s] = "none"})
          /\ accept' = [accept EXCEPT ![i] = "accepted"]
       \/ accept' = [accept EXCEPT ![i] = "aborted"]
    /\ UNCHANGED <<resolving, listening, handle, closedEarly, acceptFailed,
                   sessionVars, wsVars>>

\* mutant: do_accept opens the acceptor again
DoAcceptAgain(i) == "waiting"

\* do_accept: on a closed acceptor async_accept completes with an error
DoAccept(i) == IF listening[i] = "open" THEN "waiting" ELSE "aborted"

\* on_accept: a session for the socket and the next accept, or the end of
\* accepting after any error
OnAccepted(i) ==
    /\ accept[i] = "accepted"
    /\ \E s \in Sessions :
          /\ session[s] = "none"
          /\ session' = [session EXCEPT ![s] = "reading"]
    /\ accept' = [accept EXCEPT ![i] = DoAccept(i)]
    /\ UNCHANGED <<resolving, listening, handle, closedEarly, acceptFailed,
                   stack, wsVars>>

\* mutant: an error does not end accepting
OnAcceptErrorRetries(i) ==
    /\ accept[i] = "aborted"
    /\ accept' = [accept EXCEPT ![i] = DoAccept(i)]
    /\ acceptFailed' = acceptFailed \cup {i}
    /\ UNCHANGED <<resolving, listening, handle, closedEarly, sessionVars, wsVars>>

OnAcceptError(i) ==
    /\ accept[i] = "aborted"
    /\ accept' = [accept EXCEPT ![i] = "none"]
    /\ acceptFailed' = acceptFailed \cup {i}
    /\ UNCHANGED <<resolving, listening, handle, closedEarly, sessionVars, wsVars>>

OnAcceptors(i) == OnAccepted(i) \/ OnAcceptError(i)

\* close() of the Lua object: only the acceptors that exist are closed; an
\* accept that has completed keeps its result
CloseListener ==
    /\ handle = "open"
    /\ handle' = "closed"
    /\ closedEarly' = IF resolving = "pending" THEN "yes" ELSE closedEarly
    /\ listening' = [i \in Endpoints |->
          IF listening[i] = "open" THEN "closed" ELSE listening[i]]
    /\ accept' = [i \in Endpoints |->
          IF accept[i] = "waiting" THEN "aborted" ELSE accept[i]]
    /\ UNCHANGED <<resolving, acceptFailed, sessionVars, wsVars>>

-----------------------------------------------------------------------------
(* Session                                                                  *)

\* What the Lua function that handles a request does: raise a string or another value,
\* return no code, return a body without headers, with good headers, or with
\* a header that is no string
LuaOutcomes == {"raised", "raisedObject", "noCode", "plain", "headers", "badHeader"}

\* one turn of the header loop: lua_next takes the key and leaves key and
\* value, luaL_tolstring adds a copy of the key
HeaderTurn == 2 - 1 + 1

\* What handle_request leaves on the Lua stack at each of its returns.  The
\* function and its four arguments give three results or an error; the header
\* loop starts with nil and has had good turns before it ends or gives up.
StackLeft(outcome, good) ==
    LET results == 5 - 5 + 3
        loop == results + 1 + good * (HeaderTurn - 2)
    IN  CASE outcome = "raised"    -> 5 - 5 + 1 - 1
          [] outcome = "noCode"    -> results - 3
          [] outcome = "plain"     -> results - 3
          [] outcome = "headers"   -> loop - 1 - 3
          [] outcome = "badHeader" -> loop + HeaderTurn - 6

\* on_read of a request, handle_request, send_response: the response is
\* written with the keep-alive of the request, any number of times.  An error
\* that is no string makes a std::string of a null pointer, which throws.
OnRequest(s) ==
    /\ session[s] = "reading"
    /\ \E outcome \in LuaOutcomes, good \in 0..MaxHeaders, next \in {"keep", "last"} :
          IF outcome = "raisedObject"
          THEN session' = [session EXCEPT ![s] = "threw"] /\ stack' = stack
          ELSE /\ session' = [session EXCEPT ![s] = next]
               /\ stack' = stack + StackLeft(outcome, good)
    /\ UNCHANGED <<listenerVars, wsVars>>

\* on_read of an upgrade: the stream moves to a Websocket
OnUpgrade(s) ==
    /\ session[s] = "reading"
    /\ Run
    /\ session' = [session EXCEPT ![s] = "upgraded"]
    /\ UNCHANGED <<listenerVars, stack>>

\* on_read: end of stream, an error, or nothing for 30 seconds
OnReadEnd(s) ==
    /\ session[s] = "reading"
    /\ session' = [session EXCEPT ![s] = "over"]
    /\ UNCHANGED <<listenerVars, stack, wsVars>>

\* on_write: the next request, or the end after an error or the last response
OnResponse(s) ==
    /\ session[s] \in {"keep", "last"}
    /\ session' = [session EXCEPT ![s] = IF @ = "keep" THEN "reading" ELSE "over"]
    /\ UNCHANGED <<listenerVars, stack, wsVars>>

OnResponseError(s) ==
    /\ session[s] \in {"keep", "last"}
    /\ session' = [session EXCEPT ![s] = "over"]
    /\ UNCHANGED <<listenerVars, stack, wsVars>>

SessionEnds(s) == OnReadEnd(s) \/ OnResponse(s) \/ OnResponseError(s)

-----------------------------------------------------------------------------
Upgraded == \E s \in Sessions : session[s] = "upgraded"

\* the Lua program and the handlers of the websocket it was given
WebsocketStep ==
    /\ Upgraded
    /\ Send \/ Close \/ OnAccept \/ OnWrite \/ OnReadError \/ OnClose
    /\ UNCHANGED <<listenerVars, sessionVars>>

SessionStep(s) == OnRequest(s) \/ OnUpgrade(s) \/ SessionEnds(s)

AcceptorStep(i) == AcceptDone(i) \/ OnAcceptors(i)

Next ==
    /\ Running
    /\ \/ OnResolveError \/ OnResolve \/ CloseListener
       \/ \E i \in Endpoints : AcceptorStep(i)
       \/ \E s \in Sessions : SessionStep(s)
       \/ WebsocketStep

\* io_context runs queued handlers; the resolver answers; reads and writes of a
\* session end within the 30 seconds of expires_after; the handshake, the
\* writes and the closing of a websocket end within the suggested time-outs,
\* and its reading ends once it is closed.  Peers owe nothing else: one that
\* goes on sending on a websocket and never reads could stop a write for ever,
\* since the idle time-out counts what it sends, and is left out.
Fairness ==
    /\ WF_vars(Running /\ (OnResolve \/ OnResolveError))
    /\ \A i \in Endpoints : WF_vars(Running /\ OnAcceptors(i))
    /\ \A s \in Sessions : WF_vars(Running /\ SessionEnds(s))
    /\ WF_vars(Running /\ Upgraded /\ OnAccept /\ UNCHANGED <<listenerVars, sessionVars>>)
    /\ WF_vars(Running /\ Upgraded /\ OnWrite /\ UNCHANGED <<listenerVars, sessionVars>>)
    /\ WF_vars(Running /\ Upgraded /\ OnClose /\ UNCHANGED <<listenerVars, sessionVars>>)
    /\ WF_vars(/\ Running /\ Upgraded /\ closed = "yes" /\ closing = "no"
               /\ OnReadError /\ UNCHANGED <<listenerVars, sessionVars>>)

Spec == Init /\ [][Next]_vars /\ Fairness

-----------------------------------------------------------------------------
(* Properties                                                               *)

TypeOK ==
    /\ resolving \in {"pending", "done"}
    /\ listening \in [Endpoints -> {"none", "open", "closed"}]
    /\ accept \in [Endpoints -> {"none", "waiting", "accepted", "aborted"}]
    /\ handle \in {"open", "closed"}
    /\ closedEarly \in YesNo
    /\ acceptFailed \subseteq Endpoints
    /\ session \in [Sessions -> {"none", "reading", "keep", "last", "over",
                                 "upgraded", "threw"}]

\* Listener::close stops the server (httpd.cpp:518-525): unless it came before
\* on_resolve, no acceptor waits for connections after it, also when an accept
\* had completed before.  Until then every acceptor that listens has an
\* accept outstanding or queued, as long as none has failed.  handle_request
\* leaves the Lua stack as it found it, whichever way it returns
\* (httpd.cpp:267-328).
ServerIsSound ==
    /\ TypeOK
    /\ stack = 0
    /\ handle = "closed" /\ closedEarly = "no" =>
          \A i \in Endpoints : listening[i] # "open" /\ accept[i] # "waiting"
    /\ \A i \in Endpoints \ acceptFailed :
          listening[i] = "open" => accept[i] \in {"waiting", "accepted", "aborted"}

\* A websocket that is closed starts the closing handshake once its queue is
\* empty (httpd.cpp:68-78, 127-135), or has lost its stream.
ClosedCloses ==
    closed = "yes" ~> (closes > 0 \/ failed = "yes" \/ phase = "corrupt" \/ ~Running)

\* nothing of the server is left in the io_context
Quiet ==
    /\ resolving = "done"
    /\ \A i \in Endpoints : accept[i] = "none"
    /\ \A s \in Sessions : session[s] \in {"none", "over", "upgraded"}
    /\ writing = <<>> /\ reading = "no" /\ closing = "no"
    /\ phase # "accepting"

\* Once the listener has been closed in time and the websocket, if there is one,
\* has been closed, the server leaves the io_context with nothing to do, without
\* which io_context::run (app.cpp:181) does not return after shutdown.  The one
\* thing that keeps it busy is a peer that asks again and again: close() does not
\* reach the sessions, and each answered request with keep-alive starts the 30
\* seconds of the next read (httpd.cpp:366-370, 413-431).
Drains ==
    <>[](/\ handle = "closed" /\ closedEarly = "no"
         /\ phase # "none" => closed = "yes")
    => \/ <>(Quiet \/ phase = "corrupt" \/ ~Running)
       \/ \E s \in Sessions : []<>(session[s] = "keep")

=============================================================================
