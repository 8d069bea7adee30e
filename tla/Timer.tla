------------------------------- MODULE Timer -------------------------------
(***************************************************************************)
(* The timers that client/timer.cpp offers to Lua.                          *)
(*                                                                          *)
(* A timer is a steady_timer in a userdata.  Its callback is kept in the    *)
(* Lua registry under the address of the userdata, not with the operation   *)
(* that waits: the handler of any wait of that address takes whatever       *)
(* callback it finds.  A wait that has expired is queued and can no longer  *)
(* be cancelled.  Callbacks are numbered by the start that set them.        *)
(***************************************************************************)
EXTENDS Naturals, Sequences, SequencesExt

CONSTANTS Addresses,     \* where userdata can be allocated
          MaxStarts      \* bound: calls of start

ASSUME TimerAssumption == MaxStarts \in Nat

VARIABLES live,     \* addresses of existing timers
          slot,     \* slot[a]: the callback in the registry, 0 for nil
          waits,    \* waits[a]: outstanding async_waits, oldest first
          starts,   \* number of starts so far
          called,   \* history: <<start of the wait, callback taken>>
          dropped,  \* history: callbacks that cancel, gc or start removed
          overtaken \* history: a start found an expired wait still queued

timerVars == <<live, slot, waits, starts, called, dropped, overtaken>>

NoCallback == 0

TimerInit ==
    /\ live = {}
    /\ slot = [a \in Addresses |-> NoCallback]
    /\ waits = [a \in Addresses |-> <<>>]
    /\ starts = 0 /\ called = {}
    /\ dropped = {} /\ overtaken = "no"

\* Only waits that have not expired are cancelled
Cancelled(ws) ==
    [i \in DOMAIN ws |-> IF ws[i].state = "waiting"
                         THEN [ws[i] EXCEPT !.state = "aborted"] ELSE ws[i]]

\* l_new_timer, at an address the allocator has free
New(a) ==
    /\ a \notin live
    /\ live' = live \cup {a}
    /\ UNCHANGED <<slot, waits, starts, called, dropped, overtaken>>

\* what start does to an address, live or just allocated: set the callback,
\* then expires_after (which cancels) and async_wait
Begin(a) ==
    /\ starts < MaxStarts
    /\ starts' = starts + 1
    /\ slot' = [slot EXCEPT ![a] = starts + 1]
    /\ dropped' = dropped \cup ({slot[a]} \ {NoCallback})
    /\ waits' = [waits EXCEPT ![a] =
          Append(Cancelled(@), [id |-> starts + 1, state |-> "waiting"])]
    /\ overtaken' = IF \E i \in DOMAIN waits[a] : waits[a][i].state = "expired"
                    THEN "yes" ELSE overtaken
    /\ UNCHANGED called

Start(a) == a \in live /\ Begin(a) /\ UNCHANGED live

\* cancel and l_gc both forget the callback and cancel the wait
Forget(a) ==
    /\ slot' = [slot EXCEPT ![a] = NoCallback]
    /\ dropped' = dropped \cup ({slot[a]} \ {NoCallback})
    /\ waits' = [waits EXCEPT ![a] = Cancelled(@)]
    /\ UNCHANGED <<starts, called, overtaken>>

\* mutant: the callback stays in the registry
CancelKeeps(a) ==
    /\ a \in live
    /\ waits' = [waits EXCEPT ![a] = Cancelled(@)]
    /\ dropped' = dropped \cup ({slot[a]} \ {NoCallback})
    /\ UNCHANGED <<live, slot, starts, called, overtaken>>

Cancel(a) == a \in live /\ Forget(a) /\ UNCHANGED live

Gc(a) == a \in live /\ Forget(a) /\ live' = live \ {a}

\* the time has come: the handler is queued
Expire(a) ==
    /\ \E i \in DOMAIN waits[a] :
          /\ waits[a][i].state = "waiting"
          /\ waits' = [waits EXCEPT ![a][i].state = "expired"]
    /\ UNCHANGED <<live, slot, starts, called, dropped, overtaken>>

\* the handler of a wait that was cancelled does nothing
AbortedHandler(a) ==
    /\ waits[a] # <<>> /\ Head(waits[a]).state = "aborted"
    /\ waits' = [waits EXCEPT ![a] = Tail(@)]
    /\ UNCHANGED <<live, slot, starts, called, dropped, overtaken>>

\* the handler of a wait that expired takes the callback, forgets it and calls
\* it; calling nil prints an error
Handler(a) ==
    /\ waits[a] # <<>> /\ Head(waits[a]).state = "expired"
    /\ waits' = [waits EXCEPT ![a] = Tail(@)]
    /\ called' = called \cup {<<Head(waits[a]).id, slot[a]>>}
    /\ slot' = [slot EXCEPT ![a] = NoCallback]
    /\ UNCHANGED <<live, starts, dropped, overtaken>>

-----------------------------------------------------------------------------
TimerTypeOK ==
    /\ live \subseteq Addresses
    /\ slot \in [Addresses -> 0..MaxStarts]
    /\ starts \in 0..MaxStarts
    /\ \A a \in Addresses : \A i \in DOMAIN waits[a] :
          /\ waits[a][i].id \in 1..MaxStarts
          /\ waits[a][i].state \in {"waiting", "expired", "aborted"}

\* A callback that was cancelled is never called, even when its wait had
\* expired before, and no callback is called twice (timer.cpp:54-75).  Unless a
\* timer was started again while an expired wait of its address was queued,
\* each wait calls the callback it was started with or none at all.
TimerIsTrue ==
    /\ TimerTypeOK
    /\ \A c \in called :
          /\ c[2] \notin dropped
          /\ c[2] # NoCallback => \A d \in called : d[2] = c[2] => d = c
          /\ overtaken = "no" => c[2] \in {c[1], NoCallback}

=============================================================================
