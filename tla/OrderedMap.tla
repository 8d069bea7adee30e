----------------------------- MODULE OrderedMap -----------------------------
(***************************************************************************)
(* src/ircc/components/OrderedMap.lua: the messages of a buffer, the       *)
(* status messages, the list of channels, and in the dashboard the users   *)
(* and their bans.  A ring of max slots, an index from key to slot, and a  *)
(* counter of all insertions.                                              *)
(*                                                                         *)
(* keyfn folds keys (snowcone.irccase); where the code has none it is the  *)
(* identity.  A key may be nil; an absent index is 0.                      *)
(***************************************************************************)
EXTENDS Integers, Sequences

CONSTANTS Keys, Nil, Vals,
          keyfn,        \* folded form of every key
          max,          \* slots
          Shown,        \* values the predicate of the view accepts
          MaxInserts    \* bound on n

ASSUME OrderedMapAssumption ==
    /\ Nil \notin Keys /\ Nil \notin Vals
    /\ keyfn \in [Keys -> Keys]
    /\ max \in Nat \ {0}
    /\ MaxInserts \in Nat

VARIABLES index, keys, vals, n, ticker

vars == <<index, keys, vals, n, ticker>>

Slots == 1 .. max

Classes == {keyfn[k] : k \in Keys}

\* _init
Init ==
    /\ index = [c \in Classes |-> 0]
    /\ keys = [i \in Slots |-> Nil]
    /\ vals = [i \in Slots |-> Nil]
    /\ n = 0
    /\ ticker = 0

\* getindex
GetIndex(k) == IF k = Nil THEN 0 ELSE index[keyfn[k]]

\* mutant: the key is forgotten although a newer entry has it
ForgetAlways(i) ==
    IF keys[i] # Nil THEN [index EXCEPT ![keyfn[keys[i]]] = 0] ELSE index

\* the index without the entry that slot i holds
Forget(i) ==
    IF GetIndex(keys[i]) = i THEN [index EXCEPT ![keyfn[keys[i]]] = 0] ELSE index

\* the slot of insertion m + 1
Slot(m) == (m % max) + 1

Insert(key, val) ==
    /\ n < MaxInserts
    /\ LET i == Slot(n)
       IN /\ index' = IF key = Nil THEN Forget(i)
                      ELSE [Forget(i) EXCEPT ![keyfn[key]] = i]
          /\ keys' = [keys EXCEPT ![i] = key]
          /\ vals' = [vals EXCEPT ![i] = val]
    /\ n' = n + 1
    /\ ticker' = IF val \in Shown THEN ticker + 1 ELSE ticker

\* mutant: the slot keeps its old key
RekeyIndexOnly(old, new) ==
    LET i == GetIndex(old)
    IN /\ i # 0
       /\ index' = [index EXCEPT ![keyfn[old]] = 0, ![keyfn[new]] = i]
       /\ UNCHANGED <<keys, vals, n, ticker>>

Rekey(old, new) ==
    LET i == GetIndex(old)
    IN /\ i # 0
       /\ index' = [index EXCEPT ![keyfn[old]] = 0, ![keyfn[new]] = i]
       /\ keys' = [keys EXCEPT ![i] = new]
       /\ UNCHANGED <<vals, n, ticker>>

Reset ==
    /\ index' = [c \in Classes |-> 0]
    /\ keys' = [i \in Slots |-> Nil]
    /\ vals' = [i \in Slots |-> Nil]
    /\ n' = 0
    /\ ticker' = 0

Next ==
    \/ \E key \in Keys \cup {Nil}, val \in Vals : Insert(key, val)
    \/ \E old, new \in Keys : Rekey(old, new)
    \/ Reset

Spec == Init /\ [][Next]_vars

(***************************************************************************)
(* Readers                                                                 *)
(***************************************************************************)

\* entries held
Held == IF n < max THEN n ELSE max

\* each(offset): the slots it visits, newest first
EachSlots(offset) == [i \in 1 .. Held - offset |-> ((n - (i + offset)) % max) + 1]

\* mutant: the ring is taken to be full
RevEachFull == [i \in 1 .. Held |-> ((n + i - 1) % max) + 1]

\* reveach(): oldest first
RevEachSlots == [i \in 1 .. Held |-> ((n + i - 1) % Held) + 1]

\* get_oldest(): the slot it reads
OldestSlot == IF n <= max THEN 1 ELSE (n % max) + 1

----------------------------------------------------------------------------

TypeOK ==
    /\ index \in [Classes -> 0 .. max]
    /\ keys \in [Slots -> Keys \cup {Nil}]
    /\ vals \in [Slots -> Vals \cup {Nil}]
    /\ n \in 0 .. MaxInserts
    /\ ticker \in 0 .. n

\* lookup never answers with the entry of another key: an index leads to a slot
\* whose key folds to it, although slots are overwritten, keys are inserted
\* again while an older entry of the same key is kept, and rekey gives a key to
\* an entry that another entry has.
IndexSound ==
    \A c \in Classes :
        index[c] # 0 => keys[index[c]] # Nil /\ keyfn[keys[index[c]]] = c

\* The readers agree on what is held and in which order, whether or not the
\* ring has wrapped: reveach visits the slots of each backwards, and
\* get_oldest reads the first of them.
ReadersAgree ==
    /\ TypeOK
    /\ \A i \in 1 .. Held : RevEachSlots[i] = EachSlots(0)[Held + 1 - i]
    /\ Held > 0 => OldestSlot = EachSlots(0)[Held]

\* how many insertions ago a slot was written
Age(i) == IF i = 0 THEN 0 ELSE CHOOSE a \in 1 .. Held : EachSlots(0)[a] = i

Abs == INSTANCE Window WITH
    window <- [i \in 1 .. Held |-> [key |-> keys[EachSlots(0)[i]],
                                    val |-> vals[EachSlots(0)[i]]]],
    found  <- [c \in Classes |-> Age(index[c])]

\* The ring implements the list of the newest max entries and the last entry
\* given each key.
RefinesWindow == Abs!Spec
=============================================================================
