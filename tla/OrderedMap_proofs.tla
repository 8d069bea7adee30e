------------------------- MODULE OrderedMap_proofs -------------------------
(***************************************************************************)
(* For every number of slots, every set of keys and every folding of them: *)
(* the index of an OrderedMap never leads to the entry of another key, its *)
(* readers agree, and the ring implements the list of its newest entries.  *)
(***************************************************************************)
EXTENDS OrderedMap, TLAPS

\* what is inductive: the types, without the bounds on the counters
IInv ==
    /\ index \in [Classes -> 0 .. max]
    /\ keys \in [Slots -> Keys \cup {Nil}]
    /\ n \in Nat
    /\ IndexSound

\* The slot of an insertion is a slot of the ring.
LEMMA SlotInRing == \A m \in Nat : Slot(m) \in Slots
BY OrderedMapAssumption DEF Slot, Slots

\* Forget leaves nothing that leads to slot i and nothing unsound.
LEMMA ForgetSound ==
    ASSUME IInv, NEW i \in Slots
    PROVE  /\ Forget(i) \in [Classes -> 0 .. max]
           /\ \A c \in Classes : Forget(i)[c] # i
           /\ \A c \in Classes : Forget(i)[c] # 0 => Forget(i)[c] = index[c]
<1>1. keys[i] \in Keys \cup {Nil}
  BY DEF IInv
<1>2. CASE GetIndex(keys[i]) = i
  <2>1. keys[i] \in Keys /\ keyfn[keys[i]] \in Classes
    BY <1>1, <1>2, OrderedMapAssumption DEF GetIndex, Slots, Classes
  <2>2. Forget(i) = [index EXCEPT ![keyfn[keys[i]]] = 0]
    BY <1>2 DEF Forget
  <2>3. ASSUME NEW c \in Classes, index[c] = i
        PROVE  c = keyfn[keys[i]]
    BY <2>3, OrderedMapAssumption DEF IInv, IndexSound, Slots
  <2>. QED  BY <2>1, <2>2, <2>3, OrderedMapAssumption DEF IInv, Slots
<1>3. CASE GetIndex(keys[i]) # i
  <2>1. Forget(i) = index
    BY <1>3 DEF Forget
  <2>2. ASSUME NEW c \in Classes, index[c] = i
        PROVE  FALSE
    <3>1. keys[i] # Nil /\ keyfn[keys[i]] = c
      BY <2>2, OrderedMapAssumption DEF IInv, IndexSound, Slots
    <3>. QED  BY <3>1, <2>2, <1>3 DEF GetIndex
  <2>. QED  BY <2>1, <2>2 DEF IInv
<1>. QED  BY <1>2, <1>3

\* insert keeps the index sound: the slot that is written is forgotten first
LEMMA InsertSound ==
    ASSUME IInv, NEW key \in Keys \cup {Nil}, NEW val \in Vals, Insert(key, val)
    PROVE  IInv'
<1>. DEFINE i == Slot(n)
<1>1. i \in Slots
  BY SlotInRing DEF IInv
<1>2. /\ index' = IF key = Nil THEN Forget(i) ELSE [Forget(i) EXCEPT ![keyfn[key]] = i]
      /\ keys' = [keys EXCEPT ![i] = key]
      /\ n' = n + 1
  BY DEF Insert
<1>3. /\ Forget(i) \in [Classes -> 0 .. max]
      /\ \A c \in Classes : Forget(i)[c] # i
      /\ \A c \in Classes : Forget(i)[c] # 0 => Forget(i)[c] = index[c]
  BY <1>1, ForgetSound
<1>. HIDE DEF i
<1>4. /\ index' \in [Classes -> 0 .. max]
      /\ keys' \in [Slots -> Keys \cup {Nil}]
      /\ n' \in Nat
  BY <1>1, <1>2, <1>3, OrderedMapAssumption DEF IInv, Slots, Classes
<1>5. ASSUME NEW c \in Classes, index'[c] # 0
      PROVE  keys'[index'[c]] # Nil /\ keyfn[keys'[index'[c]]] = c
  <2>1. CASE key # Nil /\ c = keyfn[key]
    BY <2>1, <1>1, <1>2, <1>3 DEF IInv
  <2>2. CASE ~(key # Nil /\ c = keyfn[key])
    <3>1. index'[c] = Forget(i)[c]
      BY <2>2, <1>2, <1>3
    <3>2. index'[c] = index[c] /\ index[c] # i /\ index[c] # 0
      BY <3>1, <1>3, <1>5
    <3>3. index[c] \in Slots
      BY <3>2, OrderedMapAssumption DEF IInv, Slots
    <3>4. keys'[index[c]] = keys[index[c]]
      BY <3>2, <3>3, <1>2 DEF IInv
    <3>. QED  BY <3>2, <3>4 DEF IInv, IndexSound
  <2>. QED  BY <2>1, <2>2
<1>. QED  BY <1>4, <1>5 DEF IInv, IndexSound

\* rekey keeps it sound although the new key may have had an entry: that entry
\* is no longer led to
LEMMA RekeySound ==
    ASSUME IInv, NEW old \in Keys, NEW new \in Keys, Rekey(old, new)
    PROVE  IInv'
<1>. DEFINE i == index[keyfn[old]]
<1>1. old # Nil /\ new # Nil /\ keyfn[old] \in Classes /\ keyfn[new] \in Classes
  BY OrderedMapAssumption DEF Classes
<1>2. /\ i # 0
      /\ index' = [index EXCEPT ![keyfn[old]] = 0, ![keyfn[new]] = i]
      /\ keys' = [keys EXCEPT ![i] = new]
      /\ n' = n
  BY <1>1 DEF Rekey, GetIndex
<1>3. i \in Slots /\ keyfn[keys[i]] = keyfn[old]
  BY <1>1, <1>2, OrderedMapAssumption DEF IInv, IndexSound, Slots
<1>. HIDE DEF i
<1>4. /\ index' \in [Classes -> 0 .. max]
      /\ keys' \in [Slots -> Keys \cup {Nil}]
      /\ n' \in Nat
  BY <1>1, <1>2, <1>3, OrderedMapAssumption DEF IInv, Slots
<1>5. ASSUME NEW c \in Classes, index'[c] # 0
      PROVE  keys'[index'[c]] # Nil /\ keyfn[keys'[index'[c]]] = c
  <2>1. CASE c = keyfn[new]
    BY <2>1, <1>1, <1>2, <1>3 DEF IInv
  <2>2. CASE c # keyfn[new]
    <3>1. c # keyfn[old] /\ index'[c] = index[c]
      BY <2>2, <1>1, <1>2, <1>5 DEF IInv
    <3>2. index[c] # 0 /\ index[c] # i
      BY <3>1, <1>5, <1>3 DEF IInv, IndexSound
    <3>3. index[c] \in Slots
      BY <3>2, OrderedMapAssumption DEF IInv, Slots
    <3>4. keys'[index[c]] = keys[index[c]]
      BY <3>2, <3>3, <1>2 DEF IInv
    <3>. QED  BY <3>1, <3>2, <3>4 DEF IInv, IndexSound
  <2>. QED  BY <2>1, <2>2
<1>. QED  BY <1>4, <1>5 DEF IInv, IndexSound

\* Every step keeps the index sound.
LEMMA SoundStep == IInv /\ [Next]_vars => IInv'
<1>. SUFFICES ASSUME IInv, [Next]_vars PROVE IInv'
  OBVIOUS
<1>1. ASSUME NEW key \in Keys \cup {Nil}, NEW val \in Vals, Insert(key, val)
      PROVE  IInv'
  BY <1>1, InsertSound
<1>2. ASSUME NEW old \in Keys, NEW new \in Keys, Rekey(old, new)
      PROVE  IInv'
  BY <1>2, RekeySound
<1>3. CASE Reset
  BY <1>3, OrderedMapAssumption DEF Reset, IInv, IndexSound, Slots
<1>4. CASE UNCHANGED vars
  BY <1>4 DEF vars, IInv, IndexSound
<1>. QED  BY <1>1, <1>2, <1>3, <1>4 DEF Next

\* The empty ring.
LEMMA SoundInit == Init => IInv /\ TypeOK
BY OrderedMapAssumption DEF Init, IInv, IndexSound, Slots, TypeOK

\* For every ring and every folding of keys, OrderedMap.lookup never returns
\* the entry of a key that does not fold to the one asked for.
THEOREM LookupSound == Spec => []IndexSound
<1>1. IInv => IndexSound
  BY DEF IInv
<1>. QED  BY <1>1, SoundInit, SoundStep, PTL DEF Spec

----------------------------------------------------------------------------
(***************************************************************************)
(* Arithmetic of the ring                                                  *)
(***************************************************************************)

\* What the remainder is.
LEMMA ModDef ==
    ASSUME NEW m \in Nat \ {0}, NEW x \in Int
    PROVE  /\ x % m \in 0 .. m - 1
           /\ x \div m \in Int
           /\ x % m = x - m * (x \div m)
OBVIOUS

\* Quotient and remainder are unique.
LEMMA ModUnique ==
    ASSUME NEW m \in Nat \ {0}, NEW a \in Int, NEW b \in Int,
           NEW r \in 0 .. m - 1, NEW s \in 0 .. m - 1, m * a + r = m * b + s
    PROVE  a = b /\ r = s
<1>1. PICK d \in Int : d = b - a
  OBVIOUS
<1>2. m * d = r - s
  BY <1>1
<1>3. d < 1
  <2>1. d >= 1 => m * d >= m
    OBVIOUS
  <2> QED BY <1>2, <2>1
<1>4. d > -1
  <2>1. d <= -1 => m * d <= -m
    OBVIOUS
  <2> QED BY <1>2, <2>1
<1>5. d = 0
  BY <1>3, <1>4
<1> QED BY <1>1, <1>2, <1>5

\* A number below the divisor is its own remainder.
LEMMA ModSmall ==
    ASSUME NEW m \in Nat \ {0}, NEW x \in 0 .. m - 1
    PROVE  x % m = x
OBVIOUS

\* A whole round of the ring leads to the same slot.
LEMMA ModAdd ==
    ASSUME NEW m \in Nat \ {0}, NEW x \in Int
    PROVE  (x + m) % m = x % m
<1> DEFINE y == x + m
           q == x \div m
           p == y \div m
           r == x % m
           s == y % m
<1>1. r \in 0 .. m - 1 /\ q \in Int /\ r = x - m * q
  BY ModDef
<1>2. y \in Int /\ y = x + m
  OBVIOUS
<1> HIDE DEF y
<1>3. s \in 0 .. m - 1 /\ p \in Int /\ s = y - m * p
  BY <1>2, ModDef
<1> HIDE DEF q, p, r, s
<1>4. PICK k \in Int : k = q + 1
  BY <1>1
<1>5. m * k + r = m * p + s
  BY <1>1, <1>2, <1>3, <1>4
<1>6. r \in 0 .. m - 1 /\ s \in 0 .. m - 1 /\ p \in Int
  BY <1>1, <1>3
<1>7. r = s
  BY <1>4, <1>5, <1>6, ModUnique, Zenon
<1> QED BY <1>7 DEF r, s, y

\* Less than a round leads to another slot.
LEMMA ModDistinct ==
    ASSUME NEW m \in Nat \ {0}, NEW x \in Int, NEW y \in Int,
           x < y, y - x < m
    PROVE  x % m # y % m
<1> SUFFICES ASSUME x % m = y % m PROVE FALSE
    OBVIOUS
<1> DEFINE q == x \div m
           p == y \div m
           r == x % m
<1>1. r \in 0 .. m - 1 /\ q \in Int /\ p \in Int /\ r = x - m * q /\ r = y - m * p
  BY ModDef
<1> HIDE DEF q, p, r
<1>2. PICK e \in Int : e = p - q
  BY <1>1
<1>3. m * e = y - x
  BY <1>1, <1>2
<1>4. m * e > 0 /\ m * e < m
  BY <1>3
<1>5. e >= 1 => m * e >= m
  OBVIOUS
<1>6. e <= 0 => m * e <= 0
  OBVIOUS
<1> QED BY <1>2, <1>4, <1>5, <1>6

----------------------------------------------------------------------------
(***************************************************************************)
(* The readers                                                             *)
(***************************************************************************)

\* the slot written i insertions ago, after m insertions
At(m, i) == ((m - i) % max) + 1

\* How many entries are held.
LEMMA HeldRange ==
    ASSUME n \in Nat
    PROVE  /\ Held \in 0 .. max /\ Held <= n
           /\ n < max => Held = n
           /\ n >= max => Held = max
BY OrderedMapAssumption DEF Held

\* each(0) goes back one insertion at a time.
LEMMA EachIsAt ==
    ASSUME n \in Nat, NEW i \in 1 .. Held
    PROVE  EachSlots(0)[i] = At(n, i)
<1>1. Held \in Nat /\ i \in 1 .. Held - 0 /\ i + 0 = i
  BY HeldRange, OrderedMapAssumption
<1>2. EachSlots(0)[i] = ((n - (i + 0)) % max) + 1
  BY <1>1 DEF EachSlots
<1> QED BY <1>1, <1>2 DEF At

\* Whatever has been inserted, At is a slot, and different ones are of
\* different insertions as long as the ring has not gone round.
LEMMA AtSlot ==
    ASSUME NEW m \in Nat, NEW i \in Int
    PROVE  At(m, i) \in Slots
<1>1. m - i \in Int /\ max \in Nat \ {0}
  BY OrderedMapAssumption
<1>2. (m - i) % max \in 0 .. max - 1
  BY <1>1, ModDef
<1> QED BY <1>1, <1>2 DEF At, Slots

\* See AtSlot.
LEMMA AtDistinct ==
    ASSUME NEW m \in Nat, NEW i \in 1 .. max, NEW j \in 1 .. max, At(m, i) = At(m, j)
    PROVE  i = j
<1> USE OrderedMapAssumption
<1>1. m - i \in Int /\ m - j \in Int /\ max \in Nat \ {0}
  OBVIOUS
<1>2. (m - i) % max \in Int /\ (m - j) % max \in Int
  BY <1>1, ModDef
<1>3. (m - i) % max = (m - j) % max
  BY <1>2 DEF At
<1>4. CASE i < j
  <2>1. m - j < m - i /\ (m - i) - (m - j) < max
    BY <1>4
  <2> QED BY <1>1, <1>3, <2>1, ModDistinct
<1>5. CASE j < i
  <2>1. m - i < m - j /\ (m - j) - (m - i) < max
    BY <1>5
  <2> QED BY <1>1, <1>3, <2>1, ModDistinct
<1> QED BY <1>4, <1>5

\* In a ring that is not full the slots are those of a list.
LEMMA AtNotFull ==
    ASSUME NEW m \in Nat, m <= max, NEW i \in 1 .. m
    PROVE  At(m, i) = m - i + 1
<1>1. m - i \in 0 .. max - 1 /\ max \in Nat \ {0}
  BY OrderedMapAssumption
<1>2. (m - i) % max = m - i
  BY <1>1, ModSmall
<1> QED BY <1>2 DEF At

\* reveach reads the slots of each in the opposite order.
LEMMA ReveachIsReverse ==
    ASSUME n \in Nat, NEW i \in 1 .. Held
    PROVE  RevEachSlots[i] = EachSlots(0)[Held + 1 - i]
<1> DEFINE h == Held
<1>1. /\ h \in 0 .. max /\ h <= n /\ h \in Nat /\ i \in 1 .. h
      /\ n < max => h = n
      /\ n >= max => h = max
  BY HeldRange, OrderedMapAssumption
<1>2. RevEachSlots[i] = ((n + i - 1) % h) + 1
  BY DEF RevEachSlots
<1> HIDE DEF h
<1>3. h + 1 - i \in 1 .. h /\ h \in Nat \ {0} /\ max \in Nat \ {0}
  BY <1>1, OrderedMapAssumption
<1>4. EachSlots(0)[h + 1 - i] = At(n, h + 1 - i)
  BY <1>3, EachIsAt DEF h
<1>5. CASE n < max
  <2>1. h = n /\ i - 1 \in 0 .. n - 1 /\ i - 1 \in Int /\ n \in Nat \ {0} /\ n <= max
    BY <1>1, <1>3, <1>5
  <2>2. ((i - 1) + n) % n = i - 1
    BY <2>1, ModAdd, ModSmall
  <2>3. n + i - 1 = (i - 1) + n
    BY <2>1
  <2>4. RevEachSlots[i] = i
    BY <1>2, <2>1, <2>2, <2>3
  <2>5. At(n, n + 1 - i) = n - (n + 1 - i) + 1
    BY <1>3, <2>1, AtNotFull
  <2>6. n - (n + 1 - i) + 1 = i
    BY <2>1
  <2> QED BY <1>4, <2>1, <2>4, <2>5, <2>6 DEF h
<1>6. CASE n >= max
  <2>1. h = max /\ n - (max + 1 - i) \in Int
    BY <1>1, <1>3, <1>6
  <2>2. PICK x \in Int : x = n - (max + 1 - i)
    BY <2>1
  <2>3. x + max = n + i - 1
    BY <1>1, <1>3, <2>2
  <2>4. (x + max) % max = x % max
    BY <1>3, ModAdd
  <2>5. RevEachSlots[i] = (x % max) + 1
    BY <1>2, <2>1, <2>3, <2>4
  <2>6. At(n, h + 1 - i) = (x % max) + 1
    BY <2>1, <2>2 DEF At
  <2>7. RevEachSlots[i] = EachSlots(0)[h + 1 - i]
    BY <1>4, <2>5, <2>6, Zenon
  <2> QED BY <2>7, Zenon DEF h
<1>7. n < max \/ n >= max
  BY <1>3
<1> QED BY <1>5, <1>6, <1>7, Zenon

\* get_oldest reads the last slot of each.
LEMMA OldestIsLast ==
    ASSUME n \in Nat, Held > 0
    PROVE  OldestSlot = EachSlots(0)[Held]
<1>1. /\ Held \in Nat /\ Held \in 1 .. Held /\ max \in Nat \ {0}
      /\ n < max => Held = n
      /\ n >= max => Held = max
  BY HeldRange, OrderedMapAssumption
<1>2. EachSlots(0)[Held] = At(n, Held)
  BY <1>1, EachIsAt
<1>3. CASE n <= max
  <2>1. Held = n /\ n \in 1 .. n
    BY <1>1, <1>3
  <2>2. At(n, n) = n - n + 1
    BY <1>3, <2>1, AtNotFull
  <2> QED BY <1>2, <1>3, <2>1, <2>2 DEF OldestSlot
<1>4. CASE n > max
  <2>1. Held = max /\ n - max \in Int /\ (n - max) + max = n
    BY <1>1, <1>4
  <2>2. ((n - max) + max) % max = (n - max) % max
    BY <1>1, <2>1, ModAdd
  <2>3. At(n, max) = (n % max) + 1
    BY <2>1, <2>2 DEF At
  <2> QED BY <1>1, <1>2, <1>4, <2>1, <2>3 DEF OldestSlot
<1> QED BY <1>1, <1>3, <1>4

\* TypeOK is kept, with the index that a sound one has.
LEMMA TypeStep ==
    ASSUME IInv, TypeOK, [Next]_vars, IInv'
    PROVE  TypeOK'
<1> USE OrderedMapAssumption
<1>1. /\ index' \in [Classes -> 0 .. max] /\ keys' \in [Slots -> Keys \cup {Nil}]
      /\ vals \in [Slots -> Vals \cup {Nil}] /\ n \in 0 .. MaxInserts /\ ticker \in 0 .. n
  BY DEF IInv, TypeOK
<1>2. ASSUME NEW key \in Keys \cup {Nil}, NEW val \in Vals, Insert(key, val)
      PROVE  TypeOK'
  <2>1. /\ vals' = [vals EXCEPT ![Slot(n)] = val] /\ n < MaxInserts /\ n' = n + 1
        /\ ticker' = IF val \in Shown THEN ticker + 1 ELSE ticker
    BY <1>2 DEF Insert
  <2>2. vals' \in [Slots -> Vals \cup {Nil}]
    BY <1>1, <2>1
  <2>3. n' \in 0 .. MaxInserts /\ ticker' \in 0 .. n'
    BY <1>1, <2>1
  <2> QED BY <1>1, <2>2, <2>3 DEF TypeOK
<1>3. ASSUME NEW old \in Keys, NEW new \in Keys, Rekey(old, new)
      PROVE  TypeOK'
  BY <1>1, <1>3 DEF Rekey, TypeOK
<1>4. CASE Reset
  BY <1>1, <1>4 DEF Reset, TypeOK
<1>5. CASE UNCHANGED vars
  BY <1>1, <1>5 DEF vars, TypeOK
<1> QED BY <1>2, <1>3, <1>4, <1>5 DEF Next

\* For every number of slots and of insertions, wrapped or not, reveach visits
\* the slots of each backwards and get_oldest reads the last one.
THEOREM ReadersCorrect == Spec => []ReadersAgree
<1>1. ASSUME IInv, TypeOK PROVE ReadersAgree
  BY <1>1, ReveachIsReverse, OldestIsLast DEF IInv, ReadersAgree
<1> QED BY <1>1, SoundInit, SoundStep, TypeStep, PTL DEF Spec

----------------------------------------------------------------------------
(***************************************************************************)
(* The ring implements the window.                                         *)
(***************************************************************************)

\* the two variables of Window, as the refinement mapping gives them
Win == [i \in 1 .. Held |-> [key |-> keys[EachSlots(0)[i]],
                             val |-> vals[EachSlots(0)[i]]]]
Fnd == [c \in Classes |-> Age(index[c])]

Entries == [key : Keys \cup {Nil}, val : Vals \cup {Nil}]

\* an index leads to a slot that is held
Kept ==
    \A c \in Classes : index[c] # 0 => \E a \in 1 .. Held : At(n, a) = index[c]

WInv == IInv /\ TypeOK /\ Kept

\* what the mapping makes of a state, entry by entry
Picture ==
    /\ n \in Nat /\ Held \in Nat /\ Held <= max
    /\ n < max => Held = n
    /\ n >= max => Held = max
    /\ Win \in Seq(Entries) /\ Len(Win) = Held
    /\ \A i \in 1 .. Held : Win[i] = [key |-> keys[At(n, i)], val |-> vals[At(n, i)]]
    /\ \A c \in Classes : index[c] = 0 => Fnd[c] = 0
    /\ \A c \in Classes : \A a \in 1 .. Held : index[c] = At(n, a) => Fnd[c] = a

\* Age finds the insertion that wrote a slot.
LEMMA AgeOfAt ==
    ASSUME n \in Nat, NEW a \in 1 .. Held
    PROVE  Age(At(n, a)) = a
<1> DEFINE j == At(n, a)
           b == Age(j)
<1>1. a \in Int
  BY HeldRange, OrderedMapAssumption
<1>2. j \in Slots
  BY <1>1, AtSlot, Zenon
<1>3. EachSlots(0)[a] = j
  BY EachIsAt
<1> HIDE DEF j
<1>4. j # 0
  BY <1>2, OrderedMapAssumption DEF Slots
<1>5. b \in 1 .. Held /\ EachSlots(0)[b] = j
  BY <1>3, <1>4 DEF Age
<1> HIDE DEF b
<1>6. At(n, b) = At(n, a)
  BY <1>5, EachIsAt DEF j
<1>7. a \in 1 .. max /\ b \in 1 .. max
  BY <1>5, HeldRange, OrderedMapAssumption
<1>8. b = a
  BY <1>6, <1>7, AtDistinct
<1> QED BY <1>8 DEF b, j

\* The picture of every state whose types are right.
LEMMA PictureOf == WInv => Picture
<1> SUFFICES ASSUME WInv PROVE Picture
    OBVIOUS
<1> USE OrderedMapAssumption
<1>1. /\ n \in Nat /\ keys \in [Slots -> Keys \cup {Nil}]
      /\ vals \in [Slots -> Vals \cup {Nil}]
      /\ index \in [Classes -> 0 .. max]
  BY DEF WInv, IInv, TypeOK
<1>2. /\ Held \in Nat /\ Held <= max
      /\ n < max => Held = n
      /\ n >= max => Held = max
  BY <1>1, HeldRange
<1>3. ASSUME NEW i \in 1 .. Held
      PROVE  /\ Win[i] = [key |-> keys[At(n, i)], val |-> vals[At(n, i)]]
             /\ Win[i] \in Entries
  <2>1. EachSlots(0)[i] = At(n, i) /\ At(n, i) \in Slots
    BY <1>1, EachIsAt, AtSlot
  <2>2. Win[i] = [key |-> keys[At(n, i)], val |-> vals[At(n, i)]]
    BY <2>1 DEF Win
  <2>3. keys[At(n, i)] \in Keys \cup {Nil} /\ vals[At(n, i)] \in Vals \cup {Nil}
    BY <1>1, <2>1
  <2> QED BY <2>2, <2>3 DEF Entries
<1>4. Win = [i \in 1 .. Held |-> Win[i]]
  BY DEF Win
<1>5. Win \in Seq(Entries) /\ Len(Win) = Held
  BY <1>2, <1>3, <1>4
<1>6. ASSUME NEW c \in Classes, index[c] = 0
      PROVE  Fnd[c] = 0
  BY <1>6 DEF Fnd, Age
<1>7. ASSUME NEW c \in Classes, NEW a \in 1 .. Held, index[c] = At(n, a)
      PROVE  Fnd[c] = a
  <2>1. Fnd[c] = Age(index[c])
    BY DEF Fnd
  <2> QED BY <1>1, <1>7, <2>1, AgeOfAt
<1> QED BY <1>1, <1>2, <1>3, <1>5, <1>6, <1>7 DEF Picture

\* An insertion makes every entry one older: the newest slot is the one that is
\* written, which was the oldest of a full ring.
LEMMA AtNext ==
    ASSUME NEW m \in Nat
    PROVE  /\ At(m + 1, 1) = Slot(m)
           /\ At(m, max) = Slot(m)
           /\ \A a \in Int : At(m + 1, a + 1) = At(m, a)
<1> USE OrderedMapAssumption
<1>1. At(m + 1, 1) = Slot(m)
  BY DEF At, Slot
<1>2. At(m, max) = Slot(m)
  <2>1. PICK x \in Int : x = m - max
    OBVIOUS
  <2>2. (x + max) % max = x % max
    BY ModAdd
  <2>3. x + max = m
    BY <2>1
  <2> QED BY <2>1, <2>2, <2>3 DEF At, Slot
<1>3. ASSUME NEW a \in Int
      PROVE  At(m + 1, a + 1) = At(m, a)
  <2>1. (m + 1) - (a + 1) = m - a
    OBVIOUS
  <2> QED BY <2>1, Zenon DEF At
<1> QED BY <1>1, <1>2, <1>3

\* How many entries an insertion leaves.
LEMMA HeldNext ==
    ASSUME WInv, n' = n + 1
    PROVE  /\ Held' = IF Held < max THEN Held + 1 ELSE max
           /\ Held \in 0 .. max /\ n \in Nat
BY OrderedMapAssumption DEF WInv, IInv, Held

\* Every index that insert leaves leads to a slot that is held.
LEMMA InsertKept ==
    ASSUME WInv, NEW key \in Keys \cup {Nil}, NEW val \in Vals, Insert(key, val)
    PROVE  \A c \in Classes :
              \/ /\ key # Nil /\ c = keyfn[key]
                 /\ index'[c] = At(n', 1) /\ 1 \in 1 .. Held'
              \/ /\ ~(key # Nil /\ c = keyfn[key])
                 /\ \/ /\ index'[c] = 0
                       /\ index[c] = 0 \/ (Held = max /\ index[c] = At(n, max))
                    \/ \E a \in 1 .. Held :
                          a < max /\ index[c] = At(n, a)
                            /\ index'[c] = At(n', a + 1) /\ a + 1 \in 1 .. Held'
<1> USE OrderedMapAssumption
<1> DEFINE i == Slot(n)
<1>1. /\ IInv /\ n \in Nat /\ i \in Slots /\ n' = n + 1
      /\ index' = IF key = Nil THEN Forget(i) ELSE [Forget(i) EXCEPT ![keyfn[key]] = i]
  BY SlotInRing DEF WInv, IInv, Insert
<1>2. /\ Held' = IF Held < max THEN Held + 1 ELSE max
      /\ Held \in 0 .. max
  BY <1>1, HeldNext
<1>3. /\ At(n', 1) = i /\ At(n, max) = i
      /\ \A a \in Int : At(n', a + 1) = At(n, a)
  BY <1>1, AtNext
<1>4. /\ Forget(i) \in [Classes -> 0 .. max]
      /\ \A c \in Classes : Forget(i)[c] # i
      /\ \A c \in Classes : Forget(i)[c] # 0 => Forget(i)[c] = index[c]
  BY <1>1, ForgetSound
<1>5. ASSUME NEW c \in Classes, Forget(i)[c] = 0
      PROVE  index[c] \in {0, i}
  <2>1. keys[i] \in Keys \cup {Nil} /\ index \in [Classes -> 0 .. max]
    BY <1>1 DEF IInv
  <2>2. CASE GetIndex(keys[i]) = i
    <3>1. keys[i] # Nil /\ index[keyfn[keys[i]]] = i
      BY <1>1, <2>2 DEF GetIndex, Slots
    <3>2. Forget(i) = [index EXCEPT ![keyfn[keys[i]]] = 0]
      BY <2>2 DEF Forget
    <3> QED BY <1>5, <2>1, <3>1, <3>2
  <2>3. CASE GetIndex(keys[i]) # i
    BY <1>5, <2>3 DEF Forget
  <2> QED BY <2>2, <2>3
<1> HIDE DEF i
<1>6. ASSUME NEW c \in Classes, key # Nil, c = keyfn[key]
      PROVE  index'[c] = At(n', 1) /\ 1 \in 1 .. Held'
  BY <1>1, <1>2, <1>3, <1>4, <1>6
<1>7. ASSUME NEW c \in Classes, ~(key # Nil /\ c = keyfn[key])
      PROVE  \/ index'[c] = 0 /\ (index[c] = 0 \/ (Held = max /\ index[c] = At(n, max)))
             \/ \E a \in 1 .. Held :
                    a < max /\ index[c] = At(n, a)
                      /\ index'[c] = At(n', a + 1) /\ a + 1 \in 1 .. Held'
  <2>1. index'[c] = Forget(i)[c]
    BY <1>1, <1>4, <1>7
  <2>2. CASE index[c] = 0
    BY <2>1, <2>2, <1>4
  <2>3. CASE index[c] # 0
    <3>1. PICK a \in 1 .. Held : At(n, a) = index[c]
      BY <2>3 DEF WInv, Kept
    <3>2. a \in Int /\ a <= max
      BY <1>2
    <3>3. CASE index'[c] = 0
      <4>1. index[c] = i
        BY <1>5, <2>1, <2>3, <3>3
      <4>2. a = max
        BY <1>1, <1>3, <3>1, <3>2, <4>1, AtDistinct
      <4> QED BY <1>2, <1>3, <3>1, <3>3, <4>1, <4>2
    <3>4. CASE index'[c] # 0
      <4>1. index'[c] = index[c] /\ index[c] # i
        BY <1>4, <2>1, <3>4
      <4>2. a < max
        BY <1>3, <3>1, <3>2, <4>1
      <4>3. index'[c] = At(n', a + 1)
        BY <1>3, <3>1, <3>2, <4>1
      <4>4. a + 1 \in 1 .. Held'
        BY <1>2, <3>2, <4>2
      <4> QED BY <3>1, <4>2, <4>3, <4>4
    <3> QED BY <3>3, <3>4
  <2> QED BY <2>2, <2>3
<1> QED BY <1>6, <1>7

\* rekey moves an index and gives no slot away.
LEMMA RekeyKept ==
    ASSUME WInv, NEW old \in Keys, NEW new \in Keys, Rekey(old, new)
    PROVE  /\ Kept' /\ n' = n /\ vals' = vals
           /\ keyfn[old] \in Classes /\ keyfn[new] \in Classes
           /\ index[keyfn[old]] # 0
           /\ index' = [index EXCEPT ![keyfn[old]] = 0, ![keyfn[new]] = index[keyfn[old]]]
           /\ keys' = [keys EXCEPT ![index[keyfn[old]]] = new]
<1>1. old # Nil /\ keyfn[old] \in Classes /\ keyfn[new] \in Classes
  BY OrderedMapAssumption DEF Classes
<1>2. /\ index[keyfn[old]] # 0 /\ n' = n /\ vals' = vals
      /\ index' = [index EXCEPT ![keyfn[old]] = 0, ![keyfn[new]] = index[keyfn[old]]]
      /\ keys' = [keys EXCEPT ![index[keyfn[old]]] = new]
  BY <1>1 DEF Rekey, GetIndex
<1>3. index \in [Classes -> 0 .. max]
  BY DEF WInv, IInv
<1>4. Held' = Held /\ \A a \in 1 .. Held : At(n', a) = At(n, a)
  BY <1>2 DEF Held
<1>5. ASSUME NEW c \in Classes, index'[c] # 0
      PROVE  \E a \in 1 .. Held' : At(n', a) = index'[c]
  <2>1. PICK d \in Classes : index'[c] = index[d] /\ index[d] # 0
    BY <1>1, <1>2, <1>3, <1>5
  <2>2. PICK a \in 1 .. Held : At(n, a) = index[d]
    BY <2>1 DEF WInv, Kept
  <2> QED BY <1>4, <2>1, <2>2
<1> QED BY <1>1, <1>2, <1>5 DEF Kept

\* The invariant of the refinement is kept.
LEMMA WindowStep == WInv /\ [Next]_vars => WInv'
<1> SUFFICES ASSUME WInv, [Next]_vars PROVE WInv'
    OBVIOUS
<1>1. IInv' /\ TypeOK'
  BY SoundStep, TypeStep DEF WInv
<1>2. ASSUME NEW key \in Keys \cup {Nil}, NEW val \in Vals, Insert(key, val)
      PROVE  Kept'
  <2> SUFFICES ASSUME NEW c \in Classes, index'[c] # 0
               PROVE  \E a \in 1 .. Held' : At(n', a) = index'[c]
      BY DEF Kept
  <2>1. CASE key # Nil /\ c = keyfn[key]
    BY <1>2, <2>1, InsertKept
  <2>2. CASE ~(key # Nil /\ c = keyfn[key])
    <3>1. PICK a \in 1 .. Held : index'[c] = At(n', a + 1) /\ a + 1 \in 1 .. Held'
      BY <1>2, <2>2, InsertKept
    <3> QED BY <3>1
  <2> QED BY <2>1, <2>2
<1>3. ASSUME NEW old \in Keys, NEW new \in Keys, Rekey(old, new)
      PROVE  Kept'
  BY <1>3, RekeyKept
<1>4. CASE Reset
  BY <1>1, <1>4 DEF Reset, Kept, WInv
<1>5. CASE UNCHANGED vars
  <2>1. Held' = Held /\ index' = index /\ n' = n
    BY <1>5 DEF vars, Held
  <2> QED BY <1>1, <2>1 DEF WInv, Kept
<1> QED BY <1>1, <1>2, <1>3, <1>4, <1>5 DEF Next, WInv

\* A list whose first entry is new and whose others are those of the old list
\* is what Window's Insert makes of it.
LEMMA Shifted ==
    ASSUME NEW S, NEW e \in S, NEW W \in Seq(S), NEW V \in Seq(S), NEW m \in Nat \ {0},
           Len(W) <= m,
           Len(V) = IF Len(W) < m THEN Len(W) + 1 ELSE m,
           V[1] = e,
           \A i \in 1 .. Len(W) : i + 1 <= Len(V) => V[i + 1] = W[i]
    PROVE  V = IF Len(W) < m THEN <<e>> \o W ELSE <<e>> \o SubSeq(W, 1, m - 1)
<1>1. <<e>> \in Seq(S) /\ Len(<<e>>) = 1 /\ <<e>>[1] = e
  OBVIOUS
<1>2. CASE Len(W) < m
  <2> DEFINE U == <<e>> \o W
  <2>1. U \in Seq(S) /\ Len(U) = Len(W) + 1
    OBVIOUS
  <2>2. ASSUME NEW i \in 1 .. Len(V)
        PROVE  V[i] = U[i]
    <3>1. CASE i = 1
      BY <1>2, <3>1
    <3>2. CASE i # 1
      <4>1. i - 1 \in 1 .. Len(W) /\ (i - 1) + 1 = i
        BY <1>2, <3>2
      <4>2. U[i] = W[i - 1]
        BY <1>2, <3>2
      <4> QED BY <4>1, <4>2
    <3> QED BY <3>1, <3>2
  <2>3. Len(V) = Len(U)
    BY <1>2, <2>1
  <2> HIDE DEF U
  <2>4. V = U
    BY <2>1, <2>2, <2>3
  <2> QED BY <1>2, <2>4 DEF U
<1>3. CASE ~(Len(W) < m)
  <2> DEFINE X == SubSeq(W, 1, m - 1)
             U == <<e>> \o X
  <2>1. X \in Seq(S) /\ Len(X) = m - 1 /\ \A i \in 1 .. m - 1 : X[i] = W[i]
    BY <1>3
  <2> HIDE DEF X
  <2>2. U \in Seq(S) /\ Len(U) = m
    BY <2>1
  <2>3. ASSUME NEW i \in 1 .. Len(V)
        PROVE  V[i] = U[i]
    <3>1. CASE i = 1
      BY <1>3, <2>1, <3>1
    <3>2. CASE i # 1
      <4>1. i - 1 \in 1 .. m - 1 /\ i - 1 \in 1 .. Len(W) /\ (i - 1) + 1 = i
        BY <1>3, <3>2
      <4>2. U[i] = X[i - 1]
        BY <1>3, <2>1, <3>2
      <4> QED BY <2>1, <4>1, <4>2
    <3> QED BY <3>1, <3>2
  <2>4. Len(V) = Len(U)
    BY <1>3, <2>2
  <2> HIDE DEF U
  <2>5. V = U
    BY <2>2, <2>3, <2>4
  <2> QED BY <1>3, <2>5 DEF U, X
<1> QED BY <1>2, <1>3

\* The picture of a state is that of its successor too.
LEMMA PictureNext == WInv /\ [Next]_vars => Picture /\ Picture'
BY PictureOf, WindowStep, PTL

\* insert puts an entry in front of the window.
LEMMA InsertShifts ==
    ASSUME WInv, Picture, Picture',
           NEW key \in Keys \cup {Nil}, NEW val \in Vals, Insert(key, val)
    PROVE  Win' = IF Len(Win) < max
                  THEN <<[key |-> key, val |-> val]>> \o Win
                  ELSE <<[key |-> key, val |-> val]>> \o SubSeq(Win, 1, max - 1)
<1> USE OrderedMapAssumption
<1> DEFINE i == Slot(n)
           e == [key |-> key, val |-> val]
<1>1. /\ n \in Nat /\ n' = n + 1 /\ i \in Slots
      /\ keys' = [keys EXCEPT ![i] = key]
      /\ vals' = [vals EXCEPT ![i] = val]
      /\ keys \in [Slots -> Keys \cup {Nil}]
      /\ vals \in [Slots -> Vals \cup {Nil}]
  BY SlotInRing DEF WInv, IInv, TypeOK, Insert
<1>2. /\ Held' = IF Held < max THEN Held + 1 ELSE max
      /\ Held \in 0 .. max
  BY <1>1, HeldNext
<1>3. /\ At(n', 1) = i /\ At(n, max) = i
      /\ \A a \in Int : At(n', a + 1) = At(n, a)
  BY <1>1, AtNext
<1>4. /\ Win \in Seq(Entries) /\ Len(Win) = Held
      /\ \A a \in 1 .. Held : Win[a] = [key |-> keys[At(n, a)], val |-> vals[At(n, a)]]
      /\ Win' \in Seq(Entries) /\ Len(Win') = Held'
      /\ \A a \in 1 .. Held' : Win'[a] = [key |-> keys'[At(n', a)], val |-> vals'[At(n', a)]]
  BY DEF Picture, Entries
<1>5. e \in Entries
  BY DEF Entries
<1> HIDE DEF i
<1>6. Win'[1] = e
  <2>0. 1 \in 1 .. Held'
    BY <1>2
  <2>1. Win'[1] = [key |-> keys'[i], val |-> vals'[i]]
    BY <1>3, <1>4, <2>0, Zenon
  <2>2. keys'[i] = key /\ vals'[i] = val
    BY <1>1
  <2> QED BY <2>1, <2>2
<1>7. ASSUME NEW a \in 1 .. Len(Win), a + 1 <= Len(Win')
      PROVE  Win'[a + 1] = Win[a]
  <2>1. a \in 1 .. Held /\ a \in Int /\ a + 1 \in 1 .. Held' /\ a < max
    BY <1>2, <1>4, <1>7
  <2>2. Win'[a + 1] = [key |-> keys'[At(n', a + 1)], val |-> vals'[At(n', a + 1)]]
    BY <1>4, <2>1
  <2>3. At(n', a + 1) = At(n, a) /\ At(n, a) \in Slots
    BY <1>1, <1>3, <2>1, AtSlot
  <2>4. a \in 1 .. max /\ max \in 1 .. max /\ a # max
    BY <2>1
  <2>5. At(n, a) # i
    BY <1>1, <1>3, <2>4, AtDistinct
  <2>6. keys'[At(n, a)] = keys[At(n, a)] /\ vals'[At(n, a)] = vals[At(n, a)]
    BY <1>1, <2>3, <2>5
  <2>7. Win[a] = [key |-> keys[At(n, a)], val |-> vals[At(n, a)]]
    BY <1>4, <2>1
  <2> QED BY <2>2, <2>3, <2>6, <2>7
<1>8. /\ Len(Win) <= max
      /\ Len(Win') = IF Len(Win) < max THEN Len(Win) + 1 ELSE max
  BY <1>2, <1>4
<1> DEFINE W == Win
           V == Win'
           S == Entries
<1>9. W \in Seq(S) /\ V \in Seq(S) /\ e \in S
  BY <1>4, <1>5
<1>10. /\ Len(W) <= max /\ Len(V) = IF Len(W) < max THEN Len(W) + 1 ELSE max
       /\ V[1] = e
       /\ \A a \in 1 .. Len(W) : a + 1 <= Len(V) => V[a + 1] = W[a]
  BY <1>6, <1>7, <1>8
<1> HIDE DEF W, V, S, e
<1>11. V = IF Len(W) < max THEN <<e>> \o W ELSE <<e>> \o SubSeq(W, 1, max - 1)
  BY <1>9, <1>10, Shifted
<1> QED BY <1>11, Zenon DEF W, V, e

\* insert makes every found entry one older and forgets the one that falls off.
LEMMA InsertFinds ==
    ASSUME WInv, Picture, Picture',
           NEW key \in Keys \cup {Nil}, NEW val \in Vals, Insert(key, val)
    PROVE  Fnd' = [c \in Classes |->
                     IF key # Nil /\ c = keyfn[key] THEN 1
                     ELSE IF Fnd[c] \in 1 .. max - 1 THEN Fnd[c] + 1 ELSE 0]
<1> USE OrderedMapAssumption
<1>1. /\ Held \in Nat /\ Held <= max
      /\ \A c \in Classes : index[c] = 0 => Fnd[c] = 0
      /\ \A c \in Classes : \A a \in 1 .. Held : index[c] = At(n, a) => Fnd[c] = a
      /\ \A c \in Classes : index'[c] = 0 => Fnd'[c] = 0
      /\ \A c \in Classes : \A a \in 1 .. Held' : index'[c] = At(n', a) => Fnd'[c] = a
  BY DEF Picture
<1>2. ASSUME NEW c \in Classes
      PROVE  Fnd'[c] = IF key # Nil /\ c = keyfn[key] THEN 1
                       ELSE IF Fnd[c] \in 1 .. max - 1 THEN Fnd[c] + 1 ELSE 0
  <2>1. CASE key # Nil /\ c = keyfn[key]
    <3>1. index'[c] = At(n', 1) /\ 1 \in 1 .. Held'
      BY <2>1, InsertKept
    <3> QED BY <1>1, <2>1, <3>1
  <2>2. CASE /\ ~(key # Nil /\ c = keyfn[key])
             /\ index'[c] = 0
             /\ index[c] = 0 \/ (Held = max /\ index[c] = At(n, max))
    <3>1. Fnd'[c] = 0
      BY <1>1, <2>2
    <3>2. Fnd[c] = 0 \/ Fnd[c] = max
      BY <1>1, <2>2
    <3>3. Fnd[c] \notin 1 .. max - 1
      BY <3>2
    <3> QED BY <2>2, <3>1, <3>3
  <2>3. CASE /\ ~(key # Nil /\ c = keyfn[key])
             /\ \E a \in 1 .. Held :
                   a < max /\ index[c] = At(n, a)
                     /\ index'[c] = At(n', a + 1) /\ a + 1 \in 1 .. Held'
    <3>1. PICK a \in 1 .. Held :
                   a < max /\ index[c] = At(n, a)
                     /\ index'[c] = At(n', a + 1) /\ a + 1 \in 1 .. Held'
      BY <2>3
    <3>2. Fnd[c] = a /\ Fnd'[c] = a + 1
      BY <1>1, <3>1
    <3>3. a \in 1 .. max - 1
      BY <1>1, <3>1
    <3> QED BY <2>3, <3>2, <3>3
  <2> QED BY <2>1, <2>2, <2>3, InsertKept
<1>3. Fnd' = [c \in Classes |-> Fnd'[c]]
  BY DEF Fnd
<1> QED BY <1>2, <1>3

\* rekey writes one key of the window and moves what is found.
LEMMA RekeyWindow ==
    ASSUME WInv, Picture, Picture',
           NEW old \in Keys, NEW new \in Keys, Rekey(old, new)
    PROVE  /\ Fnd[keyfn[old]] # 0
           /\ Win' = [Win EXCEPT ![Fnd[keyfn[old]]].key = new]
           /\ Fnd' = [Fnd EXCEPT ![keyfn[old]] = 0, ![keyfn[new]] = Fnd[keyfn[old]]]
<1> USE OrderedMapAssumption
<1> DEFINE o == keyfn[old]
           w == keyfn[new]
           j == index[o]
<1>1. /\ n' = n /\ vals' = vals
      /\ o \in Classes /\ w \in Classes /\ j # 0
      /\ index' = [index EXCEPT ![o] = 0, ![w] = j]
      /\ keys' = [keys EXCEPT ![j] = new]
  BY RekeyKept
<1>2. /\ n \in Nat /\ index \in [Classes -> 0 .. max]
      /\ keys \in [Slots -> Keys \cup {Nil}]
  BY DEF WInv, IInv
<1>3. PICK a \in 1 .. Held : At(n, a) = j
  BY <1>1 DEF WInv, Kept
<1> HIDE DEF o, w
<1>4. /\ Held \in Nat /\ Held <= max
      /\ Win \in Seq(Entries) /\ Len(Win) = Held
      /\ \A i \in 1 .. Held : Win[i] = [key |-> keys[At(n, i)], val |-> vals[At(n, i)]]
      /\ \A c \in Classes : index[c] = 0 => Fnd[c] = 0
      /\ \A c \in Classes : \A i \in 1 .. Held : index[c] = At(n, i) => Fnd[c] = i
  BY DEF Picture
<1>5. Held' = Held
  BY <1>1 DEF Held
<1>6. /\ Win' \in Seq(Entries) /\ Len(Win') = Held
      /\ \A i \in 1 .. Held : Win'[i] = [key |-> keys'[At(n, i)], val |-> vals[At(n, i)]]
      /\ \A c \in Classes : index'[c] = 0 => Fnd'[c] = 0
      /\ \A c \in Classes : \A i \in 1 .. Held : index'[c] = At(n, i) => Fnd'[c] = i
  <2>1. /\ Win' \in Seq(Entries) /\ Len(Win') = Held'
        /\ \A i \in 1 .. Held' : Win'[i] = [key |-> keys'[At(n', i)], val |-> vals'[At(n', i)]]
        /\ \A c \in Classes : index'[c] = 0 => Fnd'[c] = 0
        /\ \A c \in Classes : \A i \in 1 .. Held' : index'[c] = At(n', i) => Fnd'[c] = i
    BY DEF Picture, Entries
  <2> QED BY <1>1, <1>5, <2>1
<1>7. Fnd[o] = a
  BY <1>1, <1>3, <1>4
<1>8. a # 0 /\ a \in 1 .. max /\ j \in Slots
  BY <1>1, <1>2, <1>4 DEF Slots
<1>9. ASSUME NEW i \in 1 .. Held
      PROVE  Win'[i] = IF i = a THEN [Win[i] EXCEPT !.key = new] ELSE Win[i]
  <2>1. i \in 1 .. max /\ i \in Int
    BY <1>4
  <2>2. At(n, i) \in Slots
    BY <1>2, <2>1, AtSlot
  <2>3. CASE i = a
    <3>1. keys'[At(n, i)] = new
      BY <1>1, <1>2, <1>3, <1>8, <2>3
    <3>2. Win'[i] = [key |-> new, val |-> vals[At(n, i)]]
      BY <1>6, <3>1
    <3>3. Win[i] = [key |-> keys[At(n, i)], val |-> vals[At(n, i)]]
      BY <1>4
    <3>4. [Win[i] EXCEPT !.key = new] = [key |-> new, val |-> vals[At(n, i)]]
      BY <3>3
    <3> QED BY <2>3, <3>2, <3>4
  <2>4. CASE i # a
    <3>1. At(n, i) # j
      BY <1>2, <1>3, <1>8, <2>1, <2>4, AtDistinct
    <3>2. keys'[At(n, i)] = keys[At(n, i)]
      BY <1>1, <1>2, <2>2, <3>1
    <3>3. Win'[i] = [key |-> keys'[At(n, i)], val |-> vals[At(n, i)]]
      BY <1>6
    <3>4. Win[i] = [key |-> keys[At(n, i)], val |-> vals[At(n, i)]]
      BY <1>4
    <3>5. Win'[i] = Win[i]
      BY <3>2, <3>3, <3>4, Zenon
    <3> QED BY <2>4, <3>5, Zenon
  <2> QED BY <2>3, <2>4
<1>10. Win' = [Win EXCEPT ![a].key = new]
  <2>1. /\ Win = [i \in 1 .. Held |-> Win[i]]
        /\ Win' = [i \in 1 .. Held |-> Win'[i]]
    BY <1>5 DEF Win
  <2> HIDE DEF Win
  <2>2. [Win EXCEPT ![a].key = new]
          = [i \in 1 .. Held |-> IF i = a THEN [Win[i] EXCEPT !.key = new] ELSE Win[i]]
    BY <2>1
  <2> QED BY <1>9, <2>1, <2>2
<1>11. ASSUME NEW c \in Classes
       PROVE  Fnd'[c] = IF c = w THEN a ELSE IF c = o THEN 0 ELSE Fnd[c]
  <2>1. CASE c = w
    <3>1. index'[c] = At(n, a)
      BY <1>1, <1>2, <1>3, <2>1
    <3> QED BY <1>6, <2>1, <3>1
  <2>2. CASE c # w /\ c = o
    <3>1. index'[c] = 0
      BY <1>1, <1>2, <2>2
    <3> QED BY <1>6, <2>2, <3>1
  <2>3. CASE c # w /\ c # o
    <3>1. index'[c] = index[c]
      BY <1>1, <1>2, <2>3
    <3>2. CASE index[c] = 0
      BY <1>4, <1>6, <2>3, <3>1, <3>2
    <3>3. CASE index[c] # 0
      <4>1. PICK b \in 1 .. Held : At(n, b) = index[c]
        BY <3>3 DEF WInv, Kept
      <4>2. Fnd[c] = b /\ Fnd'[c] = b
        BY <1>4, <1>6, <3>1, <4>1
      <4> QED BY <2>3, <4>2
    <3> QED BY <3>2, <3>3
  <2> QED BY <2>1, <2>2, <2>3
<1>12. Fnd' = [Fnd EXCEPT ![o] = 0, ![w] = a]
  <2>1. /\ Fnd = [c \in Classes |-> Fnd[c]]
        /\ Fnd' = [c \in Classes |-> Fnd'[c]]
    BY DEF Fnd
  <2> QED BY <1>1, <1>11, <2>1
<1> QED BY <1>7, <1>8, <1>10, <1>12 DEF o, w

\* The empty ring is the empty window.
LEMMA EmptyWindow ==
    ASSUME n = 0, index = [c \in Classes |-> 0]
    PROVE  Win = << >> /\ Fnd = [c \in Classes |-> 0]
<1>1. Held = 0
  BY OrderedMapAssumption DEF Held
<1>2. Win = << >>
  BY <1>1 DEF Win
<1>3. Fnd = [c \in Classes |-> 0]
  BY DEF Fnd, Age
<1> QED BY <1>2, <1>3

\* The first states agree.
LEMMA WindowInit == Init => WInv /\ Abs!Init
<1> SUFFICES ASSUME Init PROVE WInv /\ Abs!Init
    OBVIOUS
<1>1. n = 0 /\ index = [c \in Classes |-> 0]
  BY DEF Init
<1>2. WInv
  BY <1>1, SoundInit DEF WInv, Kept
<1>3. Win = << >> /\ Fnd = [c \in Classes |-> 0]
  BY <1>1, EmptyWindow
<1>4. Abs!Init
  BY <1>3, Zenon DEF Abs!Init, Abs!Classes, Win, Fnd, Classes
<1> QED BY <1>2, <1>4

\* Every step of the ring is one of the window, or leaves it alone.
LEMMA WindowNext ==
    ASSUME WInv, [Next]_vars
    PROVE  [Abs!Next]_(Abs!vars)
<1>1. Picture /\ Picture'
  BY PictureNext
<1>2. ASSUME NEW key \in Keys \cup {Nil}, NEW val \in Vals, Insert(key, val)
      PROVE  Abs!Next
  <2>1. Win' = IF Len(Win) < max
               THEN <<[key |-> key, val |-> val]>> \o Win
               ELSE <<[key |-> key, val |-> val]>> \o SubSeq(Win, 1, max - 1)
    BY <1>1, <1>2, InsertShifts
  <2>2. Fnd' = [c \in Classes |->
                  IF key # Nil /\ c = keyfn[key] THEN 1
                  ELSE IF Fnd[c] \in 1 .. max - 1 THEN Fnd[c] + 1 ELSE 0]
    BY <1>1, <1>2, InsertFinds
  <2>3. Abs!Insert(key, val)
    BY <2>1, <2>2, Zenon DEF Abs!Insert, Abs!Entry, Abs!Classes, Classes, Win, Fnd
  <2> QED BY <2>3, Zenon DEF Abs!Next
<1>3. ASSUME NEW old \in Keys, NEW new \in Keys, Rekey(old, new)
      PROVE  Abs!Next
  <2>1. /\ Fnd[keyfn[old]] # 0
        /\ Win' = [Win EXCEPT ![Fnd[keyfn[old]]].key = new]
        /\ Fnd' = [Fnd EXCEPT ![keyfn[old]] = 0, ![keyfn[new]] = Fnd[keyfn[old]]]
    BY <1>1, <1>3, RekeyWindow
  <2>2. Abs!Rekey(old, new)
    BY <2>1, Zenon DEF Abs!Rekey, Win, Fnd
  <2> QED BY <2>2, Zenon DEF Abs!Next
<1>4. CASE Reset
  <2>1. n' = 0 /\ index' = [c \in Classes |-> 0]
    BY <1>4 DEF Reset
  <2>2. Win' = << >> /\ Fnd' = [c \in Classes |-> 0]
    <3>1. Held' = 0
      BY <2>1, OrderedMapAssumption DEF Held
    <3>2. Win' = << >>
      BY <3>1 DEF Win
    <3>3. Fnd' = [c \in Classes |-> 0]
      BY <2>1 DEF Fnd, Age
    <3> QED BY <3>2, <3>3
  <2>3. Abs!Reset
    BY <2>2, Zenon DEF Abs!Reset, Abs!Classes, Classes, Win, Fnd
  <2> QED BY <2>3, Zenon DEF Abs!Next
<1>5. CASE UNCHANGED vars
  <2>1. index' = index /\ keys' = keys /\ vals' = vals /\ n' = n
    BY <1>5 DEF vars
  <2>2. Win' = Win /\ Fnd' = Fnd
    BY <2>1 DEF Win, Fnd, Held, EachSlots, Age
  <2>3. UNCHANGED Abs!vars
    BY <2>2, Zenon DEF Abs!vars, Win, Fnd
  <2> QED BY <2>3, Zenon
<1> QED BY <1>2, <1>3, <1>4, <1>5, Zenon DEF Next

\* For every number of slots, of keys and of insertions, the ring with its
\* index implements the list of the newest max entries together with the
\* entry each key was last given to.
THEOREM ImplementsWindow == Spec => RefinesWindow
<1> QED BY WindowInit, WindowStep, WindowNext, PTL DEF Spec, RefinesWindow, Abs!Spec
=============================================================================
