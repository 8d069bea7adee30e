------------------------ MODULE Registration_proofs ------------------------
(***************************************************************************)
(* For every set of capabilities, list of credentials, number of changes   *)
(* and of refused nicknames: the client relies on no capability the server *)
(* has withdrawn, and a message of the SASL exchange has one reader.       *)
(*                                                                         *)
(* From "Base64" on, for texts and messages of any length and commands of  *)
(* any size: decode returns the bytes of the bits it reads, and a SASL     *)
(* message sent in chunks arrives whole.  A text is read in groups of four *)
(* characters and written in groups of three bytes, so the bytes decode    *)
(* has written and its buffer are those of a sequence of characters        *)
(* (Layout), and chunks are counted in groups (Groups, Quads).             *)
(***************************************************************************)
EXTENDS Registration, Base64, SequenceTheorems, FiniteSetTheorems, WellFoundedInduction, TLAPS

Cmds == {"none", "CAP", "AUTHENTICATE", "NICK", "USER", "001", "376", "421", "433",
         "903", "904", "906", "90x"}
Subs == {"", "LS", "LS*", "REQ", "ACK", "NAK", "NEW", "DEL", "END",
         "PLAIN", "SCRAM", "data", "*", "bad", "error"}
Msgs == [cmd : Cmds, sub : Subs, arg : SUBSET Caps]

Servers == [kind : {"cap", "bare", "nocap"}, avail : SUBSET Caps, enabled : SUBSET Caps,
            nego : {"none", "open", "closed"}, sasl : Nat, odd : BOOLEAN,
            nick : BOOLEAN, user : BOOLEAN, welcomed : BOOLEAN, changes : Nat, refused : Nat]

\* the types, those of the messages in flight and of the server too
Typed ==
    /\ TypeOK
    /\ msg \in Msgs /\ toServer \in Seq(Msgs) /\ toClient \in Seq(Msgs)
    /\ server \in Servers

\* a task that authenticates has a credential
Credited == \A t \in Tasks : task[t] \in {"cred", "auth"} => cred[t] \in 1 .. Len(Creds)

\* What M makes is a message.
LEMMA MsgType ==
    ASSUME NEW cmd \in Cmds, NEW sub \in Subs, NEW arg \in SUBSET Caps
    PROVE  /\ M(cmd, sub, arg) \in Msgs
           /\ M(cmd, sub, arg).cmd = cmd
           /\ M(cmd, sub, arg).sub = sub
           /\ M(cmd, sub, arg).arg = arg
BY DEF M, Msgs

\* The types of the first state.
LEMMA TypedInit == Init => Typed /\ Credited
<1> SUFFICES ASSUME Init PROVE Typed /\ Credited
    OBVIOUS
<1> USE RegistrationAssumption
<1>1. TypeOK /\ Credited
  <2>1. /\ task \in [Tasks -> Positions] /\ outstanding \in [Tasks -> SUBSET Caps]
        /\ cred \in [Tasks -> 0 .. Len(Creds)] /\ impl \in [Tasks -> 0 .. 3]
    BY DEF Init, Positions
  <2>2. outcome \in [Tasks -> BOOLEAN] /\ crossed \in BOOLEAN
    BY DEF Init
  <2>3. /\ todo \subseteq Tasks /\ caps_available \subseteq Caps /\ caps_enabled \subseteq Caps
        /\ sasl_credentials \in {"nil", "given"} /\ phase \in {"registration", "connected"}
    BY DEF Init
  <2>4. Credited
    BY DEF Init, Credited
  <2> QED BY <2>1, <2>2, <2>3, <2>4 DEF TypeOK
<1>2. msg \in Msgs
  <2>1. NoMsg \in Msgs
    BY DEF NoMsg, M, Msgs, Cmds, Subs
  <2> QED BY <2>1 DEF Init
<1>3. toServer \in Seq(Msgs) /\ toClient \in Seq(Msgs)
  <2>1. M("CAP", "LS", {}) \in Msgs
    BY DEF M, Msgs, Cmds, Subs
  <2> QED BY <2>1 DEF Init
<1>4. server \in Servers
  BY DEF Init, Servers
<1> QED BY <1>1, <1>2, <1>3, <1>4 DEF Typed

\* The messages of a fixed form.
LEMMA Fixed ==
    /\ M("CAP", "END", {}) \in Msgs /\ M("NICK", "", {}) \in Msgs
    /\ M("USER", "", {}) \in Msgs /\ M("AUTHENTICATE", "data", {}) \in Msgs
    /\ M("AUTHENTICATE", "*", {}) \in Msgs /\ M("AUTHENTICATE", "", {}) \in Msgs
    /\ M("AUTHENTICATE", "PLAIN", {}) \in Msgs /\ M("AUTHENTICATE", "SCRAM", {}) \in Msgs
    /\ M("421", "", {}) \in Msgs /\ M("433", "", {}) \in Msgs
    /\ M("AUTHENTICATE", "bad", {}) \in Msgs /\ M("AUTHENTICATE", "error", {}) \in Msgs
    /\ M("90x", "", {}) \in Msgs
    /\ M("903", "", {}) \in Msgs /\ M("904", "", {}) \in Msgs /\ M("906", "", {}) \in Msgs
    /\ M("001", "", {}) \in Msgs /\ M("376", "", {}) \in Msgs
    /\ \A arg \in SUBSET Caps : \A sub \in Subs : M("CAP", sub, arg) \in Msgs
BY DEF M, Msgs, Cmds, Subs

----------------------------------------------------------------------------
(***************************************************************************)
(* Messages in flight                                                      *)
(***************************************************************************)

Finals == {"903", "904", "906"}

\* the request that starts an exchange
IsMech(m) == m.cmd = "AUTHENTICATE" /\ m.sub \in {"PLAIN", "SCRAM"}

MechIn(s) == \E i \in 1 .. Len(s) : IsMech(s[i])
OneMech(s) == \A i, j \in 1 .. Len(s) : IsMech(s[i]) /\ IsMech(s[j]) => i = j

ReplyIn(s) == \E i \in 1 .. Len(s) : s[i].cmd \in SaslReplies
FinalIn(s) == \E i \in 1 .. Len(s) : s[i].cmd \in Finals

\* nothing of the exchange follows its end
FinalLast(s) ==
    \A i, j \in 1 .. Len(s) : s[i].cmd \in Finals /\ s[j].cmd \in SaslReplies => j <= i

Acks(m, c) == m.sub = "ACK" /\ c \in m.arg
Dels(m, c) == m.cmd = "CAP" /\ m.sub = "DEL" /\ c \in m.arg

\* c is withdrawn, and withdrawn after it was granted
Withdrawn(s, c) == \E i \in 1 .. Len(s) : Dels(s[i], c)
Covered(s, c) ==
    \A i \in 1 .. Len(s) : Acks(s[i], c) => \E j \in i + 1 .. Len(s) : Dels(s[j], c)

\* The elements of a concatenation.
LEMMA ConcatElements ==
    ASSUME NEW s \in Seq(Msgs), NEW ms \in Seq(Msgs)
    PROVE  /\ s \o ms \in Seq(Msgs)
           /\ Len(s \o ms) = Len(s) + Len(ms) /\ Len(s) \in Nat /\ Len(ms) \in Nat
           /\ \A i \in 1 .. Len(s) : (s \o ms)[i] = s[i]
           /\ \A i \in 1 .. Len(ms) : (s \o ms)[Len(s) + i] = ms[i]
           /\ \A i \in 1 .. Len(s) + Len(ms) :
                 i \in 1 .. Len(s) \/ \E k \in 1 .. Len(ms) : i = Len(s) + k
<1>1. Len(s) \in Nat /\ Len(ms) \in Nat
  OBVIOUS
<1>2. /\ s \o ms \in Seq(Msgs) /\ Len(s \o ms) = Len(s) + Len(ms)
      /\ \A i \in 1 .. Len(s) : (s \o ms)[i] = s[i]
      /\ \A i \in 1 .. Len(ms) : (s \o ms)[Len(s) + i] = ms[i]
  OBVIOUS
<1>3. ASSUME NEW i \in 1 .. Len(s) + Len(ms)
      PROVE  i \in 1 .. Len(s) \/ \E k \in 1 .. Len(ms) : i = Len(s) + k
  <2>1. CASE i <= Len(s)
    BY <1>1, <2>1
  <2>2. CASE i > Len(s)
    <3>1. i - Len(s) \in 1 .. Len(ms) /\ i = Len(s) + (i - Len(s))
      BY <1>1, <2>2
    <3> QED BY <3>1
  <2> QED BY <1>1, <2>1, <2>2
<1> QED BY <1>1, <1>2, <1>3

\* Messages that start no exchange.
LEMMA ConcatMech ==
    ASSUME NEW s \in Seq(Msgs), NEW ms \in Seq(Msgs), ~MechIn(ms)
    PROVE  /\ s \o ms \in Seq(Msgs)
           /\ MechIn(s \o ms) => MechIn(s)
           /\ OneMech(s) => OneMech(s \o ms)
<1> DEFINE z == s \o ms
<1>1. /\ z \in Seq(Msgs) /\ Len(z) = Len(s) + Len(ms)
      /\ \A i \in 1 .. Len(s) : z[i] = s[i]
      /\ \A i \in 1 .. Len(ms) : z[Len(s) + i] = ms[i]
      /\ \A i \in 1 .. Len(s) + Len(ms) :
            i \in 1 .. Len(s) \/ \E k \in 1 .. Len(ms) : i = Len(s) + k
  BY ConcatElements
<1> HIDE DEF z
<1>2. ASSUME NEW i \in 1 .. Len(z), IsMech(z[i])
      PROVE  i \in 1 .. Len(s) /\ IsMech(s[i])
  <2>1. i \in 1 .. Len(s) \/ \E k \in 1 .. Len(ms) : i = Len(s) + k
    BY <1>1
  <2>2. CASE i \in 1 .. Len(s)
    BY <1>1, <1>2, <2>2
  <2>3. ASSUME NEW k \in 1 .. Len(ms), i = Len(s) + k
        PROVE  FALSE
    <3>1. z[i] = ms[k]
      BY <1>1, <2>3
    <3> QED BY <1>2, <3>1 DEF MechIn
  <2> QED BY <2>1, <2>2, <2>3
<1>3. MechIn(z) => MechIn(s)
  BY <1>2 DEF MechIn
<1>4. OneMech(s) => OneMech(z)
  BY <1>2 DEF OneMech
<1> QED BY <1>1, <1>3, <1>4 DEF z

\* A message that starts one, when there is none.
LEMMA ConcatNewMech ==
    ASSUME NEW s \in Seq(Msgs), NEW m \in Msgs, ~MechIn(s)
    PROVE  OneMech(s \o <<m>>)
<1> DEFINE z == s \o <<m>>
<1>1. <<m>> \in Seq(Msgs) /\ Len(<<m>>) = 1
  OBVIOUS
<1>2. /\ Len(z) = Len(s) + 1 /\ Len(s) \in Nat
      /\ \A i \in 1 .. Len(s) : z[i] = s[i]
  BY <1>1, ConcatElements
<1> HIDE DEF z
<1>3. ASSUME NEW i \in 1 .. Len(z), IsMech(z[i])
      PROVE  i = Len(s) + 1
  BY <1>2, <1>3 DEF MechIn
<1>4. OneMech(z)
  BY <1>3 DEF OneMech
<1> QED BY <1>4 DEF z

\* What remains when the first message is taken.
LEMMA TailElements ==
    ASSUME NEW s \in Seq(Msgs), s # << >>
    PROVE  /\ Tail(s) \in Seq(Msgs) /\ Len(s) \in Nat \ {0} /\ Len(Tail(s)) = Len(s) - 1
           /\ \A i \in 1 .. Len(s) - 1 : Tail(s)[i] = s[i + 1]
           /\ Head(s) = s[1] /\ Head(s) \in Msgs
OBVIOUS

\* See TailElements: the requests.
LEMMA TailMech ==
    ASSUME NEW s \in Seq(Msgs), s # << >>
    PROVE  /\ MechIn(Tail(s)) => MechIn(s)
           /\ OneMech(s) => OneMech(Tail(s))
           /\ IsMech(Head(s)) => MechIn(s)
           /\ IsMech(Head(s)) /\ OneMech(s) => ~MechIn(Tail(s))
<1> DEFINE z == Tail(s)
<1>1. /\ z \in Seq(Msgs) /\ Len(s) \in Nat \ {0} /\ Len(z) = Len(s) - 1
      /\ \A i \in 1 .. Len(z) : z[i] = s[i + 1] /\ i + 1 \in 1 .. Len(s)
      /\ Head(s) = s[1] /\ 1 \in 1 .. Len(s)
  BY TailElements
<1> HIDE DEF z
<1>2. MechIn(z) => MechIn(s)
  BY <1>1 DEF MechIn
<1>3. OneMech(s) => OneMech(z)
  BY <1>1 DEF OneMech
<1>4. IsMech(Head(s)) => MechIn(s)
  BY <1>1 DEF MechIn
<1>5. IsMech(Head(s)) /\ OneMech(s) => ~MechIn(z)
  BY <1>1 DEF MechIn, OneMech
<1> QED BY <1>2, <1>3, <1>4, <1>5 DEF z

\* See TailElements: the replies of the exchange.
LEMMA TailReply ==
    ASSUME NEW s \in Seq(Msgs), s # << >>
    PROVE  /\ ReplyIn(Tail(s)) => ReplyIn(s)
           /\ FinalIn(Tail(s)) => FinalIn(s)
           /\ FinalLast(s) => FinalLast(Tail(s))
           /\ Head(s).cmd \in SaslReplies => ReplyIn(s)
           /\ Head(s).cmd \in Finals => FinalIn(s)
           /\ Head(s).cmd \in Finals /\ FinalLast(s) => ~ReplyIn(Tail(s))
<1> DEFINE z == Tail(s)
<1>1. /\ z \in Seq(Msgs) /\ Len(s) \in Nat \ {0} /\ Len(z) = Len(s) - 1
      /\ \A i \in 1 .. Len(z) : z[i] = s[i + 1] /\ i + 1 \in 1 .. Len(s)
      /\ Head(s) = s[1] /\ 1 \in 1 .. Len(s)
  BY TailElements
<1> HIDE DEF z
<1>2. (ReplyIn(z) => ReplyIn(s)) /\ (FinalIn(z) => FinalIn(s))
  BY <1>1 DEF ReplyIn, FinalIn
<1>3. ASSUME FinalLast(s) PROVE FinalLast(z)
  <2> SUFFICES ASSUME NEW i \in 1 .. Len(z), NEW j \in 1 .. Len(z),
                      z[i].cmd \in Finals, z[j].cmd \in SaslReplies
               PROVE  j <= i
      BY DEF FinalLast
  <2>1. /\ i + 1 \in 1 .. Len(s) /\ j + 1 \in 1 .. Len(s)
        /\ s[i + 1].cmd \in Finals /\ s[j + 1].cmd \in SaslReplies
    BY <1>1
  <2>2. j + 1 <= i + 1
    BY <1>3, <2>1 DEF FinalLast
  <2> QED BY <1>1, <2>2
<1>4. /\ Head(s).cmd \in SaslReplies => ReplyIn(s)
      /\ Head(s).cmd \in Finals => FinalIn(s)
  BY <1>1 DEF ReplyIn, FinalIn
<1>5. ASSUME Head(s).cmd \in Finals, FinalLast(s), NEW i \in 1 .. Len(z),
             z[i].cmd \in SaslReplies
      PROVE  FALSE
  BY <1>1, <1>5 DEF FinalLast
<1> QED BY <1>2, <1>3, <1>4, <1>5 DEF z, ReplyIn

\* Messages to the client, of the exchange or not.
LEMMA ConcatReply ==
    ASSUME NEW s \in Seq(Msgs), NEW ms \in Seq(Msgs)
    PROVE  /\ s \o ms \in Seq(Msgs)
           /\ ~ReplyIn(ms) /\ ReplyIn(s \o ms) => ReplyIn(s)
           /\ ~FinalIn(ms) /\ FinalIn(s \o ms) => FinalIn(s)
           /\ ~ReplyIn(ms) /\ FinalLast(s) => FinalLast(s \o ms)
           /\ ~FinalIn(s) /\ FinalLast(ms) => FinalLast(s \o ms)
<1> DEFINE z == s \o ms
<1>1. /\ z \in Seq(Msgs) /\ Len(z) = Len(s) + Len(ms) /\ Len(s) \in Nat /\ Len(ms) \in Nat
      /\ \A i \in 1 .. Len(s) : z[i] = s[i]
      /\ \A i \in 1 .. Len(ms) : z[Len(s) + i] = ms[i]
      /\ \A i \in 1 .. Len(s) + Len(ms) :
            i \in 1 .. Len(s) \/ \E k \in 1 .. Len(ms) : i = Len(s) + k
  BY ConcatElements
<1> HIDE DEF z
<1>2. ASSUME NEW i \in 1 .. Len(z)
      PROVE  \/ i \in 1 .. Len(s) /\ z[i] = s[i]
             \/ \E k \in 1 .. Len(ms) : i = Len(s) + k /\ z[i] = ms[k]
  <2>1. CASE i \in 1 .. Len(s)
    BY <1>1, <2>1
  <2>2. CASE i \notin 1 .. Len(s)
    <3>1. PICK k \in 1 .. Len(ms) : i = Len(s) + k
      BY <1>1, <2>2
    <3>2. z[i] = ms[k]
      BY <1>1, <3>1
    <3> QED BY <3>1, <3>2
  <2> QED BY <2>1, <2>2
<1>3. ~ReplyIn(ms) /\ ReplyIn(z) => ReplyIn(s)
  BY <1>2 DEF ReplyIn
<1>4. ~FinalIn(ms) /\ FinalIn(z) => FinalIn(s)
  BY <1>2 DEF FinalIn
<1>5. ASSUME ~ReplyIn(ms), FinalLast(s) PROVE FinalLast(z)
  <2> SUFFICES ASSUME NEW i \in 1 .. Len(z), NEW j \in 1 .. Len(z),
                      z[i].cmd \in Finals, z[j].cmd \in SaslReplies
               PROVE  j <= i
      BY DEF FinalLast
  <2>1. j \in 1 .. Len(s) /\ z[j] = s[j]
    BY <1>2, <1>5 DEF ReplyIn
  <2>2. z[i].cmd \in SaslReplies
    BY DEF Finals, SaslReplies
  <2>3. i \in 1 .. Len(s) /\ z[i] = s[i]
    BY <1>2, <1>5, <2>2 DEF ReplyIn
  <2> QED BY <1>5, <2>1, <2>3 DEF FinalLast
<1>6. ASSUME ~FinalIn(s), FinalLast(ms) PROVE FinalLast(z)
  <2> SUFFICES ASSUME NEW i \in 1 .. Len(z), NEW j \in 1 .. Len(z),
                      z[i].cmd \in Finals, z[j].cmd \in SaslReplies
               PROVE  j <= i
      BY DEF FinalLast
  <2>1. PICK k \in 1 .. Len(ms) : i = Len(s) + k /\ z[i] = ms[k]
    BY <1>2, <1>6 DEF FinalIn
  <2>2. CASE j \in 1 .. Len(s)
    BY <1>1, <2>1, <2>2
  <2>3. CASE j \notin 1 .. Len(s)
    <3>1. PICK h \in 1 .. Len(ms) : j = Len(s) + h /\ z[j] = ms[h]
      BY <1>2, <2>3
    <3>2. h <= k
      BY <1>6, <2>1, <3>1 DEF FinalLast
    <3> QED BY <1>1, <2>1, <3>1, <3>2
  <2> QED BY <2>2, <2>3
<1> QED BY <1>1, <1>3, <1>4, <1>5, <1>6 DEF z

\* See TailElements: what is granted and withdrawn.
LEMMA TailCovered ==
    ASSUME NEW s \in Seq(Msgs), s # << >>, NEW c
    PROVE  /\ Covered(s, c) => Covered(Tail(s), c)
           /\ Withdrawn(s, c) => Dels(Head(s), c) \/ Withdrawn(Tail(s), c)
           /\ Covered(s, c) /\ Acks(Head(s), c) => Withdrawn(Tail(s), c)
<1> DEFINE z == Tail(s)
<1>1. /\ z \in Seq(Msgs) /\ Len(s) \in Nat \ {0} /\ Len(z) = Len(s) - 1
      /\ \A i \in 1 .. Len(z) : z[i] = s[i + 1] /\ i + 1 \in 1 .. Len(s)
      /\ Head(s) = s[1] /\ 1 \in 1 .. Len(s)
  BY TailElements
<1> HIDE DEF z
<1>2. ASSUME NEW j \in 2 .. Len(s)
      PROVE  j - 1 \in 1 .. Len(z) /\ z[j - 1] = s[j] /\ j \in Nat
  <2>1. j - 1 \in 1 .. Len(z) /\ (j - 1) + 1 = j
    BY <1>1
  <2> QED BY <1>1, <2>1
<1>3. ASSUME Covered(s, c) PROVE Covered(z, c)
  <2> SUFFICES ASSUME NEW i \in 1 .. Len(z), Acks(z[i], c)
               PROVE  \E j \in i + 1 .. Len(z) : Dels(z[j], c)
      BY DEF Covered
  <2>1. PICK j \in (i + 1) + 1 .. Len(s) : Dels(s[j], c)
    BY <1>1, <1>3 DEF Covered
  <2>2. j \in 2 .. Len(s)
    BY <1>1
  <2>3. j - 1 \in i + 1 .. Len(z)
    BY <1>1, <2>2
  <2> QED BY <1>2, <2>1, <2>2, <2>3
<1>4. ASSUME Withdrawn(s, c) PROVE Dels(Head(s), c) \/ Withdrawn(z, c)
  <2>1. PICK j \in 1 .. Len(s) : Dels(s[j], c)
    BY <1>4 DEF Withdrawn
  <2>2. CASE j = 1
    BY <1>1, <2>1, <2>2
  <2>3. CASE j # 1
    <3>1. j \in 2 .. Len(s)
      BY <1>1, <2>3
    <3> QED BY <1>2, <2>1, <3>1 DEF Withdrawn
  <2> QED BY <2>2, <2>3
<1>5. ASSUME Covered(s, c), Acks(Head(s), c) PROVE Withdrawn(z, c)
  <2>1. PICK j \in 1 + 1 .. Len(s) : Dels(s[j], c)
    BY <1>1, <1>5 DEF Covered
  <2>2. j \in 2 .. Len(s)
    OBVIOUS
  <2> QED BY <1>2, <2>1, <2>2 DEF Withdrawn
<1> QED BY <1>3, <1>4, <1>5 DEF z

\* Messages to the client that grant nothing, and one that withdraws.
LEMMA ConcatCovered ==
    ASSUME NEW s \in Seq(Msgs), NEW ms \in Seq(Msgs), NEW c
    PROVE  /\ Withdrawn(s, c) => Withdrawn(s \o ms, c)
           /\ Withdrawn(ms, c) => Withdrawn(s \o ms, c)
           /\ Covered(s, c) /\ Covered(ms, c) => Covered(s \o ms, c)
           /\ Withdrawn(ms, c) /\ Covered(ms, c) => Covered(s \o ms, c)
<1> DEFINE z == s \o ms
<1>1. /\ z \in Seq(Msgs) /\ Len(z) = Len(s) + Len(ms) /\ Len(s) \in Nat /\ Len(ms) \in Nat
      /\ \A i \in 1 .. Len(s) : z[i] = s[i]
      /\ \A i \in 1 .. Len(ms) : z[Len(s) + i] = ms[i]
      /\ \A i \in 1 .. Len(s) + Len(ms) :
            i \in 1 .. Len(s) \/ \E k \in 1 .. Len(ms) : i = Len(s) + k
  BY ConcatElements
<1> HIDE DEF z
<1>2. Withdrawn(s, c) => Withdrawn(z, c)
  BY <1>1 DEF Withdrawn
<1>3. ASSUME NEW k \in 1 .. Len(ms)
      PROVE  /\ Len(s) + k \in 1 .. Len(z) /\ z[Len(s) + k] = ms[k]
             /\ \A i \in 1 .. Len(s) : Len(s) + k \in i + 1 .. Len(z)
  BY <1>1
<1>4. Withdrawn(ms, c) => Withdrawn(z, c)
  BY <1>3 DEF Withdrawn
<1>5. ASSUME Covered(ms, c), NEW i \in 1 .. Len(z), i \notin 1 .. Len(s), Acks(z[i], c)
      PROVE  \E j \in i + 1 .. Len(z) : Dels(z[j], c)
  <2>1. PICK k \in 1 .. Len(ms) : i = Len(s) + k
    BY <1>1, <1>5
  <2>2. PICK h \in k + 1 .. Len(ms) : Dels(ms[h], c)
    BY <1>3, <1>5, <2>1 DEF Covered
  <2>3. h \in 1 .. Len(ms) /\ Len(s) + h \in i + 1 .. Len(z)
    BY <1>1, <2>1
  <2> QED BY <1>3, <2>2, <2>3
<1>6. ASSUME Covered(s, c), Covered(ms, c) PROVE Covered(z, c)
  <2> SUFFICES ASSUME NEW i \in 1 .. Len(z), Acks(z[i], c)
               PROVE  \E j \in i + 1 .. Len(z) : Dels(z[j], c)
      BY DEF Covered
  <2>1. CASE i \in 1 .. Len(s)
    <3>1. PICK j \in i + 1 .. Len(s) : Dels(s[j], c)
      BY <1>1, <1>6, <2>1 DEF Covered
    <3>2. j \in 1 .. Len(s) /\ j \in i + 1 .. Len(z)
      BY <1>1, <2>1
    <3> QED BY <1>1, <3>1, <3>2
  <2> QED BY <1>5, <1>6, <2>1
<1>7. ASSUME Withdrawn(ms, c), Covered(ms, c) PROVE Covered(z, c)
  <2> SUFFICES ASSUME NEW i \in 1 .. Len(z), Acks(z[i], c)
               PROVE  \E j \in i + 1 .. Len(z) : Dels(z[j], c)
      BY DEF Covered
  <2>1. CASE i \in 1 .. Len(s)
    <3>1. PICK k \in 1 .. Len(ms) : Dels(ms[k], c)
      BY <1>7 DEF Withdrawn
    <3> QED BY <1>3, <2>1, <3>1
  <2> QED BY <1>5, <1>7, <2>1
<1> QED BY <1>2, <1>4, <1>6, <1>7 DEF z

----------------------------------------------------------------------------
(***************************************************************************)
(* The invariants                                                          *)
(***************************************************************************)

\* a task for which a message of the exchange is
Listens(t) == task[t] \in {"auth", "dead"}

\* the end of the exchange is being passed to its task
Closing == msg.cmd \in Finals /\ \E t \in todo : task[t] = "auth"

\* While no /sasl has overlapped: one task is in an exchange; while there is a
\* request or a reply of it in flight or the server takes part in it, that task
\* reads the replies, or died reading them; and the exchange is in one place
\* only: requested, open, or ended.
SaslInv == ~crossed =>
    /\ \A t, u \in Tasks : Unfinished(t) /\ Unfinished(u) => t = u
    /\ sasl_credentials = "given" => \A t \in Tasks : Unfinished(t) => Manual(t)
    /\ server.sasl > 0 \/ MechIn(toServer) \/ ReplyIn(toClient)
          => \E t \in Tasks : Listens(t)
    /\ OneMech(toServer) /\ FinalLast(toClient)
    /\ MechIn(toServer) => server.sasl = 0 /\ ~FinalIn(toClient) /\ ~Closing
    /\ FinalIn(toClient) => server.sasl = 0 /\ ~Closing
    /\ Closing => server.sasl = 0 /\ ~ReplyIn(toClient)

\* what the client relies on, is about to or will be told to, although the
\* server has withdrawn it, is withdrawn by a message that is still to come
RealInv ==
    \A c \in Caps : c \notin server.enabled =>
        /\ c \in caps_enabled \/ (todo # {} /\ Acks(msg, c)) => Withdrawn(toClient, c)
        /\ Covered(toClient, c)

Inv == Typed /\ Credited /\ SaslInv /\ RealInv

----------------------------------------------------------------------------
(***************************************************************************)
(* What the parts of the client's steps do                                 *)
(***************************************************************************)

\* what is noted of /sasl
Noted == crossed' \in BOOLEAN /\ (~crossed' => ~crossed /\ ~Overlaps)

\* The history tells at least whether this step overlaps.
LEMMA NotedAlways ==
    ASSUME crossed' = (crossed \/ Overlaps)
    PROVE  Noted
<1>1. crossed' \in BOOLEAN
  BY Zenon
<1>2. ~crossed' => ~crossed /\ ~Overlaps
  BY Zenon
<1> QED BY <1>1, <1>2 DEF Noted

\* task t alone moves, to a position in P
Moves(t, P) ==
    /\ task' \in [Tasks -> Positions] /\ task'[t] \in P
    /\ \A u \in Tasks : u # t => task'[u] = task[u]

\* nothing is sent that starts an exchange
Quietly ==
    /\ toServer' \in Seq(Msgs)
    /\ MechIn(toServer') => MechIn(toServer)
    /\ OneMech(toServer) => OneMech(toServer')

\* the credentials of the tasks after t has moved
Credits(t) ==
    /\ cred' \in [Tasks -> 0 .. Len(Creds)]
    /\ \A u \in Tasks : u # t => cred'[u] = cred[u]
    /\ task'[t] \in {"cred", "auth"} => cred'[t] \in 1 .. Len(Creds)

\* The least number that CHOOSE finds.
LEMMA LeastIsChosen ==
    ASSUME NEW T, T \subseteq Nat, T # {}
    PROVE  (CHOOSE j \in T : \A k \in T : j <= k) \in T
<1>1. PICK x \in T : \A y \in T : ~(<<y, x>> \in OpToRel(<, Nat))
  BY NatLessThanWellFounded, WFMin
<1>2. \A y \in T : ~(y < x)
  BY <1>1 DEF OpToRel
<1>3. \A y \in T : x <= y
  BY <1>2
<1> QED BY <1>3

\* Sending one message, or two, that start no exchange.
LEMMA SendQuietly ==
    ASSUME Typed, NEW m \in Msgs, ~IsMech(m), toServer' = Append(toServer, m)
    PROVE  Quietly
<1>1. toServer \in Seq(Msgs) /\ <<m>> \in Seq(Msgs)
  BY DEF Typed
<1>2. toServer' = toServer \o <<m>>
  BY <1>1
<1>3. ~MechIn(<<m>>)
  BY DEF MechIn
<1>4. /\ toServer \o <<m>> \in Seq(Msgs)
      /\ MechIn(toServer \o <<m>>) => MechIn(toServer)
      /\ OneMech(toServer) => OneMech(toServer \o <<m>>)
  BY <1>1, <1>3, ConcatMech, Zenon
<1> QED BY <1>2, <1>4, Zenon DEF Quietly

\* Sending nothing.
LEMMA SilenceIsQuiet == Typed /\ toServer' = toServer => Quietly
BY DEF Typed, Quietly

\* The end of REQ.
LEMMA LeaveEffect ==
    ASSUME Typed, NEW t \in Tasks, Leave(t)
    PROVE  Moves(t, {"pass", "none", "done"}) /\ Quietly
<1>1. Moves(t, {"pass", "none", "done"})
  BY DEF Leave, Moves, Typed, TypeOK, Positions
<1>2. M("CAP", "END", {}) \in Msgs /\ ~IsMech(M("CAP", "END", {}))
  BY Fixed DEF IsMech, M
<1>3. toServer' = toServer \/ toServer' = Append(toServer, M("CAP", "END", {}))
  BY DEF Leave
<1> QED BY <1>1, <1>2, <1>3, SendQuietly, SilenceIsQuiet

\* The loop over the credentials ends or has one to try.
LEMMA TryEffect ==
    ASSUME Typed, NEW t \in Tasks, NEW i \in Nat \ {0}, TryFrom(t, i)
    PROVE  Moves(t, {"pass", "none", "done", "cred"}) /\ Credits(t) /\ Quietly
<1> DEFINE usable == {j \in i .. Len(Creds) : ~Manual(t) /\ HasMech(sasl_mechs, Creds[j])}
           least == CHOOSE j \in usable : \A k \in usable : j <= k
<1>1. task \in [Tasks -> Positions] /\ cred \in [Tasks -> 0 .. Len(Creds)]
  BY DEF Typed, TypeOK
<1>2. CASE usable = {}
  <2>1. Leave(t) /\ cred' = cred
    BY <1>2 DEF TryFrom
  <2>2. Moves(t, {"pass", "none", "done"}) /\ Quietly
    BY <2>1, LeaveEffect
  <2> QED BY <1>1, <2>1, <2>2 DEF Moves, Credits
<1>3. CASE usable # {}
  <2>1. /\ task' = [task EXCEPT ![t] = "cred"]
        /\ cred' = [cred EXCEPT ![t] = least] /\ toServer' = toServer
    BY <1>3 DEF TryFrom
  <2>2. Len(Creds) \in Nat
    BY RegistrationAssumption
  <2>3. usable \subseteq Nat
    BY <2>2
  <2>4. least \in usable
    BY <1>3, <2>3, LeastIsChosen
  <2>5. least \in 1 .. Len(Creds)
    BY <2>2, <2>4
  <2> HIDE DEF least, usable
  <2>6. Moves(t, {"pass", "none", "done", "cred"})
    BY <1>1, <2>1 DEF Moves, Positions
  <2>7. Credits(t)
    BY <1>1, <2>1, <2>2, <2>5 DEF Credits
  <2> QED BY <2>1, <2>6, <2>7, SilenceIsQuiet
<1> QED BY <1>2, <1>3

\* wait_for_ack has returned: whoever starts an exchange takes the credentials.
LEMMA AuthenticateEffect ==
    ASSUME Typed, NEW t \in Tasks, NEW enabled, Authenticate(t, enabled)
    PROVE  /\ Moves(t, {"pass", "none", "done", "cred"}) /\ Credits(t) /\ Quietly
           /\ sasl_credentials' \in {"nil", "given"}
           /\ sasl_credentials' = "given" => sasl_credentials = "given"
           /\ task'[t] = "cred" => sasl_credentials = "given" /\ sasl_credentials' = "nil"
<1>1. CASE "sasl" \in enabled /\ sasl_credentials = "given"
  <2>1. sasl_credentials' = "nil" /\ TryFrom(t, 1)
    BY <1>1 DEF Authenticate
  <2> QED BY <1>1, <2>1, TryEffect
<1>2. CASE ~("sasl" \in enabled /\ sasl_credentials = "given")
  <2>1. Leave(t) /\ cred' = cred /\ sasl_credentials' = sasl_credentials
    BY <1>2 DEF Authenticate
  <2>2. Moves(t, {"pass", "none", "done"}) /\ Quietly
    BY <2>1, LeaveEffect
  <2>3. sasl_credentials \in {"nil", "given"} /\ cred \in [Tasks -> 0 .. Len(Creds)]
    BY DEF Typed, TypeOK
  <2> QED BY <2>1, <2>2, <2>3 DEF Moves, Credits
<1> QED BY <1>1, <1>2

\* send_reqs, in one line or in two.
LEMMA RequestEffect ==
    ASSUME Typed, NEW t \in Tasks, NEW caps \in SUBSET Caps, Request(t, caps)
    PROVE  /\ Moves(t, {"req"}) /\ Quietly
           /\ outstanding' \in [Tasks -> SUBSET Caps]
<1>1. /\ task \in [Tasks -> Positions] /\ outstanding \in [Tasks -> SUBSET Caps]
      /\ toServer \in Seq(Msgs)
  BY DEF Typed, TypeOK
<1>2. Moves(t, {"req"})
  BY <1>1 DEF Request, Moves, Positions
<1>3. outstanding' \in [Tasks -> SUBSET Caps]
  BY <1>1 DEF Request
<1>4. PICK ls \in ReqLines(caps) : toServer' = toServer \o ls
  BY DEF Request
<1>5. \A part \in SUBSET Caps : M("CAP", "REQ", part) \in Msgs /\ ~IsMech(M("CAP", "REQ", part))
  BY Fixed DEF IsMech, M, Subs
<1>6. ls \in Seq(Msgs) /\ ~MechIn(ls)
  <2>1. CASE ls = <<M("CAP", "REQ", caps)>>
    <3>1. PICK m \in Msgs : m = M("CAP", "REQ", caps) /\ ~IsMech(m)
      BY <1>5
    <3>2. ls = <<m>>
      BY <2>1, <3>1
    <3> QED BY <3>1, <3>2 DEF MechIn
  <2>2. ASSUME NEW part \in SUBSET caps,
               ls = <<M("CAP", "REQ", part), M("CAP", "REQ", caps \ part)>>
        PROVE  ls \in Seq(Msgs) /\ ~MechIn(ls)
    <3>1. part \in SUBSET Caps /\ caps \ part \in SUBSET Caps
      OBVIOUS
    <3>2. PICK m \in Msgs : m = M("CAP", "REQ", part) /\ ~IsMech(m)
      BY <1>5, <3>1
    <3>3. PICK k \in Msgs : k = M("CAP", "REQ", caps \ part) /\ ~IsMech(k)
      BY <1>5, <3>1
    <3>4. ls = <<m, k>>
      BY <2>2, <3>2, <3>3
    <3>5. ls \in Seq(Msgs) /\ Len(ls) = 2 /\ ls[1] = m /\ ls[2] = k
      BY <3>4
    <3> QED BY <3>2, <3>3, <3>5 DEF MechIn
  <2> QED BY <2>1, <2>2 DEF ReqLines
<1>7. /\ toServer \o ls \in Seq(Msgs)
      /\ MechIn(toServer \o ls) => MechIn(toServer)
      /\ OneMech(toServer) => OneMech(toServer \o ls)
  BY <1>1, <1>6, ConcatMech, Zenon
<1>8. Quietly
  BY <1>4, <1>7, Zenon DEF Quietly
<1> QED BY <1>2, <1>3, <1>8

\* A step of one task keeps the exchange in one place, if a reader leaves only
\* when the end of the exchange is passed to it, and a task enters only with
\* the credentials, or by /sasl.
LEMMA SaslMove ==
    ASSUME Typed, SaslInv, Noted, NEW t \in Tasks, Moves(t, Positions), Quietly,
           server' = server, toClient' = toClient, msg' = msg, todo' \subseteq todo,
           Listens(t) /\ ~Listens(t)' => Closing,
           task'[t] = "auth" => task[t] = "auth",
           task'[t] = "dead" => Listens(t),
           task'[t] = "cred" => \/ Unfinished(t) \/ Manual(t)
                                \/ sasl_credentials = "given" /\ sasl_credentials' = "nil",
           sasl_credentials' = "given" => sasl_credentials = "given"
    PROVE  SaslInv'
<1> SUFFICES ASSUME ~crossed' PROVE SaslInv'
    BY DEF SaslInv
<1>0. ~crossed /\ ~Overlaps
  BY DEF Noted
<1>1. todo \subseteq Tasks
  BY DEF Typed, TypeOK
<1>2. \A u \in Tasks : u # t => /\ task'[u] = task[u]
                               /\ (Unfinished(u)' <=> Unfinished(u)) /\ (Listens(u)' <=> Listens(u))
  BY DEF Moves, Unfinished, Listens
<1>3. Closing' => Closing
  BY <1>1, <1>2 DEF Closing
<1>4. Unfinished(t)' /\ ~Unfinished(t)
          => /\ task'[t] = "cred"
             /\ Manual(t) \/ (sasl_credentials = "given" /\ sasl_credentials' = "nil")
  BY DEF Unfinished, Listens
<1>5. ASSUME NEW u \in Tasks, Unfinished(u)', Unfinished(t)', u # t
      PROVE  FALSE
  <2>1. Unfinished(u)
    BY <1>2, <1>5
  <2>2. ~Unfinished(t)
    BY <1>0, <1>5, <2>1 DEF SaslInv
  <2>3. task'[t] = "cred" /\ ~Manual(t) /\ ~Manual(u)
    BY <1>0, <1>4, <1>5, <2>1, <2>2 DEF Overlaps
  <2> QED BY <1>0, <1>4, <1>5, <2>1, <2>2, <2>3 DEF SaslInv
<1>6. (\A u, v \in Tasks : Unfinished(u) /\ Unfinished(v) => u = v)'
  <2> SUFFICES ASSUME NEW u \in Tasks, NEW v \in Tasks, Unfinished(u)', Unfinished(v)', u # v
               PROVE  FALSE
      OBVIOUS
  <2>1. u # t /\ v # t
    BY <1>5
  <2> QED BY <1>0, <1>2, <2>1 DEF SaslInv
<1>7. (sasl_credentials = "given" => \A u \in Tasks : Unfinished(u) => Manual(u))'
  <2> SUFFICES ASSUME sasl_credentials' = "given", NEW u \in Tasks, Unfinished(u)'
               PROVE  Manual(u)
      BY DEF Manual
  <2>1. CASE Unfinished(u)
    BY <1>0, <2>1 DEF SaslInv
  <2>2. CASE ~Unfinished(u)
    BY <1>2, <1>4, <2>2
  <2> QED BY <2>1, <2>2
<1>8. (server.sasl > 0 \/ MechIn(toServer) \/ ReplyIn(toClient)
          => \E u \in Tasks : Listens(u))'
  <2> SUFFICES ASSUME server.sasl > 0 \/ MechIn(toServer) \/ ReplyIn(toClient)
               PROVE  \E u \in Tasks : Listens(u)'
      BY DEF Quietly
  <2>1. ~Closing
    BY <1>0 DEF SaslInv
  <2>2. PICK u \in Tasks : Listens(u)
    BY <1>0 DEF SaslInv
  <2> QED BY <1>2, <2>1, <2>2
<1>9. (OneMech(toServer) /\ FinalLast(toClient))'
  BY <1>0 DEF SaslInv, Quietly
<1>10. (MechIn(toServer) => server.sasl = 0 /\ ~FinalIn(toClient) /\ ~Closing)'
  BY <1>0, <1>3 DEF SaslInv, Quietly
<1>11. /\ (FinalIn(toClient) => server.sasl = 0 /\ ~Closing)'
       /\ (Closing => server.sasl = 0 /\ ~ReplyIn(toClient))'
  BY <1>0, <1>3 DEF SaslInv
<1> QED BY <1>6, <1>7, <1>8, <1>9, <1>10, <1>11 DEF SaslInv

\* A step of the client relies only on what it did, or on what the message
\* being dispatched grants.
LEMMA RealClient ==
    ASSUME RealInv, server' = server, toClient' = toClient, msg' = msg, todo' \subseteq todo,
           \A c \in Caps : c \in caps_enabled' =>
                c \in caps_enabled \/ (todo # {} /\ Acks(msg, c))
    PROVE  RealInv'
<1> SUFFICES ASSUME NEW c \in Caps, c \notin server.enabled
             PROVE  /\ c \in caps_enabled' \/ (todo' # {} /\ Acks(msg, c))
                            => Withdrawn(toClient, c)
                    /\ Covered(toClient, c)
    BY DEF RealInv
<1>1. /\ c \in caps_enabled \/ (todo # {} /\ Acks(msg, c)) => Withdrawn(toClient, c)
      /\ Covered(toClient, c)
  BY DEF RealInv
<1> QED BY <1>1

\* The tasks in an exchange keep their credentials.
LEMMA CreditedMove ==
    ASSUME Typed, Credited, NEW t \in Tasks, Moves(t, Positions), Credits(t)
    PROVE  Credited'
BY DEF Credited, Moves, Credits

----------------------------------------------------------------------------
(***************************************************************************)
(* The steps of the client                                                 *)
(***************************************************************************)

\* The loop of LS.
LEMMA StepLS ==
    ASSUME Inv, Noted, NEW t \in todo, todo' = todo \ {t}, OnLS(t),
           UNCHANGED <<msg, toClient, server>>
    PROVE  Inv'
<1> USE RegistrationAssumption
<1>1. Typed /\ Credited /\ SaslInv /\ RealInv /\ t \in Tasks
  BY DEF Inv, Typed, TypeOK
<1>2. /\ task \in [Tasks -> Positions] /\ outstanding \in [Tasks -> SUBSET Caps]
      /\ caps_available \subseteq Caps /\ msg \in Msgs /\ msg.arg \subseteq Caps
  BY <1>1 DEF Typed, TypeOK, Msgs
<1>3. /\ task[t] = "ls" /\ cred' = cred /\ impl' = impl /\ outcome' = outcome
      /\ caps_enabled' = caps_enabled /\ sasl_credentials' = sasl_credentials
      /\ phase' = phase
  BY DEF OnLS
<1>4. /\ Moves(t, {"ls", "req", "pass", "none", "done"}) /\ Quietly
      /\ outstanding' \in [Tasks -> SUBSET Caps] /\ caps_available' \subseteq Caps
  <2>1. CASE msg.cmd = "CAP" /\ msg.sub \in {"LS*", "LS"}
    <3> DEFINE req == (caps_available \cup msg.arg) \cap Wanted
    <3>1. /\ caps_available' = caps_available \cup msg.arg
          /\ IF msg.sub = "LS*" THEN UNCHANGED <<task, outstanding, toServer>>
             ELSE IF req # {} THEN Request(t, req)
             ELSE Leave(t) /\ UNCHANGED outstanding
      BY <2>1 DEF OnLS
    <3>2. req \in SUBSET Caps
      BY <1>2
    <3> HIDE DEF req
    <3>3. CASE UNCHANGED <<task, outstanding, toServer>>
      BY <1>1, <1>2, <1>3, <3>1, <3>3, SilenceIsQuiet DEF Moves
    <3>4. CASE Request(t, req)
      BY <1>1, <1>2, <3>1, <3>2, <3>4, RequestEffect DEF Moves
    <3>5. CASE Leave(t) /\ UNCHANGED outstanding
      BY <1>1, <1>2, <3>1, <3>5, LeaveEffect DEF Moves
    <3> QED BY <3>1, <3>3, <3>4, <3>5
  <2>2. CASE msg.cmd = "001"
    <3>1. task' = [task EXCEPT ![t] = "pass"] /\ UNCHANGED <<outstanding, toServer, caps_available>>
      BY <2>2 DEF OnLS
    <3> QED BY <1>1, <1>2, <3>1, SilenceIsQuiet DEF Moves, Positions
  <2>3. CASE ~(msg.cmd = "CAP" /\ msg.sub \in {"LS*", "LS"}) /\ msg.cmd # "001"
    <3>1. UNCHANGED <<task, outstanding, toServer, caps_available>>
      BY <2>3 DEF OnLS
    <3> QED BY <1>1, <1>2, <1>3, <3>1, SilenceIsQuiet DEF Moves
  <2> QED BY <2>1, <2>2, <2>3
<1>5. Moves(t, Positions) /\ task'[t] \notin {"cred", "auth", "dead"}
  BY <1>4 DEF Moves, Positions
<1>6. Typed'
  <2>1. TypeOK'
    BY <1>1, <1>3, <1>4 DEF Typed, TypeOK, Noted, Moves
  <2> QED BY <1>1, <1>4, <2>1 DEF Typed, Quietly
<1>7. Credited'
  BY <1>1, <1>3, <1>5 DEF Credited, Moves
<1>8. SaslInv'
  BY <1>1, <1>3, <1>4, <1>5, SaslMove DEF Listens
<1>9. RealInv'
  BY <1>1, <1>3, RealClient
<1> QED BY <1>6, <1>7, <1>8, <1>9 DEF Inv

\* The loop of wait_for_ack.
LEMMA StepAck ==
    ASSUME Inv, Noted, NEW t \in todo, todo' = todo \ {t}, OnAck(t),
           UNCHANGED <<msg, toClient, server>>
    PROVE  Inv'
<1>1. Typed /\ Credited /\ SaslInv /\ RealInv /\ t \in Tasks
  BY DEF Inv, Typed, TypeOK
<1>2. /\ task \in [Tasks -> Positions] /\ outstanding \in [Tasks -> SUBSET Caps]
      /\ cred \in [Tasks -> 0 .. Len(Creds)] /\ sasl_credentials \in {"nil", "given"}
      /\ caps_enabled \subseteq Caps /\ msg \in Msgs /\ msg.arg \subseteq Caps
  BY <1>1 DEF Typed, TypeOK, Msgs
<1>3. /\ task[t] = "req" /\ impl' = impl /\ outcome' = outcome
      /\ caps_available' = caps_available /\ phase' = phase
  BY DEF OnAck
<1> DEFINE left == IF msg.sub \in {"ACK", "NAK"} THEN outstanding[t] \ msg.arg
                   ELSE outstanding[t]
<1>4. /\ outstanding' = [outstanding EXCEPT ![t] = left]
      /\ caps_enabled' = IF msg.sub = "ACK" THEN caps_enabled \cup msg.arg ELSE caps_enabled
      /\ IF left = {} THEN Authenticate(t, caps_enabled')
         ELSE UNCHANGED <<task, cred, sasl_credentials, toServer>>
  BY DEF OnAck
<1>5. left \in SUBSET Caps
  BY <1>1, <1>2
<1> HIDE DEF left
<1>6. outstanding' \in [Tasks -> SUBSET Caps]
  BY <1>1, <1>2, <1>4, <1>5
<1>7. /\ caps_enabled' \subseteq Caps
      /\ \A c \in Caps : c \in caps_enabled' =>
            c \in caps_enabled \/ (todo # {} /\ Acks(msg, c))
  BY <1>2, <1>4 DEF Acks
<1>8. /\ Moves(t, {"req", "pass", "none", "done", "cred"}) /\ Quietly /\ Credits(t)
      /\ sasl_credentials' \in {"nil", "given"}
      /\ sasl_credentials' = "given" => sasl_credentials = "given"
      /\ task'[t] = "cred" => sasl_credentials = "given" /\ sasl_credentials' = "nil"
  <2>1. CASE Authenticate(t, caps_enabled')
    <3>1. PICK e : e = caps_enabled'
      OBVIOUS
    <3>2. Authenticate(t, e)
      BY <2>1, <3>1
    <3> QED BY <1>1, <3>2, AuthenticateEffect DEF Moves
  <2>2. CASE UNCHANGED <<task, cred, sasl_credentials, toServer>>
    BY <1>1, <1>2, <1>3, <2>2, SilenceIsQuiet DEF Moves, Credits
  <2> QED BY <1>4, <2>1, <2>2
<1>9. Moves(t, Positions) /\ task'[t] \notin {"auth", "dead"}
  BY <1>8 DEF Moves, Positions
<1>10. Typed'
  <2>1. TypeOK'
    BY <1>1, <1>3, <1>6, <1>7, <1>8 DEF Typed, TypeOK, Noted, Moves, Credits
  <2> QED BY <1>1, <1>8, <2>1 DEF Typed, Quietly
<1>11. Credited'
  BY <1>1, <1>8, <1>9, CreditedMove
<1>12. SaslInv'
  BY <1>1, <1>3, <1>8, <1>9, SaslMove DEF Listens
<1>13. RealInv'
  BY <1>1, <1>7, RealClient
<1> QED BY <1>10, <1>11, <1>12, <1>13 DEF Inv

\* A challenge: the task answers and goes on reading.
LEMMA StepChallenge ==
    ASSUME Inv, Noted, NEW t \in todo, todo' = todo \ {t}, OnChallenge(t),
           UNCHANGED <<msg, toClient, server>>
    PROVE  Inv'
<1>1. Typed /\ Credited /\ SaslInv /\ RealInv /\ t \in Tasks
  BY DEF Inv, Typed, TypeOK
<1>2. /\ task \in [Tasks -> Positions] /\ impl \in [Tasks -> 0 .. 3]
      /\ outcome \in [Tasks -> BOOLEAN]
  BY <1>1 DEF Typed, TypeOK
<1>3. /\ task[t] = "auth" /\ outstanding' = outstanding /\ cred' = cred
      /\ UNCHANGED irc
      /\ task' = task \/ task' = [task EXCEPT ![t] = "dead"]
  BY DEF OnChallenge
<1>4. impl' \in [Tasks -> 0 .. 3]
  <2>1. impl[t] \in 0 .. 3
    BY <1>1, <1>2
  <2>2. impl' = impl \/ \E k \in 0 .. 3 : impl' = [impl EXCEPT ![t] = k]
    BY <2>1 DEF OnChallenge
  <2> QED BY <1>2, <2>2
<1>5. outcome' \in [Tasks -> BOOLEAN]
  <2>1. outcome' = outcome \/ outcome' = [outcome EXCEPT ![t] = FALSE]
    BY DEF OnChallenge
  <2> QED BY <1>1, <1>2, <2>1, Zenon
<1>6. Quietly
  <2>1. \/ toServer' = toServer
        \/ toServer' = Append(toServer, M("AUTHENTICATE", "data", {}))
        \/ toServer' = Append(toServer, M("AUTHENTICATE", "*", {}))
    BY DEF OnChallenge
  <2>2. ~IsMech(M("AUTHENTICATE", "data", {})) /\ ~IsMech(M("AUTHENTICATE", "*", {}))
    BY DEF M, IsMech
  <2> QED BY <1>1, <2>1, <2>2, Fixed, SendQuietly, SilenceIsQuiet
<1>7. Moves(t, Positions) /\ task'[t] \in {"auth", "dead"}
  BY <1>1, <1>2, <1>3 DEF Moves, Positions
<1>8. Typed'
  <2>1. TypeOK'
    BY <1>1, <1>3, <1>4, <1>5, <1>7 DEF Typed, TypeOK, irc, Noted, Moves
  <2> QED BY <1>1, <1>6, <2>1 DEF Typed, Quietly
<1>9. Credited'
  BY <1>1, <1>3, <1>7 DEF Credited, Moves
<1>10. SaslInv'
  BY <1>1, <1>3, <1>6, <1>7, SaslMove DEF irc, Listens
<1>11. RealInv'
  BY <1>1, <1>3, RealClient DEF irc
<1> QED BY <1>8, <1>9, <1>10, <1>11 DEF Inv

\* The exchange ends; the task leaves or has another credential to try.
LEMMA StepSaslEnd ==
    ASSUME Inv, Noted, NEW t \in todo, todo' = todo \ {t}, OnSaslEnd(t),
           UNCHANGED <<msg, toClient, server>>
    PROVE  Inv'
<1>1. Typed /\ Credited /\ SaslInv /\ RealInv /\ t \in Tasks
  BY DEF Inv, Typed, TypeOK
<1>2. /\ task \in [Tasks -> Positions] /\ cred \in [Tasks -> 0 .. Len(Creds)]
      /\ impl \in [Tasks -> 0 .. 3] /\ outcome \in [Tasks -> BOOLEAN]
      /\ Len(Creds) \in Nat
  BY <1>1, RegistrationAssumption DEF Typed, TypeOK
<1>3. /\ task[t] = "auth" /\ msg.cmd \in Finals
      /\ outstanding' = outstanding /\ UNCHANGED irc
      /\ impl' = [impl EXCEPT ![t] = 0] /\ outcome' = [outcome EXCEPT ![t] = TRUE]
  BY DEF OnSaslEnd, Finals
<1>4. Closing /\ Unfinished(t)
  BY <1>3 DEF Closing, Unfinished
<1>12. impl' \in [Tasks -> 0 .. 3] /\ outcome' \in [Tasks -> BOOLEAN]
  <2>1. impl' \in [Tasks -> 0 .. 3]
    <3>1. impl' = [impl EXCEPT ![t] = 0] /\ 0 \in 0 .. 3
      BY <1>3
    <3> QED BY <1>2, <3>1
  <2>2. outcome' \in [Tasks -> BOOLEAN]
    <3>1. outcome' = [outcome EXCEPT ![t] = TRUE]
      BY <1>3
    <3> QED BY <1>2, <3>1, Zenon
  <2> QED BY <2>1, <2>2
<1>5. Moves(t, {"pass", "none", "done", "cred"}) /\ Credits(t) /\ Quietly
  <2>1. CASE Leave(t) /\ UNCHANGED cred
    <3>1. Moves(t, {"pass", "none", "done"}) /\ Quietly
      BY <1>1, <2>1, LeaveEffect
    <3> QED BY <1>2, <2>1, <3>1 DEF Moves, Credits
  <2>2. CASE TryFrom(t, cred[t] + 1)
    <3>1. PICK i \in Nat \ {0} : i = cred[t] + 1
      BY <1>1, <1>2
    <3>2. TryFrom(t, i)
      BY <2>2, <3>1
    <3> QED BY <1>1, <3>2, TryEffect
  <2> QED BY <2>1, <2>2 DEF OnSaslEnd
<1>6. Moves(t, Positions) /\ task'[t] \notin {"auth", "dead"}
  BY <1>5 DEF Moves, Positions
<1>7. Typed'
  <2>1. TypeOK'
    BY <1>1, <1>3, <1>5, <1>12 DEF Typed, TypeOK, Noted, Moves, Credits, irc
  <2> QED BY <1>1, <1>5, <2>1 DEF Typed, Quietly
<1>8. Credited'
  BY <1>1, <1>5, <1>6, CreditedMove
<1>9. SaslInv'
  BY <1>1, <1>3, <1>4, <1>5, <1>6, SaslMove DEF irc, Listens
<1>10. RealInv'
  BY <1>1, <1>3, RealClient DEF irc
<1> QED BY <1>7, <1>8, <1>9, <1>10 DEF Inv

\* RPL_WELCOME and the end of the MOTD, and the server's password.
LEMMA StepWelcome ==
    ASSUME Inv, Noted, NEW t \in Tasks, todo' \subseteq todo,
           UNCHANGED <<msg, toClient, server>>,
           \/ OnWelcome(t)
           \/ t = 0 /\ Password
    PROVE  Inv'
<1>1. Typed /\ Credited /\ SaslInv /\ RealInv
  BY DEF Inv
<1>2. task \in [Tasks -> Positions] /\ toServer \in Seq(Msgs)
  BY <1>1 DEF Typed, TypeOK
<1>3. /\ task[t] \in {"pass", "welcome", "motd"}
      /\ Moves(t, {"welcome", "motd", "done"})
      /\ outstanding' = outstanding /\ cred' = cred /\ impl' = impl /\ outcome' = outcome
      /\ caps_available' = caps_available /\ caps_enabled' = caps_enabled
      /\ sasl_credentials' = sasl_credentials /\ phase' \in {"registration", "connected"}
  BY <1>1, <1>2 DEF OnWelcome, Password, irc, Moves, Positions, Typed, TypeOK
<1>4. Quietly
  <2>1. CASE OnWelcome(t)
    BY <1>1, <2>1, SilenceIsQuiet DEF OnWelcome
  <2>2. CASE Password
    <3> DEFINE m == M("NICK", "", {})
               k == M("USER", "", {})
               ms == <<m, k>>
    <3>1. m \in Msgs /\ k \in Msgs /\ ~IsMech(m) /\ ~IsMech(k)
      BY Fixed DEF M, IsMech
    <3>2. toServer' = toServer \o ms
      BY <2>2 DEF Password
    <3> HIDE DEF m, k
    <3>3. ms \in Seq(Msgs) /\ Len(ms) = 2 /\ ms[1] = m /\ ms[2] = k
      BY <3>1
    <3> HIDE DEF ms
    <3>4. ~MechIn(ms)
      BY <3>1, <3>3 DEF MechIn
    <3>5. /\ toServer \o ms \in Seq(Msgs)
          /\ MechIn(toServer \o ms) => MechIn(toServer)
          /\ OneMech(toServer) => OneMech(toServer \o ms)
      BY <1>2, <3>3, <3>4, ConcatMech, Zenon
    <3> QED BY <3>2, <3>5, Zenon DEF Quietly
  <2> QED BY <2>1, <2>2
<1>5. Moves(t, Positions) /\ task'[t] \notin {"cred", "auth", "dead"}
  BY <1>3 DEF Moves, Positions
<1>6. Typed'
  <2>1. TypeOK'
    BY <1>1, <1>3 DEF Typed, TypeOK, Noted, Moves
  <2> QED BY <1>1, <1>4, <2>1 DEF Typed, Quietly
<1>7. Credited'
  BY <1>1, <1>3, <1>5 DEF Credited, Moves
<1>8. SaslInv'
  BY <1>1, <1>3, <1>4, <1>5, SaslMove DEF Listens
<1>9. RealInv'
  BY <1>1, <1>3, RealClient
<1> QED BY <1>6, <1>7, <1>8, <1>9 DEF Inv

\* A task is resumed with the message.
LEMMA StepResume ==
    ASSUME Inv, Noted, NEW t \in Tasks, Resume(t)
    PROVE  Inv'
<1>1. t \in todo /\ todo' = todo \ {t} /\ UNCHANGED <<msg, toClient, server>>
  BY DEF Resume
<1>2. OnLS(t) \/ OnAck(t) \/ OnChallenge(t) \/ OnSaslEnd(t) \/ OnWelcome(t)
  BY DEF Resume
<1> QED BY <1>1, <1>2, StepLS, StepAck, StepChallenge, StepSaslEnd, StepWelcome

\* The password program of the server has ended.
LEMMA StepPassword ==
    ASSUME Inv, Noted, Password
    PROVE  Inv'
<1>1. 0 \in Tasks
  BY RegistrationAssumption DEF Tasks
<1>2. todo' \subseteq todo /\ UNCHANGED <<msg, toClient, server>>
  BY DEF Password
<1> QED BY <1>1, <1>2, StepWelcome

\* A credential has its password, or not: the exchange begins when there is no
\* trace of an earlier one.
LEMMA StepCredential ==
    ASSUME Inv, Noted, NEW t \in Tasks, NEW ok \in BOOLEAN, Credential(t, ok)
    PROVE  Inv'
<1>1. Typed /\ Credited /\ SaslInv /\ RealInv
  BY DEF Inv
<1>2. /\ task \in [Tasks -> Positions] /\ cred \in [Tasks -> 0 .. Len(Creds)]
      /\ impl \in [Tasks -> 0 .. 3] /\ outcome \in [Tasks -> BOOLEAN]
      /\ Len(Creds) \in Nat /\ Creds \in Seq({"PLAIN", "SCRAM"}) /\ toServer \in Seq(Msgs)
  BY <1>1, RegistrationAssumption DEF Typed, TypeOK
<1>3. /\ task[t] = "cred" /\ todo = {} /\ outstanding' = outstanding
      /\ UNCHANGED irc /\ msg' = msg /\ todo' = todo /\ toClient' = toClient
      /\ server' = server
  BY DEF Credential
<1>4. Unfinished(t) /\ cred[t] \in 1 .. Len(Creds)
  BY <1>1, <1>3 DEF Unfinished, Credited
<1>5. CASE ~ok
  <2>1. TryFrom(t, cred[t] + 1) /\ impl' = impl /\ outcome' = outcome
    BY <1>5 DEF Credential
  <2>2. PICK i \in Nat \ {0} : i = cred[t] + 1
    BY <1>2, <1>4
  <2>3. TryFrom(t, i)
    BY <2>1, <2>2
  <2>4. Moves(t, {"pass", "none", "done", "cred"}) /\ Credits(t) /\ Quietly
    BY <1>1, <2>3, TryEffect
  <2>5. Moves(t, Positions) /\ task'[t] \notin {"auth", "dead"}
    BY <2>4 DEF Moves, Positions
  <2>6. TypeOK'
    BY <1>1, <1>3, <2>1, <2>4 DEF Typed, TypeOK, Noted, Moves, Credits, irc
  <2>7. Typed'
    BY <1>1, <1>3, <2>4, <2>6 DEF Typed, Quietly
  <2>8. Credited'
    BY <1>1, <2>4, <2>5, CreditedMove
  <2>9. SaslInv'
    BY <1>1, <1>3, <1>4, <2>4, <2>5, SaslMove DEF irc, Listens
  <2>10. RealInv'
    BY <1>1, <1>3, RealClient DEF irc
  <2> QED BY <2>7, <2>8, <2>9, <2>10 DEF Inv
<1>6. CASE ok
  <2> DEFINE mech == Creds[cred[t]]
             m == M("AUTHENTICATE", mech, {})
  <2>1. /\ task' = [task EXCEPT ![t] = "auth"]
        /\ impl' = [impl EXCEPT ![t] = Rounds(mech)]
        /\ outcome' = [outcome EXCEPT ![t] = TRUE]
        /\ toServer' = Append(toServer, m) /\ cred' = cred
    BY <1>6 DEF Credential
  <2>2. mech \in {"PLAIN", "SCRAM"}
    BY <1>2, <1>4
  <2>3. m \in Msgs /\ Rounds(mech) \in 0 .. 3
    <3> HIDE DEF mech
    <3>1. Rounds(mech) \in 0 .. 3
      BY DEF Rounds
    <3>2. m \in Msgs
      BY <2>2 DEF M, Msgs, Cmds, Subs
    <3> QED BY <3>1, <3>2
  <2> HIDE DEF mech, m
  <2>4. \A u \in Tasks : u # t => task'[u] = task[u]
    BY <1>2, <2>1
  <2>5. task' \in [Tasks -> Positions] /\ task'[t] = "auth"
    BY <1>2, <2>1 DEF Positions
  <2>6. impl' \in [Tasks -> 0 .. 3]
    BY <1>2, <2>1, <2>3
  <2>7. outcome' \in [Tasks -> BOOLEAN]
    BY <1>2, <2>1, Zenon
  <2>8. toServer' = toServer \o <<m>> /\ toServer' \in Seq(Msgs)
    BY <1>2, <2>1, <2>3
  <2>9. TypeOK'
    BY <1>1, <1>3, <2>1, <2>5, <2>6, <2>7 DEF Typed, TypeOK, irc, Noted
  <2>10. Typed'
    BY <1>1, <1>3, <2>8, <2>9 DEF Typed
  <2>11. Credited'
    BY <1>1, <1>4, <2>1, <2>4 DEF Credited
  <2>12. SaslInv'
    <3> SUFFICES ASSUME ~crossed' PROVE SaslInv'
        BY DEF SaslInv
    <3>1. ~crossed
      BY DEF Noted
    <3>2. \A u \in Tasks : Unfinished(u) => u = t
      BY <1>1, <1>4, <3>1 DEF SaslInv
    <3>3. \A u \in Tasks : ~Listens(u)
      BY <1>3, <3>2 DEF Unfinished, Listens
    <3>4. server.sasl \in Nat
      BY <1>1 DEF Typed, Servers
    <3>5. ~(server.sasl > 0) /\ ~MechIn(toServer) /\ ~ReplyIn(toClient) /\ FinalLast(toClient)
      BY <1>1, <3>1, <3>3 DEF SaslInv
    <3>6. server.sasl = 0
      BY <3>4, <3>5
    <3>7. OneMech(toServer')
      <4>1. OneMech(toServer \o <<m>>)
        BY <1>2, <2>3, <3>5, ConcatNewMech
      <4> QED BY <2>8, <4>1, Zenon
    <3>8. ~Closing'
      BY <1>3 DEF Closing
    <3>9. ~FinalIn(toClient)
      BY <3>5 DEF FinalIn, ReplyIn, Finals, SaslReplies
    <3>10. \A u \in Tasks : Unfinished(u)' => u = t
      BY <2>4, <3>2 DEF Unfinished
    <3>11. (sasl_credentials = "given" => \A u \in Tasks : Unfinished(u) => Manual(u))'
      <4>1. sasl_credentials = "given" => Manual(t)
        BY <1>1, <1>4, <3>1 DEF SaslInv
      <4>2. sasl_credentials' = sasl_credentials
        BY <1>3 DEF irc
      <4> QED BY <3>10, <4>1, <4>2 DEF Manual
    <3>12. Listens(t)'
      BY <2>5 DEF Listens
    <3> QED BY <1>3, <3>5, <3>6, <3>7, <3>8, <3>9, <3>10, <3>11, <3>12 DEF SaslInv
  <2>13. RealInv'
    BY <1>1, <1>3, RealClient DEF irc
  <2> QED BY <2>10, <2>11, <2>12, <2>13 DEF Inv
<1> QED BY <1>5, <1>6

\* The user's /sasl.
LEMMA StepSasl ==
    ASSUME Inv, Noted, NEW t \in Tasks, NEW j \in 1 .. Len(Creds), Sasl(t, j)
    PROVE  Inv'
<1>1. Typed /\ Credited /\ SaslInv /\ RealInv
  BY DEF Inv
<1>2. /\ task \in [Tasks -> Positions] /\ cred \in [Tasks -> 0 .. Len(Creds)]
      /\ Len(Creds) \in Nat
  BY <1>1, RegistrationAssumption DEF Typed, TypeOK
<1>3. /\ task[t] = "none" /\ task' = [task EXCEPT ![t] = "cred"] /\ Manual(t)
      /\ cred' = [cred EXCEPT ![t] = j]
      /\ UNCHANGED <<outstanding, impl, outcome, irc, msg, todo, toServer, toClient, server>>
  BY DEF Sasl
<1>4. Moves(t, Positions) /\ task'[t] = "cred"
  BY <1>2, <1>3 DEF Moves, Positions
<1>5. Credits(t)
  BY <1>2, <1>3 DEF Credits
<1>6. Quietly
  BY <1>1, <1>3, SilenceIsQuiet
<1>7. Typed'
  <2>1. TypeOK'
    BY <1>1, <1>3, <1>4, <1>5 DEF Typed, TypeOK, Moves, Credits, irc, Noted
  <2> QED BY <1>1, <1>3, <2>1 DEF Typed
<1>8. Credited'
  BY <1>1, <1>4, <1>5, CreditedMove
<1>9. SaslInv'
  BY <1>1, <1>3, <1>4, <1>6, SaslMove DEF irc, Listens
<1>10. RealInv'
  BY <1>1, <1>3, RealClient DEF irc
<1> QED BY <1>7, <1>8, <1>9, <1>10 DEF Inv

\* What irc_handlers do to a task when a message is taken.
LEMMA ReceiveEffect ==
    ASSUME Typed, Receive
    PROVE  /\ task' \in [Tasks -> Positions]
           /\ \A u \in Tasks : \/ task'[u] = task[u]
                               \/ task[u] = "none" /\ task'[u] = "req"
           /\ outstanding' \in [Tasks -> SUBSET Caps] /\ Quietly
           /\ caps_available' \subseteq Caps
           /\ caps_enabled' \subseteq caps_enabled
           /\ \A c : Dels(Head(toClient), c) => c \notin caps_enabled'
           /\ sasl_credentials' = sasl_credentials /\ phase' = phase
<1> DEFINE m == Head(toClient)
           new == {c \in m.arg \cap Wanted : c \notin caps_enabled}
           free == {t \in 1 .. MaxChanges : task[t] = "none"}
<1>1. /\ task \in [Tasks -> Positions] /\ outstanding \in [Tasks -> SUBSET Caps]
      /\ caps_available \subseteq Caps /\ caps_enabled \subseteq Caps
      /\ m \in Msgs /\ m.arg \subseteq Caps /\ new \in SUBSET Caps
  <2>1. toClient \in Seq(Msgs) /\ toClient # << >>
    BY DEF Typed, Receive
  <2>2. m \in Msgs
    BY <2>1, TailElements
  <2>3. m.arg \subseteq Caps
    BY <2>2 DEF Msgs
  <2> QED BY <2>2, <2>3 DEF Typed, TypeOK
<1>2. CASE /\ m.cmd = "CAP" /\ m.sub = "NEW"
           /\ caps_available' = caps_available \cup m.arg
           /\ IF new = {} THEN UNCHANGED <<task, outstanding, toServer>>
              ELSE \E t \in free : (\A u \in free : t <= u) /\ Request(t, new)
           /\ UNCHANGED <<caps_enabled, sasl_credentials, phase>>
  <2>1. \A c : ~Dels(m, c)
    BY <1>2 DEF Dels
  <2>2. CASE UNCHANGED <<task, outstanding, toServer>>
    BY <1>1, <1>2, <2>1, <2>2, SilenceIsQuiet
  <2>3. CASE \E t \in free : Request(t, new)
    <3>1. PICK t \in free : Request(t, new)
      BY <2>3
    <3>2. t \in Tasks /\ task[t] = "none"
      BY RegistrationAssumption DEF Tasks
    <3>3. Moves(t, {"req"}) /\ Quietly /\ outstanding' \in [Tasks -> SUBSET Caps]
      BY <1>1, <3>1, <3>2, RequestEffect
    <3> QED BY <1>1, <1>2, <2>1, <3>2, <3>3 DEF Moves
  <2> QED BY <1>2, <2>2, <2>3
<1>3. CASE /\ m.cmd = "CAP" /\ m.sub = "DEL"
           /\ caps_available' = caps_available \ m.arg
           /\ caps_enabled' = caps_enabled \ m.arg
           /\ UNCHANGED <<task, outstanding, toServer, sasl_credentials, phase>>
  <2>1. \A c : Dels(m, c) => c \notin caps_enabled'
    BY <1>3 DEF Dels
  <2> QED BY <1>1, <1>3, <2>1, SilenceIsQuiet
<1>4. CASE /\ m.cmd = "433" /\ UNCHANGED <<task, outstanding, irc>>
           /\ toServer' = IF phase = "registration"
                          THEN Append(toServer, M("NICK", "", {})) ELSE toServer
  <2>1. \A c : ~Dels(m, c)
    BY <1>4 DEF Dels
  <2>2. M("NICK", "", {}) \in Msgs /\ ~IsMech(M("NICK", "", {}))
    BY Fixed DEF M, IsMech
  <2>3. Quietly
    BY <1>4, <2>2, SendQuietly, SilenceIsQuiet
  <2> QED BY <1>1, <1>4, <2>1, <2>3 DEF irc
<1>5. CASE /\ m.cmd = "CAP" => m.sub \notin {"NEW", "DEL"}
           /\ UNCHANGED <<task, outstanding, toServer, irc>>
  <2>1. \A c : ~Dels(m, c)
    BY <1>5 DEF Dels
  <2> QED BY <1>1, <1>5, <2>1, SilenceIsQuiet DEF irc
<1> QED BY <1>2, <1>3, <1>4, <1>5 DEF Receive

\* A message is taken from the connection.
LEMMA StepReceive ==
    ASSUME Inv, Noted, Receive
    PROVE  Inv'
<1>1. Typed /\ Credited /\ SaslInv /\ RealInv
  BY DEF Inv
<1>2. /\ todo = {} /\ toClient # << >> /\ msg' = Head(toClient) /\ toClient' = Tail(toClient)
      /\ todo' \subseteq Tasks
      /\ cred' = cred /\ impl' = impl /\ outcome' = outcome /\ server' = server
  BY DEF Receive
<1>3. /\ task' \in [Tasks -> Positions]
      /\ \A u \in Tasks : \/ task'[u] = task[u]
                          \/ task[u] = "none" /\ task'[u] = "req"
      /\ outstanding' \in [Tasks -> SUBSET Caps] /\ Quietly
      /\ caps_available' \subseteq Caps
      /\ caps_enabled' \subseteq caps_enabled
      /\ \A c : Dels(Head(toClient), c) => c \notin caps_enabled'
      /\ sasl_credentials' = sasl_credentials /\ phase' = phase
  BY <1>1, ReceiveEffect
<1>4. toClient \in Seq(Msgs) /\ Head(toClient) \in Msgs /\ Tail(toClient) \in Seq(Msgs)
  <2>1. toClient \in Seq(Msgs)
    BY <1>1 DEF Typed
  <2> QED BY <1>2, <2>1, TailElements
<1>5. Typed'
  <2>1. TypeOK'
    BY <1>1, <1>2, <1>3 DEF Typed, TypeOK, Noted
  <2> QED BY <1>1, <1>2, <1>3, <1>4, <2>1 DEF Typed, Quietly
<1>6. Credited'
  BY <1>1, <1>2, <1>3 DEF Credited
<1>7. \A u \in Tasks : /\ Listens(u)' <=> Listens(u)
                       /\ Unfinished(u)' <=> Unfinished(u)
  BY <1>3 DEF Unfinished, Listens
<1>8. /\ ReplyIn(toClient') => ReplyIn(toClient)
      /\ FinalIn(toClient') => FinalIn(toClient)
      /\ FinalLast(toClient) => FinalLast(toClient')
      /\ FinalLast(toClient) /\ msg'.cmd \in Finals => FinalIn(toClient) /\ ~ReplyIn(toClient')
  BY <1>2, <1>4, TailReply
<1>10. FinalIn(toClient') => ReplyIn(toClient')
  BY DEF FinalIn, ReplyIn, Finals, SaslReplies
<1>11. SaslInv'
  <2> SUFFICES ASSUME ~crossed' PROVE SaslInv'
      BY DEF SaslInv
  <2>0. ~crossed
    BY DEF Noted
  <2>9. Closing' => FinalIn(toClient) /\ ~ReplyIn(toClient')
    <3>1. FinalLast(toClient)
      BY <1>1, <2>0 DEF SaslInv
    <3> QED BY <1>8, <3>1 DEF Closing
  <2>1. /\ (\A u, v \in Tasks : Unfinished(u) /\ Unfinished(v) => u = v)'
        /\ (sasl_credentials = "given" => \A u \in Tasks : Unfinished(u) => Manual(u))'
    BY <1>1, <1>3, <1>7, <2>0 DEF SaslInv, Manual
  <2>2. (server.sasl > 0 \/ MechIn(toServer) \/ ReplyIn(toClient)
            => \E u \in Tasks : Listens(u))'
    <3> SUFFICES ASSUME server.sasl > 0 \/ MechIn(toServer) \/ ReplyIn(toClient)
                 PROVE  \E u \in Tasks : Listens(u)'
        BY <1>2, <1>3, <1>8 DEF Quietly
    <3>1. PICK u \in Tasks : Listens(u)
      BY <1>1, <2>0 DEF SaslInv
    <3> QED BY <1>7, <3>1
  <2>3. (OneMech(toServer) /\ FinalLast(toClient))'
    BY <1>1, <1>3, <1>8, <2>0 DEF SaslInv, Quietly
  <2>4. (MechIn(toServer) => server.sasl = 0 /\ ~FinalIn(toClient) /\ ~Closing)'
    BY <1>1, <1>2, <1>3, <1>8, <2>0, <2>9 DEF SaslInv, Quietly
  <2>5. (FinalIn(toClient) => server.sasl = 0 /\ ~Closing)'
    BY <1>1, <1>2, <1>8, <1>10, <2>0, <2>9 DEF SaslInv
  <2>6. (Closing => server.sasl = 0 /\ ~ReplyIn(toClient))'
    BY <1>1, <1>2, <2>0, <2>9 DEF SaslInv
  <2> QED BY <2>1, <2>2, <2>3, <2>4, <2>5, <2>6 DEF SaslInv
<1>12. RealInv'
  <2> SUFFICES ASSUME NEW c \in Caps, c \notin server.enabled
               PROVE  /\ c \in caps_enabled' \/ (todo' # {} /\ Acks(msg', c))
                              => Withdrawn(toClient', c)
                      /\ Covered(toClient', c)
      BY <1>2 DEF RealInv
  <2>1. /\ c \in caps_enabled => Withdrawn(toClient, c)
        /\ Covered(toClient, c)
    BY <1>1 DEF RealInv
  <2>2. /\ Covered(toClient', c)
        /\ Withdrawn(toClient, c) => Dels(msg', c) \/ Withdrawn(toClient', c)
        /\ Acks(msg', c) => Withdrawn(toClient', c)
    BY <1>2, <1>4, <2>1, TailCovered
  <2> QED BY <1>2, <1>3, <2>1, <2>2
<1> QED BY <1>5, <1>6, <1>11, <1>12 DEF Inv

----------------------------------------------------------------------------
(***************************************************************************)
(* The steps of the server                                                 *)
(***************************************************************************)

\* no message of ms is of the exchange, and none grants anything
Plain(ms) ==
    /\ ms \in Seq(Msgs)
    /\ \A i \in 1 .. Len(ms) : ms[i].cmd \notin SaslReplies /\ ms[i].sub # "ACK"

\* What plain messages are not.
LEMMA PlainIs ==
    ASSUME NEW ms, Plain(ms)
    PROVE  ms \in Seq(Msgs) /\ ~ReplyIn(ms) /\ \A c : Covered(ms, c)
BY DEF Plain, ReplyIn, Covered, Acks

\* None, one or two plain messages.
LEMMA PlainNone == Plain(<< >>)
BY DEF Plain

\* See PlainNone.
LEMMA PlainOne ==
    ASSUME NEW m \in Msgs, m.cmd \notin SaslReplies, m.sub # "ACK"
    PROVE  Plain(<<m>>)
<1>1. <<m>> \in Seq(Msgs) /\ Len(<<m>>) = 1 /\ <<m>>[1] = m
  OBVIOUS
<1> QED BY <1>1 DEF Plain

\* See PlainNone.
LEMMA PlainTwo ==
    ASSUME NEW m \in Msgs, NEW k \in Msgs, m.cmd \notin SaslReplies, m.sub # "ACK",
           k.cmd \notin SaslReplies, k.sub # "ACK"
    PROVE  Plain(<<m, k>>)
<1>1. <<m, k>> \in Seq(Msgs) /\ Len(<<m, k>>) = 2 /\ <<m, k>>[1] = m /\ <<m, k>>[2] = k
  OBVIOUS
<1>2. \A i \in 1 .. 2 : i = 1 \/ i = 2
  OBVIOUS
<1> QED BY <1>1, <1>2 DEF Plain

\* One message of the exchange, which grants nothing.
LEMMA OneReply ==
    ASSUME NEW m \in Msgs, m.sub # "ACK"
    PROVE  /\ <<m>> \in Seq(Msgs) /\ FinalLast(<<m>>) /\ \A c : Covered(<<m>>, c)
           /\ FinalIn(<<m>>) => m.cmd \in Finals
<1> DEFINE s == <<m>>
<1>1. s \in Seq(Msgs) /\ Len(s) = 1 /\ s[1] = m
  OBVIOUS
<1> HIDE DEF s
<1>2. FinalLast(s)
  BY <1>1 DEF FinalLast
<1>3. \A c : Covered(s, c)
  BY <1>1 DEF Covered, Acks
<1>4. FinalIn(s) => m.cmd \in Finals
  BY <1>1 DEF FinalIn
<1> QED BY <1>1, <1>2, <1>3, <1>4 DEF s

\* What a step of the server may do: stay out of the exchange, or take it one
\* step further when it is requested or open; and withdraw nothing that the
\* messages do not say.
LEMMA ServerEffect ==
    ASSUME Inv, UNCHANGED <<tasks, irc, msg, todo>>, server' \in Servers,
           NEW ms \in Seq(Msgs), toClient' = toClient \o ms,
           toServer' \in Seq(Msgs), MechIn(toServer') => MechIn(toServer),
           OneMech(toServer) => OneMech(toServer'),
           \/ ~ReplyIn(ms) /\ server'.sasl = server.sasl
           \/ /\ \/ server.sasl > 0
                 \/ MechIn(toServer) /\ (OneMech(toServer) => ~MechIn(toServer'))
              /\ FinalLast(ms) /\ (FinalIn(ms) => server'.sasl = 0),
           \A c \in Caps : Covered(ms, c) \/ c \in server'.enabled,
           \A c \in Caps : c \in server.enabled \ server'.enabled => Withdrawn(ms, c)
    PROVE  Inv'
<1>1. Typed /\ Credited /\ SaslInv /\ RealInv
  BY DEF Inv
<1>2. toClient \in Seq(Msgs) /\ server.sasl \in Nat
  BY <1>1 DEF Typed, Servers
<1>3. /\ toClient \o ms \in Seq(Msgs)
      /\ ~ReplyIn(ms) /\ ReplyIn(toClient \o ms) => ReplyIn(toClient)
      /\ ~FinalIn(ms) /\ FinalIn(toClient \o ms) => FinalIn(toClient)
      /\ ~ReplyIn(ms) /\ FinalLast(toClient) => FinalLast(toClient \o ms)
      /\ ~FinalIn(toClient) /\ FinalLast(ms) => FinalLast(toClient \o ms)
  BY <1>2, ConcatReply, Zenon
<1>4. /\ toClient' \in Seq(Msgs)
      /\ ~ReplyIn(ms) /\ ReplyIn(toClient') => ReplyIn(toClient)
      /\ ~FinalIn(ms) /\ FinalIn(toClient') => FinalIn(toClient)
      /\ ~ReplyIn(ms) /\ FinalLast(toClient) => FinalLast(toClient')
      /\ ~FinalIn(toClient) /\ FinalLast(ms) => FinalLast(toClient')
  BY <1>3, Zenon
<1>5. Typed' /\ Credited'
  <2>1. TypeOK' /\ Credited'
    BY <1>1 DEF Typed, TypeOK, Credited, tasks, irc
  <2>2. msg' \in Msgs
    BY <1>1 DEF Typed
  <2> QED BY <1>4, <2>1, <2>2 DEF Typed
<1>6. /\ task' = task /\ crossed' = crossed /\ (Closing' <=> Closing)
      /\ ~crossed => (\A u, v \in Tasks : Unfinished(u) /\ Unfinished(v) => u = v)'
      /\ ~crossed => (sasl_credentials = "given" => \A u \in Tasks : Unfinished(u) => Manual(u))'
      /\ \A u \in Tasks : Listens(u)' <=> Listens(u)
  BY <1>1 DEF SaslInv, tasks, irc, Closing, Unfinished, Listens, Manual
<1>7. ASSUME ~ReplyIn(ms), server'.sasl = server.sasl
      PROVE  SaslInv'
  <2>1. ~FinalIn(ms)
    BY <1>7 DEF FinalIn, ReplyIn, Finals, SaslReplies
  <2> QED BY <1>1, <1>4, <1>6, <1>7, <2>1 DEF SaslInv
<1>8. ASSUME \/ server.sasl > 0
             \/ MechIn(toServer) /\ (OneMech(toServer) => ~MechIn(toServer')),
             FinalLast(ms), FinalIn(ms) => server'.sasl = 0
      PROVE  SaslInv'
  <2> SUFFICES ASSUME ~crossed PROVE SaslInv'
      BY <1>6 DEF SaslInv
  <2>1. ~FinalIn(toClient) /\ ~Closing /\ \E u \in Tasks : Listens(u)
    BY <1>1, <1>2, <1>8 DEF SaslInv
  <2>2. ~MechIn(toServer')
    BY <1>1, <1>2, <1>8 DEF SaslInv
  <2>3. OneMech(toServer')
    BY <1>1 DEF SaslInv
  <2>4. \E u \in Tasks : Listens(u)'
    BY <1>6, <2>1
  <2> QED BY <1>4, <1>6, <1>8, <2>1, <2>2, <2>3, <2>4 DEF SaslInv
<1>9. SaslInv'
  BY <1>7, <1>8
<1>10. RealInv'
  <2> SUFFICES ASSUME NEW c \in Caps, c \notin server'.enabled
               PROVE  /\ c \in caps_enabled \/ (todo # {} /\ Acks(msg, c))
                              => Withdrawn(toClient', c)
                      /\ Covered(toClient', c)
      BY DEF RealInv, irc
  <2>1. Covered(ms, c)
    OBVIOUS
  <2>2. /\ Withdrawn(toClient, c) => Withdrawn(toClient', c)
        /\ Withdrawn(ms, c) => Withdrawn(toClient', c)
        /\ Covered(toClient, c) => Covered(toClient', c)
        /\ Withdrawn(ms, c) => Covered(toClient', c)
    BY <1>2, <2>1, ConcatCovered, Zenon
  <2>3. CASE c \in server.enabled
    BY <2>2, <2>3
  <2>4. CASE c \notin server.enabled
    BY <1>1, <2>2, <2>4 DEF RealInv
  <2> QED BY <2>3, <2>4
<1> QED BY <1>5, <1>9, <1>10 DEF Inv

\* See ServerEffect: the server stays out of the exchange and withdraws nothing.
LEMMA PlainEffect ==
    ASSUME Inv, UNCHANGED <<tasks, irc, msg, todo>>, server' \in Servers,
           NEW ms, Plain(ms), toClient' = toClient \o ms,
           toServer' \in Seq(Msgs), MechIn(toServer') => MechIn(toServer),
           OneMech(toServer) => OneMech(toServer'),
           server'.sasl = server.sasl, server.enabled \subseteq server'.enabled
    PROVE  Inv'
<1>1. ms \in Seq(Msgs) /\ ~ReplyIn(ms) /\ \A c : Covered(ms, c)
  BY PlainIs
<1>2. \A c \in Caps : Covered(ms, c) \/ c \in server'.enabled
  BY <1>1
<1>3. \A c \in Caps : c \in server.enabled \ server'.enabled => Withdrawn(ms, c)
  OBVIOUS
<1> QED BY <1>1, <1>2, <1>3, ServerEffect

\* See ServerEffect: messages of the exchange, requested or open.
LEMMA RepliesEffect ==
    ASSUME Inv, UNCHANGED <<tasks, irc, msg, todo>>, server' \in Servers,
           NEW ms \in Seq(Msgs), FinalLast(ms), \A c : Covered(ms, c),
           toClient' = toClient \o ms,
           toServer' \in Seq(Msgs), MechIn(toServer') => MechIn(toServer),
           OneMech(toServer) => OneMech(toServer'),
           \/ server.sasl > 0
           \/ MechIn(toServer) /\ (OneMech(toServer) => ~MechIn(toServer')),
           FinalIn(ms) => server'.sasl = 0,
           server'.enabled = server.enabled
    PROVE  Inv'
<1>1. \A c \in Caps : Covered(ms, c) \/ c \in server'.enabled
  OBVIOUS
<1>2. \A c \in Caps : c \in server.enabled \ server'.enabled => Withdrawn(ms, c)
  OBVIOUS
<1> QED BY <1>1, <1>2, ServerEffect

\* See RepliesEffect: one message.
LEMMA ReplyEffect ==
    ASSUME Inv, UNCHANGED <<tasks, irc, msg, todo>>, server' \in Servers,
           NEW m \in Msgs, m.sub # "ACK", toClient' = toClient \o <<m>>,
           toServer' \in Seq(Msgs), MechIn(toServer') => MechIn(toServer),
           OneMech(toServer) => OneMech(toServer'),
           \/ server.sasl > 0
           \/ MechIn(toServer) /\ (OneMech(toServer) => ~MechIn(toServer')),
           m.cmd \in Finals => server'.sasl = 0,
           server'.enabled = server.enabled
    PROVE  Inv'
<1> DEFINE ms == <<m>>
<1>1. /\ ms \in Seq(Msgs) /\ FinalLast(ms) /\ \A c : Covered(ms, c)
      /\ FinalIn(ms) => m.cmd \in Finals
  BY OneReply, Zenon
<1>2. toClient' = toClient \o ms
  OBVIOUS
<1> HIDE DEF ms
<1>3. FinalIn(ms) => server'.sasl = 0
  BY <1>1
<1> QED BY <1>1, <1>2, <1>3, RepliesEffect

\* The server's own data, whose fields are assigned one by one.
LEMMA ServerType ==
    ASSUME Inv
    PROVE  /\ server \in Servers
           /\ server.avail \subseteq Caps /\ server.enabled \subseteq Caps /\ server.sasl \in Nat
           /\ server.changes \in Nat /\ server.refused \in Nat
BY DEF Inv, Typed, Servers

\* The server's counters are set.
LEMMA ServerSet ==
    ASSUME NEW s \in Servers, NEW n \in Nat
    PROVE  /\ [s EXCEPT !.sasl = n] \in Servers
           /\ [s EXCEPT !.sasl = n].sasl = n
           /\ [s EXCEPT !.sasl = n].enabled = s.enabled
           /\ [s EXCEPT !.sasl = n, !.odd = TRUE] \in Servers
           /\ [s EXCEPT !.sasl = n, !.odd = TRUE].sasl = n
           /\ [s EXCEPT !.sasl = n, !.odd = TRUE].enabled = s.enabled
           /\ [s EXCEPT !.refused = n] \in Servers
           /\ [s EXCEPT !.refused = n].sasl = s.sasl
           /\ [s EXCEPT !.refused = n].enabled = s.enabled
BY DEF Servers

\* The message the server takes.
LEMMA ServeHead ==
    ASSUME Inv, toServer # << >>, toServer' = Tail(toServer)
    PROVE  /\ Head(toServer) \in Msgs
           /\ toServer' \in Seq(Msgs) /\ (OneMech(toServer) => OneMech(toServer'))
           /\ MechIn(toServer') => MechIn(toServer)
           /\ IsMech(Head(toServer))
                 => MechIn(toServer) /\ (OneMech(toServer) => ~MechIn(toServer'))
<1>1. toServer \in Seq(Msgs)
  BY DEF Inv, Typed
<1>2. Head(toServer) \in Msgs /\ Tail(toServer) \in Seq(Msgs)
  BY <1>1, TailElements
<1> QED BY <1>1, <1>2, TailMech, Zenon

\* A capability command.
LEMMA StepServerCap ==
    ASSUME Inv, UNCHANGED <<tasks, irc, msg, todo>>, toServer # << >>,
           toServer' = Tail(toServer), ServerCap(Head(toServer))
    PROVE  Inv'
<1> DEFINE m == Head(toServer)
<1>1. /\ server \in Servers
      /\ server.avail \subseteq Caps /\ server.enabled \subseteq Caps /\ server.sasl \in Nat
  BY ServerType
<1>2. /\ m \in Msgs /\ m.arg \subseteq Caps
      /\ toServer' \in Seq(Msgs) /\ (OneMech(toServer) => OneMech(toServer'))
      /\ MechIn(toServer') => MechIn(toServer)
  BY ServeHead DEF Msgs
<1> HIDE DEF m
<1>3. \A sub \in Subs, arg \in SUBSET Caps :
         /\ M("CAP", sub, arg) \in Msgs /\ M("CAP", sub, arg).cmd \notin SaslReplies
         /\ M("CAP", sub, arg).sub = sub /\ M("CAP", sub, arg).arg = arg
  BY DEF M, Msgs, Cmds, SaslReplies
<1>4. /\ "LS" \in Subs /\ "LS*" \in Subs /\ "NAK" \in Subs /\ "ACK" \in Subs
  BY DEF Subs
<1>5. M("421", "", {}) \in Msgs /\ M("421", "", {}).cmd \notin SaslReplies
      /\ M("421", "", {}).sub # "ACK"
  BY DEF M, Msgs, Cmds, Subs, SaslReplies
<1>6. CASE Reply(<<M("421", "", {})>>) /\ UNCHANGED server
  <2>1. Plain(<<M("421", "", {})>>)
    BY <1>5, PlainOne
  <2> QED BY <1>1, <1>2, <1>6, <2>1, PlainEffect DEF Reply
<1>7. ASSUME server' = [server EXCEPT !.nego = "open"],
             NEW first \in {{}, server.avail \cap {"sasl"}},
             Reply(IF first = {} THEN <<M("CAP", "LS", server.avail)>>
                   ELSE <<M("CAP", "LS*", first), M("CAP", "LS", server.avail \ first)>>)
      PROVE  Inv'
  <2>1. /\ server' \in Servers /\ server'.sasl = server.sasl
        /\ server'.enabled = server.enabled
    BY <1>1, <1>7 DEF Servers
  <2>2. Plain(<<M("CAP", "LS", server.avail)>>)
    BY <1>1, <1>3, <1>4, PlainOne
  <2>3. Plain(<<M("CAP", "LS*", first), M("CAP", "LS", server.avail \ first)>>)
    BY <1>1, <1>3, <1>4, PlainTwo
  <2>4. CASE first = {}
    BY <1>2, <1>7, <2>1, <2>2, <2>4, PlainEffect DEF Reply
  <2>5. CASE first # {}
    BY <1>2, <1>7, <2>1, <2>3, <2>5, PlainEffect DEF Reply
  <2> QED BY <2>4, <2>5
<1>8. CASE Reply(<<M("CAP", "NAK", m.arg)>>) /\ UNCHANGED server
  <2>1. Plain(<<M("CAP", "NAK", m.arg)>>)
    BY <1>2, <1>3, <1>4, PlainOne
  <2> QED BY <1>1, <1>2, <1>8, <2>1, PlainEffect DEF Reply
<1>9. CASE /\ Reply(<<M("CAP", "ACK", m.arg)>>)
           /\ server' = [server EXCEPT !.enabled = @ \cup m.arg]
  <2> DEFINE k == M("CAP", "ACK", m.arg)
  <2> DEFINE ms == <<k>>
  <2>1. /\ server' \in Servers /\ server'.sasl = server.sasl
        /\ server'.enabled = server.enabled \cup m.arg
    BY <1>1, <1>2, <1>9 DEF Servers
  <2>2. k \in Msgs /\ k.cmd \notin SaslReplies /\ k.arg = m.arg
    BY <1>2, <1>3, <1>4
  <2>3. toClient' = toClient \o ms
    BY <1>9 DEF Reply
  <2> HIDE DEF k
  <2>4. ms \in Seq(Msgs) /\ Len(ms) = 1 /\ ms[1] = k
    BY <2>2
  <2> HIDE DEF ms
  <2>5. ~ReplyIn(ms)
    BY <2>2, <2>4 DEF ReplyIn
  <2>6. \A c \in Caps : Covered(ms, c) \/ c \in server'.enabled
    BY <2>1, <2>2, <2>4 DEF Covered, Acks
  <2>7. \A c \in Caps : c \in server.enabled \ server'.enabled => Withdrawn(ms, c)
    BY <2>1
  <2> QED BY <1>2, <2>1, <2>3, <2>4, <2>5, <2>6, <2>7, ServerEffect
<1>10. CASE /\ server' = [server EXCEPT !.nego = "closed", !.sasl = 0]
            /\ Reply(IF server.sasl > 0 THEN <<M("906", "", {})>> ELSE << >>)
  <2>1. /\ server' \in Servers /\ server'.sasl = 0
        /\ server'.enabled = server.enabled
    BY <1>1, <1>10 DEF Servers
  <2>2. M("906", "", {}) \in Msgs /\ M("906", "", {}).sub # "ACK"
    BY DEF M, Msgs, Cmds, Subs
  <2>3. CASE server.sasl > 0
    BY <1>2, <1>10, <2>1, <2>2, <2>3, ReplyEffect DEF Reply
  <2>4. CASE server.sasl = 0
    <3> DEFINE none == << >>
    <3>1. Plain(none)
      BY PlainNone
    <3>2. toClient' = toClient \o none
      BY <1>10, <2>4 DEF Reply
    <3>3. server'.sasl = server.sasl
      BY <2>1, <2>4
    <3> HIDE DEF none
    <3> QED BY <1>2, <2>1, <3>1, <3>2, <3>3, PlainEffect
  <2> QED BY <1>1, <2>3, <2>4
<1>11. ServerCap(m)
  BY DEF m
<1>12. CASE m.sub = "LS" /\ server.kind # "nocap" /\ ServerCap(m)
  <2>1. PICK first \in {{}, server.avail \cap {"sasl"}} :
           /\ server' = [server EXCEPT !.nego = "open"]
           /\ Reply(IF first = {} THEN <<M("CAP", "LS", server.avail)>>
                    ELSE <<M("CAP", "LS*", first), M("CAP", "LS", server.avail \ first)>>)
    BY <1>12, Zenon DEF ServerCap
  <2> QED BY <1>7, <2>1
<1>13. CASE m.sub = "LS" /\ server.kind = "nocap" /\ ServerCap(m)
  BY <1>6, <1>13, Zenon DEF ServerCap
<1>14. CASE m.sub # "LS" /\ ServerCap(m)
  BY <1>8, <1>9, <1>10, <1>14, Zenon DEF ServerCap
<1> QED BY <1>11, <1>12, <1>13, <1>14

\* A step of the exchange, on the side of the server.
LEMMA StepServerSasl ==
    ASSUME Inv, UNCHANGED <<tasks, irc, msg, todo>>, toServer # << >>,
           toServer' = Tail(toServer), Head(toServer).cmd = "AUTHENTICATE",
           ServerSasl(Head(toServer))
    PROVE  Inv'
<1> DEFINE m == Head(toServer)
<1>1. server \in Servers /\ server.sasl \in Nat
  BY ServerType
<1>2. /\ m \in Msgs /\ m.cmd = "AUTHENTICATE"
      /\ toServer' \in Seq(Msgs) /\ (OneMech(toServer) => OneMech(toServer'))
      /\ MechIn(toServer') => MechIn(toServer)
      /\ IsMech(m) => MechIn(toServer) /\ (OneMech(toServer) => ~MechIn(toServer'))
  BY ServeHead
<1>3. ServerSasl(m)
  OBVIOUS
<1> HIDE DEF m
<1>4. \A cmd \in SaslReplies \cup {"90x"}, sub \in {"", "bad", "error"} :
         /\ M(cmd, sub, {}) \in Msgs /\ M(cmd, sub, {}).sub # "ACK" /\ M(cmd, sub, {}).cmd = cmd
  BY DEF M, Msgs, Cmds, Subs, SaslReplies
<1> DEFINE open == \/ server.sasl > 0
                   \/ MechIn(toServer) /\ (OneMech(toServer) => ~MechIn(toServer'))
<1>5. ASSUME open, NEW n \in Nat, Challenge(n)
      PROVE  Inv'
  <2>1. server' \in Servers /\ server'.enabled = server.enabled
    BY <1>1, <1>5, ServerSet DEF Challenge
  <2>2. PICK sub \in {"", "bad"} : toClient' = toClient \o <<M("AUTHENTICATE", sub, {})>>
    BY <1>5 DEF Challenge, Reply
  <2>3. M("AUTHENTICATE", sub, {}) \in Msgs /\ M("AUTHENTICATE", sub, {}).sub # "ACK"
        /\ M("AUTHENTICATE", sub, {}).cmd \notin Finals
    BY <1>4, <2>2 DEF SaslReplies, Finals
  <2> QED BY <1>2, <1>5, <2>1, <2>2, <2>3, ReplyEffect
<1>6. ASSUME open, EndUnread
      PROVE  Inv'
  <2>1. server' \in Servers /\ server'.enabled = server.enabled
    BY <1>1, <1>6, ServerSet DEF EndUnread
  <2>2. M("90x", "", {}) \in Msgs /\ M("90x", "", {}).sub # "ACK"
        /\ M("90x", "", {}).cmd \notin Finals
    BY <1>4 DEF Finals
  <2>3. toClient' = toClient \o <<M("90x", "", {})>>
    BY <1>6 DEF EndUnread, Reply
  <2> QED BY <1>2, <1>6, <2>1, <2>2, <2>3, ReplyEffect
<1>7. ASSUME open, NEW cmd \in Finals, EndWith(<<M(cmd, "", {})>>)
      PROVE  Inv'
  <2>1. server' \in Servers /\ server'.enabled = server.enabled /\ server'.sasl = 0
    BY <1>1, <1>7, ServerSet DEF EndWith
  <2>2. M(cmd, "", {}) \in Msgs /\ M(cmd, "", {}).sub # "ACK"
    BY <1>4, <1>7 DEF Finals, SaslReplies
  <2>3. toClient' = toClient \o <<M(cmd, "", {})>>
    BY <1>7 DEF EndWith, Reply
  <2> QED BY <1>2, <1>7, <2>1, <2>2, <2>3, ReplyEffect
<1>8. ASSUME open, EndWith(<<M("AUTHENTICATE", "error", {}), M("904", "", {})>>)
      PROVE  Inv'
  <2> DEFINE k == M("AUTHENTICATE", "error", {})
             l == M("904", "", {})
             ms == <<k, l>>
  <2>1. server' \in Servers /\ server'.enabled = server.enabled /\ server'.sasl = 0
    BY <1>1, <1>8, ServerSet DEF EndWith
  <2>2. /\ k \in Msgs /\ k.sub # "ACK" /\ k.cmd \notin Finals
        /\ l \in Msgs /\ l.sub # "ACK" /\ l.cmd \in Finals
    BY <1>4 DEF Finals, SaslReplies
  <2>3. toClient' = toClient \o ms
    BY <1>8 DEF EndWith, Reply
  <2> HIDE DEF k, l
  <2>4. ms \in Seq(Msgs) /\ Len(ms) = 2 /\ ms[1] = k /\ ms[2] = l
    BY <2>2
  <2> HIDE DEF ms
  <2>5. \A i \in 1 .. 2 : i = 1 \/ i = 2
    OBVIOUS
  <2>6. FinalLast(ms) /\ \A c : Covered(ms, c)
    BY <2>2, <2>4, <2>5 DEF FinalLast, Covered, Acks
  <2> QED BY <1>2, <1>8, <2>1, <2>3, <2>4, <2>6, RepliesEffect
<1>9. ASSUME Reply(<< >>), UNCHANGED server
      PROVE  Inv'
  <2> DEFINE none == << >>
  <2>1. Plain(none) /\ toClient' = toClient \o none
    BY <1>9, PlainNone DEF Reply
  <2> HIDE DEF none
  <2> QED BY <1>1, <1>2, <1>9, <2>1, PlainEffect
<1>10. m.sub \in {"PLAIN", "SCRAM"} => open
  BY <1>2 DEF IsMech
<1>11. server.sasl > 0 => open
  OBVIOUS
<1> HIDE DEF open
<1>12. CASE m.sub \in {"PLAIN", "SCRAM"}
            /\ (Challenge(Rounds(m.sub)) \/ EndUnread \/ EndWith(<<M("904", "", {})>>))
  <2>1. Rounds(m.sub) \in Nat
    BY DEF Rounds
  <2> QED BY <1>5, <1>6, <1>7, <1>10, <1>12, <2>1 DEF Finals
<1>13. CASE server.sasl > 1 /\ Challenge(server.sasl - 1)
  <2>1. server.sasl - 1 \in Nat /\ server.sasl > 0
    BY <1>1, <1>13
  <2> QED BY <1>5, <1>11, <1>13, <2>1
<1>14. CASE server.sasl > 0 /\ \E cmd \in Finals : EndWith(<<M(cmd, "", {})>>)
  BY <1>7, <1>11, <1>14
<1>15. CASE server.sasl > 0
            /\ (EndUnread \/ EndWith(<<M("AUTHENTICATE", "error", {}), M("904", "", {})>>))
  BY <1>6, <1>8, <1>11, <1>15
<1>16. "903" \in Finals /\ "904" \in Finals /\ "906" \in Finals
  BY DEF Finals
<1> QED BY <1>3, <1>9, <1>12, <1>13, <1>14, <1>15, <1>16, Zenon DEF ServerSasl

\* NICK and USER.
LEMMA StepServerNick ==
    ASSUME Inv, UNCHANGED <<tasks, irc, msg, todo>>, toServer # << >>,
           toServer' = Tail(toServer), ServerNick(Head(toServer))
    PROVE  Inv'
<1> DEFINE none == << >>
<1>1. server \in Servers /\ server.refused \in Nat
  BY ServerType
<1>2. /\ toServer' \in Seq(Msgs) /\ (OneMech(toServer) => OneMech(toServer'))
      /\ MechIn(toServer') => MechIn(toServer)
  BY ServeHead
<1>3. Plain(none)
  BY PlainNone
<1>4. CASE toClient' = toClient \o none
           /\ (server' = [server EXCEPT !.user = TRUE] \/ server' = [server EXCEPT !.nick = TRUE])
  <2>1. /\ server' \in Servers /\ server'.sasl = server.sasl
        /\ server'.enabled = server.enabled
    BY <1>1, <1>4 DEF Servers
  <2> HIDE DEF none
  <2> QED BY <1>2, <1>3, <1>4, <2>1, PlainEffect
<1>5. CASE /\ server' = [server EXCEPT !.refused = @ + 1]
           /\ Reply(<<M("433", "", {})>>)
  <2>1. /\ server' \in Servers /\ server'.sasl = server.sasl
        /\ server'.enabled = server.enabled
    <3>1. PICK n \in Nat : n = server.refused + 1
      BY <1>1
    <3>2. server' = [server EXCEPT !.refused = n]
      BY <1>5, <3>1
    <3> QED BY <1>1, <3>2, ServerSet
  <2>2. M("433", "", {}) \in Msgs /\ M("433", "", {}).cmd \notin SaslReplies
        /\ M("433", "", {}).sub # "ACK"
    BY DEF M, Msgs, Cmds, Subs, SaslReplies
  <2>3. Plain(<<M("433", "", {})>>)
    BY <2>2, PlainOne
  <2> QED BY <1>2, <1>5, <2>1, <2>3, PlainEffect DEF Reply
<1> QED BY <1>4, <1>5, Zenon DEF ServerNick, Reply, none

\* The server takes a message.
LEMMA StepServe ==
    ASSUME Inv, Serve
    PROVE  Inv'
<1>1. UNCHANGED <<tasks, irc, msg, todo>> /\ toServer # << >> /\ toServer' = Tail(toServer)
  BY DEF Serve
<1>2. CASE Head(toServer).cmd = "CAP"
  BY <1>1, <1>2, StepServerCap DEF Serve
<1>3. CASE Head(toServer).cmd = "AUTHENTICATE"
  BY <1>1, <1>3, StepServerSasl DEF Serve
<1>4. CASE Head(toServer).cmd \notin {"CAP", "AUTHENTICATE"}
  BY <1>1, <1>4, StepServerNick DEF Serve
<1> QED BY <1>2, <1>3, <1>4

\* The server welcomes the client.
LEMMA StepServerWelcome ==
    ASSUME Inv, Welcome
    PROVE  Inv'
<1> DEFINE k == M("001", "", {})
           l == M("376", "", {})
<1>1. server \in Servers
  BY ServerType
<1>2. toServer' \in Seq(Msgs) /\ toServer' = toServer
  BY DEF Welcome, Inv, Typed
<1>3. /\ server' \in Servers /\ server'.sasl = server.sasl
      /\ server'.enabled = server.enabled
  BY <1>1 DEF Welcome, Servers
<1>4. /\ k \in Msgs /\ k.cmd \notin SaslReplies /\ k.sub # "ACK"
      /\ l \in Msgs /\ l.cmd \notin SaslReplies /\ l.sub # "ACK"
  BY DEF M, Msgs, Cmds, Subs, SaslReplies
<1>5. toClient' = toClient \o <<k, l>> /\ UNCHANGED <<tasks, irc, msg, todo>>
  BY DEF Welcome, Reply
<1> HIDE DEF k, l
<1>6. Plain(<<k, l>>)
  BY <1>4, PlainTwo
<1> QED BY <1>2, <1>3, <1>5, <1>6, PlainEffect

\* The server announces or withdraws a capability.
LEMMA StepAnnounce ==
    ASSUME Inv, NEW c \in Caps, Announce(c)
    PROVE  Inv'
<1>1. /\ server \in Servers /\ server.changes \in Nat
      /\ server.avail \subseteq Caps /\ server.enabled \subseteq Caps
  BY ServerType
<1>2. /\ toServer' \in Seq(Msgs) /\ toServer' = toServer
      /\ UNCHANGED <<tasks, irc, msg, todo>>
  BY DEF Announce, Inv, Typed
<1>3. CASE c \in server.avail
  <2> DEFINE k == M("CAP", "DEL", {c})
  <2> DEFINE ms == <<k>>
  <2>1. /\ server' \in Servers /\ server'.sasl = server.sasl
        /\ server'.enabled = server.enabled \ {c}
    <3>4. PICK n \in Nat : n = server.changes + 1
      BY <1>1
    <3>5. PICK avail \in SUBSET Caps : avail = server.avail \ {c}
      BY <1>1
    <3>1. PICK enabled \in SUBSET Caps : enabled = server.enabled \ {c}
      BY <1>1
    <3>2. server' = [server EXCEPT !.avail = avail, !.enabled = enabled, !.changes = n]
      BY <1>3, <3>1, <3>4, <3>5 DEF Announce
    <3>3. server' \in Servers /\ server'.sasl = server.sasl /\ server'.enabled = enabled
      BY <1>1, <3>2 DEF Servers
    <3> QED BY <3>1, <3>3
  <2>2. k \in Msgs /\ k.cmd \notin SaslReplies /\ k.sub # "ACK" /\ Dels(k, c)
    BY DEF M, Msgs, Cmds, Subs, SaslReplies, Dels
  <2>3. toClient' = toClient \o ms
    BY <1>3 DEF Announce, Reply
  <2> HIDE DEF k
  <2>4. ms \in Seq(Msgs) /\ Len(ms) = 1 /\ ms[1] = k
    BY <2>2
  <2>5. Plain(ms)
    BY <2>2, PlainOne
  <2> HIDE DEF ms
  <2>6. ~ReplyIn(ms) /\ \A d : Covered(ms, d)
    BY <2>5, PlainIs
  <2>7. \A d \in Caps : Covered(ms, d) \/ d \in server'.enabled
    BY <2>6
  <2>8. Withdrawn(ms, c)
    BY <2>2, <2>4 DEF Withdrawn
  <2>9. \A d \in Caps : d \in server.enabled \ server'.enabled => Withdrawn(ms, d)
    BY <2>1, <2>8
  <2> QED BY <1>2, <2>1, <2>3, <2>4, <2>6, <2>7, <2>9, ServerEffect
<1>4. CASE c \notin server.avail
  <2> DEFINE k == M("CAP", "NEW", {c})
  <2>1. /\ server' \in Servers /\ server'.sasl = server.sasl
        /\ server'.enabled = server.enabled
    <3>4. PICK n \in Nat : n = server.changes + 1
      BY <1>1
    <3>1. PICK avail \in SUBSET Caps : avail = server.avail \cup {c}
      BY <1>1
    <3>2. server' = [server EXCEPT !.avail = avail, !.changes = n]
      BY <1>4, <3>1, <3>4 DEF Announce
    <3> QED BY <1>1, <3>2 DEF Servers
  <2>2. k \in Msgs /\ k.cmd \notin SaslReplies /\ k.sub # "ACK"
    BY DEF M, Msgs, Cmds, Subs, SaslReplies
  <2>3. toClient' = toClient \o <<k>>
    BY <1>4 DEF Announce, Reply
  <2> HIDE DEF k
  <2>4. Plain(<<k>>)
    BY <2>2, PlainOne
  <2> QED BY <1>2, <2>1, <2>3, <2>4, PlainEffect
<1> QED BY <1>3, <1>4

----------------------------------------------------------------------------
(***************************************************************************)
(* The theorems                                                            *)
(***************************************************************************)

\* The first state: CAP LS is on its way, and nothing else.
LEMMA InvInit == Init => Inv
<1> SUFFICES ASSUME Init PROVE Inv
    OBVIOUS
<1> DEFINE k == M("CAP", "LS", {})
<1>1. Typed /\ Credited
  BY TypedInit
<1>2. ~IsMech(k) /\ msg.cmd = "none"
  BY DEF Init, M, IsMech, NoMsg
<1>3. toServer = <<k>>
  BY DEF Init
<1> HIDE DEF k
<1>4. Len(toServer) = 1 /\ toServer[1] = k
  BY <1>3
<1>5. ~MechIn(toServer) /\ OneMech(toServer)
  BY <1>2, <1>4 DEF MechIn, OneMech
<1>6. /\ toClient = << >> /\ todo = {} /\ caps_enabled = {} /\ server.sasl = 0
      /\ \A t \in Tasks : task[t] \in {"ls", "none"}
  BY DEF Init
<1>7. Len(toClient) = 0
  BY <1>6
<1>8. ~ReplyIn(toClient) /\ ~FinalIn(toClient) /\ FinalLast(toClient)
  BY <1>7 DEF ReplyIn, FinalIn, FinalLast
<1>9. \A t \in Tasks : ~Unfinished(t)
  BY <1>6 DEF Unfinished
<1>10. ~Closing
  BY <1>6 DEF Closing
<1>11. SaslInv
  BY <1>5, <1>6, <1>8, <1>9, <1>10 DEF SaslInv
<1>12. \A c : Covered(toClient, c)
  BY <1>7 DEF Covered
<1>13. RealInv
  BY <1>6, <1>12 DEF RealInv
<1> QED BY <1>1, <1>11, <1>13 DEF Inv

\* Every step keeps the invariant.
LEMMA InvNext == Inv /\ [Next]_vars => Inv'
<1> SUFFICES ASSUME Inv, [Next]_vars PROVE Inv'
    OBVIOUS
<1>1. CASE Client
  <2>1. Noted
    BY <1>1, NotedAlways DEF Client
  <2> QED BY <1>1, <2>1, StepReceive, StepResume, StepCredential, StepPassword, Zenon DEF Client
<1>4. CASE User
  <2>1. Noted
    BY <1>4, NotedAlways DEF User
  <2> QED BY <1>4, <2>1, StepSasl, Zenon DEF User
<1>2. CASE Server
  BY <1>2, StepServe, StepServerWelcome, StepAnnounce, Zenon DEF Server
<1>3. CASE UNCHANGED vars
  BY <1>3 DEF vars, tasks, irc, Inv, Typed, TypeOK, Credited, SaslInv, RealInv,
              Unfinished, Listens, Manual, Closing
<1> QED BY <1>1, <1>2, <1>3, <1>4 DEF Next

\* The inductive invariant holds in every behaviour.
LEMMA InvAlways == Spec => []Inv
<1> QED BY InvInit, InvNext, PTL DEF Spec

\* When nothing is in flight the client relies on no capability that the server
\* does not have in force: the ACKs, NAKs and DELs of cap_negotiation.lua and
\* handlers/cap.lua are applied in the order in which the server sends them, and
\* every withdrawal that has not arrived is behind the grant it takes back.
THEOREM EnabledCorrect == Spec => []EnabledIsReal
<1>1. Inv => EnabledIsReal
  <2> SUFFICES ASSUME Inv, Quiet, NEW c \in caps_enabled, c \notin server.enabled
               PROVE  FALSE
      BY DEF EnabledIsReal
  <2>1. c \in Caps
    BY DEF Inv, Typed, TypeOK
  <2>2. Withdrawn(toClient, c)
    BY <2>1 DEF Inv, RealInv
  <2>3. Len(toClient) = 0
    BY DEF Quiet
  <2> QED BY <2>2, <2>3 DEF Withdrawn
<1> QED BY <1>1, InvAlways, PTL

\* A message of the SASL exchange has exactly one reader, however many tasks
\* negotiate capabilities and whatever /sasl starts after an exchange has come
\* to its end: only the task that took sasl_credentials away
\* (src/ircc/utils/cap_negotiation.lua), or the one that /sasl started, is in an
\* exchange, and it stays in sasl_commands until the reply that ends the
\* exchange has arrived, or dies of the assert at sasl/init.lua:133.
THEOREM ReaderCorrect == Spec => []OneReader
<1>1. Inv => OneReader
  <2> SUFFICES ASSUME Inv PROVE OneReader
      OBVIOUS
  <2> DEFINE A == {t \in Tasks : task[t] \in {"auth", "dead"}}
  <2>1. TypeOK /\ toClient \in Seq(Msgs)
    BY DEF Inv, Typed
  <2>2. ASSUME toClient # << >>, Head(toClient).cmd \in SaslReplies, ~crossed
        PROVE  Cardinality(A) = 1
    <3>1. ReplyIn(toClient)
      BY <2>1, <2>2, TailReply
    <3>2. PICK t \in Tasks : Listens(t)
      BY <2>2, <3>1 DEF Inv, SaslInv
    <3>3. \A u \in Tasks : Listens(u) => u = t
      BY <2>2, <3>2 DEF Inv, SaslInv, Unfinished, Listens
    <3>4. A = {t}
      BY <3>2, <3>3 DEF Listens
    <3>5. Cardinality({t}) = 1
      BY FS_Singleton
    <3> HIDE DEF A
    <3> QED BY <3>4, <3>5, Zenon
  <2> QED BY <2>1, <2>2 DEF OneReader
<1> QED BY <1>1, InvAlways, PTL

-----------------------------------------------------------------------------
(***************************************************************************)
(* Base64                                                                  *)
(***************************************************************************)

\* values of characters and of bytes
Sextets == 0..63
Octets == 0..255

LEMMA AreNumbers ==
    /\ \A x : x \in Sextets <=> x \in 0..63
    /\ \A x : x \in Octets <=> x \in 0..255
BY DEF Sextets, Octets

\* The numbers that shift
LEMMA Shifts ==
    /\ Shift6(0) = 1 /\ Shift6(1) = 64 /\ Shift6(2) = 4096
    /\ Shift6(3) = 262144 /\ Shift6(4) = 16777216
    /\ Shift8(0) = 1 /\ Shift8(1) = 256 /\ Shift8(2) = 65536
BY SMT DEF Shift6, Shift8

\* A character is cut into its high and its low bits.
LEMMA Cut ==
    ASSUME NEW x \in 0..63
    PROVE  /\ x \div 16 \in 0..3 /\ x % 16 \in 0..15 /\ x = 16 * (x \div 16) + (x % 16)
           /\ x \div 4 \in 0..15 /\ x % 4 \in 0..3 /\ x = 4 * (x \div 4) + (x % 4)
BY SMT

\* the three bytes of four characters
HighByte(x, y) == 4 * x + (y \div 16)
MiddleByte(y, z) == 16 * (y % 16) + (z \div 4)
LowByte(z, w) == 64 * (z % 4) + w

LEMMA ByteTypes ==
    ASSUME NEW x \in Sextets, NEW y \in Sextets
    PROVE  HighByte(x, y) \in Octets /\ MiddleByte(x, y) \in Octets /\ LowByte(x, y) \in Octets
<1>1. x \in 0..63 /\ y \in 0..63
  BY AreNumbers
<1>2. /\ y \div 16 \in 0..3 /\ x % 16 \in 0..15 /\ y \div 4 \in 0..15 /\ x % 4 \in 0..3
  BY <1>1, Cut
<1>3. HighByte(x, y) \in 0..255 /\ MiddleByte(x, y) \in 0..255 /\ LowByte(x, y) \in 0..255
  BY <1>1, <1>2, SMT DEF HighByte, MiddleByte, LowByte
<1> QED
  BY <1>3, AreNumbers

\* the buffer with one to four characters after the 1
Word1(x) == 64 + x
Word2(x, y) == 4096 + 64 * x + y
Word3(x, y, z) == 262144 + 4096 * x + 64 * y + z
Word4(x, y, z, w) == 16777216 + 262144 * x + 4096 * y + 64 * z + w

\* One character more
LEMMA WordNext ==
    ASSUME NEW x \in Sextets, NEW y \in Sextets, NEW z \in Sextets, NEW w \in Sextets
    PROVE  /\ 1 * 64 + x = Word1(x)
           /\ Word1(x) * 64 + y = Word2(x, y)
           /\ Word2(x, y) * 64 + z = Word3(x, y, z)
           /\ Word3(x, y, z) * 64 + w = Word4(x, y, z, w)
<1>1. x \in 0..63 /\ y \in 0..63 /\ z \in 0..63 /\ w \in 0..63
  BY AreNumbers
<1> QED
  BY <1>1, SMT DEF Word1, Word2, Word3, Word4

\* Characters of value 0 where there are none
LEMMA WordPadded ==
    ASSUME NEW x \in Sextets, NEW y \in Sextets, NEW z \in Sextets
    PROVE  /\ 0 \in Sextets
           /\ Word3(x, y, z) * 64 = Word4(x, y, z, 0)
           /\ Word2(x, y) * 4096 = Word4(x, y, 0, 0)
<1>1. x \in 0..63 /\ y \in 0..63 /\ z \in 0..63 /\ 0 \in 0..63
  BY AreNumbers
<1>2. /\ Word3(x, y, z) * 64 = Word4(x, y, z, 0)
      /\ Word2(x, y) * 4096 = Word4(x, y, 0, 0)
  BY <1>1, SMT DEF Word2, Word3, Word4
<1> QED
  BY <1>1, <1>2, AreNumbers

\* The size of the buffer tells how many characters are in it.
LEMMA FilledIs ==
    ASSUME NEW word \in Nat
    PROVE  /\ filled(word, 1) <=> word >= 64
           /\ filled(word, 2) <=> word >= 4096
           /\ filled(word, 3) <=> word >= 262144
           /\ filled(word, 4) <=> word >= 16777216
BY Shifts, SMT DEF filled

LEMMA WordSize ==
    ASSUME NEW x \in Sextets, NEW y \in Sextets, NEW z \in Sextets, NEW w \in Sextets
    PROVE  /\ ~filled(1, 1) /\ ~filled(1, 2) /\ ~filled(1, 3)
           /\ filled(Word1(x), 1) /\ ~filled(Word1(x), 2) /\ ~filled(Word1(x), 3)
           /\ ~filled(Word1(x), 4)
           /\ filled(Word2(x, y), 1) /\ filled(Word2(x, y), 2) /\ ~filled(Word2(x, y), 3)
           /\ ~filled(Word2(x, y), 4)
           /\ filled(Word3(x, y, z), 1) /\ filled(Word3(x, y, z), 2) /\ filled(Word3(x, y, z), 3)
           /\ ~filled(Word3(x, y, z), 4)
           /\ filled(Word4(x, y, z, w), 4)
<1>1. x \in 0..63 /\ y \in 0..63 /\ z \in 0..63 /\ w \in 0..63
  BY AreNumbers
<1>2. ~filled(1, 1) /\ ~filled(1, 2) /\ ~filled(1, 3)
  BY FilledIs, SMT
<1>3. Word1(x) \in Nat /\ Word1(x) >= 64 /\ Word1(x) < 4096
  BY <1>1, SMT DEF Word1
<1>4. filled(Word1(x), 1) /\ ~filled(Word1(x), 2) /\ ~filled(Word1(x), 3) /\ ~filled(Word1(x), 4)
  BY <1>3, FilledIs, SMT
<1>5. Word2(x, y) \in Nat /\ Word2(x, y) >= 4096 /\ Word2(x, y) < 262144
  BY <1>1, SMT DEF Word2
<1>6. filled(Word2(x, y), 1) /\ filled(Word2(x, y), 2) /\ ~filled(Word2(x, y), 3) /\ ~filled(Word2(x, y), 4)
  BY <1>5, FilledIs, SMT
<1>7. Word3(x, y, z) \in Nat /\ Word3(x, y, z) >= 262144 /\ Word3(x, y, z) < 16777216
  BY <1>1, SMT DEF Word3
<1>8. /\ filled(Word3(x, y, z), 1) /\ filled(Word3(x, y, z), 2) /\ filled(Word3(x, y, z), 3)
      /\ ~filled(Word3(x, y, z), 4)
  BY <1>7, FilledIs, SMT
<1>9. Word4(x, y, z, w) \in Nat /\ Word4(x, y, z, w) >= 16777216
  BY <1>1, SMT DEF Word4
<1>10. filled(Word4(x, y, z, w), 4)
  BY <1>9, FilledIs, SMT
<1> QED
  BY <1>2, <1>4, <1>6, <1>8, <1>10

\* The bytes of a full buffer
LEMMA WordBytes ==
    ASSUME NEW x \in Sextets, NEW y \in Sextets, NEW z \in Sextets, NEW w \in Sextets
    PROVE  LET word == Word4(x, y, z, w) IN
           /\ (word \div Shift8(2)) % 256 = HighByte(x, y)
           /\ (word \div Shift8(1)) % 256 = MiddleByte(y, z)
           /\ (word \div Shift8(0)) % 256 = LowByte(z, w)
<1> DEFINE word == Word4(x, y, z, w)
           h == HighByte(x, y)
           m == MiddleByte(y, z)
           l == LowByte(z, w)
<1>1. x \in 0..63 /\ y \in 0..63 /\ z \in 0..63 /\ w \in 0..63
  BY AreNumbers
<1>2. h \in Octets /\ m \in Octets /\ l \in Octets
  BY ByteTypes
<1>3. h \in 0..255 /\ m \in 0..255 /\ l \in 0..255
  BY <1>2, AreNumbers
<1>4. word \in Nat /\ word = 65536 * (256 + h) + 256 * m + l
  <2>1. /\ y = 16 * (y \div 16) + (y % 16) /\ y \div 16 \in 0..3 /\ y % 16 \in 0..15
        /\ z = 4 * (z \div 4) + (z % 4) /\ z \div 4 \in 0..15 /\ z % 4 \in 0..3
    BY <1>1, Cut
  <2> QED
    BY <1>1, <2>1, SMT DEF Word4, HighByte, MiddleByte, LowByte
<1> HIDE DEF word, h, m, l
<1>5. (word \div 65536) % 256 = h /\ (word \div 256) % 256 = m /\ (word \div 1) % 256 = l
  <2>1. word \div 65536 = 256 + h
    BY <1>3, <1>4, SMT
  <2>2. word \div 256 = 256 * (256 + h) + m
    BY <1>3, <1>4, SMT
  <2>3. word \div 1 = word /\ word = 256 * (256 * (256 + h) + m) + l
    BY <1>3, <1>4, SMT
  <2>4. \A p \in Nat, r \in 0..255 : (256 * p + r) % 256 = r
    BY SMT
  <2>5. (256 * 1 + h) % 256 = h
    BY <1>3, <2>4
  <2>6. (256 * (256 + h) + m) % 256 = m
    <3>1. 256 + h \in Nat
      BY <1>3, SMT
    <3> QED
      BY <1>3, <2>4, <3>1
  <2>7. (256 * (256 * (256 + h) + m) + l) % 256 = l
    <3>1. 256 * (256 + h) + m \in Nat
      BY <1>3, SMT
    <3> QED
      BY <1>3, <2>4, <3>1
  <2> QED
    BY <2>1, <2>2, <2>3, <2>5, <2>6, <2>7, SMT
<1>6. /\ (word \div Shift8(2)) % 256 = h
      /\ (word \div Shift8(1)) % 256 = m
      /\ (word \div Shift8(0)) % 256 = l
  BY <1>5, Shifts, SMT
<1> QED
  BY <1>6 DEF word, h, m, l

\* the byte at k that the characters c make
Byte(c, k) ==
    LET j == (k - 1) \div 3
    IN CASE (k - 1) % 3 = 0 -> HighByte(c[4 * j + 1], c[4 * j + 2])
         [] (k - 1) % 3 = 1 -> MiddleByte(c[4 * j + 2], c[4 * j + 3])
         [] OTHER -> LowByte(c[4 * j + 3], c[4 * j + 4])

\* the buffer of decode: a 1 and the characters of a group that is not full
Buffered(c) ==
    LET n == Len(c)
    IN CASE n % 4 = 0 -> 1
         [] n % 4 = 1 -> Word1(c[n])
         [] n % 4 = 2 -> Word2(c[n - 1], c[n])
         [] OTHER -> Word3(c[n - 2], c[n - 1], c[n])

\* decode has read the characters c
Layout(c, bytes, word) ==
    /\ bytes \in Seq(Octets)
    /\ Len(bytes) = 3 * (Len(c) \div 4)
    /\ \A k \in 1..Len(bytes) : bytes[k] = Byte(c, k)
    /\ word = Buffered(c)

\* The bytes of a group, by number
LEMMA ByteAt ==
    ASSUME NEW c, NEW j \in Nat
    PROVE  /\ Byte(c, 3 * j + 1) = HighByte(c[4 * j + 1], c[4 * j + 2])
           /\ Byte(c, 3 * j + 2) = MiddleByte(c[4 * j + 2], c[4 * j + 3])
           /\ Byte(c, 3 * j + 3) = LowByte(c[4 * j + 3], c[4 * j + 4])
<1>1. /\ (3 * j + 1 - 1) % 3 = 0 /\ (3 * j + 1 - 1) \div 3 = j
      /\ (3 * j + 2 - 1) % 3 = 1 /\ (3 * j + 2 - 1) \div 3 = j
      /\ (3 * j + 3 - 1) % 3 = 2 /\ (3 * j + 3 - 1) \div 3 = j
  BY SMT
<1>2. Byte(c, 3 * j + 1) = HighByte(c[4 * j + 1], c[4 * j + 2])
  BY <1>1 DEF Byte
<1>3. Byte(c, 3 * j + 2) = MiddleByte(c[4 * j + 2], c[4 * j + 3])
  BY <1>1 DEF Byte
<1>4. Byte(c, 3 * j + 3) = LowByte(c[4 * j + 3], c[4 * j + 4])
  BY <1>1 DEF Byte
<1> QED
  BY <1>2, <1>3, <1>4

\* A number is three times one and 1, 2 or 3 more.
LEMMA ThreeCases ==
    ASSUME NEW k \in Nat \ {0}
    PROVE  \E j \in Nat : k = 3 * j + 1 \/ k = 3 * j + 2 \/ k = 3 * j + 3
<1>1. (k - 1) \div 3 \in Nat
  BY SMT
<1>2. LET j == (k - 1) \div 3 IN k = 3 * j + 1 \/ k = 3 * j + 2 \/ k = 3 * j + 3
  BY SMT
<1> QED
  BY <1>1, <1>2

\* More characters do not change the bytes before.
LEMMA ByteAppend ==
    ASSUME NEW c \in Seq(Sextets), NEW x \in Sextets, NEW k \in 1..(3 * (Len(c) \div 4))
    PROVE  Byte(Append(c, x), k) = Byte(c, k)
<1>1. PICK j \in Nat : k = 3 * j + 1 \/ k = 3 * j + 2 \/ k = 3 * j + 3
  <2>1. k \in Nat \ {0}
    BY SMT
  <2> QED
    BY <2>1, ThreeCases
<1>2. Len(c) \in Nat
  OBVIOUS
<1>3. 4 * j + 4 <= Len(c)
  BY <1>1, <1>2, SMT
<1>4. \A m \in 1..Len(c) : Append(c, x)[m] = c[m]
  OBVIOUS
<1>5. /\ 4 * j + 1 \in 1..Len(c) /\ 4 * j + 2 \in 1..Len(c)
      /\ 4 * j + 3 \in 1..Len(c) /\ 4 * j + 4 \in 1..Len(c)
  BY <1>2, <1>3, SMT
<1>6. /\ Append(c, x)[4 * j + 1] = c[4 * j + 1] /\ Append(c, x)[4 * j + 2] = c[4 * j + 2]
      /\ Append(c, x)[4 * j + 3] = c[4 * j + 3] /\ Append(c, x)[4 * j + 4] = c[4 * j + 4]
  BY <1>4, <1>5
<1> QED
  BY <1>1, <1>6, ByteAt

\* What is in the buffer, by the number of characters of the group
LEMMA BufferedAt ==
    ASSUME NEW c \in Seq(Sextets), NEW n, n = Len(c)
    PROVE  /\ n \in Nat /\ n % 4 \in 0..3
           /\ n % 4 = 0 => Buffered(c) = 1
           /\ n % 4 = 1 => c[n] \in Sextets /\ Buffered(c) = Word1(c[n])
           /\ n % 4 = 2 => c[n] \in Sextets /\ c[n - 1] \in Sextets
                           /\ Buffered(c) = Word2(c[n - 1], c[n])
           /\ n % 4 = 3 => c[n] \in Sextets /\ c[n - 1] \in Sextets /\ c[n - 2] \in Sextets
                           /\ Buffered(c) = Word3(c[n - 2], c[n - 1], c[n])
<1>1. n \in Nat /\ \A m \in 1..n : c[m] \in Sextets
  OBVIOUS
<1>2. /\ n % 4 \in 0..3
      /\ n % 4 = 1 => n \in 1..n
      /\ n % 4 = 2 => n \in 1..n /\ n - 1 \in 1..n
      /\ n % 4 = 3 => n \in 1..n /\ n - 1 \in 1..n /\ n - 2 \in 1..n
  BY <1>1, SMT
<1>3. Buffered(c) =
        CASE n % 4 = 0 -> 1
          [] n % 4 = 1 -> Word1(c[n])
          [] n % 4 = 2 -> Word2(c[n - 1], c[n])
          [] OTHER -> Word3(c[n - 2], c[n - 1], c[n])
  BY DEF Buffered
<1>4. /\ n % 4 = 0 => Buffered(c) = 1
      /\ n % 4 = 1 => Buffered(c) = Word1(c[n])
      /\ n % 4 = 2 => Buffered(c) = Word2(c[n - 1], c[n])
      /\ n % 4 = 3 => Buffered(c) = Word3(c[n - 2], c[n - 1], c[n])
  BY <1>3
<1> QED
  BY <1>1, <1>2, <1>4

\* The buffer after one more character
LEMMA BufferNext ==
    ASSUME NEW c \in Seq(Sextets), NEW x \in Sextets, NEW n, n = Len(c)
    PROVE  /\ filled(Buffered(c) * 64 + x, 4) <=> n % 4 = 3
           /\ n % 4 # 3 => Buffered(Append(c, x)) = Buffered(c) * 64 + x
           /\ n % 4 = 3 => Buffered(Append(c, x)) = 1
<1> DEFINE e == Append(c, x)
           b == Buffered(c)
<1>1. n \in Nat /\ e \in Seq(Sextets) /\ n + 1 = Len(e) /\ e[n + 1] = x
  OBVIOUS
<1>2. \A m \in 1..n : e[m] = c[m]
  OBVIOUS
<1>3. n % 4 \in 0..3
  BY BufferedAt
<1>4. CASE n % 4 = 0
  <2>1. b = 1
    BY <1>4, BufferedAt
  <2>2. (n + 1) % 4 = 1
    BY <1>1, <1>4, SMT
  <2> HIDE DEF e, b
  <2>3. Buffered(e) = Word1(x)
    BY <1>1, <2>2, BufferedAt
  <2>4. b * 64 + x = Word1(x) /\ ~filled(Word1(x), 4)
    BY <2>1, WordNext, WordSize
  <2> QED
    BY <1>4, <2>3, <2>4 DEF e, b
<1>5. CASE n % 4 = 1
  <2>1. b = Word1(c[n]) /\ c[n] \in Sextets
    BY <1>5, BufferedAt
  <2>2. (n + 1) % 4 = 2 /\ n \in 1..n /\ n + 1 - 1 = n
    BY <1>1, <1>5, SMT
  <2>3. e[n] = c[n]
    BY <1>2, <2>2
  <2> HIDE DEF e, b
  <2>4. Buffered(e) = Word2(e[n + 1 - 1], e[n + 1])
    BY <1>1, <2>2, BufferedAt
  <2>5. Buffered(e) = Word2(c[n], x)
    BY <1>1, <2>2, <2>3, <2>4
  <2>6. b * 64 + x = Word2(c[n], x) /\ ~filled(Word2(c[n], x), 4)
    BY <2>1, WordNext, WordSize
  <2> QED
    BY <1>5, <2>5, <2>6 DEF e, b
<1>6. CASE n % 4 = 2
  <2>1. b = Word2(c[n - 1], c[n]) /\ c[n] \in Sextets /\ c[n - 1] \in Sextets
    BY <1>6, BufferedAt
  <2>2. /\ (n + 1) % 4 = 3 /\ n \in 1..n /\ n - 1 \in 1..n
        /\ n + 1 - 1 = n /\ n + 1 - 2 = n - 1
    BY <1>1, <1>6, SMT
  <2>3. e[n] = c[n] /\ e[n - 1] = c[n - 1]
    BY <1>2, <2>2
  <2> HIDE DEF e, b
  <2>4. Buffered(e) = Word3(e[n + 1 - 2], e[n + 1 - 1], e[n + 1])
    BY <1>1, <2>2, BufferedAt
  <2>5. Buffered(e) = Word3(c[n - 1], c[n], x)
    BY <1>1, <2>2, <2>3, <2>4
  <2>6. b * 64 + x = Word3(c[n - 1], c[n], x) /\ ~filled(Word3(c[n - 1], c[n], x), 4)
    BY <2>1, WordNext, WordSize
  <2> QED
    BY <1>6, <2>5, <2>6 DEF e, b
<1>7. CASE n % 4 = 3
  <2>1. /\ b = Word3(c[n - 2], c[n - 1], c[n])
        /\ c[n] \in Sextets /\ c[n - 1] \in Sextets /\ c[n - 2] \in Sextets
    BY <1>7, BufferedAt
  <2>2. (n + 1) % 4 = 0
    BY <1>1, <1>7, SMT
  <2> HIDE DEF e, b
  <2>3. Buffered(e) = 1
    BY <1>1, <2>2, BufferedAt
  <2>4. b * 64 + x = Word4(c[n - 2], c[n - 1], c[n], x) /\ filled(Word4(c[n - 2], c[n - 1], c[n], x), 4)
    BY <2>1, WordNext, WordSize
  <2> QED
    BY <1>7, <2>3, <2>4 DEF e, b
<1> QED
  BY <1>3, <1>4, <1>5, <1>6, <1>7

\* A function on 1..n is a sequence.
LEMMA FunctionSeq ==
    ASSUME NEW S, NEW n \in Nat, NEW f \in [1..n -> S]
    PROVE  f \in Seq(S) /\ Len(f) = n
OBVIOUS

\* The bytes that decode takes out of a full buffer
Full(x, y, z, w) == Bytes(Word4(x, y, z, w), 3)

IsGroup(bytes, x, y, z, w) ==
    /\ bytes \in Seq(Octets) /\ Len(bytes) = 3
    /\ bytes[1] = HighByte(x, y) /\ bytes[2] = MiddleByte(y, z) /\ bytes[3] = LowByte(z, w)

LEMMA FullBytes ==
    ASSUME NEW x \in Sextets, NEW y \in Sextets, NEW z \in Sextets, NEW w \in Sextets
    PROVE  IsGroup(Full(x, y, z, w), x, y, z, w)
<1> DEFINE word == Word4(x, y, z, w)
           more == Full(x, y, z, w)
<1>1. /\ (word \div Shift8(2)) % 256 = HighByte(x, y)
      /\ (word \div Shift8(1)) % 256 = MiddleByte(y, z)
      /\ (word \div Shift8(0)) % 256 = LowByte(z, w)
  BY WordBytes
<1>2. more = [k \in 1..3 |-> (word \div Shift8(3 - k)) % 256]
  BY DEF Bytes, Full
<1> HIDE DEF more
<1>3. 3 - 1 = 2 /\ 3 - 2 = 1 /\ 3 - 3 = 0 /\ 1 \in 1..3 /\ 2 \in 1..3 /\ 3 \in 1..3
  BY SMT
<1>4. /\ more[1] = (word \div Shift8(3 - 1)) % 256
      /\ more[2] = (word \div Shift8(3 - 2)) % 256
      /\ more[3] = (word \div Shift8(3 - 3)) % 256
  BY <1>2, <1>3, Zenon
<1>5. more[1] = HighByte(x, y) /\ more[2] = MiddleByte(y, z) /\ more[3] = LowByte(z, w)
  BY <1>1, <1>3, <1>4
<1>6. HighByte(x, y) \in Octets /\ MiddleByte(y, z) \in Octets /\ LowByte(z, w) \in Octets
  BY ByteTypes
<1>7. \A k \in 1..3 : k = 1 \/ k = 2 \/ k = 3
  BY SMT
<1>8. \A k \in 1..3 : more[k] \in Octets
  BY <1>5, <1>6, <1>7
<1>9. more \in [1..3 -> Octets]
  BY <1>2, <1>8, Zenon
<1>10. more \in Seq(Octets) /\ Len(more) = 3
  BY <1>9, FunctionSeq
<1> QED
  BY <1>5, <1>10 DEF more, IsGroup

\* One more character stays in the buffer, or makes three bytes with it.
LEMMA FeedLayout ==
    ASSUME NEW c \in Seq(Sextets), NEW x \in Sextets, NEW bytes, NEW b, Layout(c, bytes, b)
    PROVE  LET word == b * 64 + x IN
           /\ ~filled(word, 4) => Layout(Append(c, x), bytes, word)
           /\ filled(word, 4) => Layout(Append(c, x), bytes \o Bytes(word, 3), 1)
<1> DEFINE n == Len(c)
           e == Append(c, x)
           word == b * 64 + x
           more == Bytes(word, 3)
<1>1. n \in Nat /\ e \in Seq(Sextets) /\ Len(e) = n + 1 /\ e[n + 1] = x
  OBVIOUS
<1>2. \A m \in 1..n : e[m] = c[m] /\ c[m] \in Sextets
  OBVIOUS
<1>3. /\ filled(word, 4) <=> n % 4 = 3
      /\ n % 4 # 3 => Buffered(e) = word
      /\ n % 4 = 3 => Buffered(e) = 1
  BY BufferNext DEF Layout
<1>4. bytes \in Seq(Octets) /\ Len(bytes) = 3 * (n \div 4)
  BY DEF Layout
<1>5. \A k \in 1..Len(bytes) : bytes[k] = Byte(e, k)
  <2>1. \A k \in 1..Len(bytes) : bytes[k] = Byte(c, k)
    BY DEF Layout
  <2>2. \A k \in 1..Len(bytes) : Byte(e, k) = Byte(c, k)
    BY <1>4, ByteAppend
  <2> QED
    BY <2>1, <2>2
<1>6. CASE n % 4 # 3
  <2>1. (n + 1) \div 4 = n \div 4
    BY <1>1, <1>6, SMT
  <2> HIDE DEF n, e, word
  <2>2. Len(bytes) = 3 * (Len(e) \div 4)
    BY <1>1, <1>4, <2>1
  <2>3. Layout(e, bytes, word)
    BY <1>3, <1>4, <1>5, <1>6, <2>2 DEF Layout
  <2> QED
    BY <1>3, <1>6, <2>3 DEF e, word
<1>7. CASE n % 4 = 3
  <2> DEFINE g == n \div 4
  <2>1. g \in Nat /\ n = 4 * g + 3 /\ (n + 1) \div 4 = g + 1
    BY <1>1, <1>7, SMT
  <2>2. /\ b = Word3(c[n - 2], c[n - 1], c[n])
        /\ c[n] \in Sextets /\ c[n - 1] \in Sextets /\ c[n - 2] \in Sextets
    BY <1>7, BufferedAt DEF Layout
  <2>3. n - 2 = 4 * g + 1 /\ n - 1 = 4 * g + 2 /\ n + 1 = 4 * g + 4
        /\ n \in 1..n /\ n - 1 \in 1..n /\ n - 2 \in 1..n
    BY <1>1, <2>1, SMT
  <2>4. e[n - 2] = c[n - 2] /\ e[n - 1] = c[n - 1] /\ e[n] = c[n]
    BY <1>2, <2>3
  <2> HIDE DEF n, g, e
  <2>5. /\ e[4 * g + 1] = c[n - 2] /\ e[4 * g + 2] = c[n - 1]
        /\ e[4 * g + 3] = c[n] /\ e[4 * g + 4] = x
    BY <1>1, <2>1, <2>3, <2>4
  <2>6. word = Word4(c[n - 2], c[n - 1], c[n], x)
    BY <2>2, WordNext
  <2> HIDE DEF word
  <2>15. more = Full(c[n - 2], c[n - 1], c[n], x)
    BY <2>6 DEF Full
  <2> HIDE DEF more
  <2>7. /\ more \in Seq(Octets) /\ Len(more) = 3
        /\ more[1] = HighByte(c[n - 2], c[n - 1]) /\ more[2] = MiddleByte(c[n - 1], c[n])
        /\ more[3] = LowByte(c[n], x)
    <3>1. IsGroup(Full(c[n - 2], c[n - 1], c[n], x), c[n - 2], c[n - 1], c[n], x)
      BY <2>2, FullBytes
    <3>2. IsGroup(more, c[n - 2], c[n - 1], c[n], x)
      BY <2>15, <3>1
    <3> QED
      BY <3>2 DEF IsGroup
  <2>8. more[1] = Byte(e, 3 * g + 1) /\ more[2] = Byte(e, 3 * g + 2) /\ more[3] = Byte(e, 3 * g + 3)
    BY <2>1, <2>5, <2>7, ByteAt
  <2>9. Len(bytes) = 3 * g /\ Len(bytes \o more) = 3 * g + 3 /\ bytes \o more \in Seq(Octets)
    <3>1. Len(bytes) = 3 * g
      BY <1>4 DEF g
    <3>2. Len(bytes \o more) = Len(bytes) + Len(more) /\ bytes \o more \in Seq(Octets)
      BY <1>4, <2>7, ConcatProperties
    <3> QED
      BY <2>7, <3>1, <3>2
  <2>10. /\ \A k \in 1..(3 * g) : (bytes \o more)[k] = bytes[k]
         /\ \A k \in 1..3 : (bytes \o more)[3 * g + k] = more[k]
    BY <1>4, <2>1, <2>7, <2>9
  <2>11. ASSUME NEW k \in 1..(3 * g + 3)
         PROVE  (bytes \o more)[k] = Byte(e, k)
    <3>1. k \in 1..(3 * g) \/ k = 3 * g + 1 \/ k = 3 * g + 2 \/ k = 3 * g + 3
      BY <2>1, SMT
    <3>2. CASE k \in 1..(3 * g)
      BY <1>5, <2>9, <2>10, <3>2
    <3>3. /\ (bytes \o more)[3 * g + 1] = more[1] /\ (bytes \o more)[3 * g + 2] = more[2]
          /\ (bytes \o more)[3 * g + 3] = more[3]
      <4>1. 1 \in 1..3 /\ 2 \in 1..3 /\ 3 \in 1..3
        BY SMT
      <4> QED
        BY <2>10, <4>1, Zenon
    <3> QED
      BY <2>8, <3>1, <3>2, <3>3
  <2>12. Len(bytes \o more) = 3 * (Len(e) \div 4)
    BY <1>1, <2>1, <2>9
  <2>13. Buffered(e) = 1
    BY <1>3, <1>7
  <2>14. Layout(e, bytes \o more, 1)
    BY <2>9, <2>11, <2>12, <2>13 DEF Layout
  <2> QED
    BY <1>3, <1>7, <2>14 DEF more, e, word
<1> QED
  BY <1>6, <1>7

\* whole bytes in n characters
ByteCount(n) == (6 * n) \div 8

LEMMA ByteCountIs ==
    ASSUME NEW n \in Nat, NEW g, g = n \div 4
    PROVE  /\ g \in Nat /\ n = 4 * g + (n % 4) /\ ByteCount(n) \in Nat
           /\ n % 4 \in {0, 1} => ByteCount(n) = 3 * g
           /\ n % 4 = 2 => ByteCount(n) = 3 * g + 1
           /\ n % 4 = 3 => ByteCount(n) = 3 * g + 2
<1>1. g \in Nat /\ n = 4 * g + (n % 4) /\ n % 4 \in 0..3
  BY SMT
<1>2. /\ n % 4 = 0 => (6 * n) \div 8 = 3 * g
      /\ n % 4 = 1 => (6 * n) \div 8 = 3 * g
      /\ n % 4 = 2 => (6 * n) \div 8 = 3 * g + 1
      /\ n % 4 = 3 => (6 * n) \div 8 = 3 * g + 2
  BY <1>1, SMT
<1> QED
  BY <1>1, <1>2, SMT DEF ByteCount

\* The first bytes of a full buffer
IsPart(bytes, m, x, y, z) ==
    /\ bytes \in Seq(Octets) /\ Len(bytes) = m
    /\ bytes[1] = HighByte(x, y) /\ (m = 2 => bytes[2] = MiddleByte(y, z))

LEMMA PartBytes ==
    ASSUME NEW x \in Sextets, NEW y \in Sextets, NEW z \in Sextets, NEW w \in Sextets,
           NEW m \in 1..2
    PROVE  IsPart(Bytes(Word4(x, y, z, w), m), m, x, y, z)
<1> DEFINE word == Word4(x, y, z, w)
           part == Bytes(word, m)
           full == Full(x, y, z, w)
<1>1. /\ part = [k \in 1..m |-> (word \div Shift8(3 - k)) % 256]
      /\ full = [k \in 1..3 |-> (word \div Shift8(3 - k)) % 256]
  BY DEF Bytes, Full
<1>2. IsGroup(full, x, y, z, w)
  BY FullBytes
<1> HIDE DEF full
<1>3. full \in Seq(Octets) /\ Len(full) = 3 /\ full[1] = HighByte(x, y) /\ full[2] = MiddleByte(y, z)
  BY <1>2 DEF IsGroup
<1>4. \A k \in 1..3 : full[k] \in Octets
  <2>1. \A k \in 1..Len(full) : full[k] \in Octets
    BY <1>3, ElementOfSeq
  <2> QED
    BY <1>3, <2>1
<1>5. (\A k \in 1..m : k \in 1..3) /\ m \in Nat /\ 1 \in 1..m /\ (m = 2 => 2 \in 1..m)
  BY SMT
<1>6. \A k \in 1..m : part[k] = full[k]
  BY <1>1, <1>5, Zenon
<1>7. part \in [1..m -> Octets]
  BY <1>1, <1>4, <1>5, <1>6, Zenon
<1> HIDE DEF part
<1>8. part \in Seq(Octets) /\ Len(part) = m
  BY <1>5, <1>7, FunctionSeq
<1>9. part[1] = HighByte(x, y) /\ (m = 2 => part[2] = MiddleByte(y, z))
  BY <1>3, <1>5, <1>6
<1> QED
  BY <1>8, <1>9 DEF IsPart, part

\* the bytes are those of the characters c
AreBytes(bytes, c) == bytes \in Seq(Octets) /\ \A k \in 1..Len(bytes) : bytes[k] = Byte(c, k)

LEMMA ExtendBytes ==
    ASSUME NEW c, NEW bytes, AreBytes(bytes, c), NEW more \in Seq(Octets),
           \A k \in 1..Len(more) : more[k] = Byte(c, Len(bytes) + k)
    PROVE  AreBytes(bytes \o more, c) /\ Len(bytes \o more) = Len(bytes) + Len(more)
<1>1. bytes \in Seq(Octets)
  BY DEF AreBytes
<1>2. bytes \o more \in Seq(Octets) /\ Len(bytes \o more) = Len(bytes) + Len(more)
  BY <1>1, ConcatProperties
<1>3. \A k \in 1..(Len(bytes) + Len(more)) :
         (bytes \o more)[k] = IF k <= Len(bytes) THEN bytes[k] ELSE more[k - Len(bytes)]
  BY <1>1, ConcatProperties
<1>4. Len(bytes) \in Nat /\ Len(more) \in Nat
  BY <1>1
<1>5. ASSUME NEW k \in 1..Len(bytes \o more)
      PROVE  (bytes \o more)[k] = Byte(c, k)
  <2>1. CASE k \in 1..Len(bytes)
    <3>1. k <= Len(bytes) /\ k \in 1..(Len(bytes) + Len(more))
      BY <1>2, <1>4, <2>1, SMT
    <3> QED
      BY <1>3, <2>1, <3>1 DEF AreBytes
  <2>2. CASE k \notin 1..Len(bytes)
    <3>1. /\ ~(k <= Len(bytes)) /\ k \in 1..(Len(bytes) + Len(more))
          /\ k - Len(bytes) \in 1..Len(more) /\ Len(bytes) + (k - Len(bytes)) = k
      BY <1>2, <1>4, <2>2, SMT
    <3>2. (bytes \o more)[k] = more[k - Len(bytes)]
      BY <1>3, <3>1
    <3>3. more[k - Len(bytes)] = Byte(c, Len(bytes) + (k - Len(bytes)))
      BY <3>1
    <3> QED
      BY <3>1, <3>2, <3>3
  <2> QED
    BY <2>1, <2>2
<1> QED
  BY <1>2, <1>5 DEF AreBytes

\* What follows the loop: it fails after one character of a group, and else the
\* bytes are complete.
LEMMA RestLayout ==
    ASSUME NEW c \in Seq(Sextets), NEW n, n = Len(c), Layout(c, out, buffer)
    PROVE  /\ Fails <=> n % 4 = 1
           /\ n % 4 # 1 => AreBytes(out \o Rest, c) /\ Len(out \o Rest) = ByteCount(n)
           /\ Len(out \o Rest) <= 3 * ((n + 3) \div 4) /\ Rest \in Seq(Octets)
<1> DEFINE g == n \div 4
<1>1. n \in Nat /\ n % 4 \in 0..3 /\ buffer = Buffered(c)
  BY BufferedAt DEF Layout
<1>2. AreBytes(out, c) /\ Len(out) = 3 * g /\ out \in Seq(Octets)
  BY DEF Layout, AreBytes
<1>3. /\ g \in Nat /\ n = 4 * g + (n % 4) /\ ByteCount(n) \in Nat
      /\ n % 4 \in {0, 1} => ByteCount(n) = 3 * g
      /\ n % 4 = 2 => ByteCount(n) = 3 * g + 1
      /\ n % 4 = 3 => ByteCount(n) = 3 * g + 2
  BY <1>1, ByteCountIs
<1> HIDE DEF g
<1>4. ASSUME Rest = <<>>
      PROVE  AreBytes(out \o Rest, c) /\ Len(out \o Rest) = 3 * g /\ Rest \in Seq(Octets)
  <2>1. out \o Rest = out
    BY <1>2, <1>4, ConcatEmptySeq
  <2>2. <<>> \in Seq(Octets)
    OBVIOUS
  <2> QED
    BY <1>2, <1>4, <2>1, <2>2
<1>5. CASE n % 4 = 0
  <2>1. buffer = 1
    BY <1>1, <1>5, BufferedAt
  <2>2. 0 \in Sextets
    BY AreNumbers
  <2>3. ~filled(buffer, 1) /\ ~filled(buffer, 2) /\ ~filled(buffer, 3)
    BY <2>1, <2>2, WordSize
  <2>4. ~Fails /\ Rest = <<>>
    BY <2>3 DEF Fails, Rest
  <2>5. 3 * g <= 3 * ((n + 3) \div 4)
    BY <1>3, <1>5, SMT
  <2>6. n % 4 # 1 /\ ByteCount(n) = 3 * g
    BY <1>3, <1>5
  <2> QED
    BY <1>4, <2>4, <2>5, <2>6
<1>6. CASE n % 4 = 1
  <2>1. buffer = Word1(c[n]) /\ c[n] \in Sextets
    BY <1>1, <1>6, BufferedAt
  <2>2. filled(buffer, 1) /\ ~filled(buffer, 2) /\ ~filled(buffer, 3)
    BY <2>1, WordSize
  <2>3. Fails /\ Rest = <<>>
    BY <2>2 DEF Fails, Rest
  <2>4. 3 * g <= 3 * ((n + 3) \div 4)
    BY <1>3, <1>6, SMT
  <2> QED
    BY <1>4, <1>6, <2>3, <2>4
<1>7. CASE n % 4 = 2
  <2>1. buffer = Word2(c[n - 1], c[n]) /\ c[n] \in Sextets /\ c[n - 1] \in Sextets
    BY <1>1, <1>7, BufferedAt
  <2>2. filled(buffer, 1) /\ filled(buffer, 2) /\ ~filled(buffer, 3)
    BY <2>1, WordSize
  <2>3. ~Fails /\ Rest = Bytes(buffer * 4096, 1)
    BY <2>2 DEF Fails, Rest
  <2>4. 0 \in Sextets /\ buffer * 4096 = Word4(c[n - 1], c[n], 0, 0)
    BY <2>1, WordPadded
  <2>5. 1 \in 1..2 /\ 1 # 2
    BY SMT
  <2>6. IsPart(Bytes(Word4(c[n - 1], c[n], 0, 0), 1), 1, c[n - 1], c[n], 0)
    BY <2>1, <2>4, <2>5, PartBytes
  <2>7. IsPart(Rest, 1, c[n - 1], c[n], 0)
    BY <2>3, <2>4, <2>6
  <2>8. Rest \in Seq(Octets) /\ Len(Rest) = 1 /\ Rest[1] = HighByte(c[n - 1], c[n])
    BY <2>7 DEF IsPart
  <2>9. n - 1 = 4 * g + 1 /\ n = 4 * g + 2
    BY <1>1, <1>3, <1>7, SMT
  <2>10. Byte(c, 3 * g + 1) = HighByte(c[n - 1], c[n])
    BY <1>3, <2>9, ByteAt
  <2>11. \A k \in 1..Len(Rest) : k = 1
    BY <2>8
  <2>12. \A k \in 1..Len(Rest) : Rest[k] = Byte(c, Len(out) + k)
    BY <1>2, <2>8, <2>10, <2>11
  <2>13. AreBytes(out \o Rest, c) /\ Len(out \o Rest) = 3 * g + 1
    BY <1>2, <2>8, <2>12, ExtendBytes
  <2>14. 3 * g + 1 <= 3 * ((n + 3) \div 4)
    BY <1>1, <1>3, <1>7, SMT
  <2>15. n % 4 # 1 /\ ByteCount(n) = 3 * g + 1
    BY <1>3, <1>7
  <2> QED
    BY <2>3, <2>8, <2>13, <2>14, <2>15
<1>8. CASE n % 4 = 3
  <2>1. /\ buffer = Word3(c[n - 2], c[n - 1], c[n])
        /\ c[n] \in Sextets /\ c[n - 1] \in Sextets /\ c[n - 2] \in Sextets
    BY <1>1, <1>8, BufferedAt
  <2>2. filled(buffer, 1) /\ filled(buffer, 2) /\ filled(buffer, 3)
    BY <2>1, WordSize
  <2>3. ~Fails /\ Rest = Bytes(buffer * 64, 2)
    BY <2>2 DEF Fails, Rest
  <2>4. 0 \in Sextets /\ buffer * 64 = Word4(c[n - 2], c[n - 1], c[n], 0)
    BY <2>1, WordPadded
  <2>5. 2 \in 1..2
    BY SMT
  <2>6. IsPart(Bytes(Word4(c[n - 2], c[n - 1], c[n], 0), 2), 2, c[n - 2], c[n - 1], c[n])
    BY <2>1, <2>4, <2>5, PartBytes
  <2>7. IsPart(Rest, 2, c[n - 2], c[n - 1], c[n])
    BY <2>3, <2>4, <2>6
  <2>8. /\ Rest \in Seq(Octets) /\ Len(Rest) = 2 /\ Rest[1] = HighByte(c[n - 2], c[n - 1])
        /\ Rest[2] = MiddleByte(c[n - 1], c[n])
    BY <2>7 DEF IsPart
  <2>9. n - 2 = 4 * g + 1 /\ n - 1 = 4 * g + 2 /\ n = 4 * g + 3
    BY <1>1, <1>3, <1>8, SMT
  <2>10. /\ Byte(c, 3 * g + 1) = HighByte(c[n - 2], c[n - 1])
         /\ Byte(c, 3 * g + 2) = MiddleByte(c[n - 1], c[n])
    BY <1>3, <2>9, ByteAt
  <2>11. \A k \in 1..Len(Rest) : k = 1 \/ k = 2
    BY <2>8
  <2>12. \A k \in 1..Len(Rest) : Rest[k] = Byte(c, Len(out) + k)
    BY <1>2, <2>8, <2>10, <2>11
  <2>13. AreBytes(out \o Rest, c) /\ Len(out \o Rest) = 3 * g + 2
    BY <1>2, <2>8, <2>12, ExtendBytes
  <2>14. 3 * g + 2 <= 3 * ((n + 3) \div 4)
    BY <1>1, <1>3, <1>8, SMT
  <2>15. n % 4 # 1 /\ ByteCount(n) = 3 * g + 2
    BY <1>3, <1>8
  <2> QED
    BY <2>3, <2>8, <2>13, <2>14, <2>15
<1> QED
  BY <1>1, <1>5, <1>6, <1>7, <1>8

\* bit i of a character, 1 the most significant
Bit(x, i) == (x \div <<32, 16, 8, 4, 2, 1>>[i]) % 2

LEMMA BitsOfCharacter ==
    ASSUME NEW x \in 0..63
    PROVE  /\ \A i \in 1..6 : Bit(x, i) \in 0..1
           /\ x = 32 * Bit(x, 1) + 16 * Bit(x, 2) + 8 * Bit(x, 3) + 4 * Bit(x, 4) + 2 * Bit(x, 5) + Bit(x, 6)
           /\ x \div 16 = 2 * Bit(x, 1) + Bit(x, 2)
           /\ x % 16 = 8 * Bit(x, 3) + 4 * Bit(x, 4) + 2 * Bit(x, 5) + Bit(x, 6)
           /\ x \div 4 = 8 * Bit(x, 1) + 4 * Bit(x, 2) + 2 * Bit(x, 3) + Bit(x, 4)
           /\ x % 4 = 2 * Bit(x, 5) + Bit(x, 6)
<1> DEFINE p == <<32, 16, 8, 4, 2, 1>>
<1>1. p[1] = 32 /\ p[2] = 16 /\ p[3] = 8 /\ p[4] = 4 /\ p[5] = 2 /\ p[6] = 1
  BY SMT
<1>2. /\ Bit(x, 1) = (x \div p[1]) % 2 /\ Bit(x, 2) = (x \div p[2]) % 2 /\ Bit(x, 3) = (x \div p[3]) % 2
      /\ Bit(x, 4) = (x \div p[4]) % 2 /\ Bit(x, 5) = (x \div p[5]) % 2 /\ Bit(x, 6) = (x \div p[6]) % 2
  BY Zenon DEF Bit
<1> HIDE DEF p
<1>3. /\ Bit(x, 1) = (x \div 32) % 2 /\ Bit(x, 2) = (x \div 16) % 2 /\ Bit(x, 3) = (x \div 8) % 2
      /\ Bit(x, 4) = (x \div 4) % 2 /\ Bit(x, 5) = (x \div 2) % 2 /\ Bit(x, 6) = (x \div 1) % 2
  BY <1>1, <1>2
<1> DEFINE a == Bit(x, 1)
           b == Bit(x, 2)
           c == Bit(x, 3)
           d == Bit(x, 4)
           e == Bit(x, 5)
           f == Bit(x, 6)
<1>4. /\ a \in 0..1 /\ a = x \div 32 /\ b \in 0..1 /\ x \div 16 = 2 * (x \div 32) + b
  BY <1>3, SMT
<1>5. /\ c \in 0..1 /\ x \div 8 = 2 * (x \div 16) + c /\ d \in 0..1 /\ x \div 4 = 2 * (x \div 8) + d
  BY <1>3, SMT
<1>6. /\ e \in 0..1 /\ x \div 2 = 2 * (x \div 4) + e /\ f \in 0..1 /\ x = 2 * (x \div 2) + f
  BY <1>3, SMT
<1>7. x \div 32 \in Nat /\ x \div 16 \in Nat /\ x \div 8 \in Nat /\ x \div 4 \in Nat /\ x \div 2 \in Nat
  BY SMT
<1>8. x = 16 * (x \div 16) + (x % 16) /\ x = 4 * (x \div 4) + (x % 4)
  BY Cut
<1>9. x % 16 \in 0..15 /\ x % 4 \in 0..3
  BY Cut
<1>10. \A i \in 1..6 : Bit(x, i) \in 0..1
  <2>1. \A i \in 1..6 : i = 1 \/ i = 2 \/ i = 3 \/ i = 4 \/ i = 5 \/ i = 6
    BY SMT
  <2> QED
    BY <1>4, <1>5, <1>6, <2>1, Zenon
<1> HIDE DEF a, b, c, d, e, f
<1>11. /\ x = 32 * a + 16 * b + 8 * c + 4 * d + 2 * e + f
       /\ x \div 16 = 2 * a + b
       /\ x % 16 = 8 * c + 4 * d + 2 * e + f
       /\ x \div 4 = 8 * a + 4 * b + 2 * c + d
       /\ x % 4 = 2 * e + f
  BY <1>4, <1>5, <1>6, <1>7, <1>8, <1>9, SMT
<1> QED
  BY <1>10, <1>11, Zenon DEF a, b, c, d, e, f

\* Bit i of the character after j others
LEMMA BitAt ==
    ASSUME NEW c \in Seq(Sextets), NEW j \in Nat, j + 1 \in 1..Len(c), NEW i \in 1..6
    PROVE  BitsOf(c)[6 * j + i] = Bit(c[j + 1], i)
<1>1. Len(c) \in Nat
  OBVIOUS
<1> DEFINE h == 6 * j + i
<1>2. h \in 1..(6 * Len(c))
  BY <1>1, SMT
<1>3. (h - 1) \div 6 = j /\ 1 + ((h - 1) % 6) = i
  BY SMT
<1> HIDE DEF h
<1>4. \A k \in 1..(6 * Len(c)) : BitsOf(c)[k] = Bit(c[(k - 1) \div 6 + 1], 1 + ((k - 1) % 6))
  BY Zenon DEF BitsOf, Bit
<1>5. BitsOf(c)[h] = Bit(c[(h - 1) \div 6 + 1], 1 + ((h - 1) % 6))
  BY <1>2, <1>4, Zenon
<1>6. BitsOf(c)[h] = Bit(c[j + 1], i)
  BY <1>3, <1>5, Zenon
<1> QED
  BY <1>6 DEF h

Weigh(p, q, r, s, t, u, v, w) == p * 128 + q * 64 + r * 32 + s * 16 + t * 8 + u * 4 + v * 2 + w

\* A byte of the bits is a byte of decode.
LEMMA WeighHigh ==
    ASSUME NEW x \in Sextets, NEW y \in Sextets
    PROVE  Weigh(Bit(x, 1), Bit(x, 2), Bit(x, 3), Bit(x, 4), Bit(x, 5), Bit(x, 6), Bit(y, 1), Bit(y, 2))
           = HighByte(x, y)
<1>1. x \in 0..63 /\ y \in 0..63
  BY AreNumbers
<1>2. /\ x = 32 * Bit(x, 1) + 16 * Bit(x, 2) + 8 * Bit(x, 3) + 4 * Bit(x, 4) + 2 * Bit(x, 5) + Bit(x, 6)
      /\ y \div 16 = 2 * Bit(y, 1) + Bit(y, 2)
  BY <1>1, BitsOfCharacter
<1>3. /\ Bit(x, 1) \in 0..1 /\ Bit(x, 2) \in 0..1 /\ Bit(x, 3) \in 0..1 /\ Bit(x, 4) \in 0..1
      /\ Bit(x, 5) \in 0..1 /\ Bit(x, 6) \in 0..1 /\ Bit(y, 1) \in 0..1 /\ Bit(y, 2) \in 0..1
  BY <1>1, BitsOfCharacter
<1> QED
  BY <1>2, <1>3, SMT DEF Weigh, HighByte

LEMMA WeighMiddle ==
    ASSUME NEW y \in Sextets, NEW z \in Sextets
    PROVE  Weigh(Bit(y, 3), Bit(y, 4), Bit(y, 5), Bit(y, 6), Bit(z, 1), Bit(z, 2), Bit(z, 3), Bit(z, 4))
           = MiddleByte(y, z)
<1>1. y \in 0..63 /\ z \in 0..63
  BY AreNumbers
<1>2. /\ y % 16 = 8 * Bit(y, 3) + 4 * Bit(y, 4) + 2 * Bit(y, 5) + Bit(y, 6)
      /\ z \div 4 = 8 * Bit(z, 1) + 4 * Bit(z, 2) + 2 * Bit(z, 3) + Bit(z, 4)
  BY <1>1, BitsOfCharacter
<1>3. /\ Bit(y, 3) \in 0..1 /\ Bit(y, 4) \in 0..1 /\ Bit(y, 5) \in 0..1 /\ Bit(y, 6) \in 0..1
      /\ Bit(z, 1) \in 0..1 /\ Bit(z, 2) \in 0..1 /\ Bit(z, 3) \in 0..1 /\ Bit(z, 4) \in 0..1
  BY <1>1, BitsOfCharacter
<1> QED
  BY <1>2, <1>3, SMT DEF Weigh, MiddleByte

LEMMA WeighLow ==
    ASSUME NEW z \in Sextets, NEW w \in Sextets
    PROVE  Weigh(Bit(z, 5), Bit(z, 6), Bit(w, 1), Bit(w, 2), Bit(w, 3), Bit(w, 4), Bit(w, 5), Bit(w, 6))
           = LowByte(z, w)
<1>1. z \in 0..63 /\ w \in 0..63
  BY AreNumbers
<1>2. /\ w = 32 * Bit(w, 1) + 16 * Bit(w, 2) + 8 * Bit(w, 3) + 4 * Bit(w, 4) + 2 * Bit(w, 5) + Bit(w, 6)
      /\ z % 4 = 2 * Bit(z, 5) + Bit(z, 6)
  BY <1>1, BitsOfCharacter
<1>3. /\ Bit(w, 1) \in 0..1 /\ Bit(w, 2) \in 0..1 /\ Bit(w, 3) \in 0..1 /\ Bit(w, 4) \in 0..1
      /\ Bit(w, 5) \in 0..1 /\ Bit(w, 6) \in 0..1 /\ Bit(z, 5) \in 0..1 /\ Bit(z, 6) \in 0..1
  BY <1>1, BitsOfCharacter
<1> QED
  BY <1>2, <1>3, SMT DEF Weigh, LowByte

\* the weighed bits after the first m
WeighAt(bits, m) ==
    Weigh(bits[m + 1], bits[m + 2], bits[m + 3], bits[m + 4],
          bits[m + 5], bits[m + 6], bits[m + 7], bits[m + 8])

LEMMA BytesAre ==
    ASSUME NEW bits, NEW k \in 1..(Len(bits) \div 8)
    PROVE  BytesOf(bits)[k] = WeighAt(bits, 8 * (k - 1))
BY Zenon DEF BytesOf, WeighAt, Weigh

LEMMA BitsLength ==
    ASSUME NEW c \in Seq(Sextets)
    PROVE  Len(BitsOf(c)) = 6 * Len(c) /\ 6 * Len(c) \in Nat
<1>1. 6 * Len(c) \in Nat
  OBVIOUS
<1> DEFINE f == BitsOf(c)
           S == {f[k] : k \in 1..(6 * Len(c))}
<1>2. f \in [1..(6 * Len(c)) -> S]
  BY Zenon DEF BitsOf
<1> HIDE DEF f, S
<1>3. Len(f) = 6 * Len(c)
  BY <1>1, <1>2, FunctionSeq
<1> QED
  BY <1>1, <1>3 DEF f

\* The bits of one character, at any place
LEMMA CharacterBits ==
    ASSUME NEW c \in Seq(Sextets), NEW j \in Nat, j + 1 \in 1..Len(c), NEW m, m = 6 * j,
           NEW bits, bits = BitsOf(c)
    PROVE  /\ bits[m + 1] = Bit(c[j + 1], 1) /\ bits[m + 2] = Bit(c[j + 1], 2)
           /\ bits[m + 3] = Bit(c[j + 1], 3) /\ bits[m + 4] = Bit(c[j + 1], 4)
           /\ bits[m + 5] = Bit(c[j + 1], 5) /\ bits[m + 6] = Bit(c[j + 1], 6)
<1>1. 1 \in 1..6 /\ 2 \in 1..6 /\ 3 \in 1..6 /\ 4 \in 1..6 /\ 5 \in 1..6 /\ 6 \in 1..6
  BY SMT
<1>2. \A i \in 1..6 : bits[m + i] = Bit(c[j + 1], i)
  BY BitAt
<1> QED
  BY <1>1, <1>2, Zenon

LEMMA BytesOfBits ==
    ASSUME NEW c \in Seq(Sextets), NEW k \in 1..ByteCount(Len(c))
    PROVE  BytesOf(BitsOf(c))[k] = Byte(c, k)
<1> DEFINE n == Len(c)
           bits == BitsOf(c)
           m == 8 * (k - 1)
<1>1. n \in Nat /\ \A h \in 1..n : c[h] \in Sextets
  OBVIOUS
<1>2. k \in Nat \ {0} /\ 8 * k <= 6 * n
  BY <1>1, SMT DEF ByteCount
<1>3. Len(bits) = 6 * n
  BY BitsLength
<1>4. BytesOf(bits)[k] = WeighAt(bits, m)
  <2>1. k \in 1..(Len(bits) \div 8)
    BY <1>3 DEF ByteCount
  <2> QED
    BY <2>1, BytesAre
<1>5. PICK j \in Nat : k = 3 * j + 1 \/ k = 3 * j + 2 \/ k = 3 * j + 3
  BY <1>2, ThreeCases
<1>6. ASSUME NEW h \in Nat, h + 1 \in 1..n, NEW p, p = 6 * h
      PROVE  /\ bits[p + 1] = Bit(c[h + 1], 1) /\ bits[p + 2] = Bit(c[h + 1], 2)
             /\ bits[p + 3] = Bit(c[h + 1], 3) /\ bits[p + 4] = Bit(c[h + 1], 4)
             /\ bits[p + 5] = Bit(c[h + 1], 5) /\ bits[p + 6] = Bit(c[h + 1], 6)
  BY <1>6, CharacterBits
<1>7. CASE k = 3 * j + 1
  <2>1. /\ 4 * j \in Nat /\ 4 * j + 1 \in 1..n /\ 4 * j + 1 \in Nat /\ 4 * j + 1 + 1 \in 1..n
        /\ 4 * j + 1 + 1 = 4 * j + 2
        /\ m = 6 * (4 * j) /\ m + 6 = 6 * (4 * j + 1) /\ m \in Nat
    BY <1>1, <1>2, <1>7, SMT
  <2>2. c[4 * j + 1] \in Sextets /\ c[4 * j + 2] \in Sextets
    BY <1>1, <2>1
  <2> HIDE DEF m, bits, n
  <2>3. m + 6 + 1 = m + 7 /\ m + 6 + 2 = m + 8
    BY <2>1, SMT
  <2>4. /\ bits[m + 1] = Bit(c[4 * j + 1], 1) /\ bits[m + 2] = Bit(c[4 * j + 1], 2)
        /\ bits[m + 3] = Bit(c[4 * j + 1], 3) /\ bits[m + 4] = Bit(c[4 * j + 1], 4)
        /\ bits[m + 5] = Bit(c[4 * j + 1], 5) /\ bits[m + 6] = Bit(c[4 * j + 1], 6)
    BY <1>6, <2>1
  <2>5. bits[m + 6 + 1] = Bit(c[4 * j + 1 + 1], 1) /\ bits[m + 6 + 2] = Bit(c[4 * j + 1 + 1], 2)
    BY <1>6, <2>1
  <2>6. bits[m + 7] = Bit(c[4 * j + 2], 1) /\ bits[m + 8] = Bit(c[4 * j + 2], 2)
    BY <2>1, <2>3, <2>5
  <2>7. WeighAt(bits, m) = HighByte(c[4 * j + 1], c[4 * j + 2])
    BY <2>2, <2>4, <2>6, WeighHigh DEF WeighAt
  <2>8. Byte(c, k) = HighByte(c[4 * j + 1], c[4 * j + 2])
    BY <1>7, ByteAt
  <2> QED
    BY <1>4, <2>7, <2>8 DEF bits
<1>8. CASE k = 3 * j + 2
  <2>1. /\ 4 * j + 1 \in Nat /\ 4 * j + 1 + 1 \in 1..n /\ 4 * j + 2 \in Nat /\ 4 * j + 2 + 1 \in 1..n
        /\ 4 * j + 1 + 1 = 4 * j + 2 /\ 4 * j + 2 + 1 = 4 * j + 3
        /\ m - 2 = 6 * (4 * j + 1) /\ m + 4 = 6 * (4 * j + 2) /\ m \in Nat
    BY <1>1, <1>2, <1>8, SMT
  <2>2. c[4 * j + 2] \in Sextets /\ c[4 * j + 3] \in Sextets
    BY <1>1, <2>1
  <2> HIDE DEF m, bits, n
  <2>3. /\ m - 2 + 3 = m + 1 /\ m - 2 + 4 = m + 2 /\ m - 2 + 5 = m + 3 /\ m - 2 + 6 = m + 4
        /\ m + 4 + 1 = m + 5 /\ m + 4 + 2 = m + 6 /\ m + 4 + 3 = m + 7 /\ m + 4 + 4 = m + 8
    BY <2>1, SMT
  <2>4. /\ bits[m - 2 + 3] = Bit(c[4 * j + 1 + 1], 3) /\ bits[m - 2 + 4] = Bit(c[4 * j + 1 + 1], 4)
        /\ bits[m - 2 + 5] = Bit(c[4 * j + 1 + 1], 5) /\ bits[m - 2 + 6] = Bit(c[4 * j + 1 + 1], 6)
    BY <1>6, <2>1
  <2>5. /\ bits[m + 4 + 1] = Bit(c[4 * j + 2 + 1], 1) /\ bits[m + 4 + 2] = Bit(c[4 * j + 2 + 1], 2)
        /\ bits[m + 4 + 3] = Bit(c[4 * j + 2 + 1], 3) /\ bits[m + 4 + 4] = Bit(c[4 * j + 2 + 1], 4)
    BY <1>6, <2>1
  <2>6. /\ bits[m + 1] = Bit(c[4 * j + 2], 3) /\ bits[m + 2] = Bit(c[4 * j + 2], 4)
        /\ bits[m + 3] = Bit(c[4 * j + 2], 5) /\ bits[m + 4] = Bit(c[4 * j + 2], 6)
        /\ bits[m + 5] = Bit(c[4 * j + 3], 1) /\ bits[m + 6] = Bit(c[4 * j + 3], 2)
        /\ bits[m + 7] = Bit(c[4 * j + 3], 3) /\ bits[m + 8] = Bit(c[4 * j + 3], 4)
    BY <2>1, <2>3, <2>4, <2>5
  <2>7. WeighAt(bits, m) = MiddleByte(c[4 * j + 2], c[4 * j + 3])
    BY <2>2, <2>6, WeighMiddle DEF WeighAt
  <2>8. Byte(c, k) = MiddleByte(c[4 * j + 2], c[4 * j + 3])
    BY <1>8, ByteAt
  <2> QED
    BY <1>4, <2>7, <2>8 DEF bits
<1>9. CASE k = 3 * j + 3
  <2>1. /\ 4 * j + 2 \in Nat /\ 4 * j + 2 + 1 \in 1..n /\ 4 * j + 3 \in Nat /\ 4 * j + 3 + 1 \in 1..n
        /\ 4 * j + 2 + 1 = 4 * j + 3 /\ 4 * j + 3 + 1 = 4 * j + 4
        /\ m - 4 = 6 * (4 * j + 2) /\ m + 2 = 6 * (4 * j + 3) /\ m \in Nat
    BY <1>1, <1>2, <1>9, SMT
  <2>2. c[4 * j + 3] \in Sextets /\ c[4 * j + 4] \in Sextets
    BY <1>1, <2>1
  <2> HIDE DEF m, bits, n
  <2>3. /\ m - 4 + 5 = m + 1 /\ m - 4 + 6 = m + 2 /\ m + 2 + 1 = m + 3 /\ m + 2 + 2 = m + 4
        /\ m + 2 + 3 = m + 5 /\ m + 2 + 4 = m + 6 /\ m + 2 + 5 = m + 7 /\ m + 2 + 6 = m + 8
    BY <2>1, SMT
  <2>4. bits[m - 4 + 5] = Bit(c[4 * j + 2 + 1], 5) /\ bits[m - 4 + 6] = Bit(c[4 * j + 2 + 1], 6)
    BY <1>6, <2>1
  <2>5. /\ bits[m + 2 + 1] = Bit(c[4 * j + 3 + 1], 1) /\ bits[m + 2 + 2] = Bit(c[4 * j + 3 + 1], 2)
        /\ bits[m + 2 + 3] = Bit(c[4 * j + 3 + 1], 3) /\ bits[m + 2 + 4] = Bit(c[4 * j + 3 + 1], 4)
        /\ bits[m + 2 + 5] = Bit(c[4 * j + 3 + 1], 5) /\ bits[m + 2 + 6] = Bit(c[4 * j + 3 + 1], 6)
    BY <1>6, <2>1
  <2>6. /\ bits[m + 1] = Bit(c[4 * j + 3], 5) /\ bits[m + 2] = Bit(c[4 * j + 3], 6)
        /\ bits[m + 3] = Bit(c[4 * j + 4], 1) /\ bits[m + 4] = Bit(c[4 * j + 4], 2)
        /\ bits[m + 5] = Bit(c[4 * j + 4], 3) /\ bits[m + 6] = Bit(c[4 * j + 4], 4)
        /\ bits[m + 7] = Bit(c[4 * j + 4], 5) /\ bits[m + 8] = Bit(c[4 * j + 4], 6)
    BY <2>1, <2>3, <2>4, <2>5
  <2>7. WeighAt(bits, m) = LowByte(c[4 * j + 3], c[4 * j + 4])
    BY <2>2, <2>6, WeighLow DEF WeighAt
  <2>8. Byte(c, k) = LowByte(c[4 * j + 3], c[4 * j + 4])
    BY <1>9, ByteAt
  <2> QED
    BY <1>4, <2>7, <2>8 DEF bits
<1> QED
  BY <1>5, <1>7, <1>8, <1>9

\* The bytes of the characters are the whole bytes of their bits.
LEMMA BitsBytes ==
    ASSUME NEW c \in Seq(Sextets), NEW bytes, AreBytes(bytes, c), Len(bytes) = ByteCount(Len(c))
    PROVE  bytes = BytesOf(BitsOf(c))
<1> DEFINE f == BytesOf(BitsOf(c))
           n == ByteCount(Len(c))
<1>1. Len(BitsOf(c)) = 6 * Len(c)
  BY BitsLength
<1>2. DOMAIN f = 1..(Len(BitsOf(c)) \div 8) /\ f = [k \in DOMAIN f |-> f[k]]
  BY Zenon DEF BytesOf
<1>3. DOMAIN f = 1..n
  BY <1>1, <1>2 DEF ByteCount
<1>4. \A k \in 1..n : f[k] = Byte(c, k)
  BY BytesOfBits
<1>5. bytes \in Seq(Octets) /\ \A k \in 1..n : bytes[k] = Byte(c, k)
  BY DEF AreBytes
<1>6. DOMAIN bytes = 1..n /\ bytes = [k \in DOMAIN bytes |-> bytes[k]]
  BY <1>5, LenProperties
<1> HIDE DEF f, n
<1>7. bytes = f
  BY <1>2, <1>3, <1>4, <1>5, <1>6, Zenon
<1> QED
  BY <1>7 DEF f

\* A byte is cut into the parts that go into its characters.
LEMMA CutByte ==
    ASSUME NEW b \in 0..255
    PROVE  /\ b \div 4 \in 0..63 /\ b % 4 \in 0..3 /\ b = 4 * (b \div 4) + (b % 4)
           /\ b \div 16 \in 0..15 /\ b % 16 \in 0..15 /\ b = 16 * (b \div 16) + (b % 16)
           /\ b \div 64 \in 0..3 /\ b % 64 \in 0..63 /\ b = 64 * (b \div 64) + (b % 64)
BY SMT

\* The bytes are found again in characters made of their parts.
LEMMA HighOfParts ==
    ASSUME NEW x \in 0..63, NEW a \in 0..3, NEW b \in 0..15
    PROVE  16 * a + b \in 0..63 /\ HighByte(x, 16 * a + b) = 4 * x + a
<1>1. 16 * a + b \in 0..63 /\ (16 * a + b) \div 16 = a
  BY SMT
<1> QED
  BY <1>1, SMT DEF HighByte

LEMMA MiddleOfParts ==
    ASSUME NEW a \in 0..3, NEW b \in 0..15, NEW c \in 0..15, NEW d \in 0..3
    PROVE  4 * c + d \in 0..63 /\ MiddleByte(16 * a + b, 4 * c + d) = 16 * b + c
<1>1. (16 * a + b) % 16 = b
  BY SMT
<1>2. 4 * c + d \in 0..63 /\ (4 * c + d) \div 4 = c
  BY SMT
<1> QED
  BY <1>1, <1>2, SMT DEF MiddleByte

LEMMA LowOfParts ==
    ASSUME NEW c \in 0..15, NEW d \in 0..3, NEW w \in 0..63
    PROVE  LowByte(4 * c + d, w) = 64 * d + w
<1>1. (4 * c + d) % 4 = d
  BY SMT
<1> QED
  BY <1>1, SMT DEF LowByte

\* Three bytes in four characters
LEMMA GroupIs ==
    ASSUME NEW p \in 0..255, NEW q \in 0..255, NEW r \in 0..255
    PROVE  Group(p, q, r) = <<p \div 4, 16 * (p % 4) + (q \div 16), 4 * (q % 16) + (r \div 64), r % 64>>
<1> DEFINE word == p * Shift8(2) + q * Shift8(1) + r
           A == p \div 4
           a == p % 4
           B == q \div 16
           b == q % 16
           C == r \div 64
           c == r % 64
<1>1. /\ A \in 0..63 /\ a \in 0..3 /\ p = 4 * A + a
      /\ B \in 0..15 /\ b \in 0..15 /\ q = 16 * B + b
      /\ C \in 0..3 /\ c \in 0..63 /\ r = 64 * C + c
  BY CutByte
<1>2. word = p * 65536 + q * 256 + r
  BY Shifts, SMT
<1> HIDE DEF word, A, a, B, b, C, c
<1>3. word \in Nat /\ word = 262144 * A + 4096 * (16 * a + B) + 64 * (4 * b + C) + c
  BY <1>1, <1>2, SMT
<1>4. word \div 262144 = A
  BY <1>1, <1>3, SMT
<1>5. word \div 4096 = 64 * A + (16 * a + B)
  BY <1>1, <1>3, SMT
<1>6. word \div 64 = 64 * (64 * A + (16 * a + B)) + (4 * b + C)
  BY <1>1, <1>3, SMT
<1>7. word = 64 * (64 * (64 * A + (16 * a + B)) + (4 * b + C)) + c
  BY <1>1, <1>3, SMT
<1>8. \A h \in Nat, l \in 0..63 : (64 * h + l) % 64 = l
  BY SMT
<1>9. /\ 16 * a + B \in 0..63 /\ 4 * b + C \in 0..63 /\ A \in Nat /\ 64 * A + (16 * a + B) \in Nat
      /\ 64 * (64 * A + (16 * a + B)) + (4 * b + C) \in Nat
  BY <1>1, SMT
<1>10. (word \div 262144) % 64 = A
  BY <1>1, <1>4, SMT
<1>11. (word \div 4096) % 64 = 16 * a + B
  BY <1>5, <1>8, <1>9, SMT
<1>12. (word \div 64) % 64 = 4 * b + C
  BY <1>6, <1>8, <1>9, SMT
<1>13. word % 64 = c
  BY <1>1, <1>7, <1>8, <1>9, SMT
<1>14. extract(word, 3) = A /\ extract(word, 2) = 16 * a + B /\ extract(word, 1) = 4 * b + C /\ extract(word, 0) = c
  <2>1. word \div 1 = word
    BY <1>3, SMT
  <2> QED
    BY <1>10, <1>11, <1>12, <1>13, <2>1, Shifts, SMT DEF extract
<1>15. Group(p, q, r) = <<extract(word, 3), extract(word, 2), extract(word, 1), extract(word, 0)>>
  BY DEF Group, word
<1> QED
  BY <1>14, <1>15 DEF A, a, B, b, C, c

\* Two bytes in three, and one in two
LEMMA LastIs ==
    ASSUME NEW p \in 0..255, NEW q \in 0..255
    PROVE  /\ LastTwo(p, q) = <<p \div 4, 16 * (p % 4) + (q \div 16), 4 * (q % 16), Pad>>
           /\ LastOne(p) = <<p \div 4, 16 * (p % 4), Pad, Pad>>
<1> DEFINE two == p * 1024 + q * 4
           one == p * 1024
           A == p \div 4
           a == p % 4
           B == q \div 16
           b == q % 16
<1>1. /\ A \in 0..63 /\ a \in 0..3 /\ p = 4 * A + a
      /\ B \in 0..15 /\ b \in 0..15 /\ q = 16 * B + b
  BY CutByte
<1> HIDE DEF A, a, B, b
<1>2. /\ two \in Nat /\ two = 4096 * A + 64 * (16 * a + B) + 4 * b
      /\ one \in Nat /\ one = 4096 * A + 64 * (16 * a)
  BY <1>1, SMT
<1> HIDE DEF two, one
<1>3. /\ two \div 4096 = A /\ two \div 64 = 64 * A + (16 * a + B)
      /\ two = 64 * (64 * A + (16 * a + B)) + 4 * b
      /\ one \div 4096 = A /\ one \div 64 = 64 * A + 16 * a
  BY <1>1, <1>2, SMT
<1>4. \A h \in Nat, l \in 0..63 : (64 * h + l) % 64 = l
  BY SMT
<1>5. /\ 16 * a + B \in 0..63 /\ 16 * a \in 0..63 /\ 4 * b \in 0..63 /\ A \in Nat
      /\ 64 * A + (16 * a + B) \in Nat
  BY <1>1, SMT
<1>6. (two \div 4096) % 64 = A /\ (one \div 4096) % 64 = A
  BY <1>1, <1>3, SMT
<1>7. (two \div 64) % 64 = 16 * a + B
  BY <1>3, <1>4, <1>5, SMT
<1>8. (one \div 64) % 64 = 16 * a
  BY <1>3, <1>4, <1>5, SMT
<1>9. two % 64 = 4 * b
  BY <1>3, <1>4, <1>5, SMT
<1>10. /\ extract(two, 2) = A /\ extract(two, 1) = 16 * a + B /\ extract(two, 0) = 4 * b
       /\ extract(one, 2) = A /\ extract(one, 1) = 16 * a
  <2>1. two \div 1 = two
    BY <1>2, SMT
  <2> QED
    BY <1>6, <1>7, <1>8, <1>9, <2>1, Shifts, SMT DEF extract
<1>11. /\ LastTwo(p, q) = <<extract(two, 2), extract(two, 1), extract(two, 0), Pad>>
       /\ LastOne(p) = <<extract(one, 2), extract(one, 1), Pad, Pad>>
  BY DEF LastTwo, LastOne, two, one
<1> QED
  BY <1>10, <1>11 DEF A, a, B, b

\* the four characters q hold the bytes of input after the first n
IsQuad(q, input, n) ==
    /\ q[1] \in Sextets /\ q[2] \in Sextets /\ HighByte(q[1], q[2]) = input[n + 1]
    /\ IF Len(input) >= n + 2 THEN q[3] \in Sextets /\ MiddleByte(q[2], q[3]) = input[n + 2]
                              ELSE q[3] = Pad
    /\ IF Len(input) >= n + 3 THEN q[4] \in Sextets /\ LowByte(q[3], q[4]) = input[n + 3]
                              ELSE q[4] = Pad

LEMMA QuadIs ==
    ASSUME NEW input \in Seq(Octets), NEW n \in Nat, n < Len(input)
    PROVE  IsQuad(Quad(input, n), input, n)
<1> DEFINE len == Len(input)
           p == input[n + 1]
           q == input[n + 2]
           r == input[n + 3]
           A == p \div 4
           a == p % 4
<1>1. len \in Nat /\ \A k \in 1..len : input[k] \in 0..255
  <2>1. len \in Nat /\ \A k \in 1..len : input[k] \in Octets
    OBVIOUS
  <2> QED
    BY <2>1, AreNumbers
<1>2. n + 1 \in 1..len /\ (len >= n + 2 => n + 2 \in 1..len) /\ (len >= n + 3 => n + 3 \in 1..len)
      /\ (len >= n + 3 => len >= n + 2)
  BY <1>1, SMT
<1>3. p \in 0..255 /\ (len >= n + 2 => q \in 0..255) /\ (len >= n + 3 => r \in 0..255)
  BY <1>1, <1>2
<1>4. Quad(input, n) = IF len >= n + 3 THEN Group(p, q, r)
                       ELSE IF len = n + 2 THEN LastTwo(p, q) ELSE LastOne(p)
  BY DEF Quad
<1>5. A \in 0..63 /\ a \in 0..3 /\ p = 4 * A + a
  BY <1>3, CutByte
<1>6. \A t, u, v, w : LET s == <<t, u, v, w>> IN s[1] = t /\ s[2] = u /\ s[3] = v /\ s[4] = w
  OBVIOUS
<1>7. CASE len >= n + 3
  <2> DEFINE B == q \div 16
             b == q % 16
             C == r \div 64
             c == r % 64
  <2>1. /\ B \in 0..15 /\ b \in 0..15 /\ q = 16 * B + b
        /\ C \in 0..3 /\ c \in 0..63 /\ r = 64 * C + c
    BY <1>2, <1>3, <1>7, CutByte
  <2>2. Quad(input, n) = <<A, 16 * a + B, 4 * b + C, c>>
    BY <1>2, <1>3, <1>4, <1>7, GroupIs
  <2> HIDE DEF p, q, r, A, a, B, b, C, c
  <2>3. /\ 16 * a + B \in 0..63 /\ 4 * b + C \in 0..63
        /\ HighByte(A, 16 * a + B) = 4 * A + a
        /\ MiddleByte(16 * a + B, 4 * b + C) = 16 * B + b
        /\ LowByte(4 * b + C, c) = 64 * C + c
    <3>1. 16 * a + B \in 0..63 /\ HighByte(A, 16 * a + B) = 4 * A + a
      BY <1>5, <2>1, HighOfParts
    <3>2. 4 * b + C \in 0..63 /\ MiddleByte(16 * a + B, 4 * b + C) = 16 * B + b
      BY <1>5, <2>1, MiddleOfParts
    <3>3. LowByte(4 * b + C, c) = 64 * C + c
      BY <2>1, LowOfParts
    <3> QED
      BY <3>1, <3>2, <3>3
  <2>4. /\ Quad(input, n)[1] = A /\ Quad(input, n)[2] = 16 * a + B
        /\ Quad(input, n)[3] = 4 * b + C /\ Quad(input, n)[4] = c
    BY <1>6, <2>2
  <2>5. A \in Sextets /\ 16 * a + B \in Sextets /\ 4 * b + C \in Sextets /\ c \in Sextets
    BY <1>5, <2>1, <2>3, AreNumbers
  <2>6. /\ HighByte(A, 16 * a + B) = p /\ MiddleByte(16 * a + B, 4 * b + C) = q
        /\ LowByte(4 * b + C, c) = r
    BY <1>5, <2>1, <2>3
  <2> QED
    BY <1>2, <1>7, <2>4, <2>5, <2>6 DEF IsQuad, p, q, r
<1>8. CASE len = n + 2
  <2> DEFINE B == q \div 16
             b == q % 16
  <2>0. len >= n + 2 /\ ~(len >= n + 3)
    BY <1>1, <1>8, SMT
  <2>1. B \in 0..15 /\ b \in 0..15 /\ q = 16 * B + b
    BY <1>3, <2>0, CutByte
  <2>2. Quad(input, n) = <<A, 16 * a + B, 4 * b, Pad>>
    BY <1>3, <1>4, <1>8, <2>0, LastIs
  <2> HIDE DEF p, q, A, a, B, b
  <2>3. /\ 16 * a + B \in 0..63 /\ 4 * b + 0 \in 0..63
        /\ HighByte(A, 16 * a + B) = 4 * A + a
        /\ MiddleByte(16 * a + B, 4 * b + 0) = 16 * B + b
    <3>1. 0 \in 0..3
      BY SMT
    <3>2. 16 * a + B \in 0..63 /\ HighByte(A, 16 * a + B) = 4 * A + a
      BY <1>5, <2>1, HighOfParts
    <3>3. 4 * b + 0 \in 0..63 /\ MiddleByte(16 * a + B, 4 * b + 0) = 16 * B + b
      BY <1>5, <2>1, <3>1, MiddleOfParts
    <3> QED
      BY <3>2, <3>3
  <2>4. 4 * b + 0 = 4 * b
    BY <2>1, SMT
  <2>5. /\ Quad(input, n)[1] = A /\ Quad(input, n)[2] = 16 * a + B
        /\ Quad(input, n)[3] = 4 * b /\ Quad(input, n)[4] = Pad
    BY <1>6, <2>2
  <2>6. A \in Sextets /\ 16 * a + B \in Sextets /\ 4 * b \in Sextets
    BY <1>5, <2>3, <2>4, AreNumbers
  <2>7. HighByte(A, 16 * a + B) = p /\ MiddleByte(16 * a + B, 4 * b) = q
    BY <1>5, <2>1, <2>3, <2>4
  <2> QED
    BY <2>0, <2>5, <2>6, <2>7 DEF IsQuad, p, q
<1>9. CASE ~(len >= n + 3) /\ len # n + 2
  <2>0. ~(len >= n + 2)
    BY <1>1, <1>9, SMT
  <2>1. Quad(input, n) = <<A, 16 * a, Pad, Pad>>
    <3>1. 0 \in 0..255
      BY SMT
    <3> QED
      BY <1>3, <1>4, <1>9, LastIs
  <2> HIDE DEF p, A, a
  <2>2. 16 * a + 0 \in 0..63 /\ HighByte(A, 16 * a + 0) = 4 * A + a /\ 16 * a + 0 = 16 * a
    <3>1. 0 \in 0..15 /\ 0 \in 0..3 /\ 0 \in 0..63 /\ 16 * a + 0 = 16 * a
      BY <1>5, SMT
    <3> QED
      BY <1>5, <3>1, HighOfParts
  <2>3. /\ Quad(input, n)[1] = A /\ Quad(input, n)[2] = 16 * a
        /\ Quad(input, n)[3] = Pad /\ Quad(input, n)[4] = Pad
    BY <1>6, <2>1
  <2>4. A \in Sextets /\ 16 * a \in Sextets
    <3>1. 16 * a \in 0..63
      BY <1>5, SMT
    <3> QED
      BY <1>5, <3>1, AreNumbers
  <2>5. HighByte(A, 16 * a) = p
    BY <1>5, <2>2
  <2> QED
    BY <1>9, <2>0, <2>3, <2>4, <2>5 DEF IsQuad, p
<1> QED
  BY <1>7, <1>8, <1>9

\* characters of encoded text, and texts of AUTHENTICATE commands
Codes == 0..Junk
Texts == Seq(Codes)

LEMMA SextetCodes == (\A x \in Sextets : x \in Codes) /\ Pad \in Codes /\ Pad \notin Sextets
BY DEF Sextets, Codes, Pad, Junk

\* the characters of the alphabet in the code of n bytes, before the padding
Characters(n) == (4 * n + 2) \div 3

\* Groups before and in the code of n bytes
LEMMA SizeIs ==
    ASSUME NEW n \in Nat
    PROVE  /\ encoded_size(n) \in Nat /\ encoded_size(n) = 4 * ((n + 2) \div 3)
           /\ (n + 2) \div 3 \in Nat /\ Characters(n) \in Nat
BY SMT DEF encoded_size, Characters

LEMMA FourCases ==
    ASSUME NEW k \in Nat \ {0}
    PROVE  \E j \in Nat : k = 4 * j + 1 \/ k = 4 * j + 2 \/ k = 4 * j + 3 \/ k = 4 * j + 4
<1>1. (k - 1) \div 4 \in Nat
  BY SMT
<1>2. LET j == (k - 1) \div 4 IN k = 4 * j + 1 \/ k = 4 * j + 2 \/ k = 4 * j + 3 \/ k = 4 * j + 4
  BY SMT
<1> QED
  BY <1>1, <1>2

\* Group j of the code
LEMMA EncodeAt ==
    ASSUME NEW input \in Seq(Octets), NEW j \in Nat, 3 * j < Len(input)
    PROVE  /\ encode(input)[4 * j + 1] = Quad(input, 3 * j)[1]
           /\ encode(input)[4 * j + 2] = Quad(input, 3 * j)[2]
           /\ encode(input)[4 * j + 3] = Quad(input, 3 * j)[3]
           /\ encode(input)[4 * j + 4] = Quad(input, 3 * j)[4]
<1> DEFINE T == encoded_size(Len(input))
<1>1. Len(input) \in Nat
  OBVIOUS
<1>2. \A k \in 1..T : encode(input)[k] = Quad(input, 3 * ((k - 1) \div 4))[1 + ((k - 1) % 4)]
  BY Zenon DEF encode
<1>3. T = 4 * ((Len(input) + 2) \div 3)
  BY <1>1, SizeIs
<1> HIDE DEF T
<1>4. ASSUME NEW i \in 1..4
      PROVE  encode(input)[4 * j + i] = Quad(input, 3 * j)[i]
  <2> DEFINE h == 4 * j + i
  <2>1. h \in 1..T
    BY <1>1, <1>3, SMT
  <2>2. (h - 1) \div 4 = j /\ 1 + ((h - 1) % 4) = i
    BY SMT
  <2> HIDE DEF h
  <2>3. encode(input)[h] = Quad(input, 3 * ((h - 1) \div 4))[1 + ((h - 1) % 4)]
    BY <1>2, <2>1, Zenon
  <2>4. encode(input)[h] = Quad(input, 3 * j)[i]
    BY <2>2, <2>3, Zenon
  <2> QED
    BY <2>4 DEF h
<1>5. 1 \in 1..4 /\ 2 \in 1..4 /\ 3 \in 1..4 /\ 4 \in 1..4
  BY SMT
<1> QED
  BY <1>4, <1>5, Zenon

\* Padding comes last.
LEMMA EncodeCharacters ==
    ASSUME NEW input \in Seq(Octets), NEW k \in 1..encoded_size(Len(input))
    PROVE  /\ k <= Characters(Len(input)) => encode(input)[k] \in Sextets
           /\ k > Characters(Len(input)) => encode(input)[k] = Pad
<1> DEFINE len == Len(input)
           N == Characters(len)
<1>1. len \in Nat
  OBVIOUS
<1>2. encoded_size(len) = 4 * ((len + 2) \div 3) /\ encoded_size(len) \in Nat /\ N \in Nat
  BY <1>1, SizeIs
<1>3. k \in Nat \ {0} /\ k <= 4 * ((len + 2) \div 3)
  BY <1>2, SMT
<1>4. PICK j \in Nat : k = 4 * j + 1 \/ k = 4 * j + 2 \/ k = 4 * j + 3 \/ k = 4 * j + 4
  BY <1>3, FourCases
<1>5. 3 * j < len
  BY <1>1, <1>3, <1>4, SMT
<1> DEFINE q == Quad(input, 3 * j)
<1>6. IsQuad(q, input, 3 * j)
  <2>1. 3 * j \in Nat
    BY SMT
  <2> QED
    BY <1>5, <2>1, QuadIs
<1>7. /\ encode(input)[4 * j + 1] = q[1] /\ encode(input)[4 * j + 2] = q[2]
      /\ encode(input)[4 * j + 3] = q[3] /\ encode(input)[4 * j + 4] = q[4]
  BY <1>5, EncodeAt
<1>8. /\ q[1] \in Sextets /\ q[2] \in Sextets
      /\ (len >= 3 * j + 2 => q[3] \in Sextets) /\ (~(len >= 3 * j + 2) => q[3] = Pad)
      /\ (len >= 3 * j + 3 => q[4] \in Sextets) /\ (~(len >= 3 * j + 3) => q[4] = Pad)
  BY <1>6 DEF IsQuad
<1>9. /\ 4 * j + 1 <= N /\ 4 * j + 2 <= N
      /\ (4 * j + 3 <= N <=> len >= 3 * j + 2) /\ (4 * j + 4 <= N <=> len >= 3 * j + 3)
  BY <1>1, <1>5, SMT DEF Characters
<1>10. k > N <=> ~(k <= N)
  BY <1>2, <1>3, SMT
<1> HIDE DEF q, N, len
<1>11. CASE k = 4 * j + 1 \/ k = 4 * j + 2
  BY <1>7, <1>8, <1>9, <1>10, <1>11 DEF N, len
<1>12. CASE k = 4 * j + 3
  BY <1>7, <1>8, <1>9, <1>10, <1>12 DEF N, len
<1>13. CASE k = 4 * j + 4
  BY <1>7, <1>8, <1>9, <1>10, <1>13 DEF N, len
<1> QED
  BY <1>4, <1>11, <1>12, <1>13

\* The code holds the bytes.
LEMMA EncodeBytes ==
    ASSUME NEW input \in Seq(Octets), NEW k \in 1..Len(input)
    PROVE  Byte(encode(input), k) = input[k]
<1> DEFINE len == Len(input)
           text == encode(input)
<1>1. len \in Nat /\ k \in Nat \ {0} /\ k <= len
  BY SMT
<1>2. PICK j \in Nat : k = 3 * j + 1 \/ k = 3 * j + 2 \/ k = 3 * j + 3
  BY <1>1, ThreeCases
<1>3. 3 * j < len /\ 3 * j \in Nat
  BY <1>1, <1>2, SMT
<1> DEFINE q == Quad(input, 3 * j)
<1>4. IsQuad(q, input, 3 * j)
  BY <1>3, QuadIs
<1>5. /\ text[4 * j + 1] = q[1] /\ text[4 * j + 2] = q[2]
      /\ text[4 * j + 3] = q[3] /\ text[4 * j + 4] = q[4]
  BY <1>3, EncodeAt
<1>6. /\ HighByte(q[1], q[2]) = input[3 * j + 1]
      /\ len >= 3 * j + 2 => MiddleByte(q[2], q[3]) = input[3 * j + 2]
      /\ len >= 3 * j + 3 => LowByte(q[3], q[4]) = input[3 * j + 3]
  BY <1>4 DEF IsQuad
<1>7. /\ k = 3 * j + 2 => len >= 3 * j + 2
      /\ k = 3 * j + 3 => len >= 3 * j + 3
  BY <1>1, SMT
<1> HIDE DEF q, text, len
<1>8. /\ Byte(text, 3 * j + 1) = HighByte(q[1], q[2])
      /\ Byte(text, 3 * j + 2) = MiddleByte(q[2], q[3])
      /\ Byte(text, 3 * j + 3) = LowByte(q[3], q[4])
  BY <1>5, ByteAt
<1>9. Byte(text, k) = input[k]
  BY <1>2, <1>6, <1>7, <1>8
<1> QED
  BY <1>9 DEF text

LEMMA EncodeType ==
    ASSUME NEW input \in Seq(Octets)
    PROVE  encode(input) \in Texts /\ Len(encode(input)) = encoded_size(Len(input))
<1> DEFINE T == encoded_size(Len(input))
           f == encode(input)
<1>1. T \in Nat /\ Len(input) \in Nat
  BY SizeIs
<1>2. Characters(Len(input)) \in Nat
  BY <1>1, SizeIs
<1>3. ASSUME NEW k \in 1..T
      PROVE  f[k] \in Codes
  <2>1. k <= Characters(Len(input)) \/ k > Characters(Len(input))
    BY <1>1, <1>2, SMT
  <2> QED
    BY <2>1, EncodeCharacters, SextetCodes
<1>4. f = [k \in 1..T |-> f[k]]
  BY Zenon DEF encode
<1> HIDE DEF f, T
<1>5. f \in [1..T -> Codes]
  BY <1>3, <1>4, Zenon
<1>6. f \in Seq(Codes) /\ Len(f) = T
  BY <1>1, <1>5, FunctionSeq
<1> QED
  BY <1>6 DEF Texts, f, T

\* the characters of text at the positions used
Chosen(text, used) == [r \in 1..Len(used) |-> text[used[r]]]

\* decode has read p characters of text
Reads(text, p, used, bytes, word) ==
    /\ used \in Seq(Nat) /\ Selects(used, text, p) /\ Len(used) <= p
    /\ Chosen(text, used) \in Seq(Sextets) /\ Len(Chosen(text, used)) = Len(used)
    /\ Layout(Chosen(text, used), bytes, word)

LEMMA SelectsSkip ==
    ASSUME NEW used \in Seq(Nat), NEW text, NEW p \in Nat, Selects(used, text, p),
           text[p + 1] \notin 0..63
    PROVE  Selects(used, text, p + 1)
<1>1. \A k \in 1..(p + 1) : k \in 1..p \/ k = p + 1
  BY SMT
<1>2. \A k \in 1..p : k \in 1..(p + 1)
  BY SMT
<1>3. /\ \A r \in DOMAIN used : used[r] \in 1..p /\ text[used[r]] \in 0..63
      /\ \A k \in 1..p : text[k] \in 0..63 => \E r \in DOMAIN used : used[r] = k
      /\ \A r, s \in DOMAIN used : r < s => used[r] < used[s]
  BY DEF Selects
<1>4. \A r \in DOMAIN used : used[r] \in 1..(p + 1) /\ text[used[r]] \in 0..63
  BY <1>2, <1>3
<1>5. \A k \in 1..(p + 1) : text[k] \in 0..63 => \E r \in DOMAIN used : used[r] = k
  BY <1>1, <1>3
<1> QED
  BY <1>3, <1>4, <1>5, Zenon DEF Selects

LEMMA SelectsTake ==
    ASSUME NEW used \in Seq(Nat), NEW text, NEW p \in Nat, Selects(used, text, p),
           text[p + 1] \in 0..63
    PROVE  Selects(Append(used, p + 1), text, p + 1)
<1> DEFINE n == Len(used)
           more == Append(used, p + 1)
<1>1. n \in Nat /\ DOMAIN used = 1..n /\ more \in Seq(Nat) /\ Len(more) = n + 1 /\ DOMAIN more = 1..(n + 1)
  OBVIOUS
<1>2. more[n + 1] = p + 1 /\ \A r \in 1..n : more[r] = used[r]
  OBVIOUS
<1>3. /\ \A k \in 1..(p + 1) : k \in 1..p \/ k = p + 1
      /\ \A k \in 1..p : k \in 1..(p + 1) /\ k < p + 1
      /\ p + 1 \in 1..(p + 1)
  BY SMT
<1>4. /\ \A k \in 1..(n + 1) : k \in 1..n \/ k = n + 1
      /\ \A k \in 1..n : k \in 1..(n + 1) /\ ~(n + 1 < k)
      /\ n + 1 \in 1..(n + 1) /\ ~(n + 1 < n + 1)
  BY <1>1, SMT
<1>5. /\ \A r \in 1..n : used[r] \in 1..p /\ text[used[r]] \in 0..63
      /\ \A k \in 1..p : text[k] \in 0..63 => \E r \in 1..n : used[r] = k
      /\ \A r, s \in 1..n : r < s => used[r] < used[s]
  BY <1>1 DEF Selects
<1> HIDE DEF n, more
<1>6. \A r \in 1..(n + 1) : more[r] \in 1..(p + 1) /\ text[more[r]] \in 0..63
  BY <1>2, <1>3, <1>4, <1>5
<1>7. \A k \in 1..(p + 1) : text[k] \in 0..63 => \E r \in 1..(n + 1) : more[r] = k
  BY <1>2, <1>3, <1>4, <1>5
<1>8. ASSUME NEW r \in 1..(n + 1), NEW s \in 1..(n + 1), r < s
      PROVE  more[r] < more[s]
  <2>1. r \in 1..n
    BY <1>1, <1>8, SMT
  <2>2. CASE s \in 1..n
    BY <1>2, <1>5, <1>8, <2>1, <2>2
  <2>3. CASE s = n + 1
    BY <1>2, <1>3, <1>5, <2>1, <2>3
  <2> QED
    BY <1>4, <2>2, <2>3
<1>9. Selects(more, text, p + 1)
  BY <1>1, <1>6, <1>7, <1>8, Zenon DEF Selects
<1> QED
  BY <1>9 DEF more

LEMMA ChosenTake ==
    ASSUME NEW text, NEW used \in Seq(Nat), NEW p \in Nat, text[p] \in Sextets,
           Chosen(text, used) \in Seq(Sextets), Len(Chosen(text, used)) = Len(used)
    PROVE  Chosen(text, Append(used, p)) = Append(Chosen(text, used), text[p])
<1> DEFINE n == Len(used)
           more == Append(used, p)
           c == Chosen(text, used)
           d == Chosen(text, more)
           e == Append(c, text[p])
<1>1. n \in Nat /\ Len(more) = n + 1 /\ more[n + 1] = p /\ \A r \in 1..n : more[r] = used[r]
  OBVIOUS
<1>2. \A r \in 1..n : c[r] = text[used[r]]
  BY DEF Chosen
<1>3. d = [r \in 1..(n + 1) |-> text[more[r]]]
  BY <1>1 DEF Chosen
<1> HIDE DEF c, d, more
<1>4. e \in Seq(Sextets) /\ Len(e) = n + 1 /\ e[n + 1] = text[p] /\ \A r \in 1..n : e[r] = c[r]
  BY DEF c
<1>5. \A r \in 1..(n + 1) : r \in 1..n \/ r = n + 1
  BY <1>1, SMT
<1>6. \A r \in 1..(n + 1) : e[r] = text[more[r]]
  BY <1>1, <1>2, <1>4, <1>5
<1> HIDE DEF e
<1>7. e = [r \in 1..(n + 1) |-> e[r]]
  BY <1>4, LenProperties
<1>8. d = e
  BY <1>3, <1>6, <1>7, Zenon
<1> QED
  BY <1>8 DEF c, d, e, more

\* A character that is not of the alphabet is skipped.
LEMMA ReadsSkip ==
    ASSUME NEW text, NEW p \in Nat, NEW used, NEW bytes, NEW word,
           Reads(text, p, used, bytes, word), text[p + 1] \notin 0..63
    PROVE  Reads(text, p + 1, used, bytes, word)
<1>1. used \in Seq(Nat) /\ Selects(used, text, p) /\ Len(used) <= p
  BY DEF Reads
<1>2. Selects(used, text, p + 1)
  BY <1>1, SelectsSkip
<1>3. Len(used) <= p + 1
  BY <1>1
<1> QED
  BY <1>2, <1>3 DEF Reads

\* One of the alphabet is used.
LEMMA ReadsTake ==
    ASSUME NEW text, NEW p \in Nat, NEW used, NEW bytes, NEW b, Reads(text, p, used, bytes, b),
           text[p + 1] \in 0..63, NEW word, word = b * 64 + text[p + 1]
    PROVE  /\ ~filled(word, 4) => Reads(text, p + 1, Append(used, p + 1), bytes, word)
           /\ filled(word, 4) => Reads(text, p + 1, Append(used, p + 1), bytes \o Bytes(word, 3), 1)
<1> DEFINE c == Chosen(text, used)
           x == text[p + 1]
           more == Append(used, p + 1)
           d == Chosen(text, more)
<1>1. used \in Seq(Nat) /\ Selects(used, text, p) /\ Len(used) <= p
  BY DEF Reads
<1>2. c \in Seq(Sextets) /\ Len(c) = Len(used) /\ Layout(c, bytes, b)
  BY DEF Reads
<1>3. x \in Sextets
  BY AreNumbers
<1>4. Selects(more, text, p + 1)
  BY <1>1, SelectsTake
<1>5. more \in Seq(Nat) /\ Len(more) = Len(used) + 1 /\ Len(more) <= p + 1 /\ p + 1 \in Nat
  BY <1>1
<1>6. d = Append(c, x)
  BY <1>1, <1>2, <1>3, <1>5, ChosenTake
<1> HIDE DEF c, x, d, more
<1>7. d \in Seq(Sextets) /\ Len(d) = Len(more)
  BY <1>2, <1>3, <1>5, <1>6
<1>8. /\ ~filled(word, 4) => Layout(d, bytes, word)
      /\ filled(word, 4) => Layout(d, bytes \o Bytes(word, 3), 1)
  <2>1. word = b * 64 + x
    BY DEF x
  <2>2. /\ ~filled(b * 64 + x, 4) => Layout(Append(c, x), bytes, b * 64 + x)
        /\ filled(b * 64 + x, 4) => Layout(Append(c, x), bytes \o Bytes(b * 64 + x, 3), 1)
    BY <1>2, <1>3, FeedLayout, Zenon
  <2> QED
    BY <1>6, <2>1, <2>2
<1> QED
  BY <1>4, <1>5, <1>7, <1>8 DEF Reads, d, more

\* Before the first character
LEMMA ReadsNothing ==
    ASSUME NEW text
    PROVE  Reads(text, 0, <<>>, <<>>, 1)
<1>1. <<>> \in Seq(Nat) /\ Len(<<>>) = 0 /\ Selects(<<>>, text, 0)
  BY SMT DEF Selects
<1>2. Chosen(text, <<>>) = <<>>
  BY <1>1 DEF Chosen
<1>3. <<>> \in Seq(Sextets) /\ <<>> \in Seq(Octets)
  OBVIOUS
<1>4. 0 % 4 = 0 /\ 3 * (0 \div 4) = 0 /\ \A k : k \notin 1..0
  BY SMT
<1>5. Buffered(<<>>) = 1
  BY <1>1, <1>3, <1>4, BufferedAt
<1>6. Layout(<<>>, <<>>, 1)
  BY <1>1, <1>3, <1>4, <1>5 DEF Layout
<1> DEFINE none == Chosen(text, <<>>)
<1>7. none \in Seq(Sextets) /\ Len(none) = Len(<<>>) /\ Layout(none, <<>>, 1)
  BY <1>2, <1>3, <1>6, Zenon
<1> HIDE DEF none
<1>8. Len(<<>>) <= 0
  BY <1>1
<1> QED
  BY <1>1, <1>7, <1>8, Zenon DEF Reads, none

-----------------------------------------------------------------------------
(***************************************************************************)
(* Decoding                                                                *)
(***************************************************************************)

Base64Types ==
    /\ body \in Seq(Octets) /\ from \in Nat \ {0}
    /\ sent \in Seq(Texts) /\ got \in 0..Len(sent)
    /\ mode \in {"waiting", "decoding", "failed"}

DecodeInv ==
    /\ Base64Types
    /\ mode = "decoding" =>
          /\ got \in 1..Len(sent) /\ pos \in 0..Len(chunk)
          /\ Reads(chunk, pos, taken, out, buffer)

LEMMA SentTypes ==
    ASSUME Base64Types, NEW text \in Texts, sent' = Append(sent, text)
    PROVE  /\ sent' \in Seq(Texts) /\ Len(sent') = Len(sent) + 1 /\ sent'[Len(sent) + 1] = text
           /\ got \in 0..Len(sent')
           /\ \A k \in 1..Len(sent) : sent'[k] = sent[k] /\ k \in 1..Len(sent')
<1>1. sent \in Seq(Texts) /\ Len(sent) \in Nat /\ got \in 0..Len(sent)
  BY DEF Base64Types
<1>2. /\ sent' \in Seq(Texts) /\ Len(sent') = Len(sent) + 1 /\ sent'[Len(sent) + 1] = text
      /\ \A k \in 1..Len(sent) : sent'[k] = sent[k]
  BY <1>1
<1> QED
  BY <1>1, <1>2

LEMMA PlusText == Plus \in Texts /\ Len(Plus) = 1
<1>1. 62 \in Codes
  BY DEF Codes, Junk
<1> QED
  BY <1>1 DEF Texts, Plus

\* what SendChunk sends
Portion(text, i) ==
    LET last == i + ChunkSize - 1
    IN SubSeq(text, i, IF last <= Len(text) THEN last ELSE Len(text))

LEMMA PortionIs ==
    ASSUME NEW text \in Texts, NEW i \in 1..Len(text),
           NEW m, m = IF i + ChunkSize - 1 <= Len(text) THEN ChunkSize ELSE Len(text) - i + 1
    PROVE  /\ Portion(text, i) \in Texts /\ m \in 1..ChunkSize /\ Len(Portion(text, i)) = m
           /\ \A k \in 1..m : Portion(text, i)[k] = text[i + k - 1]
<1> DEFINE last == IF i + ChunkSize - 1 <= Len(text) THEN i + ChunkSize - 1 ELSE Len(text)
<1>1. Len(text) \in Nat /\ ChunkSize \in Nat \ {0} /\ i \in Nat \ {0} /\ i <= Len(text)
  BY Base64Assumption DEF Texts
<1>2. \A k \in 1..Len(text) : text[k] \in Codes
  BY DEF Texts
<1>3. last \in Int /\ i \in Int /\ i <= last /\ last <= Len(text) /\ m = last - i + 1 /\ m \in 1..ChunkSize
  BY <1>1
<1>4. Portion(text, i) = SubSeq(text, i, last)
  BY DEF Portion
<1> HIDE DEF last
<1>5. \A k \in i..last : k \in 1..Len(text)
  BY <1>1, <1>3
<1>6. \A k \in i..last : text[k] \in Codes
  BY <1>2, <1>5
<1>7. /\ SubSeq(text, i, last) \in Seq(Codes)
      /\ Len(SubSeq(text, i, last)) = IF i <= last THEN last - i + 1 ELSE 0
      /\ \A k \in 1..(last - i + 1) : SubSeq(text, i, last)[k] = text[i + k - 1]
  BY <1>3, <1>6, SubSeqProperties
<1> QED
  BY <1>3, <1>4, <1>7 DEF Texts

\* The steps of the sender
LEMMA SendTypes ==
    ASSUME Base64Types, SendChunk \/ SendEnd
    PROVE  /\ Base64Types'
           /\ \A k \in 1..Len(sent) : sent'[k] = sent[k] /\ k \in 1..Len(sent')
<1> DEFINE text == encode(body)
<1>1. body \in Seq(Octets) /\ from \in Nat \ {0} /\ sent \in Seq(Texts) /\ got \in 0..Len(sent)
  BY DEF Base64Types
<1>2. text \in Texts /\ Len(text) \in Nat
  BY <1>1, EncodeType DEF Texts
<1> HIDE DEF text
<1>3. CASE SendChunk
  <2>1. /\ from <= Len(text) /\ sent' = Append(sent, Portion(text, from))
        /\ from' = from + ChunkSize /\ UNCHANGED <<body, got, mode>>
    BY <1>3 DEF SendChunk, Portion, text
  <2>2. from \in 1..Len(text) /\ from' \in Nat \ {0}
    BY <1>1, <1>2, <2>1, Base64Assumption
  <2>3. Portion(text, from) \in Texts
    BY <1>2, <2>2, PortionIs
  <2>4. /\ sent' \in Seq(Texts) /\ got \in 0..Len(sent')
        /\ \A k \in 1..Len(sent) : sent'[k] = sent[k] /\ k \in 1..Len(sent')
    BY <2>1, <2>3, SentTypes
  <2> QED
    BY <2>1, <2>2, <2>4 DEF Base64Types
<1>4. CASE SendEnd
  <2>1. /\ sent' = Append(sent, Plus) \/ sent' = sent
        /\ UNCHANGED <<body, from, got, mode>>
    BY <1>4 DEF SendEnd
  <2>2. CASE sent' = Append(sent, Plus)
    <3>1. /\ sent' \in Seq(Texts) /\ got \in 0..Len(sent')
          /\ \A k \in 1..Len(sent) : sent'[k] = sent[k] /\ k \in 1..Len(sent')
      BY <2>2, PlusText, SentTypes
    <3> QED
      BY <2>1, <3>1 DEF Base64Types
  <2>3. CASE sent' = sent
    BY <2>1, <2>3 DEF Base64Types
  <2> QED
    BY <2>1, <2>2, <2>3
<1> QED
  BY <1>3, <1>4

LEMMA DecodeInitInv ==
    ASSUME Base64Init
    PROVE  DecodeInv
<1>1. body \in Seq(Octets) /\ sent \in Seq(Texts)
  <2>1. <<>> \in Seq(Octets) /\ <<>> \in Seq(Texts)
    OBVIOUS
  <2>2. \A b \in Bodies : b \in Seq(Octets)
    BY Base64Assumption DEF Octets
  <2>3. \A t \in Scripts : t \in Seq(Texts)
    BY Base64Assumption DEF Texts, Codes
  <2> QED
    BY <2>1, <2>2, <2>3 DEF Base64Init
<1>2. from = 1 /\ got = 0 /\ mode = "waiting"
  BY DEF Base64Init
<1>3. Len(sent) \in Nat
  BY <1>1
<1> QED
  BY <1>1, <1>2, <1>3 DEF DecodeInv, Base64Types

LEMMA FeedInv ==
    ASSUME DecodeInv, Feed
    PROVE  DecodeInv'
<1> DEFINE c == chunk[pos + 1]
           word == buffer * 64 + c
<1>1. /\ mode = "decoding" /\ pos < Len(chunk) /\ pos' = pos + 1
      /\ UNCHANGED <<body, from, sent, got, mode>>
  BY DEF Feed
<1>2. Base64Types /\ got \in 1..Len(sent) /\ pos \in 0..Len(chunk) /\ Reads(chunk, pos, taken, out, buffer)
  BY <1>1 DEF DecodeInv
<1>3. chunk' = chunk
  BY <1>1 DEF chunk
<1>4. Base64Types'
  BY <1>1, <1>2 DEF Base64Types
<1>5. Len(chunk) \in Nat
  BY <1>2 DEF chunk, Base64Types, Texts
<1>6. pos \in Nat /\ pos' \in 0..Len(chunk')
  BY <1>1, <1>2, <1>3, <1>5
<1>7. Reads(chunk, pos + 1, taken', out', buffer')
  <2>1. CASE c \notin 0..63
    <3>1. taken' = taken /\ out' = out /\ buffer' = buffer
      BY <2>1 DEF Feed
    <3> QED
      BY <1>2, <1>6, <2>1, <3>1, ReadsSkip
  <2>2. CASE c \in 0..63 /\ ~filled(word, 4)
    <3>1. taken' = Append(taken, pos + 1) /\ out' = out /\ buffer' = word
      BY <2>2 DEF Feed
    <3> QED
      BY <1>2, <1>6, <2>2, <3>1, ReadsTake
  <2>3. CASE c \in 0..63 /\ filled(word, 4)
    <3>1. taken' = Append(taken, pos + 1) /\ out' = out \o Bytes(word, 3) /\ buffer' = 1
      BY <2>3 DEF Feed
    <3> QED
      BY <1>2, <1>6, <2>3, <3>1, ReadsTake
  <2> QED
    BY <2>1, <2>2, <2>3
<1>8. Reads(chunk', pos', taken', out', buffer')
  BY <1>1, <1>3, <1>7
<1>9. got' \in 1..Len(sent')
  BY <1>1, <1>2
<1> QED
  BY <1>4, <1>6, <1>8, <1>9 DEF DecodeInv

LEMMA DecodeStep ==
    ASSUME DecodeInv, [Base64Next]_base64Vars
    PROVE  DecodeInv'
<1>1. CASE SendChunk \/ SendEnd
  <2>1. Base64Types' /\ \A k \in 1..Len(sent) : sent'[k] = sent[k] /\ k \in 1..Len(sent')
    BY <1>1, SendTypes DEF DecodeInv
  <2>2. UNCHANGED <<got, mode, pos, taken, out, buffer>>
    BY <1>1 DEF SendChunk, SendEnd
  <2>3. ASSUME mode = "decoding"
        PROVE  /\ got' \in 1..Len(sent') /\ pos' \in 0..Len(chunk')
               /\ Reads(chunk', pos', taken', out', buffer')
    <3>1. got \in 1..Len(sent) /\ pos \in 0..Len(chunk) /\ Reads(chunk, pos, taken, out, buffer)
      BY <2>3 DEF DecodeInv
    <3>2. chunk' = chunk
      BY <2>1, <2>2, <3>1 DEF chunk
    <3> QED
      BY <2>1, <2>2, <3>1, <3>2
  <2> QED
    BY <2>1, <2>2, <2>3 DEF DecodeInv
<1>2. CASE ReceivePlus \/ Refuse \/ Decoded
  <2>1. mode' # "decoding" /\ mode' \in {"waiting", "failed"} /\ UNCHANGED <<body, from, sent>>
    BY <1>2 DEF ReceivePlus, Refuse, Decoded
  <2>2. Base64Types /\ Len(sent) \in Nat
    BY DEF DecodeInv, Base64Types
  <2>3. got' \in 0..Len(sent)
    <3>1. got' = got \/ (got' = got + 1 /\ got < Len(sent))
      BY <1>2 DEF ReceivePlus, Refuse, Decoded
    <3>2. got \in 0..Len(sent)
      BY <2>2 DEF Base64Types
    <3> QED
      BY <2>2, <3>1, <3>2
  <2> QED
    BY <2>1, <2>2, <2>3 DEF DecodeInv, Base64Types
<1>3. CASE ReceiveChunk
  <2>1. /\ got < Len(sent) /\ got' = got + 1 /\ UNCHANGED <<body, from, sent>>
        /\ mode' = "decoding" /\ pos' = 0 /\ buffer' = 1 /\ out' = <<>> /\ taken' = <<>>
    BY <1>3 DEF ReceiveChunk
  <2>2. Base64Types /\ Len(sent) \in Nat /\ got \in 0..Len(sent) /\ sent \in Seq(Texts)
    BY DEF DecodeInv, Base64Types
  <2>3. got' \in 1..Len(sent') /\ got' \in 0..Len(sent')
    BY <2>1, <2>2
  <2>4. Base64Types'
    BY <2>1, <2>2, <2>3 DEF Base64Types
  <2>5. sent'[got'] \in Texts
    BY <2>1, <2>2, <2>3
  <2>6. Len(chunk') \in Nat
    BY <2>5 DEF Texts, chunk
  <2>7. Reads(chunk', 0, <<>>, <<>>, 1)
    BY ReadsNothing
  <2>8. pos' \in 0..Len(chunk')
    BY <2>1, <2>6
  <2> QED
    BY <2>1, <2>3, <2>4, <2>7, <2>8 DEF DecodeInv
<1>4. CASE Feed
  BY <1>4, FeedInv
<1>5. CASE UNCHANGED base64Vars
  BY <1>5 DEF base64Vars, DecodeInv, Base64Types, chunk
<1> QED
  BY <1>1, <1>2, <1>3, <1>4, <1>5 DEF Base64Next

\* What has been read so far decodes to the bytes of its bits.
LEMMA DecodeInvBits == DecodeInv => DecodesBits
<1> SUFFICES ASSUME DecodeInv, mode = "decoding"
             PROVE  /\ Selects(taken, chunk, pos)
                    /\ Fails <=> Len(taken) % 4 = 1
                    /\ ~Fails => out \o Rest = BytesOf(BitsOf([r \in 1..Len(taken) |-> chunk[taken[r]]]))
                    /\ Len(out \o Rest) <= decoded_size(pos)
  BY DEF DecodesBits
<1> DEFINE c == Chosen(chunk, taken)
           n == Len(taken)
<1>1. Reads(chunk, pos, taken, out, buffer) /\ pos \in 0..Len(chunk)
  BY DEF DecodeInv
<1>2. /\ Selects(taken, chunk, pos) /\ taken \in Seq(Nat) /\ n <= pos /\ c \in Seq(Sextets)
      /\ Len(c) = n /\ Layout(c, out, buffer)
  BY <1>1 DEF Reads
<1>3. n \in Nat /\ pos \in Nat
  BY <1>1, <1>2
<1> HIDE DEF c
<1>4. /\ Fails <=> n % 4 = 1
      /\ n % 4 # 1 => AreBytes(out \o Rest, c) /\ Len(out \o Rest) = ByteCount(n)
      /\ Len(out \o Rest) <= 3 * ((n + 3) \div 4)
  BY <1>2, RestLayout
<1>5. ASSUME ~Fails
      PROVE  out \o Rest = BytesOf(BitsOf(c))
  BY <1>2, <1>4, <1>5, BitsBytes
<1>6. Len(out \o Rest) <= decoded_size(pos)
  <2>1. out \o Rest \in Seq(Octets) \/ n % 4 = 1
    BY <1>4 DEF AreBytes
  <2>2. (n + 3) \div 4 <= (pos + 3) \div 4 /\ (n + 3) \div 4 \in Nat /\ (pos + 3) \div 4 \in Nat
    BY <1>2, <1>3, SMT
  <2>3. out \in Seq(Octets) /\ n % 4 = 1 => Len(out \o Rest) \in Nat
    <3>1. out \in Seq(Octets)
      BY <1>2 DEF Layout
    <3>2. ASSUME n % 4 = 1 PROVE Rest = <<>>
      <4>1. Fails
        BY <1>4, <3>2
      <4>2. buffer = Word1(c[n]) /\ c[n] \in Sextets
        BY <1>2, <3>2, BufferedAt DEF Layout
      <4>3. ~filled(buffer, 2) /\ ~filled(buffer, 3)
        BY <4>2, WordSize
      <4> QED
        BY <4>3 DEF Rest
    <3> QED
      BY <3>1, <3>2
  <2>4. Len(out \o Rest) \in Nat
    BY <1>2, <2>1, <2>3 DEF Layout
  <2> QED
    BY <1>4, <2>2, <2>4, SMT DEF decoded_size
<1> QED
  BY <1>2, <1>4, <1>5, <1>6 DEF c, Chosen

\* Every text decodes to the whole bytes of its bits, and fails exactly when it
\* has one character more than a multiple of four; for texts of any length, in
\* commands of any size (base64.cpp:71-110).
THEOREM DecodingCorrect == Base64Spec => []DecodesBits
<1>1. Base64Init => DecodeInv
  BY DecodeInitInv
<1>2. DecodeInv /\ [Base64Next]_base64Vars => DecodeInv'
  BY DecodeStep
<1> QED
  BY <1>1, <1>2, DecodeInvBits, PTL DEF Base64Spec

-----------------------------------------------------------------------------
(***************************************************************************)
(* A SASL message in chunks                                                *)
(***************************************************************************)

\* the groups of four characters in i full chunks, and in the code of n bytes
Groups(i) == i * (ChunkSize \div 4)
Quads(n) == (n + 2) \div 3

\* bytes are those of the first g groups
IsStart(bytes, input, g) ==
    /\ bytes \in Seq(Octets)
    /\ Len(bytes) = IF 3 * g <= Len(input) THEN 3 * g ELSE Len(input)
    /\ \A k \in 1..Len(bytes) : bytes[k] = input[k]

\* a command is a chunk, or "+" after the last when that is full
IsChunk(text, input, i) ==
    Groups(i - 1) < Quads(Len(input)) /\ text = Portion(encode(input), 4 * Groups(i - 1) + 1)
IsEnd(text, input, i) == Groups(i - 1) = Quads(Len(input)) /\ text = Plus

SendInv ==
    /\ \A i \in 1..Len(sent) : IsChunk(sent[i], body, i) \/ IsEnd(sent[i], body, i)
    /\ sender = "sending" =>
          /\ from = 4 * Groups(Len(sent)) + 1
          /\ Len(sent) # 0 => Groups(Len(sent) - 1) < Quads(Len(body))
    /\ sender = "done" => Groups(Len(sent)) > Quads(Len(body))

\* the characters of the alphabet in the chunk of four times e characters after g groups
Useful(input, g, e) ==
    IF 4 * e <= Characters(Len(input)) - 4 * g THEN 4 * e ELSE Characters(Len(input)) - 4 * g

\* decode has used every character, up to the padding
Straight(used, p, n) ==
    /\ Len(used) = IF p <= n THEN p ELSE n
    /\ \A r \in 1..Len(used) : used[r] = r

Awaits ==
    \/ payloads = <<>> /\ Groups(got) <= Quads(Len(body)) /\ IsStart(chunks, body, Groups(got))
    \/ payloads = <<body>> /\ chunks = <<>> /\ Groups(got) > Quads(Len(body))

Decodes ==
    /\ payloads = <<>> /\ IsStart(chunks, body, Groups(got - 1)) /\ IsChunk(chunk, body, got)
    /\ Straight(taken, pos, Useful(body, Groups(got - 1), Len(chunk) \div 4))

ChunkInv ==
    sender # "server" =>
       /\ SendInv /\ mode # "failed"
       /\ mode = "waiting" => Awaits
       /\ mode = "decoding" => Decodes

\* Counting groups
LEMMA GroupsAre ==
    ASSUME NEW i \in Nat
    PROVE  /\ Groups(0) = 0 /\ Groups(i) \in Nat
           /\ ChunkSize \div 4 \in Nat \ {0} /\ 4 * (ChunkSize \div 4) = ChunkSize
           /\ Groups(i + 1) = Groups(i) + (ChunkSize \div 4)
<1> DEFINE d == ChunkSize \div 4
<1>1. d \in Nat \ {0} /\ 4 * d = ChunkSize
  BY Base64Assumption, SMT
<1> HIDE DEF d
<1>2. 0 * d = 0 /\ i * d \in Nat /\ (i + 1) * d = i * d + d
  BY <1>1, SMT
<1> QED
  BY <1>1, <1>2 DEF Groups, d

LEMMA QuadsAre ==
    ASSUME NEW n \in Nat
    PROVE  /\ Quads(n) \in Nat /\ encoded_size(n) = 4 * Quads(n)
           /\ Characters(n) \in Nat
BY SizeIs, SMT DEF Quads

\* The remainder, from any quotient that leaves one
LEMMA RemainderIs ==
    ASSUME NEW c \in Nat \ {0}, NEW i \in Int, NEW r \in 0..(c - 1), NEW x \in Int, x = c * i + r
    PROVE  x % c = r
<1> DEFINE s == x % c
           b == x \div c
<1>1. s \in 0..(c - 1) /\ b \in Int /\ x = c * b + s
  OBVIOUS
<1> HIDE DEF s, b
<1>2. PICK d \in Int : d = b - i
  BY <1>1
<1>3. c * d = r - s
  BY <1>1, <1>2
<1>4. d < 1
  <2>1. d >= 1 => c * d >= c
    OBVIOUS
  <2> QED
    BY <1>1, <1>3, <2>1
<1>5. d > -1
  <2>1. d <= -1 => c * d <= -c
    OBVIOUS
  <2> QED
    BY <1>1, <1>3, <2>1
<1>6. d = 0
  BY <1>4, <1>5
<1> QED
  BY <1>1, <1>3, <1>6 DEF s

\* The text ends with a full chunk when its groups fill a number of chunks.
LEMMA FullEnd ==
    ASSUME NEW i \in Nat, NEW q \in Nat
    PROVE  /\ q = Groups(i) => (4 * q) % ChunkSize = 0
           /\ Groups(i) < q /\ q < Groups(i + 1) => (4 * q) % ChunkSize # 0
<1> DEFINE d == ChunkSize \div 4
<1>1. d \in Nat \ {0} /\ 4 * d = ChunkSize /\ Groups(i) \in Nat /\ Groups(i + 1) = Groups(i) + d
  BY GroupsAre
<1>2. Groups(i) = i * d
  BY DEF Groups
<1> HIDE DEF d
<1> DEFINE c == ChunkSize
<1>3. c \in Nat \ {0} /\ c = 4 * d
  BY <1>1
<1> HIDE DEF c
<1>4. 4 * (i * d) = i * c
  BY <1>1, <1>3, SMT
<1>5. ASSUME q = Groups(i) PROVE (4 * q) % c = 0
  <2>1. 4 * q = c * i + 0
    BY <1>2, <1>3, <1>4, <1>5, SMT
  <2> QED
    BY <1>3, <2>1, RemainderIs
<1>6. ASSUME Groups(i) < q, q < Groups(i + 1) PROVE (4 * q) % c # 0
  <2> DEFINE r == 4 * q - i * c
  <2>1. r \in Nat /\ 0 < r /\ r < c
    BY <1>1, <1>2, <1>3, <1>4, <1>6, SMT
  <2>2. 4 * q = c * i + r
    BY <1>3, SMT
  <2>3. r \in 0..(c - 1)
    BY <1>3, <2>1
  <2> HIDE DEF r
  <2>4. (4 * q) % c = r
    BY <1>3, <2>2, <2>3, RemainderIs
  <2> QED
    BY <2>1, <2>4
<1> QED
  BY <1>5, <1>6 DEF c

\* c begins with the n characters of text after g groups
Agrees(c, text, g, n) == \A m \in 1..n : c[m] = text[4 * g + m]

\* the groups in the chunk after g groups
ChunkGroups(input, g) ==
    IF g + (ChunkSize \div 4) <= Quads(Len(input)) THEN ChunkSize \div 4 ELSE Quads(Len(input)) - g

\* What a chunk holds
LEMMA ChunkIs ==
    ASSUME NEW input \in Seq(Octets), NEW g \in Nat, g < Quads(Len(input)),
           NEW e, e = ChunkGroups(input, g),
           NEW text, text = Portion(encode(input), 4 * g + 1)
    PROVE  /\ text \in Texts /\ e \in Nat \ {0} /\ Len(text) = 4 * e
           /\ Agrees(text, encode(input), g, 4 * e)
<1> DEFINE q == Quads(Len(input))
           d == ChunkSize \div 4
           all == encode(input)
           m == 4 * e
<1>1. Len(input) \in Nat
  OBVIOUS
<1>2. q \in Nat /\ encoded_size(Len(input)) = 4 * q
  BY <1>1, QuadsAre
<1>3. all \in Texts /\ Len(all) = 4 * q
  BY <1>2, EncodeType
<1>4. d \in Nat \ {0} /\ ChunkSize = 4 * d
  <2>1. 0 \in Nat
    OBVIOUS
  <2> QED
    BY <2>1, GroupsAre
<1>5. e = IF g + d <= q THEN d ELSE q - g
  BY DEF ChunkGroups
<1> HIDE DEF q, d, all
<1>6. g < q
  BY DEF q
<1>7. e \in Nat \ {0} /\ 4 * g + 1 \in 1..(4 * q)
  BY <1>2, <1>4, <1>5, <1>6, SMT
<1>8. m = IF (4 * g + 1) + ChunkSize - 1 <= 4 * q THEN ChunkSize ELSE 4 * q - (4 * g + 1) + 1
  BY <1>2, <1>4, <1>5, <1>6, SMT
<1> HIDE DEF m
<1>9. /\ Portion(all, 4 * g + 1) \in Texts /\ Len(Portion(all, 4 * g + 1)) = m
      /\ \A k \in 1..m : Portion(all, 4 * g + 1)[k] = all[(4 * g + 1) + k - 1]
  BY <1>3, <1>7, <1>8, PortionIs
<1>10. \A k \in 1..m : (4 * g + 1) + k - 1 = 4 * g + k
  BY <1>7, SMT DEF m
<1>11. \A k \in 1..m : Portion(all, 4 * g + 1)[k] = all[4 * g + k]
  BY <1>9, <1>10
<1> QED
  BY <1>7, <1>9, <1>11 DEF m, all, Agrees

\* The padding of a chunk
LEMMA UsefulIs ==
    ASSUME NEW input \in Seq(Octets), NEW g \in Nat, g < Quads(Len(input)),
           NEW e \in Nat \ {0}, g + e <= Quads(Len(input)),
           NEW text, \A k \in 1..(4 * e) : text[k] = encode(input)[4 * g + k]
    PROVE  LET n == Useful(input, g, e) IN
           /\ n \in 0..(4 * e)
           /\ \A k \in 1..(4 * e) : text[k] \in 0..63 <=> k <= n
<1> DEFINE q == Quads(Len(input))
           all == encode(input)
           N == Characters(Len(input))
           n == Useful(input, g, e)
<1>1. Len(input) \in Nat
  OBVIOUS
<1>2. q \in Nat /\ encoded_size(Len(input)) = 4 * q /\ N \in Nat
  BY <1>1, QuadsAre
<1>3. g < q /\ g + e <= q
  OBVIOUS
<1>4. 4 * g < N
  BY <1>1, <1>3, SMT DEF q, N, Quads, Characters
<1>5. n = IF 4 * e <= N - 4 * g THEN 4 * e ELSE N - 4 * g
  BY DEF Useful
<1>6. \A k \in 1..(4 * q) : (k <= N => all[k] \in Sextets) /\ (k > N => all[k] = Pad)
  BY <1>2, EncodeCharacters
<1> HIDE DEF q, all, N, n
<1>7. n \in 0..(4 * e)
  BY <1>2, <1>4, <1>5, SMT
<1>8. ASSUME NEW k \in 1..(4 * e)
      PROVE  text[k] \in 0..63 <=> k <= n
  <2> DEFINE h == 4 * g + k
  <2>1. h \in 1..(4 * q) /\ (h <= N <=> k <= n) /\ (h > N <=> ~(k <= n))
    BY <1>2, <1>3, <1>5, SMT
  <2>2. text[k] = all[h]
    BY DEF all
  <2> HIDE DEF h
  <2>3. (h <= N => all[h] \in Sextets) /\ (h > N => all[h] = Pad)
    BY <1>6, <2>1
  <2>4. (k <= n => text[k] \in Sextets) /\ (~(k <= n) => text[k] = Pad)
    BY <2>1, <2>2, <2>3
  <2>5. text[k] \in Sextets <=> text[k] \in 0..63
    BY AreNumbers, Zenon
  <2>6. Pad \notin Sextets
    BY SextetCodes
  <2>7. CASE k <= n
    BY <2>4, <2>5, <2>7, Zenon
  <2>8. CASE ~(k <= n)
    BY <2>4, <2>5, <2>6, <2>8, Zenon
  <2> QED
    BY <2>7, <2>8, Zenon
<1> QED
  BY <1>7, <1>8 DEF n

\* The bytes of characters in the middle of a text
LEMMA ByteShift ==
    ASSUME NEW c, NEW text, NEW g \in Nat, NEW n \in Nat, Agrees(c, text, g, n)
    PROVE  \A k \in 1..ByteCount(n) : Byte(c, k) = Byte(text, 3 * g + k)
<1> SUFFICES ASSUME NEW k \in 1..ByteCount(n)
             PROVE  Byte(c, k) = Byte(text, 3 * g + k)
  OBVIOUS
<1>1. \A m \in 1..n : c[m] = text[4 * g + m]
  BY DEF Agrees
<1>2. ByteCount(n) = (6 * n) \div 8
  BY DEF ByteCount
<1>3. k \in Nat \ {0} /\ 8 * k <= 6 * n
  BY <1>2, SMT
<1>4. PICK j \in Nat : k = 3 * j + 1 \/ k = 3 * j + 2 \/ k = 3 * j + 3
  BY <1>3, ThreeCases
<1> DEFINE h == g + j
<1>5. /\ h \in Nat /\ 4 * h + 1 = 4 * g + (4 * j + 1) /\ 4 * h + 2 = 4 * g + (4 * j + 2)
      /\ 4 * h + 3 = 4 * g + (4 * j + 3) /\ 4 * h + 4 = 4 * g + (4 * j + 4)
      /\ 3 * h + 1 = 3 * g + (3 * j + 1) /\ 3 * h + 2 = 3 * g + (3 * j + 2)
      /\ 3 * h + 3 = 3 * g + (3 * j + 3)
  BY SMT
<1> HIDE DEF h
<1>6. /\ 4 * j + 1 \in 1..n => c[4 * j + 1] = text[4 * h + 1]
      /\ 4 * j + 2 \in 1..n => c[4 * j + 2] = text[4 * h + 2]
      /\ 4 * j + 3 \in 1..n => c[4 * j + 3] = text[4 * h + 3]
      /\ 4 * j + 4 \in 1..n => c[4 * j + 4] = text[4 * h + 4]
  BY <1>1, <1>5
<1>7. ASSUME k = 3 * j + 1 PROVE Byte(c, k) = Byte(text, 3 * g + k)
  <2>1. 4 * j + 1 \in 1..n /\ 4 * j + 2 \in 1..n
    BY <1>3, <1>7, SMT
  <2>2. c[4 * j + 1] = text[4 * h + 1] /\ c[4 * j + 2] = text[4 * h + 2]
    BY <1>6, <2>1
  <2>3. Byte(text, 3 * h + 1) = HighByte(text[4 * h + 1], text[4 * h + 2])
    BY <1>5, ByteAt
  <2>4. Byte(c, 3 * j + 1) = HighByte(c[4 * j + 1], c[4 * j + 2])
    BY ByteAt
  <2> QED
    BY <1>5, <1>7, <2>2, <2>3, <2>4, Zenon
<1>8. ASSUME k = 3 * j + 2 PROVE Byte(c, k) = Byte(text, 3 * g + k)
  <2>1. 4 * j + 2 \in 1..n /\ 4 * j + 3 \in 1..n
    BY <1>3, <1>8, SMT
  <2>2. c[4 * j + 2] = text[4 * h + 2] /\ c[4 * j + 3] = text[4 * h + 3]
    BY <1>6, <2>1
  <2>3. Byte(text, 3 * h + 2) = MiddleByte(text[4 * h + 2], text[4 * h + 3])
    BY <1>5, ByteAt
  <2>4. Byte(c, 3 * j + 2) = MiddleByte(c[4 * j + 2], c[4 * j + 3])
    BY ByteAt
  <2> QED
    BY <1>5, <1>8, <2>2, <2>3, <2>4, Zenon
<1>9. ASSUME k = 3 * j + 3 PROVE Byte(c, k) = Byte(text, 3 * g + k)
  <2>1. 4 * j + 3 \in 1..n /\ 4 * j + 4 \in 1..n
    BY <1>3, <1>9, SMT
  <2>2. c[4 * j + 3] = text[4 * h + 3] /\ c[4 * j + 4] = text[4 * h + 4]
    BY <1>6, <2>1
  <2>3. Byte(text, 3 * h + 3) = LowByte(text[4 * h + 3], text[4 * h + 4])
    BY <1>5, ByteAt
  <2>4. Byte(c, 3 * j + 3) = LowByte(c[4 * j + 3], c[4 * j + 4])
    BY ByteAt
  <2> QED
    BY <1>5, <1>9, <2>2, <2>3, <2>4, Zenon
<1> QED
  BY <1>4, <1>7, <1>8, <1>9

\* How many characters of a chunk decode uses, and how many bytes they make
LEMMA UsefulBytes ==
    ASSUME NEW input \in Seq(Octets), NEW g \in Nat, g < Quads(Len(input)),
           NEW e \in Nat \ {0}, g + e <= Quads(Len(input)), NEW n, n = Useful(input, g, e)
    PROVE  /\ n \in Nat /\ n % 4 # 1 /\ 3 * g < Len(input)
           /\ ByteCount(n) = IF 3 * e <= Len(input) - 3 * g THEN 3 * e ELSE Len(input) - 3 * g
<1> DEFINE len == Len(input)
           N == Characters(len)
<1>1. len \in Nat
  OBVIOUS
<1>2. n = IF 4 * e <= N - 4 * g THEN 4 * e ELSE N - 4 * g
  BY DEF Useful
<1>3. g < (len + 2) \div 3 /\ g + e <= (len + 2) \div 3
  BY DEF Quads
<1> HIDE DEF len
<1>4. N = (4 * len + 2) \div 3
  BY DEF Characters
<1> HIDE DEF N
<1> DEFINE a == len - 3 * g
           b == N - 4 * g
<1>5. a \in Nat \ {0} /\ 3 * e <= a + 2
  BY <1>1, <1>3, SMT
<1>6. b = (4 * a + 2) \div 3 /\ n = IF 4 * e <= b THEN 4 * e ELSE b
  BY <1>1, <1>2, <1>4, SMT
<1>7. 3 * g < len
  BY <1>1, <1>5, SMT
<1> HIDE DEF a, b
<1>8. n \in Nat /\ n % 4 # 1 /\ (6 * n) \div 8 = IF 3 * e <= a THEN 3 * e ELSE a
  <2>1. PICK j \in Nat : a = 3 * j + 1 \/ a = 3 * j + 2 \/ a = 3 * j + 3
    BY <1>5, ThreeCases
  <2>2. ASSUME a = 3 * j + 1 PROVE n \in Nat /\ n % 4 # 1 /\ (6 * n) \div 8 = IF 3 * e <= a THEN 3 * e ELSE a
    BY <1>5, <1>6, <2>2, SMT
  <2>3. ASSUME a = 3 * j + 2 PROVE n \in Nat /\ n % 4 # 1 /\ (6 * n) \div 8 = IF 3 * e <= a THEN 3 * e ELSE a
    BY <1>5, <1>6, <2>3, SMT
  <2>4. ASSUME a = 3 * j + 3 PROVE n \in Nat /\ n % 4 # 1 /\ (6 * n) \div 8 = IF 3 * e <= a THEN 3 * e ELSE a
    BY <1>5, <1>6, <2>4, SMT
  <2> QED
    BY <2>1, <2>2, <2>3, <2>4
<1> QED
  BY <1>7, <1>8 DEF a, len, ByteCount

\* The bytes of the next groups after those of the first
LEMMA StartGrows ==
    ASSUME NEW input \in Seq(Octets), NEW g \in Nat, g < Quads(Len(input)),
           NEW e \in Nat \ {0}, g + e <= Quads(Len(input)), NEW n, n = Useful(input, g, e),
           NEW bytes, IsStart(bytes, input, g),
           NEW c, Agrees(c, encode(input), g, n),
           NEW more, AreBytes(more, c), Len(more) = ByteCount(n)
    PROVE  IsStart(bytes \o more, input, g + e)
<1> DEFINE len == Len(input)
<1>1. len \in Nat
  OBVIOUS
<1>2. /\ n \in Nat /\ 3 * g < len
      /\ ByteCount(n) = IF 3 * e <= len - 3 * g THEN 3 * e ELSE len - 3 * g
  BY UsefulBytes
<1>3. /\ bytes \in Seq(Octets) /\ \A k \in 1..Len(bytes) : bytes[k] = input[k]
      /\ Len(bytes) = 3 * g
  BY <1>1, <1>2 DEF IsStart
<1>4. more \in Seq(Octets) /\ \A k \in 1..Len(more) : more[k] = Byte(c, k)
  BY DEF AreBytes
<1> HIDE DEF len
<1>5. \A k \in 1..ByteCount(n) : Byte(c, k) = Byte(encode(input), 3 * g + k)
  BY <1>2, ByteShift
<1>6. ASSUME NEW k \in 1..Len(more)
      PROVE  more[k] = input[3 * g + k]
  <2>1. k \in 1..ByteCount(n)
    OBVIOUS
  <2>2. Byte(c, k) = Byte(encode(input), 3 * g + k)
    BY <1>5, <2>1
  <2>3. 3 * g + k \in 1..len
    BY <1>1, <1>2, <2>1, SMT
  <2> DEFINE h == 3 * g + k
  <2>4. h \in 1..Len(input)
    BY <2>3 DEF len
  <2> HIDE DEF h
  <2>5. Byte(encode(input), h) = input[h]
    BY <2>4, EncodeBytes
  <2> QED
    BY <1>4, <2>2, <2>5 DEF h
<1>7. bytes \o more \in Seq(Octets) /\ Len(bytes \o more) = 3 * g + ByteCount(n)
  BY <1>3, <1>4, ConcatProperties
<1>8. 3 * g + ByteCount(n) = IF 3 * (g + e) <= len THEN 3 * (g + e) ELSE len
  BY <1>1, <1>2, SMT
<1>9. \A k \in 1..(Len(bytes) + Len(more)) :
          (bytes \o more)[k] = IF k <= Len(bytes) THEN bytes[k] ELSE more[k - Len(bytes)]
  BY <1>3, <1>4, ConcatProperties
<1>10. ASSUME NEW k \in 1..Len(bytes \o more)
      PROVE  (bytes \o more)[k] = input[k]
  <2>1. k \in 1..(3 * g + Len(more)) /\ Len(more) \in Nat /\ Len(bytes) \in Nat
    BY <1>3, <1>4, <1>7
  <2>2. (bytes \o more)[k] = IF k <= Len(bytes) THEN bytes[k] ELSE more[k - Len(bytes)]
    BY <1>3, <1>9, <2>1
  <2>3. CASE k <= 3 * g
    <3>1. k \in 1..Len(bytes)
      BY <1>3, <2>1, <2>3, SMT
    <3> QED
      BY <1>3, <2>2, <2>3, <3>1
  <2>4. CASE ~(k <= 3 * g)
    <3> DEFINE h == k - 3 * g
    <3>1. h \in 1..Len(more) /\ 3 * g + h = k
      BY <2>1, <2>4, SMT
    <3>2. (bytes \o more)[k] = more[h]
      BY <1>3, <2>2, <2>4
    <3> HIDE DEF h
    <3>3. more[h] = input[3 * g + h]
      BY <1>6, <3>1
    <3> QED
      BY <3>1, <3>2, <3>3
  <2> QED
    BY <2>3, <2>4
<1> QED
  BY <1>7, <1>8, <1>10 DEF IsStart, len

\* All the groups hold all the bytes.
LEMMA StartWhole ==
    ASSUME NEW input \in Seq(Octets), NEW bytes, NEW g \in Nat, g >= Quads(Len(input)),
           IsStart(bytes, input, g)
    PROVE  bytes = input
<1>1. Len(input) \in Nat
  OBVIOUS
<1>2. g >= (Len(input) + 2) \div 3
  BY DEF Quads
<1>3. Len(bytes) = IF 3 * g <= Len(input) THEN 3 * g ELSE Len(input)
  BY DEF IsStart
<1>4. Len(bytes) = Len(input)
  BY <1>1, <1>2, <1>3, SMT
<1>5. bytes \in Seq(Octets) /\ \A k \in 1..Len(bytes) : bytes[k] = input[k]
  BY DEF IsStart
<1> QED
  BY <1>4, <1>5, SeqEqual

LEMMA StartNothing ==
    ASSUME NEW input \in Seq(Octets)
    PROVE  IsStart(<<>>, input, 0)
<1>1. Len(input) \in Nat /\ <<>> \in Seq(Octets) /\ Len(<<>>) = 0 /\ 3 * 0 = 0
  OBVIOUS
<1> QED
  BY <1>1, SMT DEF IsStart

\* Characters that are used are the first ones.
LEMMA ChosenStraight ==
    ASSUME NEW used \in Seq(Nat), NEW n \in Nat, NEW p \in Nat, n <= p, Straight(used, p, n), NEW text
    PROVE  Len(used) = n /\ \A m \in 1..n : Chosen(text, used)[m] = text[m]
<1>1. Len(used) = n /\ \A r \in 1..Len(used) : used[r] = r
  BY SMT DEF Straight
<1>2. \A m \in 1..Len(used) : Chosen(text, used)[m] = text[used[m]]
  BY Zenon DEF Chosen
<1> QED
  BY <1>1, <1>2, Zenon

LEMMA StraightStep ==
    ASSUME NEW used \in Seq(Nat), NEW n \in Nat, NEW p \in Nat, Straight(used, p, n)
    PROVE  /\ p + 1 <= n => Straight(Append(used, p + 1), p + 1, n)
           /\ ~(p + 1 <= n) => Straight(used, p + 1, n)
<1>1. Len(used) = (IF p <= n THEN p ELSE n) /\ \A r \in 1..Len(used) : used[r] = r
  BY DEF Straight
<1>2. ASSUME p + 1 <= n
      PROVE  Straight(Append(used, p + 1), p + 1, n)
  <2>1. Len(used) = p
    BY <1>1, <1>2, SMT
  <2>2. Len(Append(used, p + 1)) = p + 1 /\ Append(used, p + 1)[p + 1] = p + 1
    BY <2>1
  <2>3. \A r \in 1..p : Append(used, p + 1)[r] = r
    BY <1>1, <2>1
  <2>4. \A r \in 1..(p + 1) : r \in 1..p \/ r = p + 1
    BY SMT
  <2>5. \A r \in 1..(p + 1) : Append(used, p + 1)[r] = r
    BY <2>2, <2>3, <2>4
  <2> QED
    BY <1>2, <2>2, <2>5 DEF Straight
<1>3. ASSUME ~(p + 1 <= n)
      PROVE  Straight(used, p + 1, n)
  <2>1. Len(used) = n
    BY <1>1, <1>3, SMT
  <2> QED
    BY <1>1, <1>3, <2>1 DEF Straight
<1> QED
  BY <1>2, <1>3

-----------------------------------------------------------------------------
\* Facts about a command that is a chunk
LEMMA ChunkFacts ==
    ASSUME NEW input \in Seq(Octets), NEW i \in Nat \ {0}, NEW text, IsChunk(text, input, i),
           NEW g, g = Groups(i - 1), NEW e, e = Len(text) \div 4
    PROVE  /\ text \in Texts /\ e \in Nat \ {0} /\ Len(text) = 4 * e
           /\ g \in Nat /\ g < Quads(Len(input)) /\ g + e <= Quads(Len(input))
           /\ Agrees(text, encode(input), g, 4 * e)
           /\ Len(text) < ChunkSize => g + e = Quads(Len(input)) /\ Groups(i) > Quads(Len(input))
           /\ ~(Len(text) < ChunkSize) => g + e = Groups(i)
<1> DEFINE q == Quads(Len(input))
           d == ChunkSize \div 4
           f == ChunkGroups(input, g)
<1>1. Len(input) \in Nat /\ i - 1 \in Nat /\ (i - 1) + 1 = i
  OBVIOUS
<1>2. q \in Nat
  BY <1>1, QuadsAre
<1>3. g \in Nat /\ d \in Nat \ {0} /\ 4 * d = ChunkSize /\ Groups(i) = g + d
  BY <1>1, GroupsAre
<1>4. g < q /\ text = Portion(encode(input), 4 * g + 1)
  BY DEF IsChunk
<1>5. f = IF g + d <= q THEN d ELSE q - g
  BY DEF ChunkGroups
<1>6. /\ text \in Texts /\ f \in Nat \ {0} /\ Len(text) = 4 * f
      /\ Agrees(text, encode(input), g, 4 * f)
  <2>1. g \in Nat /\ g < Quads(Len(input)) /\ f = ChunkGroups(input, g)
    BY <1>3, <1>4
  <2> HIDE DEF f, q, d
  <2>2. text \in Texts
    BY <1>4, <2>1, ChunkIs
  <2>3. f \in Nat \ {0}
    BY <1>4, <2>1, ChunkIs
  <2>4. Len(text) = 4 * f
    BY <1>4, <2>1, ChunkIs
  <2>5. Agrees(text, encode(input), g, 4 * f)
    BY <1>4, <2>1, ChunkIs
  <2> QED
    BY <2>2, <2>3, <2>4, <2>5
<1> HIDE DEF q, d, f
<1>7. e = f
  BY <1>6, SMT
<1>8. g + f <= q
  BY <1>2, <1>3, <1>4, <1>5, SMT
<1>9. /\ 4 * f < ChunkSize => g + f = q /\ g + d > q
      /\ ~(4 * f < ChunkSize) => g + f = g + d
  <2>1. 4 * f < ChunkSize <=> f < d
    BY <1>3, <1>6, SMT
  <2>2. CASE g + d <= q
    BY <1>2, <1>3, <1>5, <2>1, <2>2
  <2>3. CASE ~(g + d <= q)
    <3>1. f = q - g
      BY <1>5, <2>3
    <3>2. f < d /\ g + f = q /\ g + d > q
      BY <1>2, <1>3, <2>3, <3>1
    <3> QED
      BY <2>1, <3>2
  <2> QED
    BY <2>2, <2>3
<1> QED
  BY <1>3, <1>4, <1>6, <1>7, <1>8, <1>9 DEF q

LEMMA ChunkNotPlus ==
    ASSUME NEW input \in Seq(Octets), NEW i \in Nat \ {0}, NEW text, IsChunk(text, input, i)
    PROVE  text # Plus
<1> DEFINE e == Len(text) \div 4
<1>1. e \in Nat \ {0} /\ Len(text) = 4 * e
  BY ChunkFacts
<1>2. Len(Plus) = 1
  BY PlusText
<1> HIDE DEF e
<1>3. Len(text) # 1
  BY <1>1, SMT
<1> QED
  BY <1>2, <1>3

\* The steps of the sender
LEMMA SendChunkInv ==
    ASSUME Base64Types, SendInv, SendChunk
    PROVE  SendInv'
<1> DEFINE text == encode(body)
           m == Len(sent)
           q == Quads(Len(body))
<1>1. body \in Seq(Octets) /\ sent \in Seq(Texts) /\ m \in Nat /\ Len(body) \in Nat
  BY DEF Base64Types
<1>2. q \in Nat /\ text \in Texts /\ Len(text) = 4 * q
  BY <1>1, QuadsAre, EncodeType
<1>3. /\ sender = "sending" /\ from <= Len(text) /\ sent' = Append(sent, Portion(text, from))
      /\ from' = from + ChunkSize /\ UNCHANGED <<body, sender>>
  BY DEF SendChunk, Portion
<1>4. from = 4 * Groups(m) + 1
  BY <1>3 DEF SendInv
<1>5. /\ Groups(m) \in Nat /\ 4 * (ChunkSize \div 4) = ChunkSize /\ ChunkSize \div 4 \in Nat \ {0}
      /\ Groups(m + 1) = Groups(m) + (ChunkSize \div 4)
  BY <1>1, GroupsAre
<1> HIDE DEF q
<1>6. Groups(m) < q
  BY <1>2, <1>3, <1>4, <1>5
<1>7. from \in 1..Len(text)
  BY <1>2, <1>3, <1>4, <1>5
<1>8. Portion(text, from) \in Texts
  BY <1>2, <1>7, PortionIs
<1> HIDE DEF text
<1>9. /\ Len(sent') = m + 1 /\ sent'[m + 1] = Portion(text, from)
      /\ \A k \in 1..m : sent'[k] = sent[k]
  BY <1>3, <1>8, SentTypes
<1> HIDE DEF m
<1>10. (m + 1) - 1 = m /\ m + 1 # 0
  BY <1>1
<1>11. IsChunk(sent'[m + 1], body, m + 1)
  BY <1>4, <1>6, <1>9, <1>10 DEF IsChunk, text, q
<1>12. \A k \in 1..m : IsChunk(sent[k], body, k) \/ IsEnd(sent[k], body, k)
  BY DEF SendInv, m
<1>13. \A k \in 1..(m + 1) : k \in 1..m \/ k = m + 1
  BY <1>1
<1>14. \A k \in 1..(m + 1) : IsChunk(sent'[k], body, k) \/ IsEnd(sent'[k], body, k)
  BY <1>9, <1>11, <1>12, <1>13
<1>15. from' = 4 * Groups(m + 1) + 1
  BY <1>3, <1>4, <1>5
<1>16. sender' = "sending" /\ body' = body
  BY <1>3
<1> QED
  BY <1>6, <1>9, <1>10, <1>14, <1>15, <1>16 DEF SendInv, q

LEMMA SendEndInv ==
    ASSUME Base64Types, SendInv, SendEnd
    PROVE  SendInv'
<1> DEFINE text == encode(body)
           m == Len(sent)
           q == Quads(Len(body))
<1>1. body \in Seq(Octets) /\ sent \in Seq(Texts) /\ m \in Nat /\ Len(body) \in Nat
  BY DEF Base64Types
<1>2. q \in Nat /\ text \in Texts /\ Len(text) = 4 * q
  BY <1>1, QuadsAre, EncodeType
<1>3. /\ sender = "sending" /\ from > Len(text) /\ sender' = "done" /\ body' = body
      /\ sent' = IF Len(text) % ChunkSize = 0 THEN Append(sent, Plus) ELSE sent
  BY DEF SendEnd
<1>4. from = 4 * Groups(m) + 1 /\ (m # 0 => Groups(m - 1) < q)
  BY <1>3 DEF SendInv
<1>5. /\ Groups(m) \in Nat /\ ChunkSize \div 4 \in Nat \ {0} /\ Groups(0) = 0
      /\ Groups(m + 1) = Groups(m) + (ChunkSize \div 4)
  BY <1>1, GroupsAre
<1>6. \A k \in 1..m : IsChunk(sent[k], body, k) \/ IsEnd(sent[k], body, k)
  BY DEF SendInv
<1> HIDE DEF q
<1>7. Groups(m) >= q
  BY <1>2, <1>3, <1>4, <1>5
<1>8. CASE Groups(m) = q
  <2>1. (4 * q) % ChunkSize = 0
    BY <1>1, <1>2, <1>8, FullEnd
  <2>2. sent' = Append(sent, Plus)
    BY <1>2, <1>3, <2>1
  <2>3. /\ Len(sent') = m + 1 /\ sent'[m + 1] = Plus
        /\ \A k \in 1..m : sent'[k] = sent[k]
    BY <2>2, PlusText, SentTypes
  <2> HIDE DEF m
  <2>4. (m + 1) - 1 = m
    BY <1>1
  <2>5. IsEnd(sent'[m + 1], body, m + 1)
    BY <1>8, <2>3, <2>4 DEF IsEnd, q
  <2>6. \A k \in 1..(m + 1) : k \in 1..m \/ k = m + 1
    BY <1>1
  <2>7. \A k \in 1..(m + 1) : IsChunk(sent'[k], body, k) \/ IsEnd(sent'[k], body, k)
    BY <1>6, <2>3, <2>5, <2>6
  <2>8. Groups(m + 1) > q
    BY <1>2, <1>5, <1>8
  <2> QED
    BY <1>3, <2>3, <2>7, <2>8 DEF SendInv, q
<1>9. CASE Groups(m) > q
  <2> DEFINE l == m - 1
  <2>1. m # 0
    BY <1>2, <1>5, <1>9
  <2>2. l \in Nat /\ l + 1 = m
    BY <1>1, <2>1
  <2>3. Groups(l) < q
    BY <1>4, <2>1
  <2> HIDE DEF l, m
  <2>4. q < Groups(l + 1)
    BY <1>2, <1>5, <1>9, <2>2
  <2>5. (4 * q) % ChunkSize # 0
    BY <1>2, <2>2, <2>3, <2>4, FullEnd
  <2>6. sent' = sent
    BY <1>2, <1>3, <2>5
  <2> QED
    BY <1>3, <1>6, <1>9, <2>6 DEF SendInv, q, m
<1> QED
  BY <1>2, <1>5, <1>7, <1>8, <1>9

\* The command that a waiting receiver gets next
LEMMA NextCommand ==
    ASSUME Base64Types, SendInv, Awaits, got < Len(sent)
    PROVE  /\ got \in Nat /\ got + 1 \in Nat \ {0} /\ (got + 1) - 1 = got
           /\ IsChunk(sent[got + 1], body, got + 1) \/ IsEnd(sent[got + 1], body, got + 1)
           /\ payloads = <<>> /\ IsStart(chunks, body, Groups(got))
<1>1. got \in 0..Len(sent) /\ Len(sent) \in Nat /\ body \in Seq(Octets) /\ Len(body) \in Nat
  BY DEF Base64Types
<1>2. got \in Nat /\ got + 1 \in Nat \ {0} /\ (got + 1) - 1 = got /\ got + 1 \in 1..Len(sent)
  BY <1>1
<1>3. IsChunk(sent[got + 1], body, got + 1) \/ IsEnd(sent[got + 1], body, got + 1)
  BY <1>2 DEF SendInv
<1>4. Groups(got) \in Nat /\ Quads(Len(body)) \in Nat
  BY <1>1, <1>2, GroupsAre, QuadsAre
<1>5. Groups(got) <= Quads(Len(body))
  <2>1. Groups(got) < Quads(Len(body)) \/ Groups(got) = Quads(Len(body))
    BY <1>2, <1>3 DEF IsChunk, IsEnd
  <2> QED
    BY <1>4, <2>1
<1>6. ~(Groups(got) > Quads(Len(body)))
  BY <1>4, <1>5
<1> QED
  BY <1>2, <1>3, <1>6 DEF Awaits

\* "+" ends a message whose last chunk was full, and is an empty message.
LEMMA ReceivePlusInv ==
    ASSUME Base64Types, SendInv, Awaits, ReceivePlus
    PROVE  Awaits'
<1>1. /\ got < Len(sent) /\ sent[got + 1] = Plus /\ got' = got + 1
      /\ UNCHANGED <<body, sent>> /\ Deliver(chunks)
  BY DEF ReceivePlus
<1>2. /\ got \in Nat /\ got + 1 \in Nat \ {0} /\ (got + 1) - 1 = got
      /\ IsChunk(sent[got + 1], body, got + 1) \/ IsEnd(sent[got + 1], body, got + 1)
      /\ payloads = <<>> /\ IsStart(chunks, body, Groups(got))
  BY <1>1, NextCommand
<1>3. body \in Seq(Octets) /\ Len(body) \in Nat
  BY DEF Base64Types
<1>4. ~IsChunk(sent[got + 1], body, got + 1)
  BY <1>1, <1>2, <1>3, ChunkNotPlus
<1>5. Groups(got) = Quads(Len(body))
  BY <1>2, <1>4 DEF IsEnd
<1>6. /\ Groups(got) \in Nat /\ ChunkSize \div 4 \in Nat \ {0} /\ 4 * (ChunkSize \div 4) = ChunkSize
      /\ Groups(got + 1) = Groups(got) + (ChunkSize \div 4)
  BY <1>2, GroupsAre
<1>7. Groups(got) >= Quads(Len(body)) /\ Groups(got + 1) > Quads(Len(body))
  BY <1>5, <1>6
<1>8. chunks = body
  BY <1>2, <1>3, <1>6, <1>7, StartWhole
<1>9. sent'[got'] = Plus
  BY <1>1
<1>10. Len(sent'[got']) = 1
  BY <1>9, PlusText
<1>11. Len(sent'[got']) < ChunkSize
  BY <1>6, <1>10
<1>12. payloads' = Append(payloads, chunks) /\ chunks' = <<>>
  BY <1>1, <1>11 DEF Deliver
<1>13. payloads' = <<body>>
  BY <1>2, <1>8, <1>12
<1>14. got' = got + 1 /\ body' = body
  BY <1>1
<1> QED
  BY <1>7, <1>12, <1>13, <1>14 DEF Awaits

LEMMA ReceiveChunkInv ==
    ASSUME Base64Types, SendInv, Awaits, ReceiveChunk
    PROVE  Decodes'
<1>1. /\ got < Len(sent) /\ sent[got + 1] # Plus /\ got' = got + 1 /\ pos' = 0 /\ taken' = <<>>
      /\ UNCHANGED <<body, sent, chunks, payloads>>
  BY DEF ReceiveChunk
<1>2. /\ got \in Nat /\ got + 1 \in Nat \ {0} /\ (got + 1) - 1 = got
      /\ IsChunk(sent[got + 1], body, got + 1) \/ IsEnd(sent[got + 1], body, got + 1)
      /\ payloads = <<>> /\ IsStart(chunks, body, Groups(got))
  BY <1>1, NextCommand
<1>3. body \in Seq(Octets)
  BY DEF Base64Types
<1>4. IsChunk(sent[got + 1], body, got + 1)
  BY <1>1, <1>2 DEF IsEnd
<1> DEFINE i == got + 1
           text == sent[i]
           g == Groups(i - 1)
           e == Len(text) \div 4
           n == Useful(body, g, e)
<1>5. i \in Nat \ {0} /\ IsChunk(text, body, i)
  BY <1>2, <1>4
<1> HIDE DEF i, text
<1>6. /\ e \in Nat \ {0} /\ g \in Nat /\ g < Quads(Len(body)) /\ g + e <= Quads(Len(body))
      /\ Agrees(text, encode(body), g, 4 * e)
  BY <1>3, <1>5, ChunkFacts
<1>7. n \in Nat
  BY <1>3, <1>6, UsefulBytes
<1> HIDE DEF n
<1>8. Straight(<<>>, 0, n)
  BY <1>7 DEF Straight
<1>9. chunk' = text /\ got' = got + 1 /\ body' = body /\ pos' = 0 /\ taken' = <<>> /\ chunks' = chunks
  BY <1>1 DEF chunk, i, text
<1>10. Straight(taken', pos', Useful(body', Groups(got' - 1), Len(chunk') \div 4))
  BY <1>8, <1>9 DEF n, i
<1>11. IsStart(chunks', body', Groups(got' - 1)) /\ IsChunk(chunk', body', got')
  BY <1>2, <1>4, <1>9 DEF i, text
<1>12. payloads' = <<>>
  BY <1>1, <1>2
<1> QED
  BY <1>10, <1>11, <1>12 DEF Decodes

LEMMA FeedDecodes ==
    ASSUME DecodeInv, Decodes, Feed
    PROVE  Decodes'
<1> DEFINE g == Groups(got - 1)
           e == Len(chunk) \div 4
           n == Useful(body, g, e)
           c == chunk[pos + 1]
<1>1. /\ mode = "decoding" /\ pos < Len(chunk) /\ pos' = pos + 1
      /\ UNCHANGED <<body, sent, got, chunks, payloads>>
      /\ taken' = IF c \in 0..63 THEN Append(taken, pos + 1) ELSE taken
  BY DEF Feed
<1>2. Base64Types /\ got \in 1..Len(sent) /\ pos \in 0..Len(chunk) /\ Reads(chunk, pos, taken, out, buffer)
  BY <1>1 DEF DecodeInv
<1>3. body \in Seq(Octets) /\ got \in Nat \ {0} /\ taken \in Seq(Nat)
  BY <1>2 DEF Base64Types, Reads
<1>4. IsChunk(chunk, body, got) /\ Straight(taken, pos, n)
  BY DEF Decodes
<1>5. /\ e \in Nat \ {0} /\ Len(chunk) = 4 * e /\ g \in Nat /\ g < Quads(Len(body))
      /\ g + e <= Quads(Len(body)) /\ Agrees(chunk, encode(body), g, 4 * e)
  BY <1>3, <1>4, ChunkFacts
<1>6. n \in 0..(4 * e) /\ \A k \in 1..(4 * e) : chunk[k] \in 0..63 <=> k <= n
  BY <1>3, <1>5, UsefulIs DEF Agrees
<1> HIDE DEF n, e, g
<1>7. pos \in Nat /\ pos + 1 \in 1..(4 * e) /\ n \in Nat
  BY <1>1, <1>2, <1>5, <1>6
<1>8. c \in 0..63 <=> pos + 1 <= n
  BY <1>6, <1>7
<1>9. /\ pos + 1 <= n => Straight(Append(taken, pos + 1), pos + 1, n)
      /\ ~(pos + 1 <= n) => Straight(taken, pos + 1, n)
  BY <1>3, <1>4, <1>7, StraightStep
<1>10. Straight(taken', pos', n)
  <2>1. CASE pos + 1 <= n
    <3>1. taken' = Append(taken, pos + 1)
      BY <1>1, <1>8, <2>1
    <3> QED
      BY <1>1, <1>9, <2>1, <3>1
  <2>2. CASE ~(pos + 1 <= n)
    <3>1. taken' = taken
      BY <1>1, <1>8, <2>2
    <3> QED
      BY <1>1, <1>9, <2>2, <3>1
  <2> QED
    BY <2>1, <2>2
<1>11. chunk' = chunk /\ got' = got /\ body' = body /\ chunks' = chunks /\ payloads' = payloads
  BY <1>1 DEF chunk
<1>12. payloads = <<>> /\ IsStart(chunks, body, Groups(got - 1)) /\ IsChunk(chunk, body, got)
  BY DEF Decodes
<1> QED
  BY <1>10, <1>11, <1>12 DEF Decodes, n, e, g

\* A chunk that has been read does not fail, and its bytes continue the message.
LEMMA DecodedInv ==
    ASSUME DecodeInv, Decodes, mode = "decoding", pos = Len(chunk)
    PROVE  ~Fails /\ (Decoded => Awaits')
<1> DEFINE g == Groups(got - 1)
           e == Len(chunk) \div 4
           n == Useful(body, g, e)
           c == Chosen(chunk, taken)
           all == chunks \o out \o Rest
<1>1. Base64Types /\ got \in 1..Len(sent) /\ Reads(chunk, pos, taken, out, buffer)
  BY DEF DecodeInv
<1>2. body \in Seq(Octets) /\ got \in Nat \ {0} /\ Len(body) \in Nat
  BY <1>1 DEF Base64Types
<1>3. payloads = <<>> /\ IsStart(chunks, body, g) /\ IsChunk(chunk, body, got) /\ Straight(taken, pos, n)
  BY DEF Decodes
<1>4. /\ e \in Nat \ {0} /\ Len(chunk) = 4 * e /\ g \in Nat /\ g < Quads(Len(body))
      /\ g + e <= Quads(Len(body)) /\ Agrees(chunk, encode(body), g, 4 * e)
      /\ Len(chunk) < ChunkSize => g + e = Quads(Len(body)) /\ Groups(got) > Quads(Len(body))
      /\ ~(Len(chunk) < ChunkSize) => g + e = Groups(got)
  BY <1>2, <1>3, ChunkFacts
<1>5. n \in 0..(4 * e)
  BY <1>2, <1>4, UsefulIs DEF Agrees
<1>6. n % 4 # 1 /\ n \in Nat
  BY <1>2, <1>4, UsefulBytes
<1>7. taken \in Seq(Nat) /\ c \in Seq(Sextets) /\ Len(c) = Len(taken) /\ Layout(c, out, buffer)
  BY <1>1 DEF Reads
<1> HIDE DEF n, e, g
<1>8. pos \in Nat /\ n <= pos
  BY <1>4, <1>5
<1>9. Len(taken) = n /\ \A m \in 1..n : c[m] = chunk[m]
  BY <1>3, <1>6, <1>7, <1>8, ChosenStraight
<1> HIDE DEF c
<1>10. \A m \in 1..n : m \in 1..(4 * e)
  BY <1>4, <1>5
<1>11. Agrees(c, encode(body), g, n)
  BY <1>4, <1>9, <1>10 DEF Agrees
<1>12. ~Fails /\ AreBytes(out \o Rest, c) /\ Len(out \o Rest) = ByteCount(n) /\ Rest \in Seq(Octets)
  BY <1>6, <1>7, <1>9, RestLayout
<1>13. IsStart(chunks \o (out \o Rest), body, g + e)
  BY <1>2, <1>3, <1>4, <1>11, <1>12, StartGrows DEF n
<1>14. all = chunks \o (out \o Rest)
  <2>1. chunks \in Seq(Octets) /\ out \in Seq(Octets)
    BY <1>3, <1>7 DEF IsStart, Layout
  <2> QED
    BY <1>12, <2>1, ConcatAssociative
<1>15. ASSUME Decoded PROVE Awaits'
  <2>1. UNCHANGED <<body, sent, got>> /\ Deliver(all)
    BY <1>15 DEF Decoded
  <2>2. sent'[got'] = chunk /\ got' = got /\ body' = body
    BY <2>1 DEF chunk
  <2> HIDE DEF all
  <2>3. CASE Len(chunk) < ChunkSize
    <3>1. payloads' = Append(payloads, all) /\ chunks' = <<>>
      BY <2>1, <2>2, <2>3 DEF Deliver
    <3>2. g + e \in Nat /\ g + e >= Quads(Len(body)) /\ Groups(got) > Quads(Len(body))
      <4>1. Quads(Len(body)) \in Nat
        BY <1>2, QuadsAre
      <4> QED
        BY <1>4, <2>3, <4>1
    <3>3. all = body
      BY <1>2, <1>13, <1>14, <3>2, StartWhole
    <3>4. payloads' = <<body>>
      BY <1>3, <3>1, <3>3
    <3> QED
      BY <2>2, <3>1, <3>2, <3>4 DEF Awaits
  <2>4. CASE ~(Len(chunk) < ChunkSize)
    <3>1. payloads' = payloads /\ chunks' = all
      BY <2>1, <2>2, <2>4 DEF Deliver
    <3>2. Groups(got) <= Quads(Len(body)) /\ g + e = Groups(got)
      BY <1>4, <2>4
    <3>3. IsStart(all, body, Groups(got))
      BY <1>13, <1>14, <3>2
    <3> QED
      BY <1>3, <2>2, <3>1, <3>2, <3>3 DEF Awaits
  <2> QED
    BY <2>3, <2>4
<1> QED
  BY <1>12, <1>15

LEMMA ChunkInit ==
    ASSUME Base64Init, DecodeInv
    PROVE  ChunkInv
<1> SUFFICES ASSUME sender # "server"
             PROVE  SendInv /\ mode # "failed" /\ (mode = "waiting" => Awaits) /\ (mode = "decoding" => Decodes)
  BY DEF ChunkInv
<1>1. /\ sender = "sending" /\ sent = <<>> /\ from = 1 /\ got = 0 /\ mode = "waiting"
      /\ chunks = <<>> /\ payloads = <<>>
  BY DEF Base64Init
<1>2. body \in Seq(Octets) /\ Len(body) \in Nat
  BY DEF DecodeInv, Base64Types
<1>3. 0 \in Nat
  OBVIOUS
<1>4. Groups(0) = 0 /\ Quads(Len(body)) \in Nat
  BY <1>2, <1>3, GroupsAre, QuadsAre
<1>5. SendInv
  <2>1. Len(sent) = 0 /\ 1..0 = {}
    BY <1>1
  <2> QED
    BY <1>1, <1>4, <2>1 DEF SendInv
<1>6. IsStart(chunks, body, Groups(got)) /\ Groups(got) <= Quads(Len(body))
  BY <1>1, <1>2, <1>4, StartNothing
<1> QED
  BY <1>1, <1>5, <1>6 DEF Awaits

LEMMA ChunkStep ==
    ASSUME DecodeInv, ChunkInv, [Base64Next]_base64Vars
    PROVE  ChunkInv'
<1> SUFFICES ASSUME sender' # "server"
             PROVE  /\ SendInv' /\ mode' # "failed"
                    /\ mode' = "waiting" => Awaits'
                    /\ mode' = "decoding" => Decodes'
  BY DEF ChunkInv
<1>1. Base64Types
  BY DEF DecodeInv
<1>2. CASE SendChunk \/ SendEnd
  <2>1. sender # "server" /\ UNCHANGED <<body, got, mode, pos, taken, chunks, payloads>>
    BY <1>2 DEF SendChunk, SendEnd
  <2>2. SendInv /\ mode # "failed" /\ (mode = "waiting" => Awaits) /\ (mode = "decoding" => Decodes)
    BY <2>1 DEF ChunkInv
  <2>3. SendInv'
    BY <1>1, <1>2, <2>2, SendChunkInv, SendEndInv
  <2>4. \A k \in 1..Len(sent) : sent'[k] = sent[k]
    BY <1>1, <1>2, SendTypes
  <2>5. ASSUME mode = "waiting" PROVE Awaits'
    BY <2>1, <2>2, <2>5 DEF Awaits
  <2>6. ASSUME mode = "decoding" PROVE Decodes'
    <3>1. got \in 1..Len(sent)
      BY <2>6 DEF DecodeInv
    <3>2. chunk' = chunk
      BY <2>1, <2>4, <3>1 DEF chunk
    <3> QED
      BY <2>1, <2>2, <2>6, <3>2 DEF Decodes
  <2> QED
    BY <2>1, <2>2, <2>3, <2>5, <2>6
<1>3. CASE ReceivePlus \/ ReceiveChunk \/ Feed \/ Refuse \/ Decoded
  <2>1. sender # "server" /\ UNCHANGED <<body, sender, from, sent>>
    BY <1>3 DEF ReceivePlus, ReceiveChunk, Feed, Refuse, Decoded
  <2>2. SendInv /\ mode # "failed" /\ (mode = "waiting" => Awaits) /\ (mode = "decoding" => Decodes)
    BY <2>1 DEF ChunkInv
  <2>3. SendInv'
    BY <2>1, <2>2 DEF SendInv
  <2>4. CASE ReceivePlus
    <3>1. mode = "waiting" /\ mode' = "waiting"
      BY <2>4 DEF ReceivePlus
    <3> QED
      BY <1>1, <2>2, <2>3, <2>4, <3>1, ReceivePlusInv
  <2>5. CASE ReceiveChunk
    <3>1. mode = "waiting" /\ mode' = "decoding"
      BY <2>5 DEF ReceiveChunk
    <3> QED
      BY <1>1, <2>2, <2>3, <2>5, <3>1, ReceiveChunkInv
  <2>6. CASE Feed
    <3>1. mode = "decoding" /\ mode' = "decoding"
      BY <2>6 DEF Feed
    <3> QED
      BY <2>2, <2>3, <2>6, <3>1, FeedDecodes
  <2>7. CASE Refuse
    <3>1. mode = "decoding" /\ pos = Len(chunk) /\ Fails
      BY <2>7 DEF Refuse
    <3> QED
      BY <2>2, <3>1, DecodedInv
  <2>8. CASE Decoded
    <3>1. mode = "decoding" /\ pos = Len(chunk) /\ mode' = "waiting"
      BY <2>8 DEF Decoded
    <3> QED
      BY <2>2, <2>3, <2>8, <3>1, DecodedInv
  <2> QED
    BY <1>3, <2>4, <2>5, <2>6, <2>7, <2>8
<1>4. CASE UNCHANGED base64Vars
  BY <1>4 DEF base64Vars, ChunkInv, SendInv, Awaits, Decodes, chunk
<1> QED
  BY <1>2, <1>3, <1>4 DEF Base64Next

LEMMA ChunkInvArrives ==
    ASSUME DecodeInv, ChunkInv
    PROVE  SaslArrives
<1> SUFFICES ASSUME sender # "server"
             PROVE  /\ mode # "failed" /\ payloads \in {<<>>, <<body>>}
                    /\ sender = "done" /\ got = Len(sent) /\ mode = "waiting" =>
                          payloads = <<body>> /\ chunks = <<>>
  BY DEF SaslArrives
<1>1. SendInv /\ mode # "failed" /\ (mode = "waiting" => Awaits) /\ (mode = "decoding" => Decodes)
  BY DEF ChunkInv
<1>2. mode \in {"waiting", "decoding", "failed"} /\ body \in Seq(Octets) /\ got \in Nat /\ Len(body) \in Nat
  BY DEF DecodeInv, Base64Types
<1>3. payloads \in {<<>>, <<body>>}
  BY <1>1, <1>2 DEF Awaits, Decodes
<1>4. ASSUME sender = "done", got = Len(sent), mode = "waiting"
      PROVE  payloads = <<body>> /\ chunks = <<>>
  <2>1. Groups(got) > Quads(Len(body))
    BY <1>1, <1>4 DEF SendInv
  <2>2. Groups(got) \in Nat /\ Quads(Len(body)) \in Nat
    BY <1>2, GroupsAre, QuadsAre
  <2>3. ~(Groups(got) <= Quads(Len(body)))
    BY <2>1, <2>2
  <2> QED
    BY <1>1, <1>4, <2>3 DEF Awaits
<1> QED
  BY <1>1, <1>3, <1>4

\* A SASL message is delivered once and whole to a receiver that decodes it
\* chunk by chunk: for messages of any length and commands of any number of
\* whole groups (sasl/init.lua:25-34, 126-142).
THEOREM SaslArrivesWhole == Base64Spec => []SaslArrives
<1>1. Base64Init => DecodeInv
  BY DecodeInitInv
<1>2. DecodeInv /\ [Base64Next]_base64Vars => DecodeInv'
  BY DecodeStep
<1>3. Base64Init /\ DecodeInv => ChunkInv
  BY ChunkInit
<1>4. DecodeInv /\ ChunkInv /\ [Base64Next]_base64Vars => ChunkInv'
  BY ChunkStep
<1>5. DecodeInv /\ ChunkInv => SaslArrives
  BY ChunkInvArrives
<1> QED
  BY <1>1, <1>2, <1>3, <1>4, <1>5, PTL DEF Base64Spec

\* Both, for texts and messages of any length.
THEOREM Base64Correct == Base64Spec => []Base64Arrives
<1>1. DecodesBits /\ SaslArrives => Base64Arrives
  BY DEF Base64Arrives
<1> QED
  BY <1>1, DecodingCorrect, SaslArrivesWhole, PTL

============================================================================
