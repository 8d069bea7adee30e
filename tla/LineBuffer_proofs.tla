------------------------- MODULE LineBuffer_proofs -------------------------
(***************************************************************************)
(* Proofs about LineBuffer, for every buffer size and every input: the     *)
(* iterators stay inside the buffer, no newline is skipped, no byte is     *)
(* lost or overwritten, the buffer is full only for a line that does not   *)
(* fit, the last message of a batch redraws, and every message of the      *)
(* stream is dispatched once, in order and whole.                          *)
(***************************************************************************)
EXTENDS LineBuffer, TLAPS, SequenceTheorems, WellFoundedInduction

\* A nonempty set of natural numbers has a least element.
LEMMA LeastNat ==
    ASSUME NEW T, T \subseteq Nat, T # {}
    PROVE  \E x \in T : \A y \in T : x <= y
<1>1. PICK x \in T : \A y \in T : ~(<<y, x>> \in OpToRel(<, Nat))
  BY NatLessThanWellFounded, WFMin
<1>2. \A y \in T : ~(y < x)
  BY <1>1 DEF OpToRel
<1> QED BY <1>2

\* A line that next_line has terminated has a first byte that is no space.
LEMMA TrimExists ==
    ASSUME NEW b \in [0 .. N - 1 -> Bytes], NEW p \in 0 .. N - 1,
           NEW t \in p .. N - 1, b[t] = "nul"
    PROVE  Trim(b, p) \in p .. N - 1
<1> USE LineBufferAssumption
<1> DEFINE R == {q \in p .. N - 1 : b[q] # "space"}
<1>1. R \subseteq Nat /\ t \in R
  OBVIOUS
<1>2. PICK q \in R : \A y \in R : q <= y
  BY <1>1, LeastNat
<1>3. \A i \in p .. q - 1 : b[i] = "space"
  BY <1>2
<1> QED BY <1>2, <1>3 DEF Trim

----------------------------------------------------------------------------
(***************************************************************************)
(* The inductive invariant.  While the loop reads, the buffer begins with  *)
(* the incomplete line and all of it has been searched; the exception is   *)
(* thrown only from there.                                                 *)
(***************************************************************************)

Inv ==
    /\ TypeOK
    /\ NoSkippedNewline
    /\ Unconsumed
    /\ pc \in {"read", "full"} => start_ = 0 /\ search_ = end_
    /\ pc = "full" => end_ = N

\* The empty buffer satisfies the invariant.
LEMMA InvInit == Init => Inv
BY LineBufferAssumption
   DEF Init, Inv, TypeOK, NoSkippedNewline, Unconsumed, Bytes, nullptr

\* The exception is thrown from a buffer that is searched to its end.
LEMMA InvFull ==
    ASSUME Inv, Full
    PROVE  Inv'
BY LineBufferAssumption
   DEF Inv, Full, TypeOK, NoSkippedNewline, Unconsumed

\* prepare and commit add bytes that have not been searched.
LEMMA InvRead ==
    ASSUME Inv, NEW n \in 1 .. N - end_, NEW bytes \in [1 .. n -> Bytes],
           Read(bytes)
    PROVE  Inv'
<1> USE LineBufferAssumption
<1>1. bytes \in Seq(Bytes) /\ Len(bytes) = n
  BY DEF Inv, TypeOK
<1>2. /\ end_ \in 0 .. N /\ start_ = 0 /\ search_ = end_
      /\ end_' = end_ + n /\ start_' = 0 /\ search_' = end_
      /\ pc' = "lines" /\ line' = line
  BY <1>1 DEF Inv, TypeOK, Read
<1>3. /\ buffer_' \in [0 .. N - 1 -> Bytes]
      /\ \A i \in 0 .. end_ - 1 : buffer_'[i] = buffer_[i]
      /\ \A i \in end_ .. end_ + n - 1 : buffer_'[i] = bytes[i - end_ + 1]
  BY <1>1, <1>2 DEF Inv, TypeOK, Read
<1>4. /\ input \in Seq(Bytes) /\ input' \in Seq(Bytes)
      /\ Len(input') = Len(input) + n
      /\ \A i \in 1 .. Len(input) : input'[i] = input[i]
      /\ \A i \in 1 .. n : input'[Len(input) + i] = bytes[i]
  BY <1>1 DEF Inv, TypeOK, Read
<1>5. TypeOK'
  BY <1>2, <1>3, <1>4 DEF Inv, TypeOK
<1>6. NoSkippedNewline'
  BY <1>2, <1>3 DEF Inv, NoSkippedNewline
<1>7. Unconsumed'
  <2>1. end_' - start_' <= Len(input')
    BY <1>2, <1>4 DEF Inv, Unconsumed
  <2>2. ASSUME NEW i \in 0 .. end_ + n - 1
        PROVE  buffer_'[i] = input'[Len(input') - end_' + i + 1]
    <3>1. CASE i < end_
      <4>1. i \in start_ .. end_ - 1 /\ end_ <= Len(input)
        BY <1>2, <3>1 DEF Inv, Unconsumed
      <4>2. buffer_'[i] = input[Len(input) - end_ + i + 1]
        BY <1>2, <1>3, <4>1 DEF Inv, Unconsumed
      <4>3. Len(input) - end_ + i + 1 \in 1 .. Len(input)
        BY <1>2, <1>4, <4>1
      <4>4. Len(input') - end_' + i + 1 = Len(input) - end_ + i + 1
        BY <1>2, <1>4
      <4> QED BY <1>4, <4>2, <4>3, <4>4
    <3>2. CASE i >= end_
      <4>1. i - end_ + 1 \in 1 .. n
        BY <1>2, <3>2
      <4>2. Len(input') - end_' + i + 1 = Len(input) + (i - end_ + 1)
        BY <1>2, <1>4
      <4>3. buffer_'[i] = bytes[i - end_ + 1]
        BY <1>2, <1>3, <3>2
      <4> QED BY <1>4, <4>1, <4>2, <4>3
    <3> QED BY <1>2, <3>1, <3>2
  <2> QED BY <1>2, <2>1, <2>2 DEF Unconsumed
<1> QED BY <1>2, <1>5, <1>6, <1>7 DEF Inv

\* next_line moves past one line and never past an unsearched newline.
LEMMA InvNextLine ==
    ASSUME Inv, NEW nl \in 0 .. N - 1, NextLine(nl)
    PROVE  Inv'
<1> USE LineBufferAssumption
<1> DEFINE t == Terminator(nl)
           b == [buffer_ EXCEPT ![t] = "nul"]
<1>1. /\ start_ <= nl /\ nl < end_ /\ end_ \in 0 .. N
      /\ start_ \in 0 .. N - 1
      /\ pc' = "lines" /\ buffer_' = b
      /\ start_' = nl + 1 /\ search_' = nl + 1 /\ end_' = end_ /\ input' = input
  BY DEF Inv, TypeOK, NoSkippedNewline, NextLine, IsNewline
<1>2. t \in start_ .. nl
  BY <1>1 DEF Terminator
<1>3. /\ b \in [0 .. N - 1 -> Bytes]
      /\ b[t] = "nul"
      /\ \A i \in nl + 1 .. N - 1 : b[i] = buffer_[i]
  BY <1>1, <1>2 DEF Inv, TypeOK, Bytes
<1>4. Trim(b, start_) \in start_ .. N - 1
  <2> HIDE DEF t, b
  <2>1. t \in start_ .. N - 1
    BY <1>1, <1>2
  <2> QED BY <1>1, <1>3, <2>1, TrimExists
<1>5. line' \in -1 .. N - 1
  BY <1>1, <1>4 DEF Inv, TypeOK, NextLine, Dispatch
<1> HIDE DEF t, b
<1>6. TypeOK'
  BY <1>1, <1>3, <1>5 DEF Inv, TypeOK
<1>7. NoSkippedNewline'
  BY <1>1 DEF NoSkippedNewline
<1>8. Unconsumed'
  BY <1>1, <1>3 DEF Inv, TypeOK, Unconsumed
<1> QED BY <1>1, <1>6, <1>7, <1>8 DEF Inv

\* shift moves the incomplete line to the front.
LEMMA InvLinesDone ==
    ASSUME Inv, LinesDone
    PROVE  Inv'
<1> USE LineBufferAssumption
<1> DEFINE m == end_ - start_
<1>1. /\ start_ \in 0 .. N /\ end_ \in 0 .. N /\ start_ <= end_ /\ m \in 0 .. N
      /\ start_' = 0 /\ search_' = m /\ end_' = m /\ pc' = "read"
      /\ line' = nullptr /\ input' = input
  BY DEF Inv, TypeOK, NoSkippedNewline, LinesDone
<1>2. /\ buffer_' \in [0 .. N - 1 -> Bytes]
      /\ \A i \in 0 .. m - 1 : buffer_'[i] = buffer_[i + start_]
  BY <1>1 DEF Inv, TypeOK, LinesDone
<1>3. \A i \in start_ .. end_ - 1 : buffer_[i] # "lf"
  BY <1>1 DEF Inv, TypeOK, NoSkippedNewline, LinesDone
<1>4. TypeOK'
  BY <1>1, <1>2 DEF Inv, TypeOK, nullptr
<1>5. NoSkippedNewline'
  BY <1>1, <1>2, <1>3 DEF NoSkippedNewline
<1>6. Unconsumed'
  BY <1>1, <1>2 DEF Inv, TypeOK, Unconsumed
<1> QED BY <1>1, <1>4, <1>5, <1>6 DEF Inv

\* Every step of the loop preserves the invariant.
LEMMA InvNext == Inv /\ [Next]_vars => Inv'
<1> SUFFICES ASSUME Inv, [Next]_vars PROVE Inv'
    OBVIOUS
<1>1. CASE Full
  BY <1>1, InvFull
<1>2. CASE \E n \in 1 .. N - end_ :
              /\ Len(input) + n <= MaxInput
              /\ \E bytes \in [1 .. n -> Bytes] : Read(bytes)
  BY <1>2, InvRead
<1>3. CASE \E nl \in 0 .. N - 1 : NextLine(nl)
  BY <1>3, InvNextLine
<1>4. CASE LinesDone
  BY <1>4, InvLinesDone
<1>5. CASE UNCHANGED vars
  BY <1>5 DEF vars, Inv, TypeOK, NoSkippedNewline, Unconsumed
<1> QED BY <1>1, <1>2, <1>3, <1>4, <1>5 DEF Next

\* The whole buffer is unconsumed and searched when the exception is thrown.
LEMMA InvTooLong ==
    ASSUME Inv
    PROVE  FullMeansTooLong
<1> SUFFICES ASSUME pc = "full"
             PROVE  /\ Len(input) >= N
                    /\ \A i \in Len(input) - N + 1 .. Len(input) : input[i] # "lf"
    BY DEF FullMeansTooLong
<1> USE LineBufferAssumption
<1>1. /\ start_ = 0 /\ search_ = N /\ end_ = N /\ Len(input) \in Nat
      /\ Len(input) >= N
      /\ \A j \in 0 .. N - 1 : buffer_[j] # "lf"
      /\ \A j \in 0 .. N - 1 : buffer_[j] = input[Len(input) - N + j + 1]
  BY DEF Inv, TypeOK, NoSkippedNewline, Unconsumed
<1>2. ASSUME NEW i \in Len(input) - N + 1 .. Len(input)
      PROVE  input[i] # "lf"
  <2>1. /\ i - 1 - (Len(input) - N) \in 0 .. N - 1
        /\ i = Len(input) - N + (i - 1 - (Len(input) - N)) + 1
    BY <1>1
  <2> QED BY <1>1, <2>1
<1> QED BY <1>1, <1>2

\* For every buffer size and every way the network cuts the stream: the
\* iterators never leave the buffer, no newline is skipped, no unread byte is
\* lost or overwritten, and "line buffer full" means a line longer than the
\* buffer.
THEOREM LineBufferCorrect == Spec => []BufferSafe
<1>1. Inv => BufferSafe
  BY InvTooLong DEF Inv, BufferSafe
<1> QED BY <1>1, InvInit, InvNext, PTL DEF Spec

----------------------------------------------------------------------------
(***************************************************************************)
(* What is dispatched.  The pre-loaded line is a pointer into the buffer,  *)
(* kept while the next line is looked up and terminated in place.          *)
(***************************************************************************)

Messages == [text : Seq(Bytes), flush : BOOLEAN]

\* The pre-loaded line is null-terminated before the first byte that has not
\* been taken out, and there is one only inside the dispatch loop: dispatching
\* it reads neither unconsumed data nor past the buffer (linebuffer.cpp:3-19,
\* lua.cpp:162-173).
PreloadedIsTerminated ==
    line # nullptr => /\ pc = "lines"
                      /\ \E q \in line .. start_ - 1 : buffer_[q] = "nul"

\* With no line pre-loaded, the last message dispatched had the redraw flag.
ScreenInv ==
    /\ Inv
    /\ msgs \in Seq(Messages)
    /\ PreloadedIsTerminated
    /\ line = nullptr /\ msgs # << >> => msgs[Len(msgs)].flush = TRUE

\* A null-terminated line is a string of bytes.
LEMMA CStringType ==
    ASSUME NEW b \in [0 .. N - 1 -> Bytes], NEW p \in 0 .. N - 1,
           NEW t \in p .. N - 1, b[t] = "nul"
    PROVE  CString(b, p) \in Seq(Bytes)
<1> USE LineBufferAssumption
<1> DEFINE R == {q \in p .. N - 1 : b[q] = "nul"}
           IsNul(q) == b[q] = "nul" /\ \A i \in p .. q - 1 : b[i] # "nul"
           nul == CHOOSE q \in p .. N - 1 : IsNul(q)
<1>1. R \subseteq Nat /\ t \in R
  OBVIOUS
<1>2. PICK q \in R : \A y \in R : q <= y
  BY <1>1, LeastNat
<1>3. IsNul(q) /\ q \in p .. N - 1
  BY <1>2
<1>4. nul \in p .. N - 1
  BY <1>3
<1> HIDE DEF nul
<1>5. [i \in 1 .. nul - p |-> b[p + i - 1]] \in Seq(Bytes)
  <2>1. nul - p \in Nat
    BY <1>4
  <2>2. \A i \in 1 .. nul - p : b[p + i - 1] \in Bytes
    BY <1>4
  <2> QED BY <2>1, <2>2
<1> QED BY <1>5 DEF CString, nul

\* Trim stops at the terminator at the latest.
LEMMA TrimStops ==
    ASSUME NEW b \in [0 .. N - 1 -> Bytes], NEW p \in 0 .. N - 1,
           NEW t \in p .. N - 1, b[t] = "nul"
    PROVE  Trim(b, p) \in p .. t
<1> USE LineBufferAssumption
<1> DEFINE R == {q \in p .. N - 1 : b[q] # "space"}
           IsFirst(q) == b[q] # "space" /\ \A i \in p .. q - 1 : b[i] = "space"
           f == CHOOSE q \in p .. N - 1 : IsFirst(q)
<1>1. R \subseteq Nat /\ t \in R
  OBVIOUS
<1>2. PICK q \in R : \A y \in R : q <= y
  BY <1>1, LeastNat
<1>3. IsFirst(q) /\ q \in p .. N - 1
  BY <1>2
<1>4. f \in p .. N - 1 /\ IsFirst(f)
  BY <1>3
<1>5. Trim(b, p) = f
  BY DEF Trim
<1> HIDE DEF f
<1>6. f <= t
  BY <1>4
<1> QED BY <1>4, <1>5, <1>6

\* What the callback is given, when the buffer is terminated behind the line.
LEMMA DispatchEffect ==
    ASSUME ScreenInv, NEW b \in [0 .. N - 1 -> Bytes], NEW flush \in BOOLEAN,
           Dispatch(b, flush),
           line # nullptr => \E q \in line .. N - 1 : b[q] = "nul"
    PROVE  /\ msgs' \in Seq(Messages)
           /\ line = nullptr => msgs' = msgs
           /\ line # nullptr => msgs' # << >> /\ msgs'[Len(msgs')].flush = flush
<1> USE LineBufferAssumption
<1>1. CASE line = nullptr
  BY <1>1 DEF Dispatch, ScreenInv
<1>2. CASE line # nullptr
  <2> DEFINE m == [text |-> CString(b, line), flush |-> flush]
  <2>1. line \in 0 .. N - 1
    BY <1>2 DEF ScreenInv, Inv, TypeOK, nullptr
  <2>2. CString(b, line) \in Seq(Bytes)
    BY <1>2, <2>1, CStringType
  <2>3. m \in Messages /\ m.flush = flush
    BY <2>2 DEF Messages
  <2>4. msgs' = Append(msgs, m) /\ msgs \in Seq(Messages)
    BY <1>2 DEF Dispatch, ScreenInv
  <2> HIDE DEF m
  <2>5. /\ msgs' \in Seq(Messages) /\ msgs' # << >>
        /\ msgs'[Len(msgs')] = m
    BY <2>3, <2>4
  <2> QED BY <1>2, <2>3, <2>5
<1> QED BY <1>1, <1>2

\* A line is taken out and its predecessor dispatched.
LEMMA ScreenNextLine ==
    ASSUME ScreenInv, Inv', NEW nl \in 0 .. N - 1, NextLine(nl)
    PROVE  ScreenInv'
<1> USE LineBufferAssumption
<1> DEFINE t == Terminator(nl)
           b == [buffer_ EXCEPT ![t] = "nul"]
           p == Trim(b, start_)
<1>1. /\ start_ <= nl /\ nl < end_ /\ end_ \in 0 .. N
      /\ start_ \in 0 .. N - 1 /\ line \in -1 .. N - 1
      /\ pc = "lines" /\ pc' = "lines" /\ buffer_' = b /\ start_' = nl + 1
      /\ buffer_ \in [0 .. N - 1 -> Bytes]
  BY DEF ScreenInv, Inv, TypeOK, NoSkippedNewline, NextLine, IsNewline
<1>2. t \in start_ .. nl
  BY <1>1 DEF Terminator
<1>3. /\ b \in [0 .. N - 1 -> Bytes]
      /\ b[t] = "nul"
      /\ \A i \in 0 .. N - 1 : buffer_[i] = "nul" => b[i] = "nul"
  BY <1>1, <1>2 DEF Bytes
<1>4. IF b[p] = "nul" THEN UNCHANGED <<line, msgs>>
      ELSE line' = p /\ Dispatch(b, FALSE)
  BY DEF NextLine
<1> HIDE DEF t, b
<1>5. p \in start_ .. t
  BY <1>1, <1>2, <1>3, TrimStops
<1> HIDE DEF p
<1>6. line # nullptr => \E q \in line .. start_ - 1 : b[q] = "nul"
  <2> SUFFICES ASSUME line # nullptr
               PROVE  \E q \in line .. start_ - 1 : b[q] = "nul"
      OBVIOUS
  <2>1. PICK q \in line .. start_ - 1 : buffer_[q] = "nul"
    BY DEF ScreenInv, PreloadedIsTerminated
  <2>2. q \in 0 .. N - 1
    BY <1>1, <2>1 DEF nullptr
  <2> QED BY <1>3, <2>1, <2>2
<1>7. CASE b[p] = "nul"
  <2>1. line' = line /\ msgs' = msgs
    BY <1>4, <1>7
  <2>2. PreloadedIsTerminated'
    BY <1>1, <1>6, <2>1 DEF PreloadedIsTerminated, nullptr
  <2> QED BY <2>1, <2>2 DEF ScreenInv, nullptr
<1>8. CASE b[p] # "nul"
  <2>1. line' = p /\ Dispatch(b, FALSE)
    BY <1>4, <1>8
  <2>2. line # nullptr => \E q \in line .. N - 1 : b[q] = "nul"
    BY <1>1, <1>6
  <2>3. msgs' \in Seq(Messages)
    BY <1>3, <2>1, <2>2, DispatchEffect
  <2>4. t \in p .. nl /\ p # nullptr
    BY <1>1, <1>2, <1>5 DEF nullptr
  <2>5. PreloadedIsTerminated'
    BY <1>1, <1>3, <2>1, <2>4 DEF PreloadedIsTerminated
  <2> QED BY <2>1, <2>3, <2>4, <2>5 DEF ScreenInv, nullptr
<1> QED BY <1>7, <1>8

\* The last line is dispatched with the flag set and no line stays behind.
LEMMA ScreenLinesDone ==
    ASSUME ScreenInv, Inv', LinesDone
    PROVE  ScreenInv'
<1> USE LineBufferAssumption
<1>1. /\ start_ \in 0 .. N /\ buffer_ \in [0 .. N - 1 -> Bytes]
      /\ Dispatch(buffer_, TRUE) /\ line' = nullptr
  BY DEF ScreenInv, Inv, TypeOK, LinesDone
<1>2. line # nullptr => \E q \in line .. N - 1 : buffer_[q] = "nul"
  BY <1>1 DEF ScreenInv, PreloadedIsTerminated
<1>3. /\ msgs' \in Seq(Messages)
      /\ line = nullptr => msgs' = msgs
      /\ line # nullptr => msgs'[Len(msgs')].flush = TRUE
  BY <1>1, <1>2, DispatchEffect
<1>4. msgs' # << >> => msgs'[Len(msgs')].flush = TRUE
  BY <1>3 DEF ScreenInv
<1>5. PreloadedIsTerminated'
  BY <1>1 DEF PreloadedIsTerminated
<1> QED BY <1>1, <1>3, <1>4, <1>5 DEF ScreenInv

\* Every step of the loop preserves the strengthened invariant.
LEMMA ScreenNext == ScreenInv /\ [Next]_vars => ScreenInv'
<1> SUFFICES ASSUME ScreenInv, [Next]_vars PROVE ScreenInv'
    OBVIOUS
<1>1. Inv'
  BY InvNext DEF ScreenInv
<1>2. CASE Full
  <2>1. line = nullptr
    BY <1>2 DEF ScreenInv, PreloadedIsTerminated, Full
  <2> QED BY <1>1, <1>2, <2>1 DEF ScreenInv, PreloadedIsTerminated, Full, nullptr
<1>3. ASSUME NEW n \in 1 .. N - end_, NEW bytes \in [1 .. n -> Bytes], Read(bytes)
      PROVE  ScreenInv'
  <2>1. line = nullptr
    BY <1>3 DEF ScreenInv, PreloadedIsTerminated, Read
  <2>2. UNCHANGED <<line, msgs>>
    BY <1>3 DEF Read
  <2> QED BY <1>1, <2>1, <2>2 DEF ScreenInv, PreloadedIsTerminated, nullptr
<1>4. ASSUME NEW nl \in 0 .. N - 1, NextLine(nl)
      PROVE  ScreenInv'
  BY <1>1, <1>4, ScreenNextLine
<1>5. CASE LinesDone
  BY <1>1, <1>5, ScreenLinesDone
<1>6. CASE UNCHANGED vars
  BY <1>1, <1>6 DEF vars, ScreenInv, PreloadedIsTerminated, nullptr
<1> QED BY <1>2, <1>3, <1>4, <1>5, <1>6 DEF Next

\* For every buffer size and every way the network cuts the stream: when the
\* loop waits for data, the last message it gave to the callback had the
\* redraw flag, and a line that waits to be dispatched is terminated inside
\* the part of the buffer that has been taken out.
THEOREM ScreenCorrect == Spec => [](NoStaleScreen /\ PreloadedIsTerminated)
<1>1. Init => ScreenInv
  BY InvInit DEF Init, ScreenInv, PreloadedIsTerminated, nullptr
<1>2. ScreenInv => NoStaleScreen /\ PreloadedIsTerminated
  BY DEF ScreenInv, NoStaleScreen, PreloadedIsTerminated
<1> QED BY <1>1, <1>2, ScreenNext, PTL DEF Spec

----------------------------------------------------------------------------
(***************************************************************************)
(* Every message is dispatched once, in order and whole.  The argument     *)
(* follows the position in the stream up to which lines have been taken    *)
(* out: what has been dispatched, with the line that waits, is the         *)
(* messages that end there or before.                                      *)
(***************************************************************************)

\* the texts are the messages of s that end at c or before
UpTo(texts, s, c) ==
    \E at \in [1 .. Len(texts) -> 1 .. c] :
        /\ \A i \in 1 .. Len(texts) : at[i] \in Ends(s)
        /\ \A i, k \in 1 .. Len(texts) : i < k => at[i] < at[k]
        /\ \A j \in Ends(s) : j <= c => \E i \in 1 .. Len(texts) : at[i] = j
        /\ \A i \in 1 .. Len(texts) : texts[i] = Message(Line(s, at[i]))

\* the bytes of the input that have been taken out of the buffer
Taken == Len(input) - (end_ - start_)

\* what has been dispatched, and the line that waits to be dispatched
Pending == IF line = nullptr THEN Texts ELSE Append(Texts, CString(buffer_, line))

SplitInv ==
    /\ ScreenInv
    /\ Taken = 0 \/ input[Taken] = "lf"
    /\ UpTo(Pending, input, Taken)

\* The first number of a set, when it is known.
LEMMA FirstIs ==
    ASSUME NEW S, S \subseteq Int, NEW x \in S, \A y \in S : x <= y
    PROVE  First(S) = x
<1>1. First(S) \in S /\ \A y \in S : First(S) <= y
  BY DEF First
<1>2. PICK f \in S : f = First(S)
  BY <1>1
<1>3. f \in Int /\ x \in Int /\ f <= x /\ x <= f
  BY <1>1, <1>2, Zenon
<1> QED BY <1>2, <1>3

\* The line that ends at j begins at k.
LEMMA LineIs ==
    ASSUME NEW s, NEW j \in Nat, NEW k \in 1 .. j,
           \A i \in k .. j - 1 : s[i] # "lf", k = 1 \/ s[k - 1] = "lf"
    PROVE  Line(s, j) = SubSeq(s, k, j - 1)
<1> DEFINE S == {x \in 1 .. j : \A i \in x .. j - 1 : s[i] # "lf"}
<1>1. S \subseteq Int /\ k \in S
  OBVIOUS
<1>2. ASSUME NEW y \in S PROVE k <= y
  <2>1. y \in 1 .. j /\ \A i \in y .. j - 1 : s[i] # "lf"
    OBVIOUS
  <2>2. SUFFICES ASSUME y < k PROVE FALSE
    BY <2>1
  <2>3. k - 1 \in y .. j - 1 /\ k # 1
    BY <2>1, <2>2
  <2> QED BY <2>1, <2>3
<1> HIDE DEF S
<1>3. First(S) = k
  BY <1>1, <1>2, FirstIs
<1> QED BY <1>3, Zenon DEF Line, S

\* Every position has a line that it ends.
LEMMA LineExists ==
    ASSUME NEW s, NEW j \in Nat \ {0}
    PROVE  \E k \in 1 .. j : /\ \A i \in k .. j - 1 : s[i] # "lf"
                             /\ k = 1 \/ s[k - 1] = "lf"
<1> DEFINE S == {x \in 1 .. j : \A i \in x .. j - 1 : s[i] # "lf"}
<1>1. S \subseteq Nat /\ j \in S
  OBVIOUS
<1>2. PICK k \in S : \A y \in S : k <= y
  BY <1>1, LeastNat
<1>3. k \in 1 .. j /\ \A i \in k .. j - 1 : s[i] # "lf"
  BY <1>2
<1>4. k = 1 \/ s[k - 1] = "lf"
  <2> SUFFICES ASSUME k # 1, s[k - 1] # "lf" PROVE FALSE
    OBVIOUS
  <2>1. k - 1 \in 1 .. j /\ \A i \in k - 1 .. j - 1 : i = k - 1 \/ i \in k .. j - 1
    BY <1>3
  <2>2. k - 1 \in S
    BY <1>3, <2>1
  <2> QED BY <1>2, <1>3, <2>2
<1> QED BY <1>3, <1>4

\* The lines of the stream do not change when more bytes arrive.
LEMMA LinePrefix ==
    ASSUME NEW s \in Seq(Bytes), NEW t \in Seq(Bytes), NEW j \in 1 .. Len(s)
    PROVE  Line(s \o t, j) = Line(s, j)
<1>1. PICK k \in 1 .. j : /\ \A i \in k .. j - 1 : s[i] # "lf"
                          /\ k = 1 \/ s[k - 1] = "lf"
  <2>1. j \in Nat \ {0}
    OBVIOUS
  <2> QED BY <2>1, LineExists
<1>2. Len(s) \in Nat /\ j \in Nat /\ k \in Nat /\ \A i \in 1 .. Len(s) : (s \o t)[i] = s[i]
  OBVIOUS
<1>3. Line(s, j) = SubSeq(s, k, j - 1)
  BY <1>1, <1>2, LineIs
<1>4. \A i \in k .. j - 1 : (s \o t)[i] # "lf"
  BY <1>1, <1>2
<1>5. k = 1 \/ (s \o t)[k - 1] = "lf"
  BY <1>1, <1>2
<1> DEFINE u == s \o t
<1> HIDE DEF u
<1>6. Line(u, j) = SubSeq(u, k, j - 1)
  BY <1>2, <1>4, <1>5, LineIs DEF u
<1>7. SubSeq(u, k, j - 1) = SubSeq(s, k, j - 1)
  BY <1>1, <1>2 DEF u
<1> QED BY <1>3, <1>6, <1>7 DEF u

\* More bytes change nothing of what ended before them.
LEMMA EndsPrefix ==
    ASSUME NEW s \in Seq(Bytes), NEW t \in Seq(Bytes), NEW j \in 1 .. Len(s)
    PROVE  /\ j \in Ends(s \o t) <=> j \in Ends(s)
           /\ Message(Line(s \o t, j)) = Message(Line(s, j))
<1>1. Line(s \o t, j) = Line(s, j)
  BY LinePrefix
<1>2. (s \o t)[j] = s[j] /\ j \in 1 .. Len(s \o t)
  OBVIOUS
<1> QED BY <1>1, <1>2, Zenon DEF Ends

\* The same texts after more bytes have arrived.
LEMMA UpToPrefix ==
    ASSUME NEW s \in Seq(Bytes), NEW t \in Seq(Bytes), NEW c \in 0 .. Len(s),
           NEW texts, UpTo(texts, s, c)
    PROVE  UpTo(texts, s \o t, c)
<1> DEFINE D == 1 .. Len(texts)
<1>1. PICK at \in [D -> 1 .. c] :
        /\ \A i \in D : at[i] \in Ends(s)
        /\ \A i, k \in D : i < k => at[i] < at[k]
        /\ \A j \in Ends(s) : j <= c => \E i \in D : at[i] = j
        /\ \A i \in D : texts[i] = Message(Line(s, at[i]))
  BY DEF UpTo
<1>2. \A j \in 1 .. c : j \in 1 .. Len(s)
  OBVIOUS
<1> HIDE DEF D
<1>3. ASSUME NEW i \in D
      PROVE  at[i] \in Ends(s \o t) /\ texts[i] = Message(Line(s \o t, at[i]))
  <2>1. at[i] \in 1 .. Len(s) /\ at[i] \in Ends(s)
    BY <1>1, <1>2, Zenon
  <2> QED BY <1>1, <2>1, EndsPrefix, Zenon
<1>4. ASSUME NEW j \in Ends(s \o t), j <= c
      PROVE  \E i \in D : at[i] = j
  <2>1. j \in 1 .. Len(s \o t)
    BY DEF Ends
  <2>2. j \in 1 .. Len(s)
    BY <1>4, <2>1
  <2>3. j \in Ends(s)
    BY <2>2, EndsPrefix
  <2> QED BY <1>1, <1>4, <2>3
<1> QED BY <1>1, <1>3, <1>4, Zenon DEF UpTo, D

\* A line without a message is passed.
LEMMA UpToEmpty ==
    ASSUME NEW s \in Seq(Bytes), NEW c \in 0 .. Len(s), NEW d \in c .. Len(s),
           NEW texts, UpTo(texts, s, c),
           \A j \in c + 1 .. d : j \notin Ends(s)
    PROVE  UpTo(texts, s, d)
<1> DEFINE D == 1 .. Len(texts)
<1>1. PICK at \in [D -> 1 .. c] :
        /\ \A i \in D : at[i] \in Ends(s)
        /\ \A i, k \in D : i < k => at[i] < at[k]
        /\ \A j \in Ends(s) : j <= c => \E i \in D : at[i] = j
        /\ \A i \in D : texts[i] = Message(Line(s, at[i]))
  BY DEF UpTo
<1> HIDE DEF D
<1>2. at \in [D -> 1 .. d]
  BY <1>1
<1>3. ASSUME NEW j \in Ends(s), j <= d
      PROVE  \E i \in D : at[i] = j
  <2>1. j \in 1 .. Len(s)
    BY DEF Ends
  <2>2. j <= c
    BY <1>3, <2>1
  <2> QED BY <1>1, <2>2
<1> QED BY <1>1, <1>2, <1>3, Zenon DEF UpTo, D

\* A line with a message adds it at the end.
LEMMA UpToOneMore ==
    ASSUME NEW s \in Seq(Bytes), NEW c \in 0 .. Len(s), NEW d \in c + 1 .. Len(s),
           NEW texts \in Seq(Seq(Bytes)), NEW m \in Seq(Bytes), UpTo(texts, s, c),
           \A j \in c + 1 .. d - 1 : j \notin Ends(s),
           d \in Ends(s), m = Message(Line(s, d))
    PROVE  UpTo(Append(texts, m), s, d)
<1> DEFINE D == 1 .. Len(texts)
           new == Append(texts, m)
           E == 1 .. Len(new)
<1>1. PICK at \in [D -> 1 .. c] :
        /\ \A i \in D : at[i] \in Ends(s)
        /\ \A i, k \in D : i < k => at[i] < at[k]
        /\ \A j \in Ends(s) : j <= c => \E i \in D : at[i] = j
        /\ \A i \in D : texts[i] = Message(Line(s, at[i]))
  BY DEF UpTo
<1>2. PICK n \in Nat : n = Len(texts)
  OBVIOUS
<1>3. /\ E = 1 .. n + 1 /\ D = 1 .. n /\ new[n + 1] = m
      /\ \A i \in D : new[i] = texts[i]
  BY <1>2
<1> DEFINE at2 == [i \in E |-> IF i = n + 1 THEN d ELSE at[i]]
<1> HIDE DEF D, new, E
<1>4. \A i \in E : i = n + 1 \/ i \in D
  BY <1>3
<1>5. n + 1 \in E /\ n + 1 \notin D /\ \A i \in D : i \in E /\ i < n + 1
  BY <1>3
<1>6. at2[n + 1] = d /\ \A i \in D : at2[i] = at[i]
  BY <1>5
<1>7. d \in 1 .. d /\ \A x \in 1 .. c : x \in 1 .. d /\ x < d
  OBVIOUS
<1>8. at2 \in [E -> 1 .. d]
  BY <1>1, <1>4, <1>7
<1> HIDE DEF at2
<1>9. \A i \in E : at2[i] \in Ends(s)
  BY <1>1, <1>4, <1>6, Zenon
<1>10. \A i \in E : new[i] = Message(Line(s, at2[i]))
  BY <1>1, <1>3, <1>4, <1>6, Zenon
<1>11. ASSUME NEW i \in E, NEW k \in E, i < k
       PROVE  at2[i] < at2[k]
  <2>1. i \in D
    BY <1>3, <1>11
  <2>2. CASE k = n + 1
    BY <1>1, <1>6, <1>7, <2>1, <2>2, Zenon
  <2>3. CASE k \in D
    BY <1>1, <1>6, <1>11, <2>1, <2>3, Zenon
  <2> QED BY <1>4, <2>2, <2>3, Zenon
<1>12. ASSUME NEW j \in Ends(s), j <= d
       PROVE  \E i \in E : at2[i] = j
  <2>1. j \in 1 .. Len(s)
    BY DEF Ends
  <2>2. j = d \/ j <= c \/ j \in c + 1 .. d - 1
    BY <1>12, <2>1
  <2>3. CASE j = d
    BY <1>5, <1>6, <2>3, Zenon
  <2>4. CASE j <= c
    BY <1>1, <1>5, <1>6, <2>4, Zenon
  <2> QED BY <2>2, <2>3, <2>4
<1> QED BY <1>8, <1>9, <1>10, <1>11, <1>12, Zenon DEF UpTo, E, new

(***************************************************************************)
(* The bytes of a line, and the string in the buffer                       *)
(***************************************************************************)

\* the bytes of b from p to before q
Bytewise(b, p, q) == [i \in 1 .. q - p |-> b[p + i - 1]]

\* The string at p ends at the first NUL.
LEMMA CStringIs ==
    ASSUME NEW b, NEW p \in 0 .. N - 1, NEW q \in p .. N - 1,
           b[q] = "nul", \A i \in p .. q - 1 : b[i] # "nul"
    PROVE  CString(b, p) = Bytewise(b, p, q)
<1> USE LineBufferAssumption
<1> DEFINE IsNul(x) == b[x] = "nul" /\ \A i \in p .. x - 1 : b[i] # "nul"
           nul == CHOOSE x \in p .. N - 1 : IsNul(x)
<1>1. nul \in p .. N - 1 /\ IsNul(nul)
  OBVIOUS
<1>2. CString(b, p) = [i \in 1 .. nul - p |-> b[p + i - 1]]
  BY DEF CString
<1> HIDE DEF nul
<1>3. ~(nul < q) /\ ~(q < nul)
  BY <1>1
<1>4. nul = q
  BY <1>1, <1>3
<1> QED BY <1>2, <1>4, Zenon DEF Bytewise

\* Trim stops at the first byte that is no space.
LEMMA TrimIs ==
    ASSUME NEW b, NEW p \in 0 .. N - 1, NEW q \in p .. N - 1,
           b[q] # "space", \A i \in p .. q - 1 : b[i] = "space"
    PROVE  Trim(b, p) = q
<1> USE LineBufferAssumption
<1> DEFINE Stops(x) == b[x] # "space" /\ \A i \in p .. x - 1 : b[i] = "space"
           f == CHOOSE x \in p .. N - 1 : Stops(x)
<1>1. f \in p .. N - 1 /\ Stops(f)
  OBVIOUS
<1>2. Trim(b, p) = f
  BY DEF Trim
<1> HIDE DEF f
<1>3. ~(f < q) /\ ~(q < f)
  BY <1>1
<1> QED BY <1>1, <1>2, <1>3

\* A string that ends before the place where the buffer changes.
LEMMA CStringKept ==
    ASSUME NEW b, NEW d, NEW p \in 0 .. N - 1, NEW t \in 0 .. N,
           \A i \in 0 .. t - 1 : b[i] = d[i],
           NEW q \in p .. t - 1, b[q] = "nul"
    PROVE  CString(d, p) = CString(b, p)
<1> USE LineBufferAssumption
<1> DEFINE R == {x \in p .. t - 1 : b[x] = "nul"}
<1>1. R \subseteq Nat /\ q \in R
  OBVIOUS
<1>2. PICK x \in R : \A y \in R : x <= y
  BY <1>1, LeastNat
<1>3. x \in p .. t - 1 /\ x \in p .. N - 1 /\ b[x] = "nul" /\ \A i \in p .. x - 1 : b[i] # "nul"
  BY <1>2
<1> HIDE DEF R
<1>4. CString(b, p) = Bytewise(b, p, x)
  BY <1>3, CStringIs
<1>5. d[x] = "nul" /\ \A i \in p .. x - 1 : d[i] # "nul"
  BY <1>3
<1>6. CString(d, p) = Bytewise(d, p, x)
  BY <1>3, <1>5, CStringIs
<1>7. \A i \in 1 .. x - p : d[p + i - 1] = b[p + i - 1]
  BY <1>3
<1> QED BY <1>4, <1>6, <1>7 DEF Bytewise

\* The first number that a set of numbers up to n has.
LEMMA FirstExists ==
    ASSUME NEW n \in Nat, NEW S, S \subseteq 1 .. n, S # {}
    PROVE  First(S) \in S /\ \A y \in S : First(S) <= y
<1>1. S \subseteq Nat
  OBVIOUS
<1>2. PICK x \in S : \A y \in S : x <= y
  BY <1>1, LeastNat
<1> QED BY <1>2 DEF First

\* where a line ends, in front of its \n or \r\n
EndOf(l) == IF l # << >> /\ l[Len(l)] = "cr" THEN Len(l) ELSE Len(l) + 1

\* the message of l, which ends at t, ends before e and begins at p
Parts(l, t, e, p) ==
    /\ Message(l) = SubSeq(l, p, e - 1)
    /\ e = t \/ l[e] = "nul"
    /\ \A k \in 1 .. e - 1 : l[k] # "nul"
    /\ p = e \/ l[p] # "space"
    /\ \A k \in 1 .. p - 1 : l[k] = "space"

\* The parts of a message: its terminator, its end and its beginning.
LEMMA MessageParts ==
    ASSUME NEW l \in Seq(Bytes), NEW t \in 1 .. Len(l) + 1,
           t = EndOf(l)
    PROVE  \E e \in 1 .. t : \E p \in 1 .. e : Parts(l, t, e, p)
<1> DEFINE S == {k \in 1 .. t : k = t \/ l[k] = "nul"}
           e == First(S)
           T == {k \in 1 .. e : k = e \/ l[k] # "space"}
           p == First(T)
<1>1. Message(l) = SubSeq(l, p, e - 1)
  BY Zenon DEF Message, EndOf
<1>2. t \in Nat \ {0} /\ S \subseteq 1 .. t /\ t \in S
  OBVIOUS
<1>3. e \in S /\ \A y \in S : e <= y
  <2> HIDE DEF S
  <2> QED BY <1>2, FirstExists
<1> HIDE DEF e
<1>4. e \in 1 .. t /\ (e = t \/ l[e] = "nul")
  BY <1>3
<1>5. ASSUME NEW k \in 1 .. e - 1 PROVE l[k] # "nul"
  <2>1. k \in 1 .. t /\ ~(e <= k)
    BY <1>4
  <2> QED BY <1>3, <2>1
<1> HIDE DEF S
<1>6. e \in Nat /\ T \subseteq 1 .. e /\ e \in T
  BY <1>2, <1>4
<1>7. p \in T /\ \A y \in T : p <= y
  <2> HIDE DEF T
  <2> QED BY <1>6, FirstExists
<1> HIDE DEF p
<1>8. p \in 1 .. e /\ (p = e \/ l[p] # "space")
  BY <1>7
<1>9. ASSUME NEW k \in 1 .. p - 1 PROVE l[k] = "space"
  <2>1. k \in 1 .. e /\ ~(p <= k)
    BY <1>6, <1>8
  <2> QED BY <1>7, <2>1
<1>10. Parts(l, t, e, p)
  BY <1>1, <1>4, <1>5, <1>8, <1>9, Zenon DEF Parts
<1> QED BY <1>4, <1>8, <1>10

\* The line l is in the buffer b from i on, and b is terminated behind it: what
\* get_nonempty_line and the callback find is its message.
LEMMA BufferedMessage ==
    ASSUME NEW l \in Seq(Bytes), NEW b \in [0 .. N - 1 -> Bytes], NEW i \in 0 .. N - 1,
           NEW t \in 1 .. Len(l) + 1,
           t = EndOf(l),
           i + Len(l) <= N - 1,
           \A k \in 1 .. t - 1 : b[i + k - 1] = l[k], b[i + t - 1] = "nul"
    PROVE  /\ Message(l) \in Seq(Bytes)
           /\ b[Trim(b, i)] = "nul" => Message(l) = << >>
           /\ b[Trim(b, i)] # "nul" =>
                Message(l) # << >> /\ CString(b, Trim(b, i)) = Message(l)
<1> USE LineBufferAssumption
<1>0. PICK e \in 1 .. t : \E p \in 1 .. e : Parts(l, t, e, p)
  BY MessageParts
<1>1. PICK p \in 1 .. e :
        /\ Message(l) = SubSeq(l, p, e - 1)
        /\ e = t \/ l[e] = "nul"
        /\ \A k \in 1 .. e - 1 : l[k] # "nul"
        /\ p = e \/ l[p] # "space"
        /\ \A k \in 1 .. p - 1 : l[k] = "space"
  BY <1>0, Zenon DEF Parts
<1>2. Len(l) \in Nat /\ t \in Nat /\ e \in Nat /\ p \in Nat /\ i \in Nat /\ N \in Nat
      /\ e <= t /\ p <= e /\ 1 <= p /\ t <= Len(l) + 1
  BY <1>1
<1>3. PICK P \in i .. N - 1, E \in i .. N - 1 : P = i + p - 1 /\ E = i + e - 1 /\ P <= E
  BY <1>2
<1>4. b[E] = "nul"
  <2>1. CASE e = t
    BY <1>3, <2>1
  <2>2. CASE e # t
    <3>1. e \in 1 .. t - 1
      BY <1>2, <2>2
    <3> QED BY <1>1, <1>3, <2>2, <3>1
  <2> QED BY <2>1, <2>2
<1>5. \A k \in 1 .. e - 1 : b[i + k - 1] = l[k]
  BY <1>2
<1>6. ASSUME NEW x \in i .. E - 1
      PROVE  b[x] # "nul"
  <2>1. PICK k \in 1 .. e - 1 : x = i + k - 1
    <3>1. x - i + 1 \in 1 .. e - 1 /\ x = i + (x - i + 1) - 1
      BY <1>2, <1>3
    <3> QED BY <3>1
  <2> QED BY <1>1, <1>5, <2>1
<1>7. ASSUME NEW x \in i .. P - 1
      PROVE  b[x] = "space"
  <2>1. PICK k \in 1 .. p - 1 : x = i + k - 1
    <3>1. x - i + 1 \in 1 .. p - 1 /\ x = i + (x - i + 1) - 1
      BY <1>2, <1>3
    <3> QED BY <3>1
  <2>2. k \in 1 .. e - 1
    BY <1>2
  <2> QED BY <1>1, <1>5, <2>1, <2>2
<1>8. b[P] # "space"
  <2>1. CASE p = e
    BY <1>3, <1>4, <2>1
  <2>2. CASE p # e
    <3>1. p \in 1 .. e - 1
      BY <1>2, <2>2
    <3> QED BY <1>1, <1>3, <1>5, <2>2, <3>1
  <2> QED BY <2>1, <2>2
<1>9. Trim(b, i) = P
  BY <1>3, <1>7, <1>8, TrimIs
<1>10. \A k \in p .. e - 1 : l[k] \in Bytes
  BY <1>2
<1>11. /\ SubSeq(l, p, e - 1) \in Seq(Bytes)
       /\ Len(SubSeq(l, p, e - 1)) = e - p
       /\ \A k \in 1 .. e - p : SubSeq(l, p, e - 1)[k] = l[p + k - 1]
  BY <1>2
<1>12. CASE p = e
  <2>1. b[P] = "nul"
    BY <1>3, <1>4, <1>12
  <2>2. SubSeq(l, p, e - 1) = << >>
    BY <1>2, <1>12
  <2> QED BY <1>1, <1>9, <1>11, <2>1, <2>2, Zenon
<1>13. CASE p # e
  <2>1. P \in i .. E - 1
    BY <1>2, <1>3, <1>13
  <2>2. b[P] # "nul"
    BY <1>6, <2>1
  <2>3. SubSeq(l, p, e - 1) # << >>
    <3>1. e - p # 0
      BY <1>2, <1>13
    <3>2. Len(<< >>) = 0
      OBVIOUS
    <3> QED BY <1>11, <3>1, <3>2, Zenon
  <2>4. P \in 0 .. N - 1 /\ E \in P .. N - 1 /\ \A x \in P .. E - 1 : b[x] # "nul"
    BY <1>2, <1>3, <1>6
  <2>5. CString(b, P) = Bytewise(b, P, E)
    BY <1>4, <2>4, CStringIs
  <2>6. E - P = e - p
    BY <1>2, <1>3
  <2>7. ASSUME NEW k \in 1 .. e - p
        PROVE  b[P + k - 1] = l[p + k - 1]
    <3>1. p + k - 1 \in 1 .. e - 1 /\ P + k - 1 = i + (p + k - 1) - 1
      BY <1>2, <1>3
    <3> QED BY <1>5, <3>1
  <2>8. CString(b, P) = [k \in 1 .. e - p |-> l[p + k - 1]]
    BY <2>5, <2>6, <2>7 DEF Bytewise
  <2>9. SubSeq(l, p, e - 1) = [k \in 1 .. e - p |-> l[p + k - 1]]
    BY <1>2, <1>11
  <2> QED BY <1>1, <1>9, <1>11, <2>2, <2>3, <2>8, <2>9, Zenon
<1> QED BY <1>12, <1>13

(***************************************************************************)
(* The steps                                                               *)
(***************************************************************************)

\* What the callbacks have been given.
LEMMA TextsTyped ==
    ASSUME msgs \in Seq(Messages)
    PROVE  Texts \in Seq(Seq(Bytes)) /\ Len(Texts) = Len(msgs)
<1>1. \A i \in 1 .. Len(msgs) : msgs[i].text \in Seq(Bytes)
  <2> SUFFICES ASSUME NEW i \in 1 .. Len(msgs) PROVE msgs[i].text \in Seq(Bytes)
    OBVIOUS
  <2>1. msgs[i] \in Messages
    BY ElementOfSeq
  <2> QED BY <2>1, Zenon DEF Messages
<1>2. Len(msgs) \in Nat
  BY LenProperties
<1> QED BY <1>1, <1>2 DEF Texts

\* One message more.
LEMMA TextsAppend ==
    ASSUME msgs \in Seq(Messages), NEW m \in Messages, msgs' = Append(msgs, m)
    PROVE  Texts' = Append(Texts, m.text)
<1>1. PICK x \in Seq(Bytes) : x = m.text
  BY Zenon DEF Messages
<1>2. PICK n \in Nat : n = Len(msgs)
  BY LenProperties
<1>3. /\ Len(msgs') = n + 1 /\ msgs'[n + 1] = m
      /\ \A i \in 1 .. n : msgs'[i] = msgs[i]
  BY <1>2, AppendProperties
<1>4. Texts' = [i \in 1 .. n + 1 |-> msgs'[i].text]
  BY <1>3, Zenon DEF Texts
<1>5. Texts \in Seq(Seq(Bytes)) /\ Len(Texts) = n
  BY <1>2, TextsTyped
<1>6. \A i \in 1 .. n : Texts[i] = msgs[i].text
  BY <1>2 DEF Texts
<1>7. PICK a \in Seq(Seq(Bytes)) : a = Append(Texts, x)
  BY <1>1, <1>5, AppendProperties
<1>8. Len(a) = n + 1 /\ a[n + 1] = x /\ \A i \in 1 .. n : a[i] = Texts[i]
  BY <1>1, <1>5, <1>7, AppendProperties
<1>9. a = [i \in 1 .. n + 1 |-> a[i]]
  BY <1>7, <1>8, LenProperties
<1>10. ASSUME NEW i \in 1 .. n + 1
       PROVE  a[i] = msgs'[i].text
  <2>1. CASE i = n + 1
    BY <1>1, <1>3, <1>8, <2>1, Zenon
  <2>2. CASE i # n + 1
    <3>1. i \in 1 .. n
      BY <2>2
    <3> QED BY <1>3, <1>6, <1>8, <3>1, Zenon
  <2> QED BY <2>1, <2>2
<1> QED BY <1>1, <1>4, <1>7, <1>9, <1>10, Zenon

\* After the dispatch the line that waited is one of the texts.
LEMMA DispatchTexts ==
    ASSUME ScreenInv, NEW b \in [0 .. N - 1 -> Bytes], NEW flush \in BOOLEAN,
           Dispatch(b, flush), \A i \in 0 .. start_ - 1 : buffer_[i] = b[i]
    PROVE  Texts' = Pending
<1> USE LineBufferAssumption
<1>1. CASE line = nullptr
  BY <1>1, Zenon DEF Dispatch, Pending, Texts
<1>2. CASE line # nullptr
  <2>1. line \in 0 .. N - 1 /\ start_ \in 0 .. N /\ msgs \in Seq(Messages)
    BY <1>2 DEF ScreenInv, Inv, TypeOK, nullptr
  <2>2. PICK q \in line .. start_ - 1 : buffer_[q] = "nul"
    BY <1>2, Zenon DEF ScreenInv, PreloadedIsTerminated
  <2>3. CString(b, line) = CString(buffer_, line)
    BY <2>1, <2>2, CStringKept
  <2>4. q \in line .. N - 1 /\ b[q] = "nul"
    BY <2>1, <2>2
  <2>5. CString(b, line) \in Seq(Bytes)
    BY <2>1, <2>4, CStringType
  <2> DEFINE m == [text |-> CString(b, line), flush |-> flush]
  <2>6. m \in Messages /\ m.text = CString(b, line)
    BY <2>5, Zenon DEF Messages
  <2>7. msgs' = Append(msgs, m)
    BY <1>2, Zenon DEF Dispatch
  <2> HIDE DEF m
  <2>8. Texts' = Append(Texts, m.text)
    BY <2>1, <2>6, <2>7, TextsAppend
  <2> QED BY <1>2, <2>3, <2>6, <2>8, Zenon DEF Pending
<1> QED BY <1>1, <1>2

\* The texts and the line that waits.
LEMMA PendingTyped ==
    ASSUME ScreenInv
    PROVE  Pending \in Seq(Seq(Bytes))
<1> USE LineBufferAssumption
<1>1. Texts \in Seq(Seq(Bytes))
  BY TextsTyped DEF ScreenInv
<1>2. CASE line = nullptr
  BY <1>1, <1>2, Zenon DEF Pending
<1>3. CASE line # nullptr
  <2>1. line \in 0 .. N - 1 /\ start_ \in 0 .. N /\ buffer_ \in [0 .. N - 1 -> Bytes]
    BY <1>3 DEF ScreenInv, Inv, TypeOK, nullptr
  <2>2. PICK q \in line .. start_ - 1 : buffer_[q] = "nul"
    BY <1>3, Zenon DEF ScreenInv, PreloadedIsTerminated
  <2>3. q \in line .. N - 1
    BY <2>1
  <2>4. CString(buffer_, line) \in Seq(Bytes)
    BY <2>1, <2>2, <2>3, CStringType
  <2> QED BY <1>1, <1>3, <2>4, AppendProperties DEF Pending
<1> QED BY <1>2, <1>3

\* The bytes in the buffer, counted from the last line taken out.
LEMMA BufferedBytes ==
    ASSUME Inv
    PROVE  /\ Len(input) \in Nat /\ start_ \in 0 .. N /\ end_ \in start_ .. N
           /\ Taken \in 0 .. Len(input) /\ Taken + (end_ - start_) = Len(input)
           /\ \A k \in 1 .. end_ - start_ : input[Taken + k] = buffer_[start_ + k - 1]
<1> USE LineBufferAssumption
<1>1. /\ Len(input) \in Nat /\ start_ \in 0 .. N /\ end_ \in start_ .. N
      /\ end_ - start_ <= Len(input)
      /\ \A i \in start_ .. end_ - 1 : buffer_[i] = input[Len(input) - end_ + i + 1]
  BY DEF Inv, TypeOK, NoSkippedNewline, Unconsumed
<1>2. Taken \in 0 .. Len(input) /\ Taken + (end_ - start_) = Len(input)
  BY <1>1 DEF Taken
<1>3. ASSUME NEW k \in 1 .. end_ - start_
      PROVE  input[Taken + k] = buffer_[start_ + k - 1]
  <2>1. PICK i \in start_ .. end_ - 1 : i = start_ + k - 1
    BY <1>1
  <2>2. Len(input) - end_ + i + 1 = Taken + k
    BY <1>1, <2>1 DEF Taken
  <2>3. buffer_[i] = input[Len(input) - end_ + i + 1]
    BY <1>1
  <2> QED BY <2>1, <2>2, <2>3, Zenon
<1> QED BY <1>1, <1>2, <1>3

\* The line that next_line finds, in the stream.
LEMMA FoundLine ==
    ASSUME Inv, Taken = 0 \/ input[Taken] = "lf", NEW nl \in 0 .. N - 1, NextLine(nl)
    PROVE  \E d \in Taken + 1 .. Len(input), l \in Seq(Bytes) :
              /\ Taken' = d /\ input[d] = "lf"
              /\ \A j \in Taken + 1 .. d - 1 : input[j] # "lf"
              /\ l = Line(input, d)
              /\ Len(l) = nl - start_
              /\ \A k \in 1 .. Len(l) : l[k] = buffer_[start_ + k - 1]
<1> USE LineBufferAssumption
<1>1. /\ Len(input) \in Nat /\ start_ \in 0 .. N /\ end_ \in start_ .. N
      /\ Taken \in 0 .. Len(input) /\ Taken + (end_ - start_) = Len(input)
      /\ \A k \in 1 .. end_ - start_ : input[Taken + k] = buffer_[start_ + k - 1]
  BY BufferedBytes
<1>2. /\ search_ \in start_ .. end_ /\ nl \in search_ .. end_ - 1 /\ buffer_[nl] = "lf"
      /\ \A i \in start_ .. search_ - 1 : buffer_[i] # "lf"
      /\ \A i \in search_ .. nl - 1 : buffer_[i] # "lf"
      /\ start_' = nl + 1 /\ end_' = end_ /\ input' = input /\ input \in Seq(Bytes)
  BY <1>1 DEF Inv, TypeOK, NoSkippedNewline, NextLine, IsNewline
<1>3. PICK c \in 0 .. Len(input) : c = Taken
  BY <1>1
<1>4. PICK d \in c + 1 .. Len(input) : d = c + (nl - start_) + 1
  BY <1>1, <1>2, <1>3
<1>5. Taken' = d
  BY <1>1, <1>2, <1>3, <1>4 DEF Taken
<1>6. \A k \in 1 .. end_ - start_ : input[c + k] = buffer_[start_ + k - 1]
  BY <1>1, <1>3
<1>7. input[d] = "lf"
  <2>1. PICK k \in 1 .. end_ - start_ : k = nl - start_ + 1
    BY <1>1, <1>2
  <2>2. c + k = d /\ start_ + k - 1 = nl
    BY <1>1, <1>2, <1>4, <2>1
  <2> QED BY <1>2, <1>6, <2>2
<1>8. \A k \in 1 .. nl - start_ : input[c + k] = buffer_[start_ + k - 1]
  <2>1. \A k \in 1 .. nl - start_ : k \in 1 .. end_ - start_
    BY <1>1, <1>2
  <2> QED BY <1>6, <2>1, Zenon
<1>9. \A i \in start_ .. nl - 1 : buffer_[i] # "lf"
  BY <1>1, <1>2
<1>10. ASSUME NEW j \in c + 1 .. d - 1
       PROVE  input[j] # "lf"
  <2>1. PICK k \in 1 .. nl - start_ : j = c + k
    <3>1. j - c \in 1 .. nl - start_ /\ j = c + (j - c)
      BY <1>1, <1>2, <1>4
    <3> QED BY <3>1
  <2>2. start_ + k - 1 \in start_ .. nl - 1
    BY <1>1, <1>2
  <2> QED BY <1>8, <1>9, <2>1, <2>2
<1> DEFINE l == SubSeq(input, c + 1, d - 1)
<1>11. /\ l \in Seq(Bytes) /\ Len(l) = nl - start_
       /\ \A k \in 1 .. nl - start_ : l[k] = input[c + k]
  <2>1. \A i \in c + 1 .. d - 1 : input[i] \in Bytes
    BY <1>1, <1>2, <1>4
  <2> QED BY <1>1, <1>2, <1>4, <2>1
<1>12. Line(input, d) = l
  <2>1. PICK k \in 1 .. d : k = c + 1
    BY <1>4
  <2>2. d \in Nat /\ k - 1 = c
    BY <1>3, <1>4, <2>1
  <2>3. k = 1 \/ input[k - 1] = "lf"
    BY <1>3, <2>1, <2>2
  <2>4. \A i \in k .. d - 1 : input[i] # "lf"
    BY <1>10, <2>1
  <2>5. Line(input, d) = SubSeq(input, k, d - 1)
    BY <2>2, <2>3, <2>4, LineIs
  <2> QED BY <2>1, <2>5
<1> HIDE DEF l
<1>13. \A k \in 1 .. Len(l) : l[k] = buffer_[start_ + k - 1]
  BY <1>8, <1>11, Zenon
<1>14. d \in Taken + 1 .. Len(input) /\ \A j \in Taken + 1 .. d - 1 : input[j] # "lf"
  BY <1>3, <1>4, <1>10
<1>15. l = Line(input, d) /\ Len(l) = nl - start_ /\ l \in Seq(Bytes)
  BY <1>11, <1>12, Zenon
<1> QED BY <1>5, <1>7, <1>13, <1>14, <1>15, Zenon

\* A line is taken out: its message waits to be dispatched, if it has one.
LEMMA SplitNextLine ==
    ASSUME SplitInv, ScreenInv', NEW nl \in 0 .. N - 1, NextLine(nl)
    PROVE  SplitInv'
<1> USE LineBufferAssumption
<1>1. Inv /\ ScreenInv /\ UpTo(Pending, input, Taken) /\ (Taken = 0 \/ input[Taken] = "lf")
  BY Zenon DEF SplitInv, ScreenInv
<1>2. PICK d \in Taken + 1 .. Len(input), l \in Seq(Bytes) :
              /\ Taken' = d /\ input[d] = "lf"
              /\ \A j \in Taken + 1 .. d - 1 : input[j] # "lf"
              /\ l = Line(input, d)
              /\ Len(l) = nl - start_
              /\ \A k \in 1 .. Len(l) : l[k] = buffer_[start_ + k - 1]
  BY <1>1, FoundLine
<1>3. /\ Len(input) \in Nat /\ start_ \in 0 .. N /\ end_ \in start_ .. N
      /\ Taken \in 0 .. Len(input)
  BY <1>1, BufferedBytes
<1>4. /\ start_ <= nl /\ input' = input /\ input \in Seq(Bytes)
      /\ buffer_ \in [0 .. N - 1 -> Bytes]
  BY <1>1 DEF Inv, TypeOK, NoSkippedNewline, NextLine, IsNewline
<1> DEFINE T == Terminator(nl)
           b == [buffer_ EXCEPT ![T] = "nul"]
           p == Trim(b, start_)
<1>5. buffer_' = b
  BY Zenon DEF NextLine
<1>6. IF b[p] = "nul" THEN UNCHANGED <<line, msgs>> ELSE line' = p /\ Dispatch(b, FALSE)
  BY Zenon DEF NextLine
<1>7. PICK t \in 1 .. Len(l) + 1 : t = EndOf(l)
  BY DEF EndOf
<1>8. T = start_ + t - 1
  <2>1. CASE l = << >>
    <3>1. nl = start_
      BY <1>2, <1>3, <2>1
    <3> QED BY <1>2, <1>3, <1>7, <2>1, <3>1 DEF Terminator, EndOf
  <2>2. CASE l # << >>
    <3>1. PICK n \in Nat \ {0} : n = Len(l)
      BY <2>2
    <3>2. start_ < nl /\ start_ + n - 1 = nl - 1
      BY <1>2, <1>3, <3>1
    <3>3. l[n] = buffer_[nl - 1]
      BY <1>2, <3>1, <3>2
    <3>4. CASE l[n] = "cr"
      <4>1. T = nl - 1
        BY <3>2, <3>3, <3>4 DEF Terminator
      <4>2. t = n
        BY <1>7, <2>2, <3>1, <3>4 DEF EndOf
      <4> QED BY <3>2, <4>1, <4>2
    <3>5. CASE l[n] # "cr"
      <4>1. T = nl
        BY <3>2, <3>3, <3>5 DEF Terminator
      <4>2. t = n + 1
        BY <1>7, <2>2, <3>1, <3>5 DEF EndOf
      <4> QED BY <1>3, <3>2, <4>1, <4>2
    <3> QED BY <3>4, <3>5
  <2> QED BY <2>1, <2>2
<1>9. T \in start_ .. nl /\ T \in 0 .. N - 1
  BY <1>2, <1>3, <1>4, <1>7, <1>8
<1> HIDE DEF T
<1>10. /\ b \in [0 .. N - 1 -> Bytes] /\ b[T] = "nul"
       /\ \A i \in 0 .. N - 1 : i # T => b[i] = buffer_[i]
  BY <1>4, <1>9 DEF Bytes
<1> HIDE DEF b
<1>11. \A i \in 0 .. start_ - 1 : buffer_[i] = b[i]
  BY <1>3, <1>9, <1>10
<1>12. ASSUME NEW k \in 1 .. t - 1
       PROVE  b[start_ + k - 1] = l[k]
  <2>1. k \in 1 .. Len(l) /\ start_ + k - 1 \in 0 .. N - 1 /\ start_ + k - 1 # T
    <3>1. t \in Nat /\ k \in Nat /\ k < t /\ 1 <= k /\ Len(l) \in Nat /\ t <= Len(l) + 1 /\ start_ \in Nat
      BY <1>3, <1>7
    <3>2. T \in 0 .. N - 1 /\ N \in Nat
      BY <1>9
    <3> QED BY <1>8, <3>1, <3>2
  <2> QED BY <1>2, <1>10, <2>1, Zenon
<1>13. start_ \in 0 .. N - 1 /\ start_ + Len(l) <= N - 1 /\ b[start_ + t - 1] = "nul"
  BY <1>2, <1>3, <1>4, <1>8, <1>10
<1>14. /\ Message(l) \in Seq(Bytes)
       /\ b[p] = "nul" => Message(l) = << >>
       /\ b[p] # "nul" => Message(l) # << >> /\ CString(b, p) = Message(l)
  BY <1>7, <1>10, <1>12, <1>13, BufferedMessage
<1> HIDE DEF p
<1>15. /\ \A j \in Taken + 1 .. d - 1 : j \notin Ends(input)
       /\ d \in Ends(input) <=> Message(l) # << >>
  <2>1. d \in 1 .. Len(input)
    BY <1>2, <1>3
  <2>2. d \in Ends(input) <=> Message(l) # << >>
    BY <1>2, <2>1, Zenon DEF Ends
  <2>3. \A j \in Taken + 1 .. d - 1 : j \notin Ends(input)
    BY <1>2, Zenon DEF Ends
  <2> QED BY <2>2, <2>3
<1>16. Taken' = 0 \/ input'[Taken'] = "lf"
  BY <1>2, <1>4, Zenon
<1>17. UpTo(Pending', input, d)
  <2>1. PICK c \in 0 .. Len(input) : c = Taken /\ d \in c + 1 .. Len(input) /\ d \in c .. Len(input)
    BY <1>2, <1>3
  <2>2. UpTo(Pending, input, c) /\ \A j \in c + 1 .. d - 1 : j \notin Ends(input)
    BY <1>1, <1>15, <2>1, Zenon
  <2>3. CASE b[p] = "nul"
    <3>1. line' = line /\ msgs' = msgs
      BY <1>6, <2>3, Zenon
    <3>2. Pending' = Pending
      <4>1. Texts' = Texts
        BY <3>1, Zenon DEF Texts
      <4>2. CASE line = nullptr
        BY <3>1, <4>1, <4>2, Zenon DEF Pending, nullptr
      <4>3. CASE line # nullptr
        <5>1. line \in 0 .. N - 1
          BY <1>1, <4>3 DEF Inv, TypeOK, nullptr
        <5>2. PICK q \in line .. start_ - 1 : buffer_[q] = "nul"
          BY <1>1, <4>3, Zenon DEF ScreenInv, PreloadedIsTerminated
        <5>3. CString(b, line) = CString(buffer_, line)
          BY <1>3, <1>11, <5>1, <5>2, CStringKept
        <5> QED BY <1>5, <3>1, <4>1, <4>3, <5>3, Zenon DEF Pending, nullptr
      <4> QED BY <4>2, <4>3
    <3>3. d \notin Ends(input)
      BY <1>14, <1>15, <2>3, Zenon
    <3>4. \A j \in c + 1 .. d : j \notin Ends(input)
      BY <2>1, <2>2, <3>3
    <3>5. UpTo(Pending, input, d)
      BY <1>4, <2>1, <2>2, <3>4, UpToEmpty
    <3> QED BY <3>2, <3>5, Zenon
  <2>4. CASE b[p] # "nul"
    <3>1. line' = p /\ Dispatch(b, FALSE)
      BY <1>6, <2>4, Zenon
    <3>2. Texts' = Pending
      <4>1. FALSE \in BOOLEAN
        OBVIOUS
      <4> QED BY <1>1, <1>10, <1>11, <3>1, <4>1, DispatchTexts
    <3>3. p # nullptr
      <4>1. start_ \in 0 .. N - 1 /\ T \in start_ .. N - 1
        BY <1>9, <1>13
      <4>2. p \in start_ .. N - 1
        BY <1>10, <4>1, TrimExists DEF p
      <4> QED BY <4>1, <4>2 DEF nullptr
    <3>4. Pending' = Append(Pending, Message(l))
      BY <1>5, <1>14, <2>4, <3>1, <3>2, <3>3, Zenon DEF Pending, nullptr
    <3>5. d \in Ends(input)
      BY <1>14, <1>15, <2>4, Zenon
    <3>6. Pending \in Seq(Seq(Bytes))
      BY <1>1, PendingTyped
    <3>7. UpTo(Append(Pending, Message(l)), input, d)
      <4>1. PICK m \in Seq(Bytes) : m = Message(l) /\ m = Message(Line(input, d))
        BY <1>2, <1>14, Zenon
      <4>2. UpTo(Append(Pending, m), input, d)
        BY <1>4, <2>1, <2>2, <3>5, <3>6, <4>1, UpToOneMore
      <4> QED BY <4>1, <4>2, Zenon
    <3> QED BY <3>4, <3>7, Zenon
  <2> QED BY <2>3, <2>4
<1> QED BY <1>2, <1>4, <1>16, <1>17, Zenon DEF SplitInv

\* The loop is left: the last line is dispatched, and nothing else is taken out.
LEMMA SplitLinesDone ==
    ASSUME SplitInv, ScreenInv', LinesDone
    PROVE  SplitInv'
<1>1. Inv /\ ScreenInv /\ UpTo(Pending, input, Taken) /\ (Taken = 0 \/ input[Taken] = "lf")
  BY Zenon DEF SplitInv, ScreenInv
<1>2. /\ Len(input) \in Nat /\ start_ \in Nat /\ end_ \in Nat /\ input' = input
      /\ start_' = 0 /\ end_' = end_ - start_ /\ line' = nullptr
      /\ Dispatch(buffer_, TRUE) /\ buffer_ \in [0 .. N - 1 -> Bytes]
  BY <1>1, LineBufferAssumption DEF Inv, TypeOK, LinesDone
<1>3. Taken' = Taken
  BY <1>2 DEF Taken
<1>4. Texts' = Pending
  <2>1. TRUE \in BOOLEAN /\ \A i \in 0 .. start_ - 1 : buffer_[i] = buffer_[i]
    OBVIOUS
  <2> QED BY <1>1, <1>2, <2>1, DispatchTexts
<1>5. Pending' = Pending
  BY <1>2, <1>4, Zenon DEF Pending, nullptr
<1> QED BY <1>1, <1>2, <1>3, <1>5, Zenon DEF SplitInv

\* More bytes arrive, of which nothing has been taken out yet.
LEMMA SplitRead ==
    ASSUME SplitInv, ScreenInv', NEW n \in 1 .. N - end_, NEW bytes \in [1 .. n -> Bytes],
           Read(bytes)
    PROVE  SplitInv'
<1>1. Inv /\ ScreenInv /\ UpTo(Pending, input, Taken) /\ (Taken = 0 \/ input[Taken] = "lf")
  BY Zenon DEF SplitInv, ScreenInv
<1>2. end_ \in Nat /\ start_ \in Nat /\ input \in Seq(Bytes) /\ Len(input) \in Nat
  BY <1>1, LineBufferAssumption DEF Inv, TypeOK
<1>3. bytes \in Seq(Bytes) /\ Len(bytes) = n /\ n \in Nat
  BY <1>2, LineBufferAssumption
<1>4. /\ input' = input \o bytes /\ end_' = end_ + Len(bytes) /\ start_' = start_
      /\ line' = line /\ msgs' = msgs /\ pc = "read"
  BY DEF Read
<1>5. Len(input') = Len(input) + n /\ \A i \in 1 .. Len(input) : input'[i] = input[i]
  <2>1. /\ Len(input \o bytes) = Len(input) + Len(bytes)
        /\ \A i \in 1 .. Len(input) : (input \o bytes)[i] = input[i]
    BY <1>2, <1>3
  <2> QED BY <1>3, <1>4, <2>1, Zenon
<1>6. Taken' = Taken
  BY <1>2, <1>3, <1>4, <1>5 DEF Taken
<1>7. Taken \in 0 .. Len(input)
  BY <1>1, BufferedBytes
<1>8. line = nullptr
  BY <1>1, <1>4 DEF ScreenInv, PreloadedIsTerminated
<1>9. Pending' = Pending
  BY <1>4, <1>8, Zenon DEF Pending, Texts, nullptr
<1>10. UpTo(Pending, input \o bytes, Taken)
  BY <1>1, <1>2, <1>3, <1>7, UpToPrefix
<1>11. Taken = 0 \/ input'[Taken] = "lf"
  BY <1>1, <1>5, <1>7
<1> QED BY <1>4, <1>6, <1>9, <1>10, <1>11, Zenon DEF SplitInv

\* Every step keeps the messages in order.
LEMMA SplitNext == SplitInv /\ [Next]_vars => SplitInv'
<1> SUFFICES ASSUME SplitInv, [Next]_vars PROVE SplitInv'
    OBVIOUS
<1>1. ScreenInv'
  BY ScreenNext DEF SplitInv
<1>2. CASE Full
  <2>1. UNCHANGED <<buffer_, start_, end_, line, input, msgs>>
    BY <1>2 DEF Full
  <2> QED BY <1>1, <2>1, Zenon DEF SplitInv, Taken, Pending, Texts, nullptr
<1>3. ASSUME NEW n \in 1 .. N - end_, NEW bytes \in [1 .. n -> Bytes], Read(bytes)
      PROVE  SplitInv'
  BY <1>1, <1>3, SplitRead
<1>4. ASSUME NEW nl \in 0 .. N - 1, NextLine(nl)
      PROVE  SplitInv'
  BY <1>1, <1>4, SplitNextLine
<1>5. CASE LinesDone
  BY <1>1, <1>5, SplitLinesDone
<1>6. CASE UNCHANGED vars
  <2>1. UNCHANGED <<buffer_, start_, end_, line, input, msgs>>
    BY <1>6 DEF vars
  <2> QED BY <1>1, <2>1, Zenon DEF SplitInv, Taken, Pending, Texts, nullptr
<1> QED BY <1>2, <1>3, <1>4, <1>5, <1>6 DEF Next

\* When the loop reads, everything after the lines taken out is one line
\* that has not ended.
LEMMA SplitIsAll ==
    ASSUME SplitInv
    PROVE  DispatchesAllLines
<1> SUFFICES ASSUME pc \in {"read", "full"} PROVE AreMessages(Texts, input)
  BY DEF DispatchesAllLines
<1>1. Inv /\ UpTo(Pending, input, Taken) /\ input \in Seq(Bytes)
  BY DEF SplitInv, ScreenInv, Inv, TypeOK
<1>2. line = nullptr
  BY DEF SplitInv, ScreenInv, PreloadedIsTerminated
<1>3. Pending = Texts
  BY <1>2, Zenon DEF Pending
<1>4. /\ Len(input) \in Nat /\ start_ \in 0 .. N /\ end_ \in start_ .. N
      /\ Taken \in 0 .. Len(input) /\ Taken + (end_ - start_) = Len(input)
      /\ \A k \in 1 .. end_ - start_ : input[Taken + k] = buffer_[start_ + k - 1]
  BY <1>1, BufferedBytes
<1>5. search_ = end_ /\ \A i \in start_ .. end_ - 1 : buffer_[i] # "lf"
  BY <1>1 DEF Inv, NoSkippedNewline
<1>6. ASSUME NEW j \in Taken + 1 .. Len(input)
      PROVE  input[j] # "lf"
  <2>1. PICK k \in 1 .. end_ - start_ : j = Taken + k
    <3>1. j - Taken \in 1 .. end_ - start_ /\ j = Taken + (j - Taken)
      BY <1>4, LineBufferAssumption
    <3> QED BY <3>1
  <2>2. start_ + k - 1 \in start_ .. end_ - 1
    BY <1>4, LineBufferAssumption
  <2> QED BY <1>4, <1>5, <2>1, <2>2
<1>7. \A j \in Taken + 1 .. Len(input) : j \notin Ends(input)
  BY <1>6, Zenon DEF Ends
<1>8. Len(input) \in Taken .. Len(input)
  BY <1>4
<1>9. UpTo(Texts, input, Len(input))
  BY <1>1, <1>3, <1>4, <1>7, <1>8, UpToEmpty
<1> DEFINE D == 1 .. Len(Texts)
<1>10. PICK at \in [D -> 1 .. Len(input)] :
        /\ \A i \in D : at[i] \in Ends(input)
        /\ \A i, k \in D : i < k => at[i] < at[k]
        /\ \A j \in Ends(input) : j <= Len(input) => \E i \in D : at[i] = j
        /\ \A i \in D : Texts[i] = Message(Line(input, at[i]))
  BY <1>9, Zenon DEF UpTo
<1>11. \A j \in Ends(input) : j <= Len(input)
  BY <1>4 DEF Ends
<1> HIDE DEF D
<1>12. at \in [D -> Ends(input)]
  BY <1>10
<1> QED BY <1>10, <1>11, <1>12, Zenon DEF AreMessages, D

\* For every buffer size, every input and every way the network cuts it into
\* reads: what has been dispatched when the loop waits for data is the messages
\* of the bytes received, each of them whole, once and in order.
THEOREM SplitCorrect == Spec => []DispatchesAllLines
<1>1. Init => SplitInv
  <2> SUFFICES ASSUME Init PROVE SplitInv
    OBVIOUS
  <2>1. ScreenInv
    BY InvInit DEF Init, ScreenInv, PreloadedIsTerminated, nullptr
  <2>2. Taken = 0 /\ input = << >> /\ msgs = << >> /\ line = nullptr
    BY DEF Init, Taken
  <2>3. Texts = << >> /\ Pending = << >>
    BY <2>2 DEF Texts, Pending
  <2>4. Ends(input) = {}
    BY <2>2 DEF Ends
  <2>5. UpTo(<< >>, input, 0)
    <3>1. 1 .. Len(<< >>) = {}
      OBVIOUS
    <3>2. \A i \in 1 .. Len(<< >>) : FALSE
      BY <3>1
    <3>3. [i \in 1 .. Len(<< >>) |-> 1] \in [1 .. Len(<< >>) -> 1 .. 0]
      BY <3>1
    <3> QED BY <2>4, <3>2, <3>3, Zenon DEF UpTo
  <2> QED BY <2>1, <2>2, <2>3, <2>5, Zenon DEF SplitInv
<1>2. SplitInv => DispatchesAllLines
  BY SplitIsAll
<1> QED BY <1>1, <1>2, SplitNext, PTL DEF Spec
============================================================================
