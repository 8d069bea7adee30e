----------------------------- MODULE LineBuffer -----------------------------
(***************************************************************************)
(* The fixed-size line buffer of the read loop: class LineBuffer            *)
(* (src/client/net/linebuffer.{hpp,cpp}) and the loop of session_thread     *)
(* that fills it, takes the lines out of it and dispatches them             *)
(* (src/client/irc/lua.cpp).                                                *)
(*                                                                          *)
(* A byte is one of five classes, the ones the code tells apart.  The       *)
(* iterators are offsets into buffer_.  A line that has been taken out is   *)
(* a pointer into the buffer: it is read when it is dispatched, after the   *)
(* next line has been looked up and terminated in place.                    *)
(***************************************************************************)
EXTENDS Integers, Sequences

CONSTANTS N,            \* size of the buffer (connection::irc_buffer_size)
          MaxInput      \* bound on the bytes the server sends

ASSUME LineBufferAssumption == N \in Nat \ {0} /\ MaxInput \in Nat

VARIABLES
    buffer_,    \* the bytes
    start_,     \* first byte of the first line not taken out yet
    search_,    \* where the search for its newline continues
    end_,       \* end of the buffered data
    line,       \* the pre-loaded line: an offset, or nullptr
    pc,         \* read: in async_read_some; lines: in the for loop; full: thrown
    input,      \* history: all bytes received
    msgs        \* history: what was dispatched, with its redraw flag

vars == <<buffer_, start_, search_, end_, line, pc, input, msgs>>

Bytes   == {"char", "space", "cr", "lf", "nul"}
nullptr == -1

Init ==
    /\ buffer_ = [i \in 0 .. N - 1 |-> "nul"]
    /\ start_ = 0
    /\ search_ = 0
    /\ end_ = 0
    /\ line = nullptr
    /\ pc = "read"
    /\ input = << >>
    /\ msgs = << >>

(***************************************************************************)
(* prepare and commit                                                      *)
(***************************************************************************)

\* prepare() is empty: "line buffer full" is thrown
Full ==
    /\ pc = "read"
    /\ end_ = N
    /\ pc' = "full"
    /\ UNCHANGED <<buffer_, start_, search_, end_, line, input, msgs>>

\* async_read_some puts the bytes into prepare() and commit advances end_
Read(bytes) ==
    /\ pc = "read"
    /\ Len(bytes) \in 1 .. N - end_
    /\ buffer_' = [i \in 0 .. N - 1 |->
                     IF i \in end_ .. end_ + Len(bytes) - 1
                     THEN bytes[i - end_ + 1] ELSE buffer_[i]]
    /\ end_' = end_ + Len(bytes)
    /\ input' = input \o bytes
    /\ pc' = "lines"
    /\ UNCHANGED <<start_, search_, line, msgs>>

(***************************************************************************)
(* next_line, get_nonempty_line and the dispatch loop                      *)
(***************************************************************************)

\* std::find(search_, end_, '\n') finds its newline at nl
IsNewline(nl) ==
    /\ nl \in search_ .. end_ - 1
    /\ buffer_[nl] = "lf"
    /\ \A i \in search_ .. nl - 1 : buffer_[i] # "lf"

\* mutant: a carriage return is left in the line
TerminatorLF(nl) == nl

\* where the line that ends at nl is null-terminated: \n or \r\n
Terminator(nl) ==
    IF start_ < nl /\ buffer_[nl - 1] = "cr" THEN nl - 1 ELSE nl

\* the line at p after its leading spaces, in the terminated buffer b
Trim(b, p) ==
    CHOOSE q \in p .. N - 1 :
        b[q] # "space" /\ \A i \in p .. q - 1 : b[i] = "space"

\* the null-terminated string at p
CString(b, p) ==
    LET nul == CHOOSE q \in p .. N - 1 :
                   b[q] = "nul" /\ \A i \in p .. q - 1 : b[i] # "nul"
    IN [i \in 1 .. nul - p |-> b[p + i - 1]]

\* mutant: the redraw flag is computed before the next line is looked up
DispatchEarlyFlag(b, flush) ==
    msgs' = IF line = nullptr THEN msgs
            ELSE Append(msgs, [text |-> CString(b, line), flush |-> FALSE])

\* the callback runs for the pre-loaded line, if there is one
Dispatch(b, flush) ==
    msgs' = IF line = nullptr THEN msgs
            ELSE Append(msgs, [text |-> CString(b, line), flush |-> flush])

\* next_line returns a line: an empty one is skipped, any other becomes the
\* pre-loaded line while its predecessor is dispatched
NextLine(nl) ==
    /\ pc = "lines"
    /\ IsNewline(nl)
    /\ LET b == [buffer_ EXCEPT ![Terminator(nl)] = "nul"]
           p == Trim(b, start_)
       IN /\ buffer_' = b
          /\ IF b[p] = "nul"
             THEN UNCHANGED <<line, msgs>>
             ELSE line' = p /\ Dispatch(b, FALSE)
    /\ start_' = nl + 1
    /\ search_' = nl + 1
    /\ UNCHANGED <<end_, pc, input>>

\* mutant: shift resets the iterators and moves no bytes
LinesDoneNoMove ==
    /\ pc = "lines"
    /\ \A i \in search_ .. end_ - 1 : buffer_[i] # "lf"
    /\ Dispatch(buffer_, TRUE)
    /\ line' = nullptr
    /\ start_' = 0
    /\ search_' = end_ - start_
    /\ end_' = end_ - start_
    /\ pc' = "read"
    /\ UNCHANGED <<buffer_, input>>

\* next_line returns nullptr: the last line is dispatched with the redraw
\* flag and shift moves the incomplete line to the front
LinesDone ==
    /\ pc = "lines"
    /\ \A i \in search_ .. end_ - 1 : buffer_[i] # "lf"
    /\ Dispatch(buffer_, TRUE)
    /\ line' = nullptr
    /\ buffer_' = [i \in 0 .. N - 1 |->
                     IF i < end_ - start_ THEN buffer_[i + start_]
                     ELSE buffer_[i]]
    /\ start_' = 0
    /\ search_' = end_ - start_     \* next_line has set search_ to end_
    /\ end_' = end_ - start_
    /\ pc' = "read"
    /\ UNCHANGED input

Next ==
    \/ Full
    \/ \E n \in 1 .. N - end_ :
           /\ Len(input) + n <= MaxInput
           /\ \E bytes \in [1 .. n -> Bytes] : Read(bytes)
    \/ \E nl \in 0 .. N - 1 : NextLine(nl)
    \/ LinesDone

Spec == Init /\ [][Next]_vars

(***************************************************************************)
(* Properties                                                              *)
(***************************************************************************)

\* Every variable has its type; the iterators stay inside the buffer.
TypeOK ==
    /\ buffer_ \in [0 .. N - 1 -> Bytes]
    /\ start_ \in 0 .. N /\ search_ \in 0 .. N /\ end_ \in 0 .. N
    /\ line \in -1 .. N - 1
    /\ pc \in {"read", "lines", "full"}
    /\ input \in Seq(Bytes)

\* The iterators keep their order and no newline hides before search_: the
\* next search, which starts there, cannot join two lines into one.
NoSkippedNewline ==
    /\ start_ <= search_ /\ search_ <= end_
    /\ \A i \in start_ .. search_ - 1 : buffer_[i] # "lf"

\* The buffered bytes are the tail of the input, in spite of the lines being
\* terminated in place and of shift moving overlapping ranges: nothing is
\* lost, duplicated or overwritten before it is taken out.
Unconsumed ==
    /\ end_ - start_ <= Len(input)
    /\ \A i \in start_ .. end_ - 1 : buffer_[i] = input[Len(input) - end_ + i + 1]

\* "line buffer full" is thrown only for a line that does not fit: the last N
\* bytes received hold no newline.
FullMeansTooLong ==
    pc = "full" => /\ Len(input) >= N
                   /\ \A i \in Len(input) - N + 1 .. Len(input) : input[i] # "lf"

\* The buffer between reads and lines: the iterators stay in order, the next
\* search misses no newline, what is buffered is the tail of the input, and
\* only a line that does not fit fills it (linebuffer.cpp:3-31).
BufferSafe == TypeOK /\ NoSkippedNewline /\ Unconsumed /\ FullMeansTooLong

\* When the loop waits for more data the last message it dispatched had the
\* redraw flag set, so the screen shows everything that has arrived.
NoStaleScreen ==
    pc = "read" /\ msgs # << >> => msgs[Len(msgs)].flush

\* the first number of a set
First(S) == CHOOSE k \in S : \A j \in S : k <= j

\* the line that the newline at j of s ends
Line(s, j) ==
    SubSeq(s, First({k \in 1 .. j : \A i \in k .. j - 1 : s[i] # "lf"}), j - 1)

\* the message in a line: without a carriage return at its end, up to the
\* first NUL, after the leading spaces
Message(l) ==
    LET t == IF l # << >> /\ l[Len(l)] = "cr" THEN Len(l) ELSE Len(l) + 1
        e == First({k \in 1 .. t : k = t \/ l[k] = "nul"})
        p == First({k \in 1 .. e : k = e \/ l[k] # "space"})
    IN SubSeq(l, p, e - 1)

\* where the messages of the stream s end
Ends(s) == {j \in 1 .. Len(s) : s[j] = "lf" /\ Message(Line(s, j)) # << >>}

\* texts are the messages of the stream s, each of them once and in order
AreMessages(texts, s) ==
    \E at \in [1 .. Len(texts) -> Ends(s)] :
        /\ \A i, k \in 1 .. Len(texts) : i < k => at[i] < at[k]
        /\ \A j \in Ends(s) : \E i \in 1 .. Len(texts) : at[i] = j
        /\ \A i \in 1 .. Len(texts) : texts[i] = Message(Line(s, at[i]))

Texts == [i \in 1 .. Len(msgs) |-> msgs[i].text]

\* What the loop has dispatched when it waits for more data is exactly the
\* messages of the bytes received, however the network cut the stream into
\* reads: \r\n split over two reads, several lines in one read, a line in many
\* reads, empty lines and embedded NULs included (linebuffer.cpp:3-31,
\* lua.cpp:107-121, 157-173).
DispatchesAllLines == pc \in {"read", "full"} => AreMessages(Texts, input)
=============================================================================
