---------------------------- MODULE MCLineBuffer ----------------------------
(***************************************************************************)
(* Model checking of LineBuffer, and of its definition of the messages of  *)
(* a byte stream against a program that splits the stream byte by byte.    *)
(***************************************************************************)
EXTENDS LineBuffer, SequencesExt

\* s without its leading spaces
RECURSIVE LTrim(_)
LTrim(s) == IF s # << >> /\ Head(s) = "space" THEN LTrim(Tail(s)) ELSE s

\* s up to its first NUL
CutNul(s) ==
    LET nuls == {i \in 1 .. Len(s) : s[i] = "nul"}
    IN IF nuls = {} THEN s
       ELSE SubSeq(s, 1, (CHOOSE i \in nuls : \A j \in nuls : i <= j) - 1)

\* the message in the line s, whose newline has been removed
MessageOf(s) ==
    LET t == IF s # << >> /\ Last(s) = "cr" THEN Front(s) ELSE s
    IN LTrim(CutNul(t))

\* The program: split at newlines, drop empty messages; acc is the line
\* being collected.
RECURSIVE Split(_, _)
Split(s, acc) ==
    IF s = << >> THEN << >>
    ELSE IF Head(s) # "lf" THEN Split(Tail(s), Append(acc, Head(s)))
    ELSE LET m == MessageOf(acc)
         IN (IF m = << >> THEN << >> ELSE <<m>>) \o Split(Tail(s), << >>)

\* Both references agree: what this program finds is what Ends and Message say.
ASSUME SplitAssumption ==
    \A k \in 0 .. 4 : \A s \in [1 .. k -> Bytes] : AreMessages(Split(s, << >>), s)
=============================================================================
