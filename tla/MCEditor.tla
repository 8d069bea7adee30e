------------------------------ MODULE MCEditor ------------------------------
(***************************************************************************)
(* A letter that is a hexadecimal digit, a space, and the x and ^ of       *)
(* special input; two lists of completions, of words of different lengths. *)
(***************************************************************************)
EXTENDS Editor

LetterSpaceXCaret == {65, 32, 94, 120}
Words == {<<<<65>>, <<65, 65>>>>, <<<<120, 65>>>>}
=============================================================================
