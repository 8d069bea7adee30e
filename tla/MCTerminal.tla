----------------------------- MODULE MCTerminal -----------------------------
(***************************************************************************)
(* Two executions: they overlap, one inside the other or one after the     *)
(* other, with and without the terminal.                                   *)
(***************************************************************************)
EXTENDS Terminal

CONSTANTS p1, p2

TwoProgs == {p1, p2}
=============================================================================
