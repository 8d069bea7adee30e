------------------------------ MODULE MCClient ------------------------------
(***************************************************************************)
(* Two connections, the current one and one that was closed before, with   *)
(* the seconds of the tick scaled down: a PING after 1 (30), the end of a  *)
(* silent session after 2 (60), a new attempt after 2 (5).                 *)
(***************************************************************************)
EXTENDS Client, TLC

CONSTANTS c1, c2

MCConns == {c1, c2}
AllConfigs == {"good", "no_host", "bad_port"}
GoodConfig == {"good"}

Connections == Permutations(MCConns)
=============================================================================
