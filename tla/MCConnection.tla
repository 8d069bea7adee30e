---------------------------- MODULE MCConnection ----------------------------
(***************************************************************************)
(* Model checking of Connection: every combination of a proxy and TLS, up  *)
(* to three writes, and two messages that arrive in one read or in two.    *)
(***************************************************************************)
EXTENDS Connection

=============================================================================
