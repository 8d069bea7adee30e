--------------------------- MODULE MCRegistration ---------------------------
(***************************************************************************)
(* Two capabilities, one of them sasl; two credentials, of a mechanism     *)
(* with one message and of one with three; up to three changes of the      *)
(* capabilities on the server, each of which may start a task, or one      *)
(* /sasl with at most one change beside it.                                *)
(***************************************************************************)
EXTENDS Registration

TwoCaps == {"sasl", "away-notify"}
BothMechs == {"PLAIN", "SCRAM"}
PlainThenScram == <<"PLAIN", "SCRAM">>
AllKinds == {"cap", "bare", "nocap"}
=============================================================================
