------------------------------ MODULE Session ------------------------------
(***************************************************************************)
(* What snowcone.connect promises its caller: the events of one IRC        *)
(* session reach the Lua callback in the order                             *)
(*                                                                         *)
(*        (CON MSG* )? END                                                 *)
(*                                                                         *)
(* (comment of l_start_irc, src/client/irc/lua.cpp).  This is the abstract *)
(* specification; Connection is shown to implement it.                    *)
(***************************************************************************)
EXTENDS Sequences

VARIABLE calls        \* the events passed to the callback so far

Last(s) == s[Len(s)]

Init == calls = << >>

CON == /\ calls = << >>
       /\ calls' = Append(calls, "CON")

MSG == /\ calls # << >>
       /\ Last(calls) # "END"
       /\ calls' = Append(calls, "MSG")

END == /\ calls # << >> => Last(calls) # "END"
       /\ calls' = Append(calls, "END")

Next == CON \/ MSG \/ END

Spec == Init /\ [][Next]_calls
============================================================================
