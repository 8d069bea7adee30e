---------------------------- MODULE MCOrderedMap ----------------------------
(***************************************************************************)
(* Three keys, two of which fold to the same; a ring of three slots that   *)
(* is written through more than twice.                                     *)
(***************************************************************************)
EXTENDS OrderedMap

CONSTANTS nil

SomeKeys == {"a", "A", "b"}
Fold == [k \in SomeKeys |-> IF k = "A" THEN "a" ELSE k]
TwoVals == {1, 2}
Ones == {1}
=============================================================================
