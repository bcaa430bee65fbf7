---------------------------- MODULE MCKvEngines ----------------------------
EXTENDS KvEngines, TLC

CONSTANTS v1, v2, ka, kb, kc

TwoValues == {v1, v2}
ThreeKeys == {ka, kb, kc}

(* ka and kb share a slot; the characters of kc sum up to a negative       *)
(* number.                                                                 *)
TwoSlotsSum == ka :> 2 @@ kb :> 4 @@ kc :> -3

SixKeys == 1..6
OneValueEach == [k \in SixKeys |-> {IF k % 2 = 1 THEN v1 ELSE v2}]

=============================================================================
