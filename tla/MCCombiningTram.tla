--------------------------- MODULE MCCombiningTram ---------------------------
(***************************************************************************)
(* Instances of CombiningTram for TLC: two items of one key and one of     *)
(* another.                                                                *)
(***************************************************************************)
EXTENDS CombiningTram

CONSTANTS a1, a2, b1, k1, k2

MCItems == {a1, a2, b1}
MCKeys == {k1, k2}
MCKey == [x \in MCItems |-> IF x = b1 THEN k2 ELSE k1]
MergePairs == {[k |-> 2, keep_top |-> keep] : keep \in BOOLEAN}
=============================================================================
