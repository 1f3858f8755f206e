--------------------------- MODULE MCHTramRounds ---------------------------
(* An instance of HTramRounds for TLC; items are interchangeable. *)
EXTENDS HTramRounds, TLC

ItemSymmetry == Permutations(Items)
MergePairs == {[k |-> 2, keep_top |-> keep] : keep \in BOOLEAN}
=============================================================================
