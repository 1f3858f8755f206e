---------------------------- MODULE MCHTramPrio ----------------------------
(***************************************************************************)
(* Instances of HTramPrio for TLC.  Items are interchangeable: no operator *)
(* of HTramPrio or TramService tells two of them apart, so the safety runs *)
(* use them as a symmetry set.                                             *)
(***************************************************************************)
EXTENDS HTramPrioClaims, TLC

ItemSymmetry == Permutations(Items)

\* Nothing goes direct, or the lowest bucket does.
DirectNoneOrLowest == {-1, 0}

MergePairs == {[k |-> 2, keep_top |-> keep] : keep \in BOOLEAN}
=============================================================================
