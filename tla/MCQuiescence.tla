---------------------------- MODULE MCQuiescence ----------------------------
(* Instances of Quiescence for TLC, without symmetry: they check liveness. *)
EXTENDS Quiescence
=============================================================================
