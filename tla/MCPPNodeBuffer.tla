--------------------------- MODULE MCPPNodeBuffer ---------------------------
(* Instances of PPNodeBuffer for TLC, without symmetry: they check liveness. *)
EXTENDS PPNodeBuffer
=============================================================================
