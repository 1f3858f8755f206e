-------------------------- MODULE CombiningService --------------------------
(***************************************************************************)
(* What the library promises with combining on: as TramService, but a new  *)
(* item may meet a pending one with its key, and then exactly one of the   *)
(* two is absorbed, for which the client gets its on_absorb call, and the  *)
(* other stays pending.                                                    *)
(***************************************************************************)
EXTENDS TramService

CONSTANT Key

VARIABLE absorbed   \* the items on_absorb was called for

combinedVars == <<vars, absorbed>>

CombinedInit == Init /\ absorbed = {}

\* x and a pending item of its key fold into one of them.
Fold(d, x) ==
  /\ x \notin Accepted
  /\ \E y \in pending[d] :
       /\ Key[y] = Key[x]
       /\ \/ /\ absorbed' = absorbed \cup {x}
             /\ UNCHANGED pending
          \/ /\ absorbed' = absorbed \cup {y}
             /\ pending' = [pending EXCEPT ![d] = (@ \ {y}) \cup {x}]
  /\ UNCHANGED shipped

\* An absorbed item is gone: it is not accepted, sent or absorbed again.
CombinedNext ==
  /\ \/ Next /\ UNCHANGED absorbed
     \/ \E d \in Dests : \E x \in Items \ absorbed : Fold(d, x)
  /\ Accepted' \cap absorbed' = {}

CombinedSpec == CombinedInit /\ [][CombinedNext]_combinedVars
=============================================================================
