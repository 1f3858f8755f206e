-------------------------- MODULE DeliveryService --------------------------
(***************************************************************************)
(* What the library promises from end to end: an item that a client        *)
(* inserts for a place (a PE, or a process as a whole) is handed to the    *)
(* client's callback at that place, once.                                  *)
(***************************************************************************)
EXTENDS Sequences

CONSTANTS Items, Places

VARIABLES inserted,    \* [item, place] pairs the client inserted
          delivered    \* delivered[x]: the places that x was handed to

vars == <<inserted, delivered>>

Init == inserted = {} /\ delivered = [x \in Items |-> <<>>]

Insert(x, at) ==
  /\ \A r \in inserted : r.item # x
  /\ inserted' = inserted \cup {[item |-> x, place |-> at]}
  /\ UNCHANGED delivered

\* One call of the callback hands over a batch.
Deliver(S, at) ==
  /\ \A x \in S : delivered[x] = <<>> /\ [item |-> x, place |-> at] \in inserted
  /\ delivered' = [x \in Items |-> IF x \in S THEN <<at>> ELSE delivered[x]]
  /\ UNCHANGED inserted

Next == \E at \in Places : \/ \E x \in Items : Insert(x, at)
                           \/ \E S \in SUBSET Items : Deliver(S, at)

Spec == Init /\ [][Next]_vars
=============================================================================
