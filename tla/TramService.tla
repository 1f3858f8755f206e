---------------------------- MODULE TramService ----------------------------
(***************************************************************************)
(* What one PE of the aggregation library promises its client: an item it  *)
(* accepts for a destination stays pending for that destination until it   *)
(* leaves in exactly one message to it, in a batch the receiver's message  *)
(* format can hold.  When an item leaves is not promised here: see the     *)
(* liveness properties of HTramPrio.                                       *)
(***************************************************************************)
CONSTANTS Dests,      \* destinations of this PE: nodes (WPs) or PEs (WW)
          Items,      \* the items a client may send
          Batches     \* the sets of items one message can carry

VARIABLES pending,    \* pending[d]: accepted for d and not sent yet
          shipped     \* the messages sent, each with its destination

vars == <<pending, shipped>>

Accepted == (UNION {pending[d] : d \in Dests})
              \cup (UNION {m.items : m \in shipped})

Init == /\ pending = [d \in Dests |-> {}]
        /\ shipped = {}

\* The client hands over an item that is not in the library yet.
Accept(d, x) ==
  /\ x \notin Accepted
  /\ pending' = [pending EXCEPT ![d] = @ \cup {x}]
  /\ UNCHANGED shipped

\* A batch S of items pending for d leaves in one message; fresh is what the
\* client hands over in the same call, at most one item.
Ship(d, S, fresh) ==
  /\ fresh \cap Accepted = {}
  /\ S \in Batches
  /\ S \subseteq pending[d] \cup fresh
  /\ fresh \subseteq S
  /\ pending' = [pending EXCEPT ![d] = @ \ S]
  /\ shipped' = shipped \cup {[dest |-> d, items |-> S]}

Next == \E d \in Dests :
          \/ \E x \in Items : Accept(d, x)
          \/ \E S \in Batches :
               Ship(d, S, {}) \/ \E x \in Items : Ship(d, S, {x})

Spec == Init /\ [][Next]_vars
=============================================================================
