---------------------------- MODULE HoldService ----------------------------
(***************************************************************************)
(* What a combining hold promises: it holds at most one item per key, a    *)
(* second item for a key folds into the first and exactly one of the two   *)
(* is absorbed, and the items leave lowest bucket first.                   *)
(***************************************************************************)
EXTENDS Integers

CONSTANTS Items, Key, Buckets

VARIABLES held,      \* what is held: [item, bucket] records
          absorbed,  \* the items on_absorb was called for
          emitted    \* the items that left

vars == <<held, absorbed, emitted>>

Seen == {r.item : r \in held} \cup absorbed \cup emitted

Init == held = {} /\ absorbed = {} /\ emitted = {}

Insert(x, b) ==
  /\ \A r \in held : Key[r.item] # Key[x]
  /\ held' = held \cup {[item |-> x, bucket |-> b]}
  /\ UNCHANGED <<absorbed, emitted>>

\* The client's combine keeps the held item, or takes x and its bucket.
Fold(x, b) ==
  \E r \in held :
    /\ Key[r.item] = Key[x]
    /\ \/ /\ absorbed' = absorbed \cup {x}
          /\ UNCHANGED held
       \/ /\ absorbed' = absorbed \cup {r.item}
          /\ held' = (held \ {r}) \cup {[item |-> x, bucket |-> b]}
    /\ UNCHANGED emitted

Emit(r) ==
  /\ \A q \in held : r.bucket <= q.bucket
  /\ held' = held \ {r}
  /\ emitted' = emitted \cup {r.item}
  /\ UNCHANGED absorbed

Next == \/ \E x \in Items \ Seen, b \in Buckets : Insert(x, b) \/ Fold(x, b)
        \/ \E r \in held : Emit(r)

Spec == Init /\ [][Next]_vars
=============================================================================
