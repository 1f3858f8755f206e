---------------------------- MODULE BucketQueues ----------------------------
(***************************************************************************)
(* What the hold of a destination promises: one FIFO queue per bucket, of  *)
(* which a drain takes the front items, and a merge that puts the queue of *)
(* bucket i behind that of bucket i \div k.                                *)
(***************************************************************************)
EXTENDS Integers, Sequences

CONSTANTS Items, NumBuckets

VARIABLE queue

Buckets == 0 .. NumBuckets - 1

Init == queue = [b \in Buckets |-> <<>>]

Put(b, x) == queue' = [queue EXCEPT ![b] = Append(@, x)]
Take(b) == queue[b] # <<>> /\ queue' = [queue EXCEPT ![b] = Tail(@)]
Move(b, k) == queue' = [queue EXCEPT ![b] = <<>>, ![b \div k] = @ \o queue[b]]

Next == \E b \in Buckets : \/ \E x \in Items : Put(b, x)
                           \/ Take(b)
                           \/ \E k \in 2 .. NumBuckets : Move(b, k)

Spec == Init /\ [][Next]_queue
=============================================================================
