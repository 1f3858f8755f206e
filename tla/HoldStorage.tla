---------------------------- MODULE HoldStorage ----------------------------
(***************************************************************************)
(* How a destination's hold is stored: a HoldQueue per bucket, a vector    *)
(* whose front is consumed by moving head_ and compacted now and then, and *)
(* one bit per bucket, in words, that says where a drain has to look.      *)
(* HTramPrio takes the hold for a set per bucket and the scan for the      *)
(* first bucket that has items; this module is why it may.                 *)
(*                                                                         *)
(* What a drain does with the items is left out, and when a drain stops is *)
(* a choice: insertBucketsByDest leaves a bucket when the count is below   *)
(* the release level, and goes on with the next one.                       *)
(***************************************************************************)
EXTENDS Integers, SequencesExt

CONSTANTS
  Items,        \* the items the client may send
  NumBuckets,   \* histo_bucket_count
  WordBits,     \* bits of a word of hold_bits (64 in the code)
  CompactAt,    \* the head_ from which a queue may be compacted (4096)
  Factors       \* the factors k the client merges buckets by

ASSUME StorageAssumption ==
  /\ NumBuckets \in Nat \ {0} /\ WordBits \in Nat \ {0}
  /\ CompactAt \in Nat \ {0}
  /\ Factors \subseteq Nat \ {0, 1}

VARIABLES
  tram_hold,    \* tram_hold[b]: a HoldQueue
  hold_bits,    \* hold_bits[w]: the bits set in word w
  sent,         \* the items a drain has taken out
  ctl           \* the loop that is running, and its bucket

vars == <<tram_hold, hold_bits, sent, ctl>>

Buckets == 0 .. NumBuckets - 1
hold_words == (NumBuckets + WordBits - 1) \div WordBits
Words == 0 .. hold_words - 1
None == -1                                  \* INT_MAX
Idle == [at |-> "idle"]

Init ==
  /\ tram_hold = [b \in Buckets |-> [items |-> <<>>, head |-> 0]]
  /\ hold_bits = [w \in Words |-> {}]
  /\ sent = {}
  /\ ctl = Idle

(***************************************************************************)
(* HoldQueue                                                               *)
(***************************************************************************)
Push(q, x) == [q EXCEPT !.items = Append(@, x)]
First(q) == q.items[q.head + 1]
Empty(q) == q.head = Len(q.items)
Live(q) == SubSeq(q.items, q.head + 1, Len(q.items))

PopKeepsHead(q) ==
  LET h == q.head + 1
  IN  IF h = Len(q.items) THEN [items |-> <<>>, head |-> 0]
      ELSE IF h >= CompactAt /\ 2 * h >= Len(q.items)
             THEN [items |-> SubSeq(q.items, h + 1, Len(q.items)), head |-> h]
      ELSE [q EXCEPT !.head = h]
Pop(q) ==
  LET h == q.head + 1
  IN  IF h = Len(q.items) THEN [items |-> <<>>, head |-> 0]
      ELSE IF h >= CompactAt /\ 2 * h >= Len(q.items)
             THEN [items |-> SubSeq(q.items, h + 1, Len(q.items)), head |-> 0]
      ELSE [q EXCEPT !.head = h]

(***************************************************************************)
(* The bits: holdPush, holdEmptied and holdNext                            *)
(***************************************************************************)
Set(bits, b) == [bits EXCEPT ![b \div WordBits] = @ \cup {b % WordBits}]
Emptied(bits, b) == [bits EXCEPT ![b \div WordBits] = @ \ {b % WordBits}]

\* The first word is masked below `from`, the others are whole.
MaskedAll(from, w) == {k \in hold_bits[w] : k >= from % WordBits}
MaskedFrom(from, w) ==
  {k \in hold_bits[w] : w = from \div WordBits => k >= from % WordBits}

HoldNext(from) ==
  LET words == {w \in Words : w >= from \div WordBits /\ MaskedFrom(from, w) # {}}
  IN  IF from >= NumBuckets \/ words = {} THEN None
      ELSE LET w == Min(words) IN w * WordBits + Min(MaskedFrom(from, w))

\* A loop over the buckets up to `high` (with the factor k, for a merge) goes
\* on with the next one that has items, or is over.
Loop(at, b, high, k) == [at |-> at, b |-> b, high |-> high, k |-> k]
Goto(at, from, high, k) ==
  LET i == HoldNext(from)
  IN  IF i = None \/ i > high THEN Idle ELSE Loop(at, i, high, k)

(***************************************************************************)
(* holdPush                                                                *)
(***************************************************************************)
Fresh(x) == x \notin sent /\ \A b \in Buckets : x \notin ToSet(Live(tram_hold[b]))

HoldPush(b, x) ==
  /\ ctl = Idle /\ Fresh(x)
  /\ tram_hold' = [tram_hold EXCEPT ![b] = Push(@, x)]
  /\ hold_bits' = Set(hold_bits, b)
  /\ UNCHANGED <<sent, ctl>>

(***************************************************************************)
(* The drains: insertBucketsByDest clears the bit of a bucket when it has  *)
(* taken its last item, tflush and flushDest before they take the first.   *)
(* The padding of a flush takes from one bucket up, like insertBuckets.    *)
(***************************************************************************)
Enter(at, from, high, k) ==
  /\ ctl = Idle
  /\ ctl' = Goto(at, from, high, k)
  /\ ctl' # Idle
  /\ UNCHANGED <<tram_hold, hold_bits, sent>>

Taken(b) ==
  /\ tram_hold' = [tram_hold EXCEPT ![b] = Pop(@)]
  /\ sent' = sent \cup {First(tram_hold[b])}

ClearedWhenEmpty(b) == IF Empty(tram_hold'[b]) THEN Emptied(hold_bits, b) ELSE hold_bits

InsertBuckets ==
  /\ ctl.at = "insertBuckets"
  /\ ~Empty(tram_hold[ctl.b])
  /\ Taken(ctl.b)
  /\ hold_bits' = ClearedWhenEmpty(ctl.b)
  /\ UNCHANGED ctl

\* The bucket is empty, or the count is below the release level.
InsertBucketsNext ==
  /\ ctl.at = "insertBuckets"
  /\ ctl' = Goto("insertBuckets", ctl.b + 1, ctl.high, ctl.k)
  /\ UNCHANGED <<tram_hold, hold_bits, sent>>

FlushBucket ==
  /\ ctl.at = "flush"
  /\ hold_bits' = Emptied(hold_bits, ctl.b)
  /\ ctl' = [ctl EXCEPT !.at = "flushing"]
  /\ UNCHANGED <<tram_hold, sent>>

FlushItem ==
  /\ ctl.at = "flushing"
  /\ \/ /\ ~Empty(tram_hold[ctl.b])
        /\ Taken(ctl.b)
        /\ UNCHANGED ctl
     \/ /\ Empty(tram_hold[ctl.b])
        /\ ctl' = Goto("flush", ctl.b + 1, ctl.high, ctl.k)
        /\ UNCHANGED <<tram_hold, sent>>
  /\ UNCHANGED hold_bits

(***************************************************************************)
(* coarsenBuckets: the queues from bucket 1 up move into bucket i \div k,  *)
(* in one ascending pass.                                                  *)
(***************************************************************************)
Moved(b, k) ==
  [tram_hold EXCEPT ![b] = [items |-> <<>>, head |-> 0],
                    ![b \div k].items = @ \o Live(tram_hold[b])]

BitsMoved(b, k) == Emptied(Set(hold_bits, b \div k), b)

Coarsen ==
  /\ ctl.at = "coarsen"
  /\ tram_hold' = Moved(ctl.b, ctl.k)
  /\ hold_bits' = BitsMoved(ctl.b, ctl.k)
  /\ ctl' = [ctl EXCEPT !.at = "coarsened"]
  /\ UNCHANGED sent

CoarsenNext ==
  /\ ctl.at = "coarsened"
  /\ ctl' = Goto("coarsen", ctl.b + 1, ctl.high, ctl.k)
  /\ UNCHANGED <<tram_hold, hold_bits, sent>>

-----------------------------------------------------------------------------
Next ==
  \/ \E b \in Buckets, x \in Items : HoldPush(b, x)
  \/ \E from, high \in Buckets : Enter("insertBuckets", from, high, 1)
  \/ \E high \in Buckets : Enter("flush", 0, high, 1)
  \/ \E keep_top \in {0, 1}, k \in Factors :
       Enter("coarsen", 1, NumBuckets - 1 - keep_top, k)
  \/ InsertBuckets \/ InsertBucketsNext
  \/ FlushBucket \/ FlushItem
  \/ Coarsen \/ CoarsenNext

Spec == Init /\ [][Next]_vars

-----------------------------------------------------------------------------
\* The types; a bit beyond the last bucket is never set.
TypeOK ==
  /\ \A b \in Buckets : /\ tram_hold[b].items \in Seq(Items)
                        /\ tram_hold[b].head \in 0 .. Len(tram_hold[b].items)
  /\ \A w \in Words : \A k \in hold_bits[w] : k < WordBits /\ w * WordBits + k < NumBuckets
  /\ sent \subseteq Items

(***************************************************************************)
(* holdNext finds the first bucket that has items, from wherever a loop    *)
(* asks it: a set bit of an empty bucket costs a look, but a clear bit of  *)
(* one with items loses them (htram_group.h:369-381).                      *)
(***************************************************************************)
BeingFlushed(b) == ctl.at = "flushing" /\ b = ctl.b

ScanFindsFirst ==
  \A from \in Buckets :
    LET found == {b \in from .. NumBuckets - 1 :
                    ~Empty(tram_hold[b]) /\ ~BeingFlushed(b)}
    IN  HoldNext(from) = IF found = {} THEN None ELSE Min(found)

\* Vector, head and bits implement a FIFO queue per bucket.
Queues == INSTANCE BucketQueues
            WITH queue <- [b \in Buckets |-> Live(tram_hold[b])]
ImplementsBucketQueues == Queues!Spec
=============================================================================
