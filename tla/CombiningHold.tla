--------------------------- MODULE CombiningHold ---------------------------
(***************************************************************************)
(* The data structure that holds one destination's items when combining is *)
(* on: a pool of entries, an open-addressed table from keys to entries,    *)
(* and per bucket a list of references to entries.  A fold that moves an   *)
(* entry to another bucket leaves its old reference behind; a reference    *)
(* counts only while its stamp is the entry's.                             *)
(*                                                                         *)
(* release() is a first action and steps: each of them takes one reference *)
(* from a list.  The code drops the references it has read when it leaves  *)
(* the bucket, which nothing can observe.                                  *)
(*                                                                         *)
(* As in HTramPrio, a wrong version of an operator may stand before it: a  *)
(* bug the code might have had, used nowhere.                              *)
(***************************************************************************)
EXTENDS Integers, FiniteSets, SequencesExt

CONSTANTS
  Items,       \* the items the client may insert, each of them once
  Keys,
  Key,         \* HoldOps::key
  Hash,        \* the low bits of mix(key): where its probe sequence starts
  Tag,         \* the high bits of mix(key)
  NumBuckets,
  FirstSize,   \* the table's first capacity: 64 in the code
  Highs,       \* the thresholds and
  Limits       \* . the limits the client passes to release()

Buckets == 0 .. NumBuckets - 1

ASSUME HoldAssumption ==
  /\ Key \in [Items -> Keys]
  /\ Hash \in [Keys -> Nat]
  /\ Tag \in [Keys -> Nat]
  /\ NumBuckets \in Nat \ {0}
  /\ FirstSize \in Nat \ {0, 1}
  /\ Highs \subseteq Nat
  /\ Limits \subseteq Nat

VARIABLES
  entries,    \* the pool: keys_, buckets_, stamps_ and payloads_ of an entry
  free,       \* the entries that may be used again, the last one first
  table,      \* slots_ and tags_
  lists,      \* lists[b]: the references of bucket b
  live,       \* live[b]: how many entries are in bucket b
  lowest,     \* no live entry is below this bucket
  count,
  releasing,  \* where a running release() is
  absorbed,   \* the items on_absorb was called for
  emitted     \* the items that left

client == <<absorbed, emitted>>
vars == <<entries, free, table, lists, live, lowest, count, releasing, client>>

NoRelease == [at |-> "none", bucket |-> 0, high |-> 0, limit |-> 0]

(***************************************************************************)
(* The table.                                                              *)
(***************************************************************************)
Empty == [entry |-> 0, tag |-> 0]
NewTable(cap) == [s \in 0 .. cap - 1 |-> Empty]
Cap(t) == Cardinality(DOMAIN t)

\* The slots of t from home on, once round.
ProbeSeq(t, home) == [i \in 1 .. Cap(t) |-> (home + i - 1) % Cap(t)]

\* The first of them for which Ok holds.
Probe(t, home, Ok(_)) ==
  LET seq == ProbeSeq(t, home) IN seq[SelectInSeq(seq, Ok)]

IsEmpty(t, s) == t[s].entry = 0
Holds(t, s, k) == t[s].tag = Tag[k] /\ entries[t[s].entry].key = k

\* Where insert's probe for k ends: at k's entry or at an empty slot.
Found(t, k) ==
  Probe(t, Hash[k], LAMBDA s : IsEmpty(t, s) \/ Holds(t, s, k))

\* Backward-shift deletion.  An entry after the hole moves into it unless its
\* home lies cyclically after the hole.
MovableNoWrap(hole, next, home) == home <= hole \/ home > next
Movable(hole, next, home) ==
  IF next > hole THEN home <= hole \/ home > next
                 ELSE home <= hole /\ home > next

\* One turn of the loop: next is empty, moves into the hole, or stays.
Shift(acc, next) ==
  IF acc.done \/ IsEmpty(acc.t, next) THEN [acc EXCEPT !.done = TRUE]
  ELSE IF Movable(acc.hole, next,
                  Hash[entries[acc.t[next].entry].key] % Cap(acc.t))
    THEN [acc EXCEPT !.t[acc.hole] = acc.t[next], !.hole = next]
    ELSE acc

Erased(t, e) ==
  LET slot == Probe(t, Hash[entries[e].key], LAMBDA s : t[s].entry = e)
      after[i \in 0 .. Cap(t) - 1] ==
        IF i = 0 THEN [t |-> t, hole |-> slot, done |-> FALSE]
                 ELSE Shift(after[i - 1], (slot + i) % Cap(t))
      end == after[Cap(t) - 1]
  IN  [end.t EXCEPT ![end.hole] = Empty]

\* rebuild: every slot in use is put where its probe of the new table ends.
Placed(new, slot) ==
  LET home == Hash[entries'[slot.entry].key]
  IN  [new EXCEPT ![Probe(new, home, LAMBDA n : IsEmpty(new, n))] = slot]

Rebuilt(t, cap) ==
  LET after[i \in 0 .. Cap(t)] ==
        IF i = 0 THEN NewTable(cap)
        ELSE IF IsEmpty(t, i - 1) THEN after[i - 1]
        ELSE Placed(after[i - 1], t[i - 1])
  IN  after[Cap(t)]

TooFull(n, cap) == 2 * n > cap

(***************************************************************************)
(* The pool and the lists.                                                 *)
(***************************************************************************)
NewEntry == IF free = <<>> THEN Len(entries) + 1 ELSE Last(free)

InUse(ref) == ref.entry \notin ToSet(free)
Valid(ref) == entries[ref.entry].stamp = ref.stamp

Refer(b, e) ==
  lists' = [lists EXCEPT ![b] =
              Append(@, [entry |-> e, stamp |-> entries'[e].stamp])]
LowerNever(b) == UNCHANGED lowest
LowerIf(b) == lowest' = IF b < lowest THEN b ELSE lowest

(***************************************************************************)
(* insert                                                                  *)
(***************************************************************************)
Entries == DOMAIN entries \ ToSet(free)
Known == absorbed \cup emitted \cup {entries[e].item : e \in Entries}

InsertNew(x, b, slot) ==
  LET e == NewEntry
      stamp == (IF e \in DOMAIN entries THEN entries[e].stamp ELSE 0) + 1
      entry == [key |-> Key[x], bucket |-> b, stamp |-> stamp, item |-> x]
      put == [table EXCEPT ![slot] = [entry |-> e, tag |-> Tag[Key[x]]]]
  IN  /\ entries' = IF e \in DOMAIN entries
                      THEN [entries EXCEPT ![e] = entry]
                      ELSE Append(entries, entry)
      /\ free' = IF free = <<>> THEN free ELSE Front(free)
      /\ count' = count + 1
      /\ live' = [live EXCEPT ![b] = @ + 1]
      /\ Refer(b, e)
      /\ LowerIf(b)
      /\ table' = IF TooFull(count', Cap(put)) THEN Rebuilt(put, 2 * Cap(put))
                                               ELSE put
      /\ UNCHANGED client

\* The survivor of the fold: the held item, or x with its bucket.
FoldKeep(x, e) ==
  /\ absorbed' = absorbed \cup {x}
  /\ UNCHANGED <<entries, lists, live, lowest>>

KeepStamp(e) == entries[e].stamp
Restamp(e) == entries[e].stamp + 1

FoldTake(x, b, e) ==
  /\ absorbed' = absorbed \cup {entries[e].item}
  /\ \/ /\ b = entries[e].bucket
        /\ entries' = [entries EXCEPT ![e].item = x]
        /\ UNCHANGED <<lists, live, lowest>>
     \/ /\ b # entries[e].bucket
        /\ entries' = [entries EXCEPT ![e].item = x, ![e].bucket = b,
                                      ![e].stamp = Restamp(e)]
        /\ live' = [live EXCEPT ![entries[e].bucket] = @ - 1, ![b] = @ + 1]
        /\ Refer(b, e)
        /\ LowerIf(b)

Insert(x, b) ==
  /\ releasing = NoRelease
  /\ x \notin Known
  /\ LET slot == Found(table, Key[x])
     IN  \/ IsEmpty(table, slot) /\ InsertNew(x, b, slot)
         \/ /\ ~IsEmpty(table, slot)
            /\ \/ FoldKeep(x, table[slot].entry)
               \/ FoldTake(x, b, table[slot].entry)
            /\ UNCHANGED <<free, table, count, emitted>>
  /\ UNCHANGED releasing

(***************************************************************************)
(* release                                                                 *)
(***************************************************************************)
Release(high, limit) ==
  /\ releasing = NoRelease
  /\ releasing' = [at |-> "bucket", bucket |-> lowest, limit |-> limit,
                   high |-> IF high < NumBuckets THEN high
                                                 ELSE NumBuckets - 1]
  /\ UNCHANGED <<entries, free, table, lists, live, lowest, count, client>>

MoreBelow == releasing.bucket < releasing.high /\ releasing.limit > 0
MoreToTake == releasing.bucket <= releasing.high /\ releasing.limit > 0

\* The next reference of the bucket: stale, or its entry leaves the hold.
ReleaseRef ==
  /\ releasing.at = "bucket" /\ MoreToTake
  /\ LET b == releasing.bucket
         ref == Head(lists[b])
         e == ref.entry
     IN  /\ lists[b] # <<>>
         /\ lists' = [lists EXCEPT ![b] = Tail(@)]
         /\ \/ /\ ~Valid(ref)
               /\ UNCHANGED <<entries, free, table, live, count, releasing,
                              client>>
            \/ /\ Valid(ref)
               /\ emitted' = emitted \cup {entries[e].item}
               /\ table' = Erased(table, e)
               /\ entries' = [entries EXCEPT ![e].stamp = Restamp(e)]
               /\ free' = Append(free, e)
               /\ count' = count - 1
               /\ live' = [live EXCEPT ![b] = @ - 1]
               /\ releasing' = [releasing EXCEPT !.limit = @ - 1]
               /\ UNCHANGED absorbed
  /\ UNCHANGED lowest

ReleaseBucketDone ==
  /\ releasing.at = "bucket" /\ MoreToTake
  /\ lists[releasing.bucket] = <<>>
  /\ releasing' = [releasing EXCEPT !.bucket = @ + 1]
  /\ UNCHANGED <<entries, free, table, lists, live, lowest, count, client>>

\* The buckets below the first that still has a live entry are cleared.
Skipped == {b \in Buckets : lowest <= b /\ \A c \in lowest .. b : live[c] = 0}

ReleaseDone ==
  /\ releasing.at = "bucket" /\ ~MoreToTake
  /\ lists' = [b \in Buckets |-> IF b \in Skipped THEN <<>> ELSE lists[b]]
  /\ lowest' = lowest + Cardinality(Skipped)
  /\ releasing' = NoRelease
  /\ UNCHANGED <<entries, free, table, live, count, client>>

(***************************************************************************)
(* The specification.                                                      *)
(***************************************************************************)
Init ==
  /\ entries = <<>> /\ free = <<>>
  /\ table = NewTable(FirstSize)
  /\ lists = [b \in Buckets |-> <<>>]
  /\ live = [b \in Buckets |-> 0]
  /\ lowest = NumBuckets
  /\ count = 0
  /\ releasing = NoRelease
  /\ absorbed = {} /\ emitted = {}

Next == \/ \E x \in Items, b \in Buckets : Insert(x, b)
        \/ \E high \in Highs, limit \in Limits : Release(high, limit)
        \/ ReleaseRef \/ ReleaseBucketDone \/ ReleaseDone

Spec == Init /\ [][Next]_vars
-----------------------------------------------------------------------------
(***************************************************************************)
(* Properties.                                                             *)
(***************************************************************************)
TypeOK ==
  /\ entries \in Seq([key : Keys, bucket : Buckets, stamp : Nat, item : Items])
  /\ ToSet(free) \subseteq DOMAIN entries
  /\ DOMAIN table = 0 .. Cap(table) - 1
  /\ lists \in [Buckets -> Seq([entry : DOMAIN entries, stamp : Nat])]
  /\ live \in [Buckets -> Nat]
  /\ lowest \in 0 .. NumBuckets
  /\ count \in Nat
  /\ absorbed \subseteq Items /\ emitted \subseteq Items

\* Every probe sequence stays unbroken through backward shifts, rebuilds and
\* recycled entries: a lookup of a held key ends at its entry, the table holds
\* nothing else, and it never fills up, so that every probe ends.
TableFindsEveryKey ==
  /\ \A e \in Entries :
       LET s == Found(table, entries[e].key)
       IN  table[s] = [entry |-> e, tag |-> Tag[entries[e].key]]
  /\ Cardinality({s \in DOMAIN table : ~IsEmpty(table, s)}) = count
  /\ count = Cardinality(Entries)
  /\ ~TooFull(count, Cap(table))

\* The references that count name the held entries, each of them once and in
\* the list of its own bucket: an entry that was released, folded into
\* another bucket or used again is named by no old reference.
ValidRefs(b) == {i \in DOMAIN lists[b] : Valid(lists[b][i])}
RefsAreExact ==
  \A b \in Buckets :
    /\ {lists[b][i].entry : i \in ValidRefs(b)}
         = {e \in Entries : entries[e].bucket = b}
    /\ live[b] = Cardinality(ValidRefs(b))

\* No held entry is below lowest (htram_combine.h:249), where no release
\* would look for it.
LowestIsSound == \A e \in Entries : lowest <= entries[e].bucket

\* A release that comes back with less than its limit has left nothing at or
\* below its threshold.
ReleaseComplete ==
  [][releasing # NoRelease /\ releasing' = NoRelease =>
       \/ releasing.limit = 0
       \/ \A e \in Entries : entries[e].bucket > releasing.high]_vars

\* What the entries hold is a map from keys to items that folds and releases
\* the way HoldService does: nothing is lost or absorbed twice, and releases
\* are in bucket order.
Service == INSTANCE HoldService WITH
             held <- {[item |-> entries[e].item, bucket |-> entries[e].bucket] :
                        e \in Entries}
ImplementsHoldService == Service!Spec
=============================================================================
