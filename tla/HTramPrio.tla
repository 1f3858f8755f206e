----------------------------- MODULE HTramPrio -----------------------------
(***************************************************************************)
(* One PE's HTram object in the prioritised build (BUCKETS_BY_DEST) with   *)
(* per-destination buffers (agg = WPs or WW) and combining off: the        *)
(* per-destination holds of deferred items, the message buffers, the       *)
(* admitted counters, and every operation that moves an item or a counter. *)
(*                                                                         *)
(* Within a bucket the order of the hold's queue is abstracted to a set.   *)
(*                                                                         *)
(* A PE runs one handler at a time, so a client call is only taken when    *)
(* ctl is Idle.  A handler that loops over destinations and items is a     *)
(* first action, which enters the loop, and step actions that run until    *)
(* ctl is Idle again: ctl is the handler's program counter.                *)
(*                                                                         *)
(* Some operators have a wrong version beside them, defined first and used *)
(* nowhere: a bug the code might have had, which a property must notice    *)
(* when it takes the operator's place.                                     *)
(***************************************************************************)
EXTENDS Integers, FiniteSets

CONSTANTS
  NumDest,          \* destCount()
  NumBuckets,       \* histo_bucket_count
  Items,            \* the items the client may send, each of them once
  BUFSIZE,          \* the largest buffer a run may ask for
  BufSizes,         \* the sizes the client passes to setBufferSize
  Thresholds,       \* the values the client passes to changeThreshold:
  DirectThresholds, \* . tram, direct,
  Selectivities,    \* . and selectivity, in units of 1 / SelUnit
  SelUnit,
  Merges,           \* [k, keep_top] arguments the client gives coarsenBuckets
  AddFillers        \* the ADD_FILLERS build option

Dests == 0 .. NumDest - 1
Buckets == 0 .. NumBuckets - 1

ASSUME ConstantsAssumption ==
  /\ NumDest \in Nat \ {0}
  /\ NumBuckets \in Nat \ {0}
  /\ IsFiniteSet(Items)
  /\ BUFSIZE \in Nat \ {0}
  /\ BufSizes \subseteq 1 .. BUFSIZE /\ BufSizes # {}
  /\ Thresholds \subseteq Nat
  /\ DirectThresholds \subseteq Int
  /\ Selectivities \subseteq Nat
  /\ SelUnit \in Nat \ {0}
  /\ Merges \subseteq [k : Nat \ {0, 1}, keep_top : BOOLEAN]
  /\ AddFillers \in BOOLEAN

VARIABLES
  tram_hold,        \* tram_hold[d][b]: the deferred items of bucket b
  msgBuffers,       \* msgBuffers[d]: the message being filled for d
  updates_in_tram,  \* updates_in_tram[d]: the admitted count
  full_sends,       \* full_sends[d]: did a buffer to d fill since flushStale
  bufSize,
  tram_threshold,
  direct_threshold,
  selectivity,
  release_level,    \* selectivity * bufSize, cached
  tot_send_count,
  sent,             \* the messages handed to the runtime
  ctl               \* where the running handler is

knobs == <<tram_threshold, direct_threshold, selectivity>>
traffic == <<tram_hold, msgBuffers, updates_in_tram, full_sends,
             tot_send_count, sent>>
vars == <<traffic, bufSize, knobs, release_level, ctl>>

(***************************************************************************)
(* The handler's program counter: the loop it is in, the destination that  *)
(* loop is at, the next bucket of insertBucketsByDest, and the loop to go  *)
(* back to when the inner one is done.                                     *)
(***************************************************************************)
Loops == {"idle", "insertBuckets", "release", "resize", "partial", "empty",
          "pad", "tflush", "stale", "flushIdle"}

At(loop, d, back) == [at |-> loop, dest |-> d, from |-> 0, back |-> back]
Idle == At("idle", 0, "idle")

\* The loop over destinations reaches d, or is over.
LoopPastEnd(loop, d) == IF d <= NumDest THEN At(loop, d, "idle") ELSE Idle
Loop(loop, d) == IF d < NumDest THEN At(loop, d, "idle") ELSE Idle

\* The call made for destination d returns to the loop it came from.
ReturnEarly(d, back) == Idle
ReturnAgain(d, back) == IF back = "idle" THEN Idle ELSE Loop(back, d)
Return(d, back) == IF back = "idle" THEN Idle ELSE Loop(back, d + 1)

(***************************************************************************)
(* The hold.                                                               *)
(***************************************************************************)
\* The items in the buckets above lo, up to hi.
HeldIn(d, lo, hi) ==
  UNION {tram_hold[d][b] : b \in {c \in Buckets : lo < c /\ c <= hi}}

AdmittedHeld(d) == HeldIn(d, -1, tram_threshold)
Held(d) == HeldIn(d, -1, NumBuckets - 1)
SentItems == UNION {m.items : m \in sent}
Pending(d) == Held(d) \cup msgBuffers[d].items
Known == SentItems \cup UNION {Pending(d) : d \in Dests}

\* holdNext: i is the first bucket at or after from that holds an item.
IsNext(d, from, i) ==
  /\ from <= i
  /\ tram_hold[d][i] # {}
  /\ \A j \in Buckets : from <= j /\ j < i => tram_hold[d][j] = {}

HoldPush(d, b, x) == tram_hold' = [tram_hold EXCEPT ![d][b] = @ \cup {x}]
HoldKeep(d, b, x) == UNCHANGED tram_hold
HoldPop(d, b, x) == tram_hold' = [tram_hold EXCEPT ![d][b] = @ \ {x}]

(***************************************************************************)
(* Messages.                                                               *)
(***************************************************************************)
NewMessage(cap) == [items |-> {}, cap |-> cap]
Filled(d) == Cardinality(msgBuffers[d].items)   \* msgBuffers[d]->next

\* The buffer to d, with extra appended, is sent and replaced.
SendBuffer(d, extra) ==
  /\ sent' = sent \cup {[dest |-> d, items |-> msgBuffers[d].items \cup extra]}
  /\ msgBuffers' = [msgBuffers EXCEPT ![d] = NewMessage(bufSize)]

NoteForAll(d, full) ==
  full_sends' = [e \in Dests |-> full_sends[e] \/ full]
NoteFullSend(d, full) == full_sends' = [full_sends EXCEPT ![d] = @ \/ full]

\* Every fill site: x is appended to the buffer to d, which is sent when that
\* makes it bufSize items.  The admitted count gains added (x is admitted by
\* the same call) and loses what is sent; note is whether the site records a
\* full send.
Fill(d, x, added, note) ==
  \/ /\ Filled(d) + 1 # bufSize
     /\ msgBuffers' = [msgBuffers EXCEPT ![d].items = @ \cup {x}]
     /\ updates_in_tram' = [updates_in_tram EXCEPT ![d] = @ + added]
     /\ UNCHANGED <<sent, tot_send_count, full_sends>>
  \/ /\ Filled(d) + 1 = bufSize
     /\ SendBuffer(d, {x})
     /\ tot_send_count' = tot_send_count + bufSize
     /\ updates_in_tram' = [updates_in_tram EXCEPT ![d] = @ + added - bufSize]
     /\ NoteFullSend(d, note)

(***************************************************************************)
(* insertBucketsByDest: move admitted items into the buffer, lowest bucket *)
(* first, until the admitted count is below the release level.  That test  *)
(* only leaves the inner loop, over one bucket's items: each later bucket  *)
(* still gives up one item.                                                *)
(***************************************************************************)
InsertBucketsByDest(d, back) == At("insertBuckets", d, back)

\* The buckets a drain takes from.
AdmitsBelow(i) == i < tram_threshold
Admitted(i) == i <= tram_threshold

\* The count asks for a release when it is above the release level.
Over(count, level) == SelUnit * count > level
NextFrom(i, count) == IF SelUnit * count < release_level THEN i + 1 ELSE i

InsertBucketsTake ==
  /\ ctl.at = "insertBuckets"
  /\ \E i \in Buckets : \E x \in tram_hold[ctl.dest][i] :
       /\ Admitted(i)
       /\ IsNext(ctl.dest, ctl.from, i)
       /\ HoldPop(ctl.dest, i, x)
       /\ Fill(ctl.dest, x, 0, TRUE)
       /\ ctl' = [ctl EXCEPT !.from = NextFrom(i, updates_in_tram'[ctl.dest])]
  /\ UNCHANGED <<bufSize, knobs, release_level>>

InsertBucketsDone ==
  /\ ctl.at = "insertBuckets"
  /\ \A i \in Buckets :
       ctl.from <= i /\ Admitted(i) => tram_hold[ctl.dest][i] = {}
  /\ ctl' = Return(ctl.dest, ctl.back)
  /\ UNCHANGED <<traffic, bufSize, knobs, release_level>>

(***************************************************************************)
(* sendItemPrioDeferredDest: an item whose bucket is above either          *)
(* threshold waits in the hold, any other goes to the buffer at once; it   *)
(* is admitted when its bucket is not above the tram threshold.            *)
(***************************************************************************)
Deferred(b) == b > tram_threshold \/ b > direct_threshold
Admits(b) == IF b > tram_threshold THEN 0 ELSE 1

SendItem(d, b, x) ==
  /\ ctl = Idle
  /\ x \notin Known
  /\ \/ /\ Deferred(b)
        /\ HoldPush(d, b, x)
        /\ updates_in_tram' = [updates_in_tram EXCEPT ![d] = @ + Admits(b)]
        /\ UNCHANGED <<msgBuffers, full_sends, tot_send_count, sent>>
     \/ /\ ~Deferred(b)
        /\ Fill(d, x, 1, TRUE)
        /\ UNCHANGED tram_hold
  /\ ctl' = IF Over(updates_in_tram'[d], release_level)
              THEN InsertBucketsByDest(d, "idle") ELSE Idle
  /\ UNCHANGED <<bufSize, knobs, release_level>>

(***************************************************************************)
(* The client's knobs.  Each of them ends in a loop that releases the      *)
(* destinations whose admitted count is now above the release level.       *)
(***************************************************************************)
\* What moving the threshold to t adds to the admitted count of d.
Recount(d, t) == IF t > tram_threshold
                   THEN Cardinality(HeldIn(d, tram_threshold, t))
                   ELSE -Cardinality(HeldIn(d, t, tram_threshold))

ChangeThreshold(direct, tram, sel) ==
  /\ ctl = Idle
  /\ <<tram, direct, sel>> # knobs
  /\ updates_in_tram' = [d \in Dests |-> updates_in_tram[d] + Recount(d, tram)]
  /\ tram_threshold' = tram
  /\ direct_threshold' = direct
  /\ selectivity' = sel
  /\ release_level' = sel * bufSize
  /\ ctl' = Loop("release", 0)
  /\ UNCHANGED <<tram_hold, msgBuffers, full_sends, tot_send_count, sent,
                 bufSize>>

\* coarsenBuckets: bucket i becomes i / k, the last bucket only unless it is
\* kept; the buckets that land at or below the new threshold are admitted.
MergesAll(keep_top) == NumBuckets
MergedTop(keep_top) == IF keep_top THEN NumBuckets - 1 ELSE NumBuckets
AdmitNoMore(k, keep_top) == tram_threshold + 1
AdmitBelow(k, keep_top) ==
  LET limit == (tram_threshold \div k + 1) * k
  IN  IF limit < MergedTop(keep_top) THEN limit ELSE MergedTop(keep_top)
Merged(i, k, keep_top) == IF i < MergedTop(keep_top) THEN i \div k ELSE i

CoarsenBuckets(k, keep_top) ==
  /\ ctl = Idle
  /\ updates_in_tram' =
       [d \in Dests |-> updates_in_tram[d] + Cardinality(
          HeldIn(d, tram_threshold, AdmitBelow(k, keep_top) - 1))]
  /\ tram_hold' =
       [d \in Dests |-> [j \in Buckets |->
          UNION {tram_hold[d][i] : i \in {b \in Buckets :
                                           Merged(b, k, keep_top) = j}}]]
  /\ tram_threshold' = tram_threshold \div k
  /\ direct_threshold' = IF direct_threshold > 0 THEN direct_threshold \div k
                                                 ELSE direct_threshold
  /\ ctl' = Loop("release", 0)
  /\ UNCHANGED <<msgBuffers, full_sends, tot_send_count, sent, bufSize,
                 selectivity, release_level>>

ReleaseStep ==
  /\ ctl.at = "release"
  /\ ctl' = IF Over(updates_in_tram[ctl.dest], selectivity * bufSize)
              THEN InsertBucketsByDest(ctl.dest, "release")
              ELSE Loop("release", ctl.dest + 1)
  /\ UNCHANGED <<traffic, bufSize, knobs, release_level>>

SetBufferSize(n) ==
  /\ ctl = Idle
  /\ n # bufSize
  /\ bufSize' = n
  /\ release_level' = selectivity * n
  /\ ctl' = Loop("resize", 0)
  /\ UNCHANGED <<traffic, knobs>>

\* A buffer too small for the new size is copied into a larger one; one that
\* already holds that many items is sent.
TooSmall(d) == msgBuffers[d].cap < bufSize
NotEmpty(d) == Filled(d) > 0
Overfull(d) == Filled(d) >= bufSize

ResizeStep ==
  /\ ctl.at = "resize"
  /\ \/ /\ TooSmall(ctl.dest)
        /\ msgBuffers' = [msgBuffers EXCEPT ![ctl.dest].cap = bufSize]
        /\ UNCHANGED <<updates_in_tram, full_sends, tot_send_count, sent>>
     \/ /\ ~TooSmall(ctl.dest) /\ Overfull(ctl.dest)
        /\ SendBuffer(ctl.dest, {})
        /\ updates_in_tram' =
             [updates_in_tram EXCEPT ![ctl.dest] = @ - Filled(ctl.dest)]
        /\ tot_send_count' = tot_send_count + Filled(ctl.dest)
        /\ NoteFullSend(ctl.dest, TRUE)
     \/ /\ ~TooSmall(ctl.dest) /\ ~Overfull(ctl.dest)
        /\ UNCHANGED <<msgBuffers, updates_in_tram, full_sends,
                       tot_send_count, sent>>
  /\ ctl' = IF Over(updates_in_tram'[ctl.dest], release_level)
              THEN InsertBucketsByDest(ctl.dest, "resize")
              ELSE Loop("resize", ctl.dest + 1)
  /\ UNCHANGED <<tram_hold, bufSize, knobs, release_level>>

(***************************************************************************)
(* tflush: send every partial buffer, then empty the admitted buckets of   *)
(* every destination into its buffer, then send what is left, padded with  *)
(* fillers from above the threshold.  flushDest does the last two for one  *)
(* destination.                                                            *)
(***************************************************************************)
TFlush ==
  /\ ctl = Idle
  /\ ctl' = At("partial", 0, "tflush")
  /\ UNCHANGED <<traffic, bufSize, knobs, release_level>>

\* The first loop of tflush counts the items out of updates_in_tram, and not
\* into tot_send_count.
PartialStep ==
  /\ ctl.at = "partial"
  /\ \/ /\ Filled(ctl.dest) # 0
        /\ SendBuffer(ctl.dest, {})
        /\ updates_in_tram' =
             [updates_in_tram EXCEPT ![ctl.dest] = @ - Filled(ctl.dest)]
     \/ /\ Filled(ctl.dest) = 0
        /\ UNCHANGED <<sent, msgBuffers, updates_in_tram>>
  /\ ctl' = IF ctl.dest + 1 < NumDest
              THEN At("partial", ctl.dest + 1, "tflush")
              ELSE At("empty", 0, "tflush")
  /\ UNCHANGED <<tram_hold, full_sends, tot_send_count, bufSize, knobs,
                 release_level>>

EmptyTake ==
  /\ ctl.at = "empty"
  /\ \E i \in Buckets : \E x \in tram_hold[ctl.dest][i] :
       /\ Admitted(i)
       /\ IsNext(ctl.dest, 0, i)
       /\ HoldPop(ctl.dest, i, x)
       /\ Fill(ctl.dest, x, 0, FALSE)
  /\ UNCHANGED <<bufSize, knobs, release_level, ctl>>

EmptyDone ==
  /\ ctl.at = "empty"
  /\ \A i \in Buckets : Admitted(i) => tram_hold[ctl.dest][i] = {}
  /\ ctl' = CASE ctl.back # "tflush" -> At("pad", ctl.dest, ctl.back)
              [] ctl.back = "tflush" /\ ctl.dest + 1 < NumDest ->
                   At("empty", ctl.dest + 1, "tflush")
              [] OTHER -> At("pad", 0, "tflush")
  /\ UNCHANGED <<traffic, bufSize, knobs, release_level>>

\* The items that may pad the buffer to d: as many as are held above the
\* threshold, up to half a buffer, from the lowest buckets.
HeldAbove(d) == HeldIn(d, tram_threshold, NumBuckets - 1)
Wanted(d) == IF AddFillers /\ Filled(d) < bufSize \div 2
               THEN bufSize \div 2 - Filled(d) ELSE 0

Fillers(d) ==
  {F \in SUBSET HeldAbove(d) :
     /\ \/ Cardinality(F) = Wanted(d)
        \/ F = HeldAbove(d) /\ Cardinality(F) < Wanted(d)
     /\ \A i, j \in Buckets :
          tram_threshold < i /\ i < j /\ tram_hold[d][j] \cap F # {}
            => tram_hold[d][i] \subseteq F}

PadStep ==
  /\ ctl.at = "pad"
  /\ \/ /\ Filled(ctl.dest) # 0
        /\ \E F \in Fillers(ctl.dest) :
             /\ SendBuffer(ctl.dest, F)
             /\ tram_hold' = [tram_hold EXCEPT ![ctl.dest] =
                                [b \in Buckets |-> @[b] \ F]]
             /\ tot_send_count' =
                  tot_send_count + Filled(ctl.dest) + Cardinality(F)
        \* before the fillers, which were never counted
        /\ updates_in_tram' =
             [updates_in_tram EXCEPT ![ctl.dest] = @ - Filled(ctl.dest)]
     \/ /\ Filled(ctl.dest) = 0
        /\ UNCHANGED <<tram_hold, msgBuffers, updates_in_tram,
                       tot_send_count, sent>>
  /\ ctl' = CASE ctl.back # "tflush" -> Return(ctl.dest, ctl.back)
              [] ctl.back = "tflush" /\ ctl.dest + 1 < NumDest ->
                   At("pad", ctl.dest + 1, "tflush")
              [] OTHER -> Idle
  /\ UNCHANGED <<full_sends, bufSize, knobs, release_level>>

(***************************************************************************)
(* flushStale, once per application round, and flushIdle, on idle passes   *)
(* of the scheduler: flushDest for the destinations that need one.         *)
(***************************************************************************)
FlushDest(d, back) == At("empty", d, back)

HasWork(d) == updates_in_tram[d] > 0 \/ Filled(d) # 0
Stale(d) == ~full_sends[d] /\ HasWork(d)

FlushStale ==
  /\ ctl = Idle
  /\ ctl' = Loop("stale", 0)
  /\ UNCHANGED <<traffic, bufSize, knobs, release_level>>

StaleStep ==
  /\ ctl.at = "stale"
  /\ ctl' = IF Stale(ctl.dest) THEN FlushDest(ctl.dest, "stale")
                               ELSE Loop("stale", ctl.dest + 1)
  /\ full_sends' = [full_sends EXCEPT ![ctl.dest] = FALSE]
  /\ UNCHANGED <<tram_hold, msgBuffers, updates_in_tram, tot_send_count, sent,
                 bufSize, knobs, release_level>>

FlushIdle ==
  /\ ctl = Idle
  /\ ctl' = Loop("flushIdle", 0)
  /\ UNCHANGED <<traffic, bufSize, knobs, release_level>>

IdleStep ==
  /\ ctl.at = "flushIdle"
  /\ ctl' = IF HasWork(ctl.dest) THEN FlushDest(ctl.dest, "flushIdle")
                                 ELSE Loop("flushIdle", ctl.dest + 1)
  /\ UNCHANGED <<traffic, bufSize, knobs, release_level>>

(***************************************************************************)
(* The specification.                                                      *)
(***************************************************************************)
Init ==
  /\ tram_hold = [d \in Dests |-> [b \in Buckets |-> {}]]
  /\ bufSize \in BufSizes
  /\ msgBuffers = [d \in Dests |-> NewMessage(bufSize)]
  /\ updates_in_tram = [d \in Dests |-> 0]
  /\ full_sends = [d \in Dests |-> FALSE]
  /\ tram_threshold = 0
  /\ direct_threshold = 0
  /\ selectivity = SelUnit
  /\ release_level = selectivity * bufSize
  /\ tot_send_count = 0
  /\ sent = {}
  /\ ctl = Idle

Step == \/ InsertBucketsTake \/ InsertBucketsDone
        \/ ReleaseStep \/ ResizeStep
        \/ PartialStep \/ EmptyTake \/ EmptyDone \/ PadStep
        \/ StaleStep \/ IdleStep

Knob == \/ \E direct \in DirectThresholds, tram \in Thresholds,
              sel \in Selectivities : ChangeThreshold(direct, tram, sel)
        \/ \E m \in Merges : CoarsenBuckets(m.k, m.keep_top)
        \/ \E n \in BufSizes : SetBufferSize(n)

Flush == TFlush \/ FlushStale \/ FlushIdle

Client == \/ \E d \in Dests, b \in Buckets, x \in Items : SendItem(d, b, x)
          \/ Knob
          \/ Flush

Next == Client \/ Step

Spec == Init /\ [][Next]_vars

(***************************************************************************)
(* Fairness: a handler that has started runs to its end (the PE's          *)
(* scheduler does not preempt it), and the periodic timer of a library     *)
(* constructed with enable_timed_flushing calls tflush again and again.    *)
(***************************************************************************)
LiveSpec == Spec /\ WF_vars(Step) /\ SF_vars(TFlush)
-----------------------------------------------------------------------------
(***************************************************************************)
(* Properties.                                                             *)
(***************************************************************************)
Ctl == [at : Loops, dest : Dests, from : Nat, back : Loops]

\* The type of every variable; a message's capacity never exceeds BUFSIZE.
TypeOK ==
  /\ tram_hold \in [Dests -> [Buckets -> SUBSET Items]]
  /\ msgBuffers \in [Dests -> [items : SUBSET Items, cap : 1 .. BUFSIZE]]
  /\ updates_in_tram \in [Dests -> Int]
  /\ full_sends \in [Dests -> BOOLEAN]
  /\ bufSize \in BufSizes
  /\ tram_threshold \in Nat
  /\ direct_threshold \in Int
  /\ selectivity \in Nat
  /\ release_level \in Nat
  /\ tot_send_count \in Nat
  /\ sent \in SUBSET [dest : Dests, items : SUBSET Items]
  /\ ctl \in Ctl

\* How far the admitted count of a destination is from what admittedDrift()
\* recounts (htram_group.C:484): the held items at or below the threshold and
\* what is in the buffer.
Drift(d) == updates_in_tram[d] - (Filled(d) + Cardinality(AdmittedHeld(d)))
CounterExact == \A d \in Dests : Drift(d) = 0

\* A coarsening that keeps the last bucket lowers the threshold and leaves
\* that bucket where it is, which the threshold may have admitted before.
KeepsTop == \E m \in Merges : m.keep_top /\ CoarsenBuckets(m.k, TRUE)
Strands(keep_top) ==
  keep_top /\ NumBuckets - 1 <= tram_threshold /\ tram_threshold' < NumBuckets - 1

\* "An item's admitted status can only change one way" (htram_group.C:481), it
\* says of a merge; with keep_top that is not so.  coarsenBuckets takes back the
\* admission of the items in a last bucket that it keeps and that falls above
\* the lower threshold (htram_group.C:547, 581), of all of these and of no
\* other item.
CoarseningStrandsOnlyKept ==
  [][\A m \in Merges : CoarsenBuckets(m.k, m.keep_top) =>
       \A d \in Dests :
         AdmittedHeld(d) \ AdmittedHeld(d)'
           = IF Strands(m.keep_top) THEN tram_hold[d][NumBuckets - 1] ELSE {}]_vars

\* Ten sites adjust the admitted count, some of them only when a buffer fills,
\* and a drift is permanent.  The count is exact at first, and every step of
\* every handler keeps the drift as it is, but for a coarsening that strands a
\* bucket: its items stay in the count.
DriftIsWhatStrands ==
  /\ CounterExact
  /\ [][\A d \in Dests : Drift(d)' = Drift(d)
          + (IF KeepsTop THEN Cardinality(AdmittedHeld(d) \ AdmittedHeld(d)')
                         ELSE 0)]_vars

\* While setBufferSize walks the destinations, those it has not reached may
\* hold a buffer of the old size.
NotResized(d) ==
  \/ ctl.at = "resize" /\ ctl.dest <= d
  \/ ctl.at = "insertBuckets" /\ ctl.back = "resize" /\ ctl.dest < d

\* Every fill site stores an item first and compares next with bufSize for
\* equality only (setBufferSize, lines 202-207): a buffer has room for the
\* next item, and reaches bufSize before it can pass it.
BufferBounds ==
  \A d \in Dests :
    /\ Filled(d) < msgBuffers[d].cap
    /\ NotResized(d) \/ (Filled(d) < bufSize /\ bufSize <= msgBuffers[d].cap)

\* Between handlers no destination keeps admitted items back while its count
\* asks for a release, whatever sequence of knob changes led there and with
\* release_level cached in between: a stale level would hold admitted items
\* until the next unrelated send.
NoBacklog ==
  ctl = Idle =>
    \A d \in Dests :
      Over(updates_in_tram[d], selectivity * bufSize) => AdmittedHeld(d) = {}

\* When tflush() or flushIdle() returns, nothing admitted is left on this PE
\* for any destination, held or buffered.  flushIdle decides by the counter
\* alone whether a destination's hold needs a look.
Flushing == ctl.at = "flushIdle" \/ ctl.back \in {"tflush", "flushIdle"}
FlushComplete ==
  [][Flushing /\ ctl' = Idle =>
       \A d \in Dests : Filled(d)' = 0 /\ AdmittedHeld(d)' = {}]_vars

\* Aggregation: a message with fewer than bufSize items leaves only in the
\* flush of its destination, also while the buffer size changes.
FullUnlessFlushed ==
  [][\A m \in sent' \ sent :
       Cardinality(m.items) < bufSize => ctl.at \in {"partial", "pad"}]_vars

\* No item is lost, sent twice, sent to another destination than its own, or
\* packed into a message longer than BUFSIZE, whatever way it takes through
\* hold and buffer.
Service == INSTANCE TramService WITH
             pending <- [d \in Dests |-> Pending(d)],
             shipped <- sent,
             Batches <- {S \in SUBSET Items :
                           S # {} /\ Cardinality(S) <= BUFSIZE}
ImplementsTramService == Service!Spec

\* A handler that has started returns: each of its loops ends.
HandlerReturns == ctl # Idle ~> ctl = Idle

\* With the periodic flush on, an item in the buffer is sent, and so is an
\* admitted one in the hold unless a knob leaves it above the threshold.
AdmittedIsSent ==
  \A d \in Dests, x \in Items :
    x \in AdmittedHeld(d) \cup msgBuffers[d].items
      ~> x \in SentItems \/ x \in HeldAbove(d)
=============================================================================
