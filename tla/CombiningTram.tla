--------------------------- MODULE CombiningTram ---------------------------
(***************************************************************************)
(* HTramPrio with source-side combining.  Until the client calls           *)
(* enableCombining a PE behaves as HTramPrio says; from then on every item *)
(* waits in the hold of its destination, where a later item for its key    *)
(* may fold into it.  What one hold does is HoldService, which             *)
(* CombiningHold implements: here a hold is the set of its entries.        *)
(*                                                                         *)
(* The handlers keep the loops of HTramPrio.  At "insertBuckets" stands    *)
(* the call that releases one destination, releaseFull instead of          *)
(* insertBucketsByDest, and at "empty" and "pad" stand the two halves of   *)
(* flushDest.  As there, a wrong version of an operator may stand before   *)
(* it: a bug the code might have had, used nowhere.                        *)
(***************************************************************************)
EXTENDS HTramPrio

CONSTANTS
  Keys,
  Key           \* HoldOps::key

ASSUME KeyAssumption == Key \in [Items -> Keys]

VARIABLES
  combining,    \* holds # nullptr
  holds,        \* holds[d]: the entries of d's hold, [item, bucket] records
  absorbed      \* the items on_absorb was called for

folding == <<combining, holds, absorbed>>
combinedVars == <<vars, folding>>

Entry(x, b) == [item |-> x, bucket |-> b]
ItemsOf(R) == {r.item : r \in R}

\* live(b), summed over the buckets above lo, up to hi.
Live(d, lo, hi) == {r \in holds[d] : lo < r.bucket /\ r.bucket <= hi}
CombinedPending(d) == ItemsOf(holds[d]) \cup Pending(d)
CombinedKnown ==
  Known \cup absorbed \cup UNION {ItemsOf(holds[d]) : d \in Dests}

\* release(high, limit): the lowest entries up to high, limit of them or all.
ReleasedBelow(d, high, limit) ==
  {R \in SUBSET Live(d, -1, high - 1) :
     \/ Cardinality(R) = limit
     \/ R = Live(d, -1, high - 1) /\ Cardinality(R) < limit}
Released(d, high, limit) ==
  {R \in SUBSET Live(d, -1, high) :
     /\ \/ Cardinality(R) = limit
        \/ R = Live(d, -1, high) /\ Cardinality(R) < limit
     /\ \A r \in R, q \in holds[d] : q.bucket < r.bucket => q \in R}

(***************************************************************************)
(* enableCombining                                                         *)
(***************************************************************************)
EnableCombining ==
  /\ ctl = Idle
  /\ ~combining
  /\ \A d \in Dests : updates_in_tram[d] = 0 /\ Filled(d) = 0
  /\ combining' = TRUE
  /\ UNCHANGED <<vars, holds, absorbed>>

(***************************************************************************)
(* sendItemPrioDeferredDest.  The admitted count follows the item: a fold  *)
(* that takes the new item also takes its bucket.                          *)
(***************************************************************************)
MovedUpOnly(old, new) == IF Admits(new) > Admits(old) THEN 1 ELSE 0
Moved(old, new) == Admits(new) - Admits(old)

\* The hold of d once x has taken the place of the entry r.
FoldedBeside(d, r, x, b) == holds[d] \cup {Entry(x, b)}
Folded(d, r, x, b) == (holds[d] \ {r}) \cup {Entry(x, b)}

HoldNew(d, x, b) ==
  /\ \A r \in holds[d] : Key[r.item] # Key[x]
  /\ holds' = [holds EXCEPT ![d] = @ \cup {Entry(x, b)}]
  /\ updates_in_tram' = [updates_in_tram EXCEPT ![d] = @ + Admits(b)]
  /\ UNCHANGED absorbed

Fold(d, x, b) ==
  \E r \in holds[d] :
    /\ Key[r.item] = Key[x]
    /\ \/ /\ absorbed' = absorbed \cup {x}
          /\ UNCHANGED <<holds, updates_in_tram>>
       \/ /\ absorbed' = absorbed \cup {r.item}
          /\ holds' = [holds EXCEPT ![d] = Folded(d, r, x, b)]
          /\ updates_in_tram' =
               [updates_in_tram EXCEPT ![d] = @ + Moved(r.bucket, b)]

ReleaseDue(count) == SelUnit * count >= release_level

CombineItem(d, b, x) ==
  /\ ctl = Idle
  /\ combining
  /\ x \notin CombinedKnown
  /\ HoldNew(d, x, b) \/ Fold(d, x, b)
  /\ ctl' = IF ReleaseDue(updates_in_tram'[d])
              THEN InsertBucketsByDest(d, "idle") ELSE Idle
  /\ UNCHANGED <<tram_hold, msgBuffers, full_sends, tot_send_count, sent,
                 bufSize, knobs, release_level, combining>>

(***************************************************************************)
(* releaseFull: while the admitted count is not below the release level,   *)
(* fill the buffer from the lowest buckets and send it.  An admitted hold  *)
(* that runs out first leaves its items in the buffer.                     *)
(***************************************************************************)
\* The entries R leave the hold for the buffer to d, which is sent when that
\* makes it bufSize items; note is whether that is recorded as a full send.
Append(d, R) ==
  msgBuffers' = [msgBuffers EXCEPT ![d].items = @ \cup ItemsOf(R)]
FillsSome(d, R) == Filled(d) + Cardinality(R) > 0
FillsPast(d, R) == Filled(d) + Cardinality(R) > bufSize
Fills(d, R) == Filled(d) + Cardinality(R) >= bufSize

ShipBuffer(d, R) ==
  /\ SendBuffer(d, ItemsOf(R))
  /\ tot_send_count' = tot_send_count + Filled(d) + Cardinality(R)

Drain(d, R, note) ==
  /\ holds' = [holds EXCEPT ![d] = @ \ R]
  /\ \/ /\ ~Fills(d, R)
        /\ Append(d, R)
        /\ UNCHANGED <<sent, tot_send_count, updates_in_tram, full_sends>>
     \/ /\ Fills(d, R)
        /\ ShipBuffer(d, R)
        /\ updates_in_tram' = [updates_in_tram EXCEPT
                                 ![d] = @ - Filled(d) - Cardinality(R)]
        /\ NoteFullSend(d, note)

ReleaseOnce(d, R) == Return(d, ctl.back)
ReleaseForever(d, R) == ctl
ReleaseAgain(d, R) == IF Fills(d, R) THEN ctl ELSE Return(d, ctl.back)

ReleaseFull ==
  /\ ctl.at = "insertBuckets"
  /\ LET d == ctl.dest
     IN  \/ /\ ~ReleaseDue(updates_in_tram[d])
            /\ ctl' = Return(d, ctl.back)
            /\ UNCHANGED <<traffic, holds>>
         \/ /\ ReleaseDue(updates_in_tram[d])
            /\ \E R \in Released(d, tram_threshold, bufSize - Filled(d)) :
                 /\ Drain(d, R, TRUE)
                 /\ ctl' = ReleaseAgain(d, R)
            /\ UNCHANGED tram_hold
  /\ UNCHANGED <<bufSize, knobs, release_level>>

(***************************************************************************)
(* flushDest: the admitted entries leave in full buffers, then the last    *)
(* one, padded from above the threshold.  tflush calls it for every        *)
(* destination, flushStale and flushIdle for those that need it.           *)
(***************************************************************************)
DrainOnce(d, R) == At("pad", d, ctl.back)
DrainAgain(d, R) == IF Fills(d, R) THEN ctl ELSE At("pad", d, ctl.back)

FlushDrain ==
  /\ ctl.at = "empty"
  /\ \E R \in Released(ctl.dest, tram_threshold, bufSize - Filled(ctl.dest)) :
       /\ Drain(ctl.dest, R, FALSE)
       /\ ctl' = DrainAgain(ctl.dest, R)
  /\ UNCHANGED <<tram_hold, bufSize, knobs, release_level>>

FlushPartial ==
  /\ ctl.at = "pad"
  /\ \/ /\ Filled(ctl.dest) # 0
        /\ updates_in_tram' =
             [updates_in_tram EXCEPT ![ctl.dest] = @ - Filled(ctl.dest)]
        /\ \E R \in Released(ctl.dest, NumBuckets - 1, Wanted(ctl.dest)) :
             /\ ShipBuffer(ctl.dest, R)
             /\ holds' = [holds EXCEPT ![ctl.dest] = @ \ R]
     \/ /\ Filled(ctl.dest) = 0
        /\ UNCHANGED <<holds, msgBuffers, updates_in_tram, tot_send_count, sent>>
  /\ ctl' = Return(ctl.dest, ctl.back)
  /\ UNCHANGED <<tram_hold, full_sends, bufSize, knobs, release_level>>

CombinedTFlush ==
  /\ ctl = Idle
  /\ ctl' = Loop("flushAll", 0)
  /\ UNCHANGED <<traffic, bufSize, knobs, release_level>>

FlushAllStep ==
  /\ ctl.at = "flushAll"
  /\ ctl' = FlushDest(ctl.dest, "flushAll")
  /\ UNCHANGED <<traffic, bufSize, knobs, release_level>>

(***************************************************************************)
(* The knobs.  changeThreshold recounts by live(i) and releases in the     *)
(* loop of HTramPrio; setBufferSize aborts unless every buffer is empty.   *)
(* coarsenBuckets aborts.                                                  *)
(***************************************************************************)
CombinedRecount(d, t) == IF t > tram_threshold
                           THEN Cardinality(Live(d, tram_threshold, t))
                           ELSE -Cardinality(Live(d, t, tram_threshold))

CombinedThreshold(direct, tram, sel) ==
  /\ ctl = Idle
  /\ <<tram, direct, sel>> # knobs
  /\ updates_in_tram' =
       [d \in Dests |-> updates_in_tram[d] + CombinedRecount(d, tram)]
  /\ tram_threshold' = tram
  /\ direct_threshold' = direct
  /\ selectivity' = sel
  /\ release_level' = sel * bufSize
  /\ ctl' = Loop("release", 0)
  /\ UNCHANGED <<tram_hold, msgBuffers, full_sends, tot_send_count, sent,
                 bufSize>>

ResizeEmpty(n) ==
  /\ ctl = Idle
  /\ n # bufSize
  /\ \A d \in Dests : Filled(d) = 0
  /\ msgBuffers' = [d \in Dests |-> NewMessage(n)]
  /\ bufSize' = n
  /\ release_level' = selectivity * n
  /\ UNCHANGED <<tram_hold, updates_in_tram, full_sends, tot_send_count, sent,
                 knobs, ctl>>

(***************************************************************************)
(* The specification.                                                      *)
(***************************************************************************)
CombinedInit ==
  /\ Init
  /\ combining = FALSE
  /\ holds = [d \in Dests |-> {}]
  /\ absorbed = {}

\* enableCombining "must be called before the first send" (htram_group.h:496):
\* until then the client only turns knobs and flushes.
Before == ~combining /\ (Knob \/ Flush \/ Step) /\ UNCHANGED folding

\* live(i) is read for every bucket up to the new threshold, so the client
\* keeps it below the bucket count.
MayAdmit(t) == t \in Buckets

CombinedStep ==
  /\ combining
  /\ \/ (ReleaseFull \/ FlushDrain \/ FlushPartial)
          /\ UNCHANGED <<combining, absorbed>>
     \/ (FlushAllStep \/ ReleaseStep \/ StaleStep \/ IdleStep)
          /\ UNCHANGED folding

CombinedFlush ==
  /\ combining
  /\ CombinedTFlush \/ FlushStale \/ FlushIdle
  /\ UNCHANGED folding

CombinedKnob ==
  /\ combining
  /\ \/ \E direct \in DirectThresholds, tram \in Thresholds,
           sel \in Selectivities :
          MayAdmit(tram) /\ CombinedThreshold(direct, tram, sel)
     \/ \E n \in BufSizes : ResizeEmpty(n)
  /\ UNCHANGED folding

CombinedNext ==
  \/ Before
  \/ EnableCombining
  \/ \E d \in Dests, b \in Buckets, x \in Items : CombineItem(d, b, x)
  \/ CombinedKnob \/ CombinedFlush \/ CombinedStep

CombinedSpec == CombinedInit /\ [][CombinedNext]_combinedVars

\* Fairness as in HTramPrio: handlers run to their end, and the periodic
\* timer calls tflush again and again.
AnyStep == CombinedStep \/ (~combining /\ Step /\ UNCHANGED folding)
AnyTFlush == /\ UNCHANGED folding
             /\ \/ combining /\ CombinedTFlush
                \/ ~combining /\ TFlush
LiveCombinedSpec == CombinedSpec /\ WF_combinedVars(AnyStep)
                                 /\ SF_combinedVars(AnyTFlush)
-----------------------------------------------------------------------------
(***************************************************************************)
(* Properties.                                                             *)
(***************************************************************************)
CombinedLoops == Loops \cup {"flushAll"}
CombinedTypeOK ==
  /\ TypeOK \/ combining
  /\ combining \in BOOLEAN
  /\ holds \in [Dests -> SUBSET [item : Items, bucket : Buckets]]
  /\ absorbed \subseteq Items
  /\ updates_in_tram \in [Dests -> Int]
  /\ ctl \in [at : CombinedLoops, dest : Dests, from : Nat, back : CombinedLoops]

Admissible(d) == Live(d, -1, tram_threshold)

\* With combining on, the admitted count of a destination is what its hold
\* and its buffer say: it follows an item that a fold carries across the
\* threshold, in either direction, and every recount by live(i).  The code's
\* own audit, admittedDrift(), answers 0 here whatever the counts are.
CombinedCounterExact ==
  combining => \A d \in Dests :
    updates_in_tram[d] = Filled(d) + Cardinality(Admissible(d))

\* When tflush or flushIdle returns with combining on, nothing admitted is
\* left for any destination, in the hold or in the buffer.
CombinedFlushing == combining /\ (Flushing \/ "flushAll" \in {ctl.at, ctl.back})
CombinedFlushComplete ==
  [][CombinedFlushing /\ ctl' = Idle =>
       \A d \in Dests : Filled(d)' = 0 /\ Admissible(d)' = {}]_combinedVars

\* A send or a threshold change that returns leaves no destination it went
\* over with more admitted than the release level and some of it in the hold.
Visited == IF ctl.at = "insertBuckets" /\ ctl.back = "idle"
             THEN {ctl.dest} ELSE Dests
CombinedNoBacklog ==
  [][combining /\ ctl.at \in {"insertBuckets", "release"} /\ ctl' = Idle =>
       \A d \in Visited :
         Over(updates_in_tram[d], release_level)' => Admissible(d)' = {}]_combinedVars

\* Of all that is accepted every item is held, buffered, sent or absorbed,
\* exactly one of these, and an item is absorbed only while one with its key
\* stays for the same destination.  A client that counts its items down to
\* termination (htram_combine.h:48-52) relies on each of these.
Combined == INSTANCE CombiningService WITH
              pending <- [d \in Dests |-> CombinedPending(d)],
              shipped <- sent,
              Batches <- {S \in SUBSET Items :
                            S # {} /\ Cardinality(S) <= BUFSIZE}
ImplementsCombiningService == Combined!CombinedSpec

\* With the periodic flush on, what is admitted or buffered is sent, absorbed,
\* or raised out of the threshold by the client; with combining on also when
\* a smaller buffer size left a backlog that nothing released.
AdmittedLeaves ==
  \A d \in Dests, x \in Items :
    x \in AdmittedHeld(d) \cup msgBuffers[d].items \cup ItemsOf(Admissible(d))
      ~> x \in SentItems \cup absorbed \cup HeldAbove(d)
              \cup ItemsOf(Live(d, tram_threshold, NumBuckets - 1))
=============================================================================
