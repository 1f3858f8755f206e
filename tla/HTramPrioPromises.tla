-------------------------- MODULE HTramPrioPromises -------------------------
(***************************************************************************)
(* What the handlers of HTramPrio have achieved when they return: a knob   *)
(* leaves no backlog, a flush leaves nothing admitted behind, and between  *)
(* flushes only full messages leave.  And what HTramPrio promises its      *)
(* client: it implements TramService.  The last part is about the two      *)
(* rounds a periodic flush needs when it leaves recent items to the next:  *)
(* an item cannot be overdue in a third.                                   *)
(*                                                                         *)
(* The first arguments are about loops.  Settled and Flushed say what a    *)
(* loop has done for a destination; Released and FlushProgress say for     *)
(* which destinations it has done so far, from the handler's position in   *)
(* ctl.                                                                    *)
(***************************************************************************)
EXTENDS HTramPrioProofs, HTramRounds

\* Which loop may have called which.
CtlShape ==
  /\ ctl.at \in {"idle", "release", "resize", "stale", "flushIdle"}
       => ctl.back = "idle"
  /\ ctl.at = "insertBuckets" => ctl.back \in {"idle", "release", "resize"}
  /\ ctl.at = "partial" => ctl.back = "tflush"
  /\ ctl.at \in {"empty", "pad"} => ctl.back \in {"tflush", "stale", "flushIdle"}
  /\ ctl.at # "tflush"

(***************************************************************************)
(* What one step may do to a destination.                                  *)
(***************************************************************************)
HandlerStep == Step \/ Flush

\* Popping an item leaves no destination more of it.
LEMMA PopShrinks ==
  ASSUME TypeOK, NEW d \in Dests, NEW i \in Buckets, NEW x,
         HoldPop(d, i, x), NEW e \in Dests, NEW b \in Buckets
  PROVE  tram_hold'[e][b] \subseteq tram_hold[e][b]
BY DEF HoldPop, TypeOK

LEMMA HeldShrinks ==
  ASSUME NEW d \in Dests, tram_threshold' = tram_threshold,
         \A b \in Buckets : tram_hold'[d][b] \subseteq tram_hold[d][b]
  PROVE  AdmittedHeld(d)' \subseteq AdmittedHeld(d)
BY DEF AdmittedHeld, HeldIn

\* A fill site that admits nothing adds nothing to the count.
LEMMA FillShrinks ==
  ASSUME TypeOK, NEW d \in Dests, NEW x, NEW note,
         Fill(d, x, 0, note), NEW e \in Dests
  PROVE  /\ updates_in_tram'[e] <= updates_in_tram[e]
         /\ e # d => msgBuffers'[e] = msgBuffers[e]
<1>1. /\ updates_in_tram \in [Dests -> Int] /\ bufSize \in Nat
      /\ msgBuffers \in [Dests -> [items : SUBSET Items, cap : 1 .. BUFSIZE]]
  BY ConstantsAssumption DEF TypeOK, ConstantsAssumption
<1>. QED BY <1>1 DEF Fill, SendBuffer

\* So does sending what is in a buffer.
LEMMA CountOut ==
  ASSUME TypeOK, NEW d \in Dests, NEW e \in Dests, NEW n \in Nat,
         \/ updates_in_tram' = [updates_in_tram EXCEPT ![d] = @ - n]
         \/ UNCHANGED updates_in_tram
  PROVE  updates_in_tram'[e] <= updates_in_tram[e]
BY DEF TypeOK

LEMMA SentElsewhere ==
  ASSUME TypeOK, NEW d \in Dests, NEW e \in Dests, NEW extra,
         SendBuffer(d, extra), e # d
  PROVE  msgBuffers'[e] = msgBuffers[e]
BY DEF TypeOK, SendBuffer

\* In a handler's own steps a destination only loses: from the admitted
\* count, from the held items, and nothing but the one in hand is touched.
LEMMA StepShrinks ==
  ASSUME TypeOK, HandlerStep, NEW e \in Dests
  PROVE  /\ updates_in_tram'[e] <= updates_in_tram[e]
         /\ AdmittedHeld(e)' \subseteq AdmittedHeld(e)
         /\ e # ctl.dest => msgBuffers'[e] = msgBuffers[e]
         /\ UNCHANGED <<bufSize, knobs, release_level>>
<1>0. /\ updates_in_tram \in [Dests -> Int]
      /\ msgBuffers \in [Dests -> [items : SUBSET Items, cap : 1 .. BUFSIZE]]
      /\ tram_hold \in [Dests -> [Buckets -> SUBSET Items]]
      /\ ctl.dest \in Dests
      /\ Filled(ctl.dest) \in Nat
  BY AtDest, FilledType DEF TypeOK
<1>1. CASE InsertBucketsTake \/ EmptyTake
  <2>1. PICK i \in Buckets : \E x, note :
          HoldPop(ctl.dest, i, x) /\ Fill(ctl.dest, x, 0, note)
    BY <1>1 DEF InsertBucketsTake, EmptyTake
  <2>. PICK x, note : HoldPop(ctl.dest, i, x) /\ Fill(ctl.dest, x, 0, note)
    BY <2>1
  <2>2. UNCHANGED <<bufSize, knobs, release_level>>
    BY <1>1 DEF InsertBucketsTake, EmptyTake
  <2>3. AdmittedHeld(e)' \subseteq AdmittedHeld(e)
    BY <1>0, <2>1, <2>2, PopShrinks, HeldShrinks DEF knobs
  <2>. QED BY <1>0, <2>1, <2>2, <2>3, FillShrinks
<1>2. CASE \/ InsertBucketsDone \/ ReleaseStep \/ TFlush \/ EmptyDone
           \/ FlushStale \/ StaleStep \/ FlushIdle \/ IdleStep
  <2>1. UNCHANGED <<tram_hold, msgBuffers, updates_in_tram, bufSize, knobs,
                    release_level>>
    BY <1>2 DEF InsertBucketsDone, ReleaseStep, TFlush, EmptyDone, FlushStale,
                StaleStep, FlushIdle, IdleStep, traffic
  <2>2. AdmittedHeld(e)' \subseteq AdmittedHeld(e)
    BY <2>1, HeldShrinks DEF knobs
  <2>. QED BY <1>0, <2>1, <2>2
<1>3. CASE ResizeStep
  <2>1. UNCHANGED <<tram_hold, bufSize, knobs, release_level>>
    BY <1>3 DEF ResizeStep
  <2>2. AdmittedHeld(e)' \subseteq AdmittedHeld(e)
    BY <2>1, HeldShrinks DEF knobs
  <2>3. updates_in_tram'[e] <= updates_in_tram[e]
    BY <1>0, <1>3, CountOut DEF ResizeStep
  <2>4. e # ctl.dest => msgBuffers'[e] = msgBuffers[e]
    BY <1>0, <1>3, SentElsewhere DEF ResizeStep
  <2>. QED BY <2>1, <2>2, <2>3, <2>4
<1>4. CASE PartialStep
  <2>1. UNCHANGED <<tram_hold, bufSize, knobs, release_level>>
    BY <1>4 DEF PartialStep
  <2>2. AdmittedHeld(e)' \subseteq AdmittedHeld(e)
    BY <2>1, HeldShrinks DEF knobs
  <2>. QED BY <1>0, <1>4, <2>1, <2>2 DEF PartialStep, SendBuffer
<1>5. CASE PadStep
  <2>1. UNCHANGED <<bufSize, knobs, release_level>>
    BY <1>5 DEF PadStep
  <2>2. \A b \in Buckets : tram_hold'[e][b] \subseteq tram_hold[e][b]
    <3>1. CASE UNCHANGED tram_hold
      BY <3>1
    <3>2. ASSUME NEW F, tram_hold' = [tram_hold EXCEPT ![ctl.dest] =
                                        [b \in Buckets |-> @[b] \ F]]
          PROVE  \A b \in Buckets : tram_hold'[e][b] \subseteq tram_hold[e][b]
      BY <1>0, <3>2
    <3>. QED BY <3>1, <3>2, <1>5 DEF PadStep
  <2>3. AdmittedHeld(e)' \subseteq AdmittedHeld(e)
    BY <2>1, <2>2, HeldShrinks DEF knobs
  <2>4. updates_in_tram'[e] <= updates_in_tram[e]
    BY <1>0, <1>5, CountOut DEF PadStep
  <2>5. e # ctl.dest => msgBuffers'[e] = msgBuffers[e]
    BY <1>0, <1>5, SentElsewhere DEF PadStep
  <2>. QED BY <2>1, <2>3, <2>4, <2>5
<1>. QED BY <1>1, <1>2, <1>3, <1>4, <1>5 DEF HandlerStep, Step, Flush

(***************************************************************************)
(* Aggregation.                                                            *)
(***************************************************************************)

\* A fill site sends bufSize items or nothing.
LEMMA FillSendsFull ==
  ASSUME TypeOK, NEW d \in Dests, NEW x \in Items, x \notin msgBuffers[d].items,
         NEW added, NEW note, Fill(d, x, added, note), NEW m \in sent' \ sent
  PROVE  Cardinality(m.items) = bufSize
<1>1. Cardinality(msgBuffers[d].items \cup {x}) = Filled(d) + 1
  BY FilledType, AddItem
<1>2. /\ Filled(d) + 1 = bufSize
      /\ m = [dest |-> d, items |-> msgBuffers[d].items \cup {x}]
  BY DEF Fill, SendBuffer
<1>. QED BY <1>1, <1>2

\* Between flushes every message that leaves is full, for every size and
\* every change of it.
THEOREM MessagesLeaveFull == Spec => FullUnlessFlushed
<1>. DEFINE Full == \A m \in sent' \ sent :
                Cardinality(m.items) < bufSize => ctl.at \in {"partial", "pad"}
<1>1. ASSUME IInv, Next PROVE Full
  <2>1. TypeOK /\ HeldOnce /\ BufferBounds
    BY <1>1 DEF IInv
  <2>2. bufSize \in Nat /\ ctl.dest \in Dests /\ Filled(ctl.dest) \in Nat
    BY <2>1, AtDest, FilledType, ConstantsAssumption DEF TypeOK, ConstantsAssumption
  <2>3. CASE UNCHANGED sent
    BY <2>3
  <2>4. CASE PartialStep \/ PadStep
    BY <2>4 DEF PartialStep, PadStep
  <2>5. CASE InsertBucketsTake \/ EmptyTake
    <3>1. PICK i \in Buckets : \E x \in tram_hold[ctl.dest][i] : \E note :
            Fill(ctl.dest, x, 0, note)
      BY <2>5 DEF InsertBucketsTake, EmptyTake
    <3>2. PICK x \in tram_hold[ctl.dest][i] : \E note : Fill(ctl.dest, x, 0, note)
      BY <3>1
    <3>3. x \in Items /\ x \notin msgBuffers[ctl.dest].items
      BY <2>1, <2>2 DEF TypeOK, HeldOnce
    <3>. QED BY <2>1, <2>2, <3>2, <3>3, FillSendsFull
  <2>6. CASE \E d \in Dests, b \in Buckets, x \in Items : SendItem(d, b, x)
    <3>1. PICK d \in Dests, b \in Buckets, x \in Items : SendItem(d, b, x)
      BY <2>6
    <3>2. x \notin msgBuffers[d].items
      BY <3>1 DEF SendItem, Known, Pending
    <3>3. UNCHANGED sent \/ Fill(d, x, 1, TRUE)
      BY <3>1 DEF SendItem
    <3>4. CASE UNCHANGED sent
      BY <3>4
    <3>5. CASE Fill(d, x, 1, TRUE)
      <4>1. \A m \in sent' \ sent : Cardinality(m.items) = bufSize
        BY <2>1, <3>2, <3>5, FillSendsFull
      <4>. QED BY <2>2, <4>1
    <3>. QED BY <3>3, <3>4, <3>5
  <2>7. CASE ResizeStep
    <3>1. ASSUME NEW m \in sent' \ sent
          PROVE  Cardinality(m.items) = Filled(ctl.dest)
                   /\ Filled(ctl.dest) >= bufSize
      <4>1. /\ m = [dest |-> ctl.dest,
                    items |-> msgBuffers[ctl.dest].items \cup {}]
            /\ Overfull(ctl.dest)
        BY <2>7, <3>1 DEF ResizeStep, SendBuffer
      <4>2. m.items = msgBuffers[ctl.dest].items
        BY <4>1
      <4>. QED BY <4>1, <4>2 DEF Filled, Overfull
    <3>. QED BY <2>2, <3>1
  <2>8. UNCHANGED sent \/ PartialStep \/ PadStep \/ InsertBucketsTake
          \/ EmptyTake \/ ResizeStep
          \/ \E d \in Dests, b \in Buckets, x \in Items : SendItem(d, b, x)
    BY <1>1 DEF Next, Client, Knob, Flush, Step, ChangeThreshold, CoarsenBuckets,
                SetBufferSize, TFlush, FlushStale, FlushIdle, InsertBucketsDone,
                ReleaseStep, EmptyDone, StaleStep, IdleStep, traffic
  <2>. QED BY <2>3, <2>4, <2>5, <2>6, <2>7, <2>8
<1>2. IInv /\ [Next]_vars => [Full]_vars
  BY <1>1
<1>. QED BY <1>2, Invariance, PTL DEF Spec, FullUnlessFlushed

(***************************************************************************)
(* The handler's position.                                                 *)
(***************************************************************************)
LEMMA Positions ==
  ASSUME TypeOK
  PROVE  /\ ctl = [at |-> ctl.at, dest |-> ctl.dest, from |-> ctl.from,
                   back |-> ctl.back]
         /\ ctl.dest \in Nat /\ ctl.from \in Nat
BY AtDest DEF TypeOK, Ctl

LEMMA ShapeStep ==
  ASSUME TypeOK, CtlShape, [Next]_vars
  PROVE  CtlShape'
<1>0. ctl \in Ctl
  BY DEF TypeOK
<1>1. CASE UNCHANGED vars
  BY <1>1 DEF CtlShape, vars
<1>2. CASE Client
  <2>1. \/ ctl' \in {Idle, Loop("release", 0), Loop("resize", 0),
                     Loop("stale", 0), Loop("flushIdle", 0),
                     At("partial", 0, "tflush")}
        \/ \E d : ctl' = InsertBucketsByDest(d, "idle")
    BY <1>2 DEF Client, Knob, Flush, SendItem, ChangeThreshold, CoarsenBuckets,
                SetBufferSize, TFlush, FlushStale, FlushIdle
  <2>. QED BY <2>1 DEF CtlShape, At, Loop, Idle, InsertBucketsByDest
<1>3. CASE InsertBucketsTake \/ EmptyTake
  <2>1. ctl'.at = ctl.at /\ ctl'.back = ctl.back
    BY <1>0, <1>3 DEF InsertBucketsTake, EmptyTake, Ctl
  <2>. QED BY <2>1 DEF CtlShape
<1>4. CASE InsertBucketsDone
  <2>1. ctl.back \in {"idle", "release", "resize"}
    BY <1>4 DEF InsertBucketsDone, CtlShape
  <2>2. ctl' \in {Idle, Loop("release", ctl.dest + 1), Loop("resize", ctl.dest + 1)}
    BY <1>4, <2>1 DEF InsertBucketsDone, Return
  <2>. QED BY <2>2 DEF CtlShape, Loop, Idle, At
<1>5. CASE ReleaseStep \/ ResizeStep
  <2>1. ctl' \in {InsertBucketsByDest(ctl.dest, "release"),
                  InsertBucketsByDest(ctl.dest, "resize"),
                  Loop("release", ctl.dest + 1), Loop("resize", ctl.dest + 1)}
    BY <1>5 DEF ReleaseStep, ResizeStep
  <2>. QED BY <2>1 DEF CtlShape, Loop, Idle, At, InsertBucketsByDest
<1>6. CASE PartialStep \/ EmptyDone \/ PadStep \/ StaleStep \/ IdleStep
  BY <1>6 DEF PartialStep, EmptyDone, PadStep, StaleStep, IdleStep, CtlShape,
              Return, Loop, Idle, At, FlushDest
<1>. QED BY <1>1, <1>2, <1>3, <1>4, <1>5, <1>6 DEF Next, Step

(***************************************************************************)
(* No backlog.                                                             *)
(***************************************************************************)
LevelFresh == release_level = selectivity * bufSize

Settled ==
  {d \in Dests :
     Over(updates_in_tram[d], selectivity * bufSize) => AdmittedHeld(d) = {}}

\* The destinations a knob's loop has not released yet, and the one that
\* insertBucketsByDest is at.
Unreleased ==
  {d \in Dests :
     \/ ctl.at \in {"release", "resize"} /\ ctl.dest <= d
     \/ ctl.at = "insertBuckets" /\ ctl.dest = d
     \/ ctl.at = "insertBuckets" /\ ctl.back # "idle" /\ ctl.dest < d}

\* insertBucketsByDest skips the rest of a bucket only when the count no
\* longer asks for a release; until then it leaves empty buckets behind.
Scanned ==
  ctl.at = "insertBuckets" =>
    \/ ~Over(updates_in_tram[ctl.dest], release_level)
    \/ \A b \in Buckets : b < ctl.from => tram_hold[ctl.dest][b] = {}

Released == Dests \subseteq Settled \cup Unreleased

RInv == IInv /\ CtlShape /\ LevelFresh /\ Scanned /\ Released

LEMMA OverMonotone ==
  ASSUME NEW a \in Int, NEW b \in Int, a <= b, NEW level \in Int, ~Over(b, level)
  PROVE  ~Over(a, level)
<1>1. SelUnit \in Nat
  BY ConstantsAssumption DEF ConstantsAssumption
<1>2. SelUnit * a <= SelUnit * b
  BY <1>1
<1>. QED BY <1>1, <1>2 DEF Over

LEMMA LevelType ==
  ASSUME TypeOK
  PROVE  selectivity * bufSize \in Int /\ release_level \in Int
BY ConstantsAssumption DEF TypeOK, ConstantsAssumption

\* No step of a handler unsettles a destination.
LEMMA SettledStays ==
  ASSUME IInv, HandlerStep, NEW d \in Settled
  PROVE  d \in Settled'
<1>1. TypeOK /\ TypeOK' /\ d \in Dests
  BY NextIInv DEF IInv, HandlerStep, Next, Client, Settled
<1>2. /\ updates_in_tram'[d] <= updates_in_tram[d]
      /\ AdmittedHeld(d)' \subseteq AdmittedHeld(d)
      /\ selectivity' = selectivity /\ bufSize' = bufSize
  BY <1>1, StepShrinks DEF knobs
<1>3. updates_in_tram'[d] \in Int /\ updates_in_tram[d] \in Int
  BY <1>1 DEF TypeOK
<1>4. CASE AdmittedHeld(d) = {}
  BY <1>2, <1>4 DEF Settled
<1>5. CASE ~Over(updates_in_tram[d], selectivity * bufSize)
  <2>1. ~Over(updates_in_tram'[d], selectivity * bufSize)
    BY <1>1, <1>2, <1>3, <1>5, OverMonotone, LevelType
  <2>. QED BY <1>2, <2>1 DEF Settled, Over
<1>. QED BY <1>4, <1>5 DEF Settled

\* A turn of insertBucketsByDest keeps what it has scanned.
LEMMA ScanStep ==
  ASSUME RInv, InsertBucketsTake
  PROVE  Scanned'
<1>. DEFINE d == ctl.dest
<1>1. /\ TypeOK /\ CtlShape /\ Scanned /\ HandlerStep
      /\ TypeOK' /\ ctl.at = "insertBuckets"
  BY NextIInv DEF RInv, IInv, InsertBucketsTake, HandlerStep, Step, Next
<1>2. /\ d \in Dests /\ ctl.from \in Nat /\ ctl \in Ctl
      /\ tram_hold \in [Dests -> [Buckets -> SUBSET Items]]
      /\ \A b \in Buckets : b \in Nat
      /\ release_level \in Int /\ release_level' = release_level
      /\ updates_in_tram[d] \in Int /\ updates_in_tram'[d] \in Int
      /\ updates_in_tram'[d] <= updates_in_tram[d]
  <2>1. d \in Dests /\ ctl.from \in Nat
    BY <1>1, AtDest
  <2>2. /\ ctl \in Ctl
        /\ tram_hold \in [Dests -> [Buckets -> SUBSET Items]]
    BY <1>1 DEF TypeOK
  <2>3. updates_in_tram[d] \in Int /\ updates_in_tram'[d] \in Int
    BY <1>1, <2>1 DEF TypeOK
  <2>4. updates_in_tram'[d] <= updates_in_tram[d] /\ release_level' = release_level
    BY <1>1, <2>1, StepShrinks
  <2>5. release_level \in Int
    BY <1>1, LevelType
  <2>6. \A b \in Buckets : b \in Nat
    BY DEF Buckets
  <2>. QED BY <2>1, <2>2, <2>3, <2>4, <2>5, <2>6
<1>3. PICK i \in Buckets : \E x \in tram_hold[d][i] :
        /\ IsNext(d, ctl.from, i)
        /\ HoldPop(d, i, x)
        /\ ctl' = [ctl EXCEPT !.from = NextFrom(i, updates_in_tram'[d])]
  BY <1>1 DEF InsertBucketsTake
<1>4. ctl' = [ctl EXCEPT !.from = NextFrom(i, updates_in_tram'[d])]
  BY <1>3
<1>5. ctl'.dest = d /\ ctl'.from = NextFrom(i, updates_in_tram'[d])
  BY <1>2, <1>4 DEF Ctl
<1>6. \A b \in Buckets : tram_hold'[d][b] \subseteq tram_hold[d][b]
  BY <1>1, <1>2, <1>3, PopShrinks
<1>7. CASE ~Over(updates_in_tram[d], release_level)
  BY <1>2, <1>5, <1>7, OverMonotone DEF Scanned, Over
<1>8. CASE SelUnit * updates_in_tram'[d] < release_level
  <2>1. SelUnit * updates_in_tram'[d] \in Int
    BY <1>2, ConstantsAssumption DEF ConstantsAssumption
  <2>. QED BY <1>2, <1>5, <1>8, <2>1 DEF Scanned, Over
<1>9. CASE /\ \A b \in Buckets : b < ctl.from => tram_hold[d][b] = {}
           /\ ~(SelUnit * updates_in_tram'[d] < release_level)
  <2>1. ctl'.from = i
    BY <1>5, <1>9 DEF NextFrom
  <2>2. \A b \in Buckets : b < i => tram_hold[d][b] = {}
    BY <1>2, <1>3, <1>9 DEF IsNext
  <2>3. \A b \in Buckets : b < i => tram_hold'[d][b] = {}
    BY <1>6, <2>2
  <2>. QED BY <1>5, <2>1, <2>3 DEF Scanned
<1>. QED BY <1>1, <1>7, <1>8, <1>9 DEF Scanned

\* What is done when insertBucketsByDest returns.
LEMMA ScanDone ==
  ASSUME RInv, InsertBucketsDone
  PROVE  ctl.dest \in Settled
<1>1. TypeOK /\ Scanned /\ LevelFresh /\ ctl.dest \in Dests
  BY AtDest DEF RInv, IInv
<1>2. CASE ~Over(updates_in_tram[ctl.dest], release_level)
  BY <1>1, <1>2 DEF Settled, LevelFresh
<1>3. CASE \A b \in Buckets : b < ctl.from => tram_hold[ctl.dest][b] = {}
  <2>1. ctl.from \in Nat /\ Buckets \subseteq Nat
    BY <1>1, AtDest DEF Buckets
  <2>2. \A b \in Buckets : Admitted(b) => tram_hold[ctl.dest][b] = {}
    BY <1>3, <2>1 DEF InsertBucketsDone
  <2>3. AdmittedHeld(ctl.dest) = {}
    BY <2>2 DEF AdmittedHeld, HeldIn, Admitted
  <2>. QED BY <1>1, <2>3 DEF Settled
<1>. QED BY <1>1, <1>2, <1>3 DEF Scanned, InsertBucketsDone

\* The steps of a handler keep track of what is released.
LEMMA HandlerReleases ==
  ASSUME RInv, HandlerStep
  PROVE  LevelFresh' /\ Scanned' /\ Released'
<1>0. /\ IInv /\ TypeOK /\ CtlShape /\ LevelFresh /\ Scanned /\ Released
      /\ Settled \subseteq Settled'
  BY SettledStays DEF RInv, IInv
<1>1. /\ ctl.dest \in Dests /\ ctl.dest \in Nat /\ NumDest \in Nat
      /\ 0 \in Dests
      /\ \A d \in Dests : d \in Nat /\ d < NumDest
      /\ ctl \in Ctl
  BY <1>0, AtDest DEF TypeOK
<1>2. LevelFresh'
  BY <1>0, <1>1, StepShrinks DEF LevelFresh, knobs
<1>3. CASE InsertBucketsTake
  <2>1. ctl'.at = ctl.at /\ ctl'.dest = ctl.dest /\ ctl'.back = ctl.back
    BY <1>1, <1>3 DEF InsertBucketsTake, Ctl
  <2>. QED BY <1>0, <1>2, <1>3, <2>1, ScanStep DEF Released, Unreleased
<1>4. CASE InsertBucketsDone
  <2>1. ctl.dest \in Settled'
    BY <1>0, <1>1, <1>4, ScanDone
  <2>2. ctl.at = "insertBuckets"
    BY <1>4 DEF InsertBucketsDone
  <2>3. CASE ctl.back = "idle"
    <3>1. ctl' = Idle
      BY <1>4, <2>3 DEF InsertBucketsDone, Return
    <3>. QED BY <1>0, <1>2, <2>1, <2>2, <2>3, <3>1
             DEF Released, Unreleased, Scanned, Idle, At
  <2>4. CASE ctl.back \in {"release", "resize"}
    <3>1. ctl' = Loop(ctl.back, ctl.dest + 1)
      BY <1>4, <2>4 DEF InsertBucketsDone, Return
    <3>2. Scanned'
      BY <2>4, <3>1 DEF Scanned, Loop, Idle, At
    <3>3. ASSUME NEW d \in Dests, d # ctl.dest, d \notin Settled'
          PROVE  d \in Unreleased'
      <4>1. ctl.dest < d
        BY <1>0, <2>2, <3>3 DEF Released, Unreleased
      <4>. QED BY <1>1, <2>4, <3>1, <4>1 DEF Unreleased, Loop, At
    <3>. QED BY <1>2, <2>1, <3>2, <3>3 DEF Released
  <2>. QED BY <1>0, <2>2, <2>3, <2>4 DEF CtlShape
<1>5. CASE ReleaseStep \/ ResizeStep
  <2>1. ctl.at \in {"release", "resize"} /\ ctl.back = "idle"
    BY <1>0, <1>5 DEF ReleaseStep, ResizeStep, CtlShape
  <2>2. CASE \E back \in {"release", "resize"} :
               ctl' = InsertBucketsByDest(ctl.dest, back)
    <3>1. ctl'.at = "insertBuckets" /\ ctl'.dest = ctl.dest /\ ctl'.from = 0
          /\ ctl'.back # "idle"
      BY <2>2 DEF InsertBucketsByDest, At
    <3>2. Scanned'
      BY <3>1 DEF Scanned, Buckets
    <3>3. ASSUME NEW d \in Dests, d \notin Settled' PROVE d \in Unreleased'
      BY <1>0, <1>1, <2>1, <3>1, <3>3 DEF Released, Unreleased
    <3>. QED BY <1>2, <3>2, <3>3 DEF Released
  <2>3. CASE /\ \E loop \in {"release", "resize"} : ctl' = Loop(loop, ctl.dest + 1)
             /\ ~Over(updates_in_tram'[ctl.dest], release_level)
    <3>1. Scanned'
      BY <2>3 DEF Scanned, Loop, Idle, At
    <3>2. ctl.dest \in Settled'
      <4>1. bufSize' = bufSize /\ selectivity' = selectivity
        BY <1>0, <1>1, StepShrinks DEF knobs
      <4>. QED BY <1>0, <1>1, <2>3, <4>1 DEF Settled, LevelFresh, Over
    <3>3. ASSUME NEW d \in Dests, d # ctl.dest, d \notin Settled'
          PROVE  d \in Unreleased'
      <4>1. ctl.dest < d
        BY <1>0, <1>1, <2>1, <3>3 DEF Released, Unreleased
      <4>. QED BY <1>1, <2>3, <4>1 DEF Unreleased, Loop, At
    <3>. QED BY <1>2, <3>1, <3>2, <3>3 DEF Released
  <2>4. CASE ReleaseStep
    <3>1. updates_in_tram' = updates_in_tram
      BY <2>4 DEF ReleaseStep, traffic
    <3>. QED BY <1>0, <2>2, <2>3, <2>4, <3>1 DEF ReleaseStep, LevelFresh
  <2>5. CASE ResizeStep
    BY <2>2, <2>3, <2>5 DEF ResizeStep
  <2>. QED BY <1>5, <2>4, <2>5
<1>6. ASSUME ctl.at \notin {"insertBuckets", "release", "resize"},
             ctl'.at \notin {"insertBuckets", "release", "resize"}
      PROVE  Scanned' /\ Released'
  <2>1. Dests \subseteq Settled'
    BY <1>0, <1>6 DEF Released, Unreleased
  <2>. QED BY <1>6, <2>1 DEF Released, Scanned
<1>7. CASE EmptyTake \/ PartialStep \/ EmptyDone \/ TFlush \/ FlushStale \/ FlushIdle
  <2>1. ctl.at = "empty" \/ ctl.at = "partial" \/ ctl = Idle
    BY <1>7 DEF EmptyTake, PartialStep, EmptyDone, TFlush, FlushStale, FlushIdle
  <2>2. \/ ctl' = ctl
        \/ ctl'.at = "partial" \/ ctl'.at = "empty" \/ ctl'.at = "pad"
        \/ \E loop \in {"stale", "flushIdle"} : ctl' = Loop(loop, 0)
    <3>1. CASE EmptyTake \/ FlushStale \/ FlushIdle
      BY <3>1 DEF EmptyTake, FlushStale, FlushIdle
    <3>4. CASE TFlush
      BY <3>4 DEF TFlush, At
    <3>2. CASE PartialStep
      <4>1. ctl' \in {At("partial", ctl.dest + 1, "tflush"), At("empty", 0, "tflush")}
        BY <3>2 DEF PartialStep
      <4>. QED BY <4>1 DEF At
    <3>3. CASE EmptyDone
      <4>1. ctl' \in {At("pad", ctl.dest, ctl.back),
                      At("empty", ctl.dest + 1, "tflush"), At("pad", 0, "tflush")}
        BY <3>3 DEF EmptyDone
      <4>. QED BY <4>1 DEF At
    <3>. QED BY <1>7, <3>1, <3>2, <3>3, <3>4
  <2>3. /\ ctl.at \notin {"insertBuckets", "release", "resize"}
        /\ ctl'.at \notin {"insertBuckets", "release", "resize"}
    BY <2>1, <2>2 DEF Loop, Idle, At
  <2>. QED BY <1>2, <1>6, <2>3
<1>8. CASE PadStep \/ StaleStep \/ IdleStep
  <2>1. ctl.at \in {"pad", "stale", "flushIdle"}
    BY <1>8 DEF PadStep, StaleStep, IdleStep
  <2>2. /\ ctl.at \notin {"insertBuckets", "release", "resize"}
        /\ ctl'.at \notin {"insertBuckets", "release", "resize"}
    BY <1>0, <1>8, <2>1 DEF PadStep, StaleStep, IdleStep, Return, Loop, Idle, At,
                            FlushDest, CtlShape
  <2>. QED BY <1>2, <1>6, <2>2
<1>. QED BY <1>3, <1>4, <1>5, <1>7, <1>8 DEF HandlerStep, Step, Flush

\* So does the client: a knob sends its loop past every destination, and a
\* send calls insertBucketsByDest when it leaves a count too high.
LEMMA ClientReleases ==
  ASSUME RInv, Client
  PROVE  LevelFresh' /\ Scanned' /\ Released'
<1>0. IInv /\ TypeOK /\ CtlShape /\ LevelFresh /\ Scanned /\ Released
  BY DEF RInv, IInv
<1>1. CASE Knob
  <2>1. /\ ctl' \in {Loop("release", 0), Loop("resize", 0)}
        /\ LevelFresh'
    BY <1>0, <1>1 DEF Knob, ChangeThreshold, CoarsenBuckets, SetBufferSize,
                      LevelFresh, knobs
  <2>2. ctl'.at \in {"release", "resize"} /\ ctl'.dest = 0
    BY <2>1, ConstantsAssumption DEF Loop, At, ConstantsAssumption
  <2>3. \A d \in Dests : 0 <= d
    BY DEF Dests
  <2>4. Released'
    BY <2>2, <2>3 DEF Released, Unreleased
  <2>. QED BY <2>1, <2>2, <2>4 DEF Scanned
<1>2. CASE Flush
  BY <1>2, HandlerReleases DEF HandlerStep
<1>3. ASSUME NEW d \in Dests, NEW b \in Buckets, NEW x \in Items, SendItem(d, b, x)
      PROVE  LevelFresh' /\ Scanned' /\ Released'
  <2>1. /\ UNCHANGED <<bufSize, selectivity, release_level, tram_threshold>>
        /\ tram_hold \in [Dests -> [Buckets -> SUBSET Items]]
        /\ updates_in_tram \in [Dests -> Int]
        /\ ctl = Idle
    BY <1>0, <1>3 DEF SendItem, knobs, TypeOK
  <2>2. LevelFresh'
    BY <1>0, <2>1 DEF LevelFresh
  <2>3. Dests \subseteq Settled
    BY <1>0, <2>1 DEF Released, Unreleased, Idle, At
  <2>4. ASSUME NEW e \in Dests, e # d PROVE e \in Settled'
    <3>1. updates_in_tram'[e] = updates_in_tram[e]
      BY <1>3, <2>1, <2>4 DEF SendItem, Fill
    <3>2. tram_hold'[e] = tram_hold[e]
      BY <1>3, <2>1, <2>4 DEF SendItem, HoldPush
    <3>3. AdmittedHeld(e)' = AdmittedHeld(e)
      BY <2>1, <3>2 DEF AdmittedHeld, HeldIn
    <3>4. Over(updates_in_tram[e], selectivity * bufSize) => AdmittedHeld(e) = {}
      BY <2>3 DEF Settled
    <3>. QED BY <2>1, <3>1, <3>3, <3>4 DEF Settled, Over
  <2>5. CASE Over(updates_in_tram'[d], release_level)
    <3>1. ctl' = InsertBucketsByDest(d, "idle")
      BY <1>3, <2>5 DEF SendItem
    <3>2. d \in Unreleased' /\ ctl'.from = 0
      BY <3>1 DEF Unreleased, InsertBucketsByDest, At
    <3>3. Scanned'
      BY <3>2 DEF Scanned, Buckets
    <3>. QED BY <2>2, <2>4, <3>2, <3>3 DEF Released
  <2>6. CASE ~Over(updates_in_tram'[d], release_level)
    <3>1. ctl' = Idle
      BY <1>3, <2>6 DEF SendItem
    <3>2. d \in Settled'
      BY <1>0, <2>1, <2>6 DEF Settled, LevelFresh, Over
    <3>3. Scanned'
      BY <3>1 DEF Scanned, Idle, At
    <3>. QED BY <2>2, <2>4, <3>2, <3>3 DEF Released
  <2>. QED BY <2>5, <2>6
<1>. QED BY <1>0, <1>1, <1>2, <1>3 DEF Client

LEMMA RInvariance == Spec => []RInv
<1>1. Init => RInv
  <2>. SUFFICES ASSUME Init PROVE RInv
    OBVIOUS
  <2>1. IInv /\ CtlShape /\ LevelFresh /\ Scanned
    BY InitIInv DEF Init, CtlShape, LevelFresh, Scanned, Idle, At
  <2>2. \A d \in Dests : AdmittedHeld(d) = {}
    BY DEF Init, AdmittedHeld, HeldIn
  <2>. QED BY <2>1, <2>2 DEF RInv, Released, Settled
<1>2. RInv /\ [Next]_vars => RInv'
  <2>. SUFFICES ASSUME RInv, [Next]_vars PROVE RInv'
    OBVIOUS
  <2>1. IInv' /\ CtlShape'
    BY NextIInv, ShapeStep DEF RInv, IInv
  <2>2. CASE Next
    BY <2>1, <2>2, HandlerReleases, ClientReleases DEF RInv, Next, HandlerStep
  <2>3. CASE UNCHANGED vars
    BY <2>1, <2>3 DEF RInv, LevelFresh, Scanned, Released, Settled, Unreleased,
                      AdmittedHeld, HeldIn, Over, vars, traffic, knobs
  <2>. QED BY <2>2, <2>3
<1>. QED BY <1>1, <1>2, PTL DEF Spec

\* When a handler returns, no destination keeps admitted items back while its
\* count asks for a release: for every sequence of knob changes, whatever a
\* destination's buffer and hold were when the knob reached it.
THEOREM KnobsReleaseAll == Spec => []NoBacklog
<1>1. RInv => NoBacklog
  BY DEF RInv, Released, Settled, Unreleased, NoBacklog, Idle, At
<1>. QED BY <1>1, RInvariance, PTL

(***************************************************************************)
(* Complete flushes.                                                       *)
(***************************************************************************)
Emptied == {d \in Dests : AdmittedHeld(d) = {}}
Flushed == {d \in Emptied : Filled(d) = 0}
Before(d) == {e \in Dests : e < d}

\* How far flushIdle and tflush are.  tflush goes through the destinations
\* three times: the last two loops empty the holds and then the buffers.
FlushProgress ==
  /\ ctl.at = "pad" => ctl.dest \in Emptied
  /\ ctl.at = "flushIdle" \/ ctl.back = "flushIdle"
       => Before(ctl.dest) \subseteq Flushed
  /\ ctl.at = "empty" /\ ctl.back = "tflush" => Before(ctl.dest) \subseteq Emptied
  /\ ctl.at = "pad" /\ ctl.back = "tflush"
       => Dests \subseteq Emptied /\ Before(ctl.dest) \subseteq Flushed

FInv == IInv /\ CtlShape /\ FlushProgress

\* What a handler has flushed stays so while it works on another destination.
LEMMA FlushedStays ==
  ASSUME TypeOK, HandlerStep
  PROVE  /\ Emptied \subseteq Emptied'
         /\ Flushed \ {ctl.dest} \subseteq Flushed'
<1>1. ASSUME NEW d \in Emptied PROVE d \in Emptied'
  <2>1. d \in Dests /\ AdmittedHeld(d) = {}
    BY DEF Emptied
  <2>2. AdmittedHeld(d)' \subseteq AdmittedHeld(d)
    BY <2>1, StepShrinks
  <2>. QED BY <2>1, <2>2 DEF Emptied
<1>2. ASSUME NEW d \in Flushed, d # ctl.dest PROVE d \in Flushed'
  <2>1. d \in Emptied /\ d \in Dests /\ Filled(d) = 0
    BY DEF Flushed, Emptied
  <2>2. msgBuffers'[d] = msgBuffers[d]
    BY <1>2, <2>1, StepShrinks
  <2>. QED BY <1>1, <2>1, <2>2 DEF Flushed, Filled
<1>. QED BY <1>1, <1>2

\* A destination without work is flushed: its count is not too low.
LEMMA IdleIsFlushed ==
  ASSUME IInv, NEW d \in Dests, ~HasWork(d)
  PROVE  d \in Flushed
<1>1. TypeOK /\ CounterCovers
  BY DEF IInv
<1>2. IsFiniteSet(AdmittedHeld(d)) /\ Cardinality(AdmittedHeld(d)) \in Nat
  BY <1>1, ItemSets, HeldInType DEF AdmittedHeld
<1>3. updates_in_tram[d] \in Int /\ Filled(d) \in Nat
  BY <1>1, FilledType DEF TypeOK
<1>4. updates_in_tram[d] - (Filled(d) + Cardinality(AdmittedHeld(d))) >= 0
  BY <1>1 DEF CounterCovers, Drift
<1>5. Filled(d) = 0 /\ ~(updates_in_tram[d] > 0)
  BY DEF HasWork
<1>6. Cardinality(AdmittedHeld(d)) = 0
  BY <1>2, <1>3, <1>4, <1>5
<1>. QED BY <1>2, <1>5, <1>6, FS_EmptySet DEF Flushed, Emptied

\* The two ends of the loops.
LEMMA EmptyDoneEmpties ==
  ASSUME TypeOK, EmptyDone
  PROVE  ctl.dest \in Emptied
<1>1. AdmittedHeld(ctl.dest) = {}
  BY DEF EmptyDone, AdmittedHeld, HeldIn, Admitted
<1>. QED BY <1>1, AtDest DEF Emptied

LEMMA PadStepFlushes ==
  ASSUME TypeOK, PadStep, ctl.dest \in Emptied
  PROVE  ctl.dest \in Flushed'
<1>1. ctl.dest \in Dests /\ ctl.dest \in Emptied'
  BY AtDest, FlushedStays DEF HandlerStep, Step
<1>2. \/ Filled(ctl.dest) = 0 /\ UNCHANGED msgBuffers
      \/ \E F : F \subseteq HeldAbove(ctl.dest) /\ SendBuffer(ctl.dest, F)
  BY DEF PadStep, Fillers
<1>3. HeldAbove(ctl.dest) \subseteq Items
  BY <1>1, HeldInType DEF HeldAbove
<1>4. msgBuffers'[ctl.dest].items = {} \/ (Filled(ctl.dest) = 0 /\ UNCHANGED msgBuffers)
  BY <1>1, <1>2, <1>3, SendStep
<1>5. Cardinality(msgBuffers'[ctl.dest].items) = 0
  BY <1>4, EmptyItems DEF Filled
<1>. QED BY <1>1, <1>5 DEF Flushed, Filled

LEMMA BeforeFacts ==
  ASSUME NEW d \in Dests
  PROVE  /\ d \in Nat
         /\ Before(0) = {} /\ d \notin Before(d)
         /\ Before(d + 1) = Before(d) \cup {d}
         /\ d + 1 < NumDest \/ Dests = Before(d) \cup {d}
<1>1. NumDest \in Nat /\ Dests \subseteq Nat
  BY ConstantsAssumption DEF Dests, ConstantsAssumption
<1>2. /\ \A e : e \in Dests <=> e \in Nat /\ e < NumDest
      /\ \A e : e \in Before(d) <=> e \in Dests /\ e < d
      /\ \A e : e \in Before(d + 1) <=> e \in Dests /\ e < d + 1
      /\ \A e : e \in Before(0) <=> e \in Dests /\ e < 0
  BY <1>1 DEF Before, Dests
<1>3. d \in Nat /\ d \notin Before(d)
  BY <1>2
<1>4. Before(0) = {}
  BY <1>2
<1>5. Before(d + 1) = Before(d) \cup {d}
  <2>1. \A e : e \in Before(d + 1) <=> e \in Before(d) \/ e = d
    BY <1>2, <1>3
  <2>. QED BY <2>1
<1>6. d + 1 < NumDest \/ Dests = Before(d) \cup {d}
  <2>. SUFFICES ASSUME ~(d + 1 < NumDest) PROVE Dests = Before(d) \cup {d}
    OBVIOUS
  <2>1. \A e : e \in Dests <=> e \in Before(d) \/ e = d
    BY <1>1, <1>2, <1>3
  <2>. QED BY <2>1
<1>. QED BY <1>3, <1>4, <1>5, <1>6

\* Every step of a flush keeps its progress, and the last one completes it.
LEMMA FlushSteps ==
  ASSUME FInv, HandlerStep
  PROVE  /\ FlushProgress'
         /\ Flushing /\ ctl' = Idle => Dests \subseteq Flushed'
<1>. DEFINE d == ctl.dest
            Goal == /\ FlushProgress'
                    /\ Flushing /\ ctl' = Idle => Dests \subseteq Flushed'
<1>0. /\ IInv /\ TypeOK /\ CtlShape /\ FlushProgress /\ ctl \in Ctl
      /\ d \in Dests /\ d \in Nat /\ 0 \in Dests
      /\ Emptied \subseteq Emptied' /\ Flushed \ {d} \subseteq Flushed'
      /\ Before(0) = {} /\ d \notin Before(d)
      /\ Before(d + 1) = Before(d) \cup {d}
      /\ d + 1 < NumDest \/ Dests = Before(d) \cup {d}
  BY AtDest, FlushedStays, BeforeFacts DEF FInv, IInv, TypeOK
<1>1. ASSUME NEW loop, loop # "flushIdle", loop # "pad",
             ctl' = Loop(loop, d + 1), ~Flushing
      PROVE  Goal
  BY <1>1 DEF FlushProgress, Loop, Idle, At
<1>2. CASE TFlush \/ FlushStale \/ FlushIdle
  <2>1. ctl' \in {At("partial", 0, "tflush"), Loop("stale", 0), Loop("flushIdle", 0)}
          /\ ctl = Idle
    BY <1>2 DEF TFlush, FlushStale, FlushIdle
  <2>2. ~Flushing
    BY <2>1 DEF Flushing, Idle, At
  <2>. QED BY <1>0, <2>1, <2>2 DEF FlushProgress, Loop, Idle, At
<1>3. CASE InsertBucketsTake
  <2>1. ctl'.at = "insertBuckets" /\ ctl'.back \in {"idle", "release", "resize"}
    BY <1>0, <1>3 DEF InsertBucketsTake, CtlShape, Ctl
  <2>. QED BY <2>1 DEF FlushProgress, Idle, At
<1>4. CASE InsertBucketsDone
  <2>1. ~Flushing
    BY <1>0, <1>4 DEF InsertBucketsDone, CtlShape, Flushing
  <2>2. ctl' \in {Idle, Loop("release", d + 1), Loop("resize", d + 1)}
    BY <1>0, <1>4 DEF InsertBucketsDone, CtlShape, Return
  <2>. QED BY <2>1, <2>2 DEF FlushProgress, Loop, Idle, At
<1>5. CASE ReleaseStep \/ ResizeStep
  <2>1. ~Flushing
    BY <1>0, <1>5 DEF ReleaseStep, ResizeStep, CtlShape, Flushing
  <2>2. ctl' \in {InsertBucketsByDest(d, "release"), InsertBucketsByDest(d, "resize"),
                  Loop("release", d + 1), Loop("resize", d + 1)}
    BY <1>5 DEF ReleaseStep, ResizeStep
  <2>. QED BY <2>1, <2>2 DEF FlushProgress, Loop, Idle, At, InsertBucketsByDest
<1>6. CASE StaleStep
  <2>1. ~Flushing
    BY <1>0, <1>6 DEF StaleStep, CtlShape, Flushing
  <2>2. ctl' \in {At("empty", d, "stale"), Loop("stale", d + 1)}
    BY <1>6 DEF StaleStep, FlushDest
  <2>. QED BY <2>1, <2>2 DEF FlushProgress, Loop, Idle, At
<1>7. CASE PartialStep
  <2>1. ctl' \in {At("partial", d + 1, "tflush"), At("empty", 0, "tflush")}
    BY <1>7 DEF PartialStep
  <2>. QED BY <1>0, <2>1 DEF FlushProgress, Idle, At
<1>8. CASE EmptyTake
  <2>1. ctl' = ctl /\ ctl.at = "empty"
    BY <1>8 DEF EmptyTake
  <2>2. Before(d) \subseteq Flushed => Before(d) \subseteq Flushed'
    BY <1>0
  <2>3. FlushProgress'
    BY <1>0, <2>1, <2>2 DEF FlushProgress
  <2>. QED BY <2>1, <2>3 DEF Idle, At
<1>9. CASE EmptyDone
  <2>1. d \in Emptied' /\ ctl.at = "empty"
    BY <1>0, <1>9, EmptyDoneEmpties DEF EmptyDone
  <2>2. CASE ctl.back # "tflush"
    <3>1. ctl' = At("pad", d, ctl.back)
      BY <1>9, <2>2 DEF EmptyDone
    <3>2. Before(d) \subseteq Flushed => Before(d) \subseteq Flushed'
      BY <1>0
    <3>. QED BY <1>0, <2>1, <2>2, <3>1, <3>2 DEF FlushProgress, Idle, At
  <2>3. CASE ctl.back = "tflush" /\ d + 1 < NumDest
    <3>1. ctl' = At("empty", d + 1, "tflush")
      BY <1>9, <2>3 DEF EmptyDone
    <3>2. Before(d + 1) \subseteq Emptied'
      BY <1>0, <2>1, <2>3 DEF FlushProgress
    <3>. QED BY <3>1, <3>2 DEF FlushProgress, Idle, At
  <2>4. CASE ctl.back = "tflush" /\ ~(d + 1 < NumDest)
    <3>1. ctl' = At("pad", 0, "tflush")
      BY <1>9, <2>4 DEF EmptyDone
    <3>2. Dests \subseteq Emptied'
      BY <1>0, <2>1, <2>4 DEF FlushProgress
    <3>. QED BY <1>0, <3>1, <3>2 DEF FlushProgress, Idle, At
  <2>. QED BY <2>2, <2>3, <2>4
<1>10. CASE PadStep
  <2>1. d \in Flushed' /\ ctl.at = "pad"
          /\ ctl.back \in {"tflush", "stale", "flushIdle"}
    BY <1>0, <1>10, PadStepFlushes DEF PadStep, CtlShape, FlushProgress
  <2>2. Before(d) \subseteq Flushed => Before(d + 1) \subseteq Flushed'
    BY <1>0, <2>1
  <2>3. CASE ctl.back = "stale"
    <3>1. ctl' = Loop("stale", d + 1) /\ ~Flushing
      BY <1>10, <2>1, <2>3 DEF PadStep, Return, Flushing
    <3>. QED BY <1>1, <3>1
  <2>4. CASE ctl.back = "flushIdle"
    <3>1. ctl' = Loop("flushIdle", d + 1) /\ Before(d + 1) \subseteq Flushed'
      BY <1>0, <1>10, <2>2, <2>4 DEF PadStep, Return, FlushProgress
    <3>. QED BY <1>0, <3>1 DEF FlushProgress, Loop, Idle, At
  <2>5. CASE ctl.back = "tflush"
    <3>1. Before(d + 1) \subseteq Flushed' /\ Dests \subseteq Emptied'
      BY <1>0, <2>1, <2>2, <2>5 DEF FlushProgress
    <3>2. CASE d + 1 < NumDest
      <4>1. ctl' = At("pad", d + 1, "tflush")
        BY <1>10, <2>5, <3>2 DEF PadStep
      <4>2. d + 1 \in Dests
        BY <1>0, <3>2, AtDest
      <4>. QED BY <3>1, <4>1, <4>2 DEF FlushProgress, Idle, At
    <3>3. CASE ~(d + 1 < NumDest)
      <4>1. ctl' = Idle
        BY <1>10, <2>5, <3>3 DEF PadStep
      <4>. QED BY <1>0, <3>1, <3>3, <4>1 DEF FlushProgress, Idle, At
    <3>. QED BY <3>2, <3>3
  <2>. QED BY <2>1, <2>3, <2>4, <2>5
<1>11. CASE IdleStep
  <2>1. ctl.at = "flushIdle" /\ Before(d) \subseteq Flushed /\ Before(d) \subseteq Flushed'
    BY <1>0, <1>11 DEF IdleStep, FlushProgress
  <2>2. CASE HasWork(d)
    <3>1. ctl' = At("empty", d, "flushIdle")
      BY <1>11, <2>2 DEF IdleStep, FlushDest
    <3>. QED BY <2>1, <3>1 DEF FlushProgress, Idle, At
  <2>3. CASE ~HasWork(d)
    <3>1. ctl' = Loop("flushIdle", d + 1)
      BY <1>11, <2>3 DEF IdleStep
    <3>2. d \in Flushed
      BY <1>0, <2>3, IdleIsFlushed
    <3>3. d \in Flushed'
      <4>1. UNCHANGED <<tram_hold, msgBuffers, tram_threshold>>
        BY <1>11 DEF IdleStep, traffic, knobs
      <4>. QED BY <3>2, <4>1 DEF Flushed, Emptied, AdmittedHeld, HeldIn, Filled
    <3>4. Before(d + 1) \subseteq Flushed'
      BY <1>0, <2>1, <3>3
    <3>. QED BY <1>0, <3>1, <3>4 DEF FlushProgress, Loop, Idle, At
  <2>. QED BY <2>2, <2>3
<1>. QED BY <1>2, <1>3, <1>4, <1>5, <1>6, <1>7, <1>8, <1>9, <1>10, <1>11
         DEF HandlerStep, Step, Flush

LEMMA FInvariance == Spec => []FInv
<1>1. Init => FInv
  BY InitIInv DEF Init, FInv, CtlShape, FlushProgress, Idle, At
<1>2. FInv /\ [Next]_vars => FInv'
  <2>. SUFFICES ASSUME FInv, [Next]_vars PROVE FInv'
    OBVIOUS
  <2>1. IInv' /\ CtlShape'
    BY NextIInv, ShapeStep DEF FInv, IInv
  <2>2. CASE HandlerStep
    BY <2>1, <2>2, FlushSteps DEF FInv
  <2>3. CASE Knob \/ \E d \in Dests, b \in Buckets, x \in Items : SendItem(d, b, x)
    <3>1. \/ ctl' \in {Idle, Loop("release", 0), Loop("resize", 0)}
          \/ \E d : ctl' = InsertBucketsByDest(d, "idle")
      BY <2>3 DEF Knob, ChangeThreshold, CoarsenBuckets, SetBufferSize, SendItem
    <3>2. FlushProgress'
      BY <3>1 DEF FlushProgress, Loop, Idle, At, InsertBucketsByDest
    <3>. QED BY <2>1, <3>2 DEF FInv
  <2>4. CASE UNCHANGED vars
    BY <2>1, <2>4 DEF FInv, FlushProgress, Emptied, Flushed, Before, AdmittedHeld,
                      HeldIn, Filled, vars, traffic, knobs
  <2>. QED BY <2>2, <2>3, <2>4 DEF Next, Client, HandlerStep
<1>. QED BY <1>1, <1>2, PTL DEF Spec

\* When tflush() or flushIdle() returns, nothing admitted is left on this PE,
\* held or buffered, for any number of destinations: flushIdle may trust the
\* counter because it is never below what is there.
THEOREM FlushesComplete == Spec => FlushComplete
<1>1. ASSUME FInv, Next, Flushing, ctl' = Idle
      PROVE  \A d \in Dests : Filled(d)' = 0 /\ AdmittedHeld(d)' = {}
  <2>1. ctl # Idle
    BY <1>1 DEF Flushing, Idle, At
  <2>2. HandlerStep
    BY <1>1, <2>1 DEF Next, Client, Knob, HandlerStep, SendItem, ChangeThreshold,
                      CoarsenBuckets, SetBufferSize
  <2>3. Dests \subseteq Flushed'
    BY <1>1, <2>2, FlushSteps
  <2>. QED BY <2>3 DEF Flushed, Emptied
<1>2. FInv /\ [Next]_vars =>
        [Flushing /\ ctl' = Idle =>
           \A d \in Dests : Filled(d)' = 0 /\ AdmittedHeld(d)' = {}]_vars
  BY <1>1
<1>. QED BY <1>2, FInvariance, PTL DEF Spec, FlushComplete

(***************************************************************************)
(* HTramPrio implements TramService: every item the client hands over      *)
(* stays pending for its destination until it leaves in exactly one        *)
(* message.  An abstract pending item is one in the hold or in the buffer, *)
(* so moving an item between the two is a stutter, and only a send of a    *)
(* buffer and the arrival of a new item are abstract steps.                *)
(***************************************************************************)

heldBar == [d \in Dests |-> UNION {tram_hold[d][b] : b \in Buckets}]
pendingBar == [d \in Dests |-> Pending(d)]

(***************************************************************************)
(* Where an item is.                                                       *)
(***************************************************************************)

\* The items held for a destination are those of all its buckets.
LEMMA HeldIsAll ==
  ASSUME NEW d \in Dests
  PROVE  Held(d) = UNION {tram_hold[d][b] : b \in Buckets}
<1>1. {c \in Buckets : -1 < c /\ c <= NumBuckets - 1} = Buckets
  BY ConstantsAssumption DEF Buckets, ConstantsAssumption
<1>. QED BY <1>1 DEF Held, HeldIn

\* The abstract pending items are in the hold or in the buffer.
LEMMA PendingIs ==
  \A d \in Dests : pendingBar[d] = heldBar[d] \cup msgBuffers[d].items
BY HeldIsAll DEF pendingBar, heldBar, Pending

LEMMA PendingIsPrime ==
  \A d \in Dests : pendingBar'[d] = heldBar'[d] \cup msgBuffers'[d].items
<1>1. (\A d \in Dests : pendingBar[d] = heldBar[d] \cup msgBuffers[d].items)'
  BY PendingIs, PTL
<1>. QED BY <1>1

\* An item in the hold is not in the buffer as well.
LEMMA HeldNotFilled ==
  ASSUME IInv, NEW d \in Dests
  PROVE  /\ heldBar[d] \cap msgBuffers[d].items = {}
         /\ heldBar[d] \subseteq Items
         /\ msgBuffers[d].items \subseteq Items
<1>1. \A b \in Buckets : /\ tram_hold[d][b] \cap msgBuffers[d].items = {}
                         /\ tram_hold[d][b] \subseteq Items
  BY DEF IInv, HeldOnce, TypeOK
<1>. QED BY <1>1, FilledType DEF IInv, heldBar

\* A fill site either appends the item to the buffer or sends both.
LEMMA FillSends ==
  ASSUME IInv, NEW d \in Dests, NEW x \in Items,
         x \notin msgBuffers[d].items, ~NotResized(d),
         NEW added, NEW note, Fill(d, x, added, note)
  PROVE  /\ \A e \in Dests \ {d} : msgBuffers'[e].items = msgBuffers[e].items
         /\ \/ /\ msgBuffers'[d].items = msgBuffers[d].items \cup {x}
               /\ sent' = sent
            \/ /\ msgBuffers'[d].items = {}
               /\ sent' = sent \cup
                    {[dest |-> d, items |-> msgBuffers[d].items \cup {x}]}
               /\ msgBuffers[d].items \cup {x} \in SUBSET Items
               /\ Cardinality(msgBuffers[d].items \cup {x}) <= BUFSIZE
<1>1. /\ msgBuffers \in [Dests -> [items : SUBSET Items, cap : 1 .. BUFSIZE]]
      /\ bufSize \in 1 .. BUFSIZE
      /\ BUFSIZE \in Nat
      /\ msgBuffers[d].items \subseteq Items
      /\ Filled(d) = Cardinality(msgBuffers[d].items)
  BY FilledType, ConstantsAssumption DEF IInv, TypeOK, ConstantsAssumption
<1>2. Cardinality(msgBuffers[d].items \cup {x}) = Filled(d) + 1
  BY <1>1, AddItem
<1>3. CASE Filled(d) + 1 # bufSize
  BY <1>1, <1>3 DEF Fill
<1>4. CASE Filled(d) + 1 = bufSize
  <2>1. /\ msgBuffers' = [msgBuffers EXCEPT ![d] = NewMessage(bufSize)]
        /\ sent' = sent \cup
             {[dest |-> d, items |-> msgBuffers[d].items \cup {x}]}
    BY <1>4 DEF Fill, SendBuffer
  <2>2. /\ msgBuffers'[d].items = {}
        /\ \A e \in Dests \ {d} : msgBuffers'[e].items = msgBuffers[e].items
    BY <1>1, <2>1 DEF NewMessage
  <2>. QED BY <1>1, <1>2, <1>4, <2>1, <2>2
<1>. QED BY <1>3, <1>4

(***************************************************************************)
(* The three kinds of abstract step.                                       *)
(***************************************************************************)

\* What the abstract operators are, in the terms of HTramPrio.
LEMMA AbstractDefs ==
  /\ Service!Accepted = Known
  /\ Service!vars = <<pendingBar, sent>>
  /\ \A d \in Dests : pendingBar[d] = Pending(d)
<1>1. \A d \in Dests : pendingBar[d] = Pending(d)
  BY DEF pendingBar
<1>2. Service!vars = <<pendingBar, sent>>
  BY DEF Service!vars, pendingBar
<1>3. Service!Accepted = (UNION {pendingBar[d] : d \in Dests}) \cup SentItems
  BY DEF Service!Accepted, pendingBar, SentItems
<1>4. {pendingBar[d] : d \in Dests} = {Pending(d) : d \in Dests}
  BY <1>1
<1>5. Service!Accepted = Known
  BY <1>3, <1>4 DEF Known
<1>. QED BY <1>1, <1>2, <1>5

\* Nothing of what TramService sees changes.
LEMMA Stutters ==
  ASSUME \A e \in Dests : pendingBar'[e] = pendingBar[e], sent' = sent
  PROVE  UNCHANGED Service!vars
<1>1. pendingBar' = pendingBar
  BY DEF pendingBar
<1>. QED BY <1>1 DEF Service!vars, pendingBar

\* A new item is pending for d.
LEMMA Accepts ==
  ASSUME NEW d \in Dests, NEW x \in Items, x \notin Known,
         pendingBar'[d] = pendingBar[d] \cup {x},
         \A e \in Dests \ {d} : pendingBar'[e] = pendingBar[e], sent' = sent
  PROVE  Service!Next
<1>1. pendingBar' = [pendingBar EXCEPT ![d] = @ \cup {x}]
  BY DEF pendingBar
<1>2. Service!Accept(d, x)
  BY <1>1, AbstractDefs DEF Service!Accept, pendingBar
<1>. QED BY <1>2 DEF Service!Next

\* A batch S leaves for d, with what is handed over by the same call.
LEMMA Ships ==
  ASSUME NEW d \in Dests, NEW S \in SUBSET Items, NEW fresh \in SUBSET Items,
         fresh = {} \/ \E x \in Items : fresh = {x},
         fresh \cap Known = {},
         S # {}, S \subseteq pendingBar[d] \cup fresh, fresh \subseteq S,
         Cardinality(S) <= BUFSIZE,
         pendingBar'[d] = pendingBar[d] \ S,
         \A e \in Dests \ {d} : pendingBar'[e] = pendingBar[e],
         sent' = sent \cup {[dest |-> d, items |-> S]}
  PROVE  Service!Next
<1>1. pendingBar' = [pendingBar EXCEPT ![d] = @ \ S]
  BY DEF pendingBar
<1>2. S \in {T \in SUBSET Items : T # {} /\ Cardinality(T) <= BUFSIZE}
  OBVIOUS
<1>3. Service!Ship(d, S, fresh)
  <2>1. fresh \cap Service!Accepted = {}
    BY AbstractDefs
  <2>. QED BY <1>1, <1>2, <2>1 DEF Service!Ship, pendingBar
<1>4. CASE fresh = {}
  BY <1>2, <1>3, <1>4 DEF Service!Next
<1>5. ASSUME NEW x \in Items, fresh = {x} PROVE Service!Next
  <2>1. Service!Ship(d, S, {x})
    BY <1>3, <1>5
  <2>. QED BY <1>2, <2>1 DEF Service!Next
<1>. QED BY <1>4, <1>5

(***************************************************************************)
(* The steps of HTramPrio.                                                 *)
(***************************************************************************)

\* A new item is accepted, and may complete a message at once.
LEMMA SendItemRefines ==
  ASSUME IInv, NEW d \in Dests, NEW b \in Buckets, NEW x \in Items,
         SendItem(d, b, x)
  PROVE  Service!Next
<1>1. /\ tram_hold \in [Dests -> [Buckets -> SUBSET Items]]
      /\ x \notin Known /\ x \notin Pending(d) /\ ~NotResized(d)
  BY DEF IInv, TypeOK, SendItem, Known, NotResized, Idle, At
<1>2. x \notin heldBar[d] /\ x \notin msgBuffers[d].items
  BY <1>1, PendingIs, AbstractDefs
<1>3. CASE HoldPush(d, b, x) /\ UNCHANGED <<msgBuffers, sent>>
  <2>1. /\ \A c \in Buckets : c # b => tram_hold'[d][c] = tram_hold[d][c]
        /\ tram_hold'[d][b] = tram_hold[d][b] \cup {x}
        /\ \A e \in Dests \ {d} : tram_hold'[e] = tram_hold[e]
    BY <1>1, <1>3 DEF HoldPush
  <2>2. heldBar'[d] = heldBar[d] \cup {x}
    BY <2>1 DEF heldBar
  <2>3. \A e \in Dests \ {d} : heldBar'[e] = heldBar[e]
    BY <2>1 DEF heldBar
  <2>4. pendingBar'[d] = pendingBar[d] \cup {x}
    BY <1>3, <2>2, PendingIs, PendingIsPrime
  <2>5. \A e \in Dests \ {d} : pendingBar'[e] = pendingBar[e]
    BY <1>3, <2>3, PendingIs, PendingIsPrime
  <2>. QED BY <1>1, <1>3, <2>4, <2>5, Accepts
<1>4. CASE Fill(d, x, 1, TRUE) /\ UNCHANGED tram_hold
  <2>1. \A e \in Dests : heldBar'[e] = heldBar[e]
    BY <1>4 DEF heldBar
  <2>2. /\ \A e \in Dests \ {d} : msgBuffers'[e].items = msgBuffers[e].items
        /\ \/ /\ msgBuffers'[d].items = msgBuffers[d].items \cup {x}
              /\ sent' = sent
           \/ /\ msgBuffers'[d].items = {}
              /\ sent' = sent \cup
                   {[dest |-> d, items |-> msgBuffers[d].items \cup {x}]}
              /\ msgBuffers[d].items \cup {x} \in SUBSET Items
              /\ Cardinality(msgBuffers[d].items \cup {x}) <= BUFSIZE
    BY <1>1, <1>2, <1>4, FillSends
  <2>3. \A e \in Dests \ {d} : pendingBar'[e] = pendingBar[e]
    BY <2>1, <2>2, PendingIs, PendingIsPrime
  <2>4. CASE /\ msgBuffers'[d].items = msgBuffers[d].items \cup {x}
             /\ sent' = sent
    <3>1. pendingBar'[d] = pendingBar[d] \cup {x}
      BY <2>1, <2>4, PendingIs, PendingIsPrime
    <3>. QED BY <1>1, <2>3, <2>4, <3>1, Accepts
  <2>5. CASE /\ msgBuffers'[d].items = {}
             /\ sent' = sent \cup
                  {[dest |-> d, items |-> msgBuffers[d].items \cup {x}]}
             /\ msgBuffers[d].items \cup {x} \in SUBSET Items
             /\ Cardinality(msgBuffers[d].items \cup {x}) <= BUFSIZE
    <3>. DEFINE S == msgBuffers[d].items \cup {x}
    <3>1. pendingBar'[d] = pendingBar[d] \ S
      BY <1>2, <2>1, <2>5, PendingIs, PendingIsPrime, HeldNotFilled
    <3>2. S \subseteq pendingBar[d] \cup {x} /\ S # {} /\ {x} \subseteq S
      BY PendingIs
    <3>3. {x} \cap Known = {} /\ {x} \in SUBSET Items
      BY <1>1
    <3>4. /\ S \in SUBSET Items /\ Cardinality(S) <= BUFSIZE
          /\ sent' = sent \cup {[dest |-> d, items |-> S]}
      BY <2>5
    <3>. HIDE DEF S
    <3>. QED BY <2>3, <3>1, <3>2, <3>3, <3>4, Ships
  <2>. QED BY <2>2, <2>4, <2>5
<1>. QED BY <1>3, <1>4 DEF SendItem

\* A drained item stays pending, or leaves in the message it completes.
LEMMA DrainRefines ==
  ASSUME IInv, NEW d \in Dests, ~NotResized(d), NEW i \in Buckets,
         NEW x \in tram_hold[d][i], HoldPop(d, i, x),
         NEW note, Fill(d, x, 0, note)
  PROVE  [Service!Next]_Service!vars
<1>1. /\ tram_hold \in [Dests -> [Buckets -> SUBSET Items]]
      /\ x \in Items
      /\ 0 \in Nat
  BY DEF IInv, TypeOK
<1>2. x \in heldBar[d] /\ x \notin msgBuffers[d].items
  BY HeldNotFilled DEF heldBar
<1>3. \A b \in Buckets : tram_hold'[d][b] = tram_hold[d][b] \ {x}
  BY <1>1 DEF HoldPop, IInv, HeldOnce
<1>4. \A e \in Dests \ {d} : tram_hold'[e] = tram_hold[e]
  BY <1>1 DEF HoldPop
<1>5. heldBar'[d] = heldBar[d] \ {x}
  BY <1>3 DEF heldBar
<1>6. \A e \in Dests \ {d} : heldBar'[e] = heldBar[e]
  BY <1>4 DEF heldBar
<1>7. /\ \A e \in Dests \ {d} : msgBuffers'[e].items = msgBuffers[e].items
      /\ \/ /\ msgBuffers'[d].items = msgBuffers[d].items \cup {x}
            /\ sent' = sent
         \/ /\ msgBuffers'[d].items = {}
            /\ sent' = sent \cup
                 {[dest |-> d, items |-> msgBuffers[d].items \cup {x}]}
            /\ msgBuffers[d].items \cup {x} \in SUBSET Items
            /\ Cardinality(msgBuffers[d].items \cup {x}) <= BUFSIZE
  BY <1>1, <1>2, FillSends
<1>8. \A e \in Dests \ {d} : pendingBar'[e] = pendingBar[e]
  BY <1>6, <1>7, PendingIs, PendingIsPrime
<1>9. CASE /\ msgBuffers'[d].items = msgBuffers[d].items \cup {x}
           /\ sent' = sent
  <2>1. pendingBar'[d] = (heldBar[d] \ {x}) \cup (msgBuffers[d].items \cup {x})
    BY <1>5, <1>9, PendingIsPrime
  <2>2. pendingBar[d] = heldBar[d] \cup msgBuffers[d].items
    BY PendingIs
  <2>3. pendingBar'[d] = pendingBar[d]
    BY <1>2, <2>1, <2>2
  <2>. QED BY <1>8, <1>9, <2>3, Stutters
<1>10. CASE /\ msgBuffers'[d].items = {}
            /\ sent' = sent \cup
                 {[dest |-> d, items |-> msgBuffers[d].items \cup {x}]}
            /\ msgBuffers[d].items \cup {x} \in SUBSET Items
            /\ Cardinality(msgBuffers[d].items \cup {x}) <= BUFSIZE
  <2>. DEFINE S == msgBuffers[d].items \cup {x}
  <2>1. pendingBar'[d] = pendingBar[d] \ S
    BY <1>2, <1>5, <1>10, PendingIs, PendingIsPrime, HeldNotFilled
  <2>2. S \subseteq pendingBar[d] \cup {} /\ S # {}
    BY <1>2, PendingIs
  <2>3. /\ S \in SUBSET Items /\ Cardinality(S) <= BUFSIZE
        /\ sent' = sent \cup {[dest |-> d, items |-> S]}
    BY <1>10
  <2>4. {} \in SUBSET Items /\ {} \cap Known = {} /\ {} \subseteq S
    OBVIOUS
  <2>. HIDE DEF S
  <2>5. Service!Next
    BY <1>8, <2>1, <2>2, <2>3, <2>4, Ships
  <2>. QED BY <2>5
<1>. QED BY <1>7, <1>9, <1>10

\* A buffer that leaves outside of a fill site, with fillers from the hold.
LEMMA SendOffRefines ==
  ASSUME IInv, NEW d \in Dests, NEW extra, extra \subseteq heldBar[d],
         Filled(d) # 0, Filled(d) + Cardinality(extra) <= BUFSIZE,
         SendBuffer(d, extra),
         \A b \in Buckets : tram_hold'[d][b] = tram_hold[d][b] \ extra,
         \A e \in Dests \ {d} : tram_hold'[e] = tram_hold[e]
  PROVE  Service!Next
<1>. DEFINE S == msgBuffers[d].items \cup extra
<1>1. /\ msgBuffers \in [Dests -> [items : SUBSET Items, cap : 1 .. BUFSIZE]]
      /\ Filled(d) = Cardinality(msgBuffers[d].items)
  BY FilledType DEF IInv, TypeOK
<1>2. /\ heldBar[d] \cap msgBuffers[d].items = {}
      /\ heldBar[d] \subseteq Items
      /\ msgBuffers[d].items \subseteq Items
  BY HeldNotFilled
<1>3. S \in SUBSET Items /\ Cardinality(S) <= BUFSIZE
  <2>1. Cardinality(S) = Cardinality(msgBuffers[d].items) + Cardinality(extra)
    BY <1>2, SplitItems
  <2>. QED BY <1>1, <1>2, <2>1
<1>4. S # {}
  BY <1>1, EmptyItems
<1>5. heldBar'[d] = heldBar[d] \ extra
  BY DEF heldBar
<1>6. \A e \in Dests \ {d} : heldBar'[e] = heldBar[e]
  BY DEF heldBar
<1>7. /\ msgBuffers' = [msgBuffers EXCEPT ![d] = NewMessage(bufSize)]
      /\ sent' = sent \cup {[dest |-> d, items |-> S]}
  BY DEF SendBuffer
<1>8. /\ msgBuffers'[d].items = {}
      /\ \A e \in Dests \ {d} : msgBuffers'[e] = msgBuffers[e]
  BY <1>1, <1>7 DEF NewMessage
<1>9. pendingBar'[d] = pendingBar[d] \ S
  <2>1. pendingBar'[d] = heldBar[d] \ extra
    BY <1>5, <1>8, PendingIsPrime
  <2>2. pendingBar[d] = heldBar[d] \cup msgBuffers[d].items
    BY PendingIs
  <2>. QED BY <1>2, <2>1, <2>2
<1>10. \A e \in Dests \ {d} : pendingBar'[e] = pendingBar[e]
  BY <1>6, <1>8, PendingIs, PendingIsPrime, ZenonT(30)
<1>11. S \subseteq pendingBar[d] \cup {}
  BY PendingIs
<1>12. {} \in SUBSET Items /\ {} \cap Known = {} /\ {} \subseteq S
  OBVIOUS
<1>13. sent' = sent \cup {[dest |-> d, items |-> S]}
  BY <1>7
<1>. HIDE DEF S
<1>. QED BY <1>3, <1>4, <1>9, <1>10, <1>11, <1>12, <1>13, Ships

\* A step that moves no item.
LEMMA KeepsItems ==
  ASSUME UNCHANGED <<tram_hold, sent>>,
         \A e \in Dests : msgBuffers'[e].items = msgBuffers[e].items
  PROVE  UNCHANGED Service!vars
<1>1. \A e \in Dests : heldBar'[e] = heldBar[e]
  BY DEF heldBar
<1>. QED BY <1>1, PendingIs, PendingIsPrime, Stutters

LEMMA ResizeRefines ==
  ASSUME IInv, ResizeStep
  PROVE  [Service!Next]_Service!vars
<1>. DEFINE d == ctl.dest
<1>1. /\ d \in Dests
      /\ msgBuffers \in [Dests -> [items : SUBSET Items, cap : 1 .. BUFSIZE]]
      /\ bufSize \in 1 .. BUFSIZE /\ BUFSIZE \in Nat
      /\ Filled(d) \in Nat /\ Filled(d) < msgBuffers[d].cap
      /\ tram_hold' = tram_hold
  <2>1. d \in Dests
    BY AtDest DEF IInv
  <2>2. bufSize \in 1 .. BUFSIZE /\ BUFSIZE \in Nat
    BY ConstantsAssumption DEF IInv, TypeOK, ConstantsAssumption
  <2>3. Filled(d) \in Nat /\ Filled(d) < msgBuffers[d].cap
    BY <2>1, FilledType DEF IInv, BufferBounds
  <2>. QED BY <2>1, <2>2, <2>3 DEF ResizeStep, IInv, TypeOK
<1>2. CASE /\ msgBuffers' = [msgBuffers EXCEPT ![d].cap = bufSize]
           /\ sent' = sent
  BY <1>1, <1>2, KeepsItems
<1>3. CASE Overfull(d) /\ SendBuffer(d, {})
  <2>1. Filled(d) # 0
    BY <1>1, <1>3 DEF Overfull
  <2>2. Filled(d) + Cardinality({}) <= BUFSIZE
    BY <1>1, EmptyItems
  <2>3. /\ \A b \in Buckets : tram_hold'[d][b] = tram_hold[d][b] \ {}
        /\ \A e \in Dests \ {d} : tram_hold'[e] = tram_hold[e]
    BY <1>1
  <2>. QED BY <1>1, <1>3, <2>1, <2>2, <2>3, SendOffRefines
<1>4. CASE UNCHANGED <<msgBuffers, sent>>
  BY <1>1, <1>4, KeepsItems
<1>. QED BY <1>2, <1>3, <1>4 DEF ResizeStep

LEMMA PartialRefines ==
  ASSUME IInv, PartialStep
  PROVE  [Service!Next]_Service!vars
<1>. DEFINE d == ctl.dest
<1>1. d \in Dests
  BY AtDest DEF IInv
<1>2. /\ Filled(d) \in Nat /\ Filled(d) <= BUFSIZE
      /\ tram_hold' = tram_hold
  <2>1. /\ Filled(d) \in Nat /\ Filled(d) < msgBuffers[d].cap
        /\ msgBuffers[d].cap \in 1 .. BUFSIZE
    BY <1>1, FilledType DEF IInv, BufferBounds
  <2>2. BUFSIZE \in Nat
    BY ConstantsAssumption DEF ConstantsAssumption
  <2>. QED BY <2>1, <2>2 DEF PartialStep
<1>3. CASE Filled(d) # 0 /\ SendBuffer(d, {})
  <2>1. Filled(d) + Cardinality({}) <= BUFSIZE
    BY <1>2, EmptyItems
  <2>2. /\ \A b \in Buckets : tram_hold'[d][b] = tram_hold[d][b] \ {}
        /\ \A e \in Dests \ {d} : tram_hold'[e] = tram_hold[e]
    BY <1>2
  <2>. QED BY <1>1, <1>3, <2>1, <2>2, SendOffRefines
<1>4. CASE UNCHANGED <<msgBuffers, sent>>
  BY <1>2, <1>4, KeepsItems
<1>. QED BY <1>3, <1>4 DEF PartialStep

LEMMA PadRefines ==
  ASSUME IInv, PadStep
  PROVE  [Service!Next]_Service!vars
<1>. DEFINE d == ctl.dest
<1>1. d \in Dests
  BY AtDest DEF IInv
<1>2. /\ Filled(d) \in Nat /\ Filled(d) < bufSize
      /\ bufSize \in 1 .. BUFSIZE /\ BUFSIZE \in Nat
      /\ tram_hold \in [Dests -> [Buckets -> SUBSET Items]]
  <2>1. ~NotResized(d)
    BY DEF PadStep, NotResized
  <2>2. Filled(d) \in Nat /\ Filled(d) < bufSize
    BY <1>1, <2>1, FilledType DEF IInv, BufferBounds
  <2>3. bufSize \in 1 .. BUFSIZE /\ BUFSIZE \in Nat
    BY ConstantsAssumption DEF IInv, TypeOK, ConstantsAssumption
  <2>. QED BY <2>2, <2>3 DEF IInv, TypeOK
<1>3. ASSUME Filled(d) # 0, NEW F \in Fillers(d), SendBuffer(d, F),
             tram_hold' = [tram_hold EXCEPT ![d] = [b \in Buckets |-> @[b] \ F]]
      PROVE  Service!Next
  <2>1. F \subseteq HeldAbove(d) /\ F \subseteq heldBar[d] /\ F \subseteq Items
    <3>1. F \subseteq HeldAbove(d)
      BY <1>3 DEF Fillers
    <3>2. HeldAbove(d) \subseteq heldBar[d]
      BY <1>1 DEF HeldAbove, HeldIn, heldBar
    <3>. QED BY <1>1, <3>1, <3>2, HeldNotFilled
  <2>2. Cardinality(F) \in Nat /\ Cardinality(F) <= Wanted(d)
    <3>1. Cardinality(F) \in Nat
      BY <2>1, ItemSets
    <3>2. Cardinality(F) = Wanted(d) \/ Cardinality(F) < Wanted(d)
      BY <1>3 DEF Fillers
    <3>3. Wanted(d) \in Nat
      BY <1>2 DEF Wanted
    <3>. QED BY <3>1, <3>2, <3>3
  <2>3. Filled(d) + Wanted(d) <= bufSize
    BY <1>2 DEF Wanted
  <2>4. Filled(d) + Cardinality(F) <= BUFSIZE
    <3>1. Wanted(d) \in Nat
      BY <1>2 DEF Wanted
    <3>. QED BY <1>2, <2>2, <2>3, <3>1
  <2>5. /\ \A b \in Buckets : tram_hold'[d][b] = tram_hold[d][b] \ F
        /\ \A e \in Dests \ {d} : tram_hold'[e] = tram_hold[e]
    BY <1>1, <1>2, <1>3
  <2>. QED BY <1>1, <1>3, <2>1, <2>4, <2>5, SendOffRefines
<1>4. CASE UNCHANGED <<tram_hold, msgBuffers, sent>>
  BY <1>4, KeepsItems
<1>. QED BY <1>3, <1>4 DEF PadStep

\* Coarsening moves items between the buckets of their destination.
LEMMA CoarsenRefines ==
  ASSUME IInv, NEW m \in Merges, CoarsenBuckets(m.k, m.keep_top)
  PROVE  [Service!Next]_Service!vars
<1>1. UNCHANGED <<msgBuffers, sent>>
  BY DEF CoarsenBuckets
<1>2. ASSUME NEW e \in Dests PROVE pendingBar'[e] = pendingBar[e]
  <2>1. Held(e)' = Held(e)
    BY CoarsenBucketsStep
  <2>2. Pending(e)' = Pending(e)
    BY <1>1, <2>1 DEF Pending
  <2>. QED BY <2>2 DEF pendingBar
<1>. QED BY <1>1, <1>2, Stutters

LEMMA NextRefines == IInv /\ [Next]_vars => [Service!Next]_Service!vars
<1>. SUFFICES ASSUME IInv, [Next]_vars PROVE [Service!Next]_Service!vars
  OBVIOUS
<1>1. CASE UNCHANGED vars
  BY <1>1, KeepsItems DEF vars, traffic
<1>2. CASE \E d \in Dests, b \in Buckets, x \in Items : SendItem(d, b, x)
  BY <1>2, SendItemRefines
<1>3. CASE \/ \E direct \in DirectThresholds, tram \in Thresholds,
                 sel \in Selectivities : ChangeThreshold(direct, tram, sel)
           \/ \E n \in BufSizes : SetBufferSize(n)
  <2>1. UNCHANGED <<tram_hold, msgBuffers, sent>>
    BY <1>3 DEF ChangeThreshold, SetBufferSize, traffic
  <2>. QED BY <2>1, KeepsItems
<1>4. CASE \E m \in Merges : CoarsenBuckets(m.k, m.keep_top)
  BY <1>4, CoarsenRefines
<1>5. CASE InsertBucketsTake \/ EmptyTake
  <2>1. ctl.dest \in Dests /\ ctl.dest \in Nat
    BY AtDest DEF IInv
  <2>2. \E i \in Buckets : \E x \in tram_hold[ctl.dest][i] :
           HoldPop(ctl.dest, i, x) /\ \E note \in BOOLEAN : Fill(ctl.dest, x, 0, note)
    BY <1>5 DEF InsertBucketsTake, EmptyTake
  <2>3. ctl.at \in {"insertBuckets", "empty"}
    BY <1>5 DEF InsertBucketsTake, EmptyTake
  <2>4. ~NotResized(ctl.dest)
    BY <2>1, <2>3 DEF NotResized
  <2>. QED BY <2>1, <2>2, <2>4, DrainRefines
<1>6. CASE ResizeStep
  BY <1>6, ResizeRefines
<1>7. CASE PartialStep
  BY <1>7, PartialRefines
<1>8. CASE PadStep
  BY <1>8, PadRefines
<1>9. CASE \/ InsertBucketsDone \/ ReleaseStep \/ TFlush \/ EmptyDone
           \/ FlushStale \/ StaleStep \/ FlushIdle \/ IdleStep
  <2>1. UNCHANGED <<tram_hold, msgBuffers, sent>>
    BY <1>9 DEF InsertBucketsDone, ReleaseStep, TFlush, EmptyDone, FlushStale,
                StaleStep, FlushIdle, IdleStep, traffic
  <2>. QED BY <2>1, KeepsItems
<1>. QED BY <1>1, <1>2, <1>3, <1>4, <1>5, <1>6, <1>7, <1>8, <1>9
         DEF Next, Client, Knob, Flush, Step

LEMMA InitRefines == Init => Service!Init
<1>. SUFFICES ASSUME Init PROVE Service!Init
  OBVIOUS
<1>1. \A d \in Dests : heldBar[d] = {} /\ msgBuffers[d].items = {}
  BY DEF Init, heldBar, NewMessage
<1>2. pendingBar = [d \in Dests |-> {}]
  BY <1>1, PendingIs DEF pendingBar
<1>. QED BY <1>2 DEF Service!Init, pendingBar, Init

\* No item is lost, sent twice, sent to another destination or packed into a
\* message longer than BUFSIZE, for every number of destinations and buckets,
\* every set of items and every sequence of client calls and knob changes.
THEOREM Refinement == Spec => ImplementsTramService
BY InitRefines, NextRefines, Invariance, PTL
   DEF Spec, ImplementsTramService, Service!Spec

(***************************************************************************)
(* Two rounds of flushStale (HTramRounds).  An item that waits since the   *)
(* last round is in a buffer that has not been sent since, so no full send *)
(* was recorded for it (Waits); once the loop has passed a destination,    *)
(* nothing waits there and its record is cleared (Passed).                 *)
(***************************************************************************)
Overdue(d) == overdue \cap msgBuffers[d].items

\* Items are in one place, counting the messages that left.
OnePlace ==
  /\ \A d, e \in Dests : d # e => Pending(d) \cap Pending(e) = {}
  /\ \A d \in Dests : SentItems \cap Pending(d) = {}

Waits ==
  /\ overdue \subseteq Known
  /\ \A d \in Dests : overdue \cap Held(d) = {}
  /\ \A d \in Dests : full_sends[d] => Overdue(d) = {}

Passed ==
  /\ ctl.at = "stale" \/ ctl.back = "stale" =>
       \A d \in Before(ctl.dest) : ~full_sends[d] /\ Overdue(d) = {}
  /\ ctl.back = "stale" => ~full_sends[ctl.dest]

WInv == IInv /\ CtlShape /\ OnePlace /\ Waits /\ Passed

LEMMA HeldBarIs == \A d \in Dests : Held(d) = heldBar[d]
BY HeldIsAll DEF heldBar

LEMMA HeldBarIsPrime == \A d \in Dests : Held(d)' = heldBar'[d]
<1>1. (\A d \in Dests : Held(d) = heldBar[d])'
  BY HeldBarIs, PTL
<1>. QED BY <1>1

\* What a step may bring into a hold or a buffer was held for the same
\* destination or is new, and a full send that a step records has emptied the
\* buffer.
Moves(e) ==
  /\ heldBar'[e] \cap Known \subseteq heldBar[e]
  /\ msgBuffers'[e].items \cap Known \subseteq heldBar[e] \cup msgBuffers[e].items
  /\ full_sends'[e] => full_sends[e] \/ msgBuffers'[e].items = {}

LEMMA FillMoves ==
  ASSUME IInv, NEW d \in Dests, NEW x, x \in heldBar[d] \/ x \notin Known,
         NEW added, NEW note, Fill(d, x, added, note), NEW e \in Dests
  PROVE  /\ msgBuffers'[e].items \cap Known \subseteq heldBar[e] \cup msgBuffers[e].items
         /\ full_sends'[e] => full_sends[e] \/ msgBuffers'[e].items = {}
         /\ ~note => full_sends'[e] = full_sends[e]
         /\ e # d => full_sends'[e] = full_sends[e]
<1>1. /\ msgBuffers \in [Dests -> [items : SUBSET Items, cap : 1 .. BUFSIZE]]
      /\ full_sends \in [Dests -> BOOLEAN]
  BY DEF IInv, TypeOK
<1>2. CASE /\ msgBuffers' = [msgBuffers EXCEPT ![d].items = @ \cup {x}]
           /\ full_sends' = full_sends
  BY <1>1, <1>2
<1>3. CASE SendBuffer(d, {x}) /\ NoteFullSend(d, note)
  <2>1. /\ msgBuffers'[d].items = {}
        /\ \A p \in Dests \ {d} : msgBuffers'[p] = msgBuffers[p]
    BY <1>1, <1>3 DEF SendBuffer, NewMessage
  <2>2. /\ full_sends'[d] = (full_sends[d] \/ note)
        /\ \A p \in Dests \ {d} : full_sends'[p] = full_sends[p]
    BY <1>1, <1>3 DEF NoteFullSend
  <2>. QED BY <2>1, <2>2, <1>1
<1>. QED BY <1>2, <1>3 DEF Fill

LEMMA PopMoves ==
  ASSUME IInv, NEW d \in Dests, NEW i \in Buckets, NEW x, HoldPop(d, i, x),
         NEW e \in Dests
  PROVE  heldBar'[e] \subseteq heldBar[e]
<1>1. \A b \in Buckets : tram_hold'[e][b] \subseteq tram_hold[e][b]
  BY PopShrinks DEF IInv
<1>. QED BY <1>1 DEF heldBar

LEMMA BufferSent ==
  ASSUME IInv, NEW d \in Dests, NEW extra, SendBuffer(d, extra), NEW e \in Dests
  PROVE  msgBuffers'[e].items = IF e = d THEN {} ELSE msgBuffers[e].items
BY DEF IInv, TypeOK, SendBuffer, NewMessage

LEMMA StepMoves ==
  ASSUME IInv, [Next]_vars, NEW e \in Dests, ~StaleStep
  PROVE  Moves(e)
<1>1. CASE \E d \in Dests, b \in Buckets, x \in Items : SendItem(d, b, x)
  <2>1. PICK d \in Dests, b \in Buckets, x \in Items : SendItem(d, b, x)
    BY <1>1
  <2>2. x \notin Known
    BY <2>1 DEF SendItem
  <2>3. CASE HoldPush(d, b, x) /\ UNCHANGED <<msgBuffers, full_sends>>
    <3>1. \A c \in Buckets : tram_hold'[e][c] \subseteq tram_hold[e][c] \cup {x}
      BY <2>3 DEF HoldPush, IInv, TypeOK
    <3>2. heldBar'[e] \subseteq heldBar[e] \cup {x}
      BY <3>1 DEF heldBar
    <3>. QED BY <2>2, <2>3, <3>2 DEF Moves
  <2>4. CASE Fill(d, x, 1, TRUE) /\ UNCHANGED tram_hold
    <3>1. heldBar' = heldBar
      BY <2>4 DEF heldBar
    <3>. QED BY <2>2, <2>4, <3>1, FillMoves DEF Moves
  <2>. QED BY <2>1, <2>3, <2>4 DEF SendItem
<1>2. CASE InsertBucketsTake \/ EmptyTake
  <2>1. PICK i \in Buckets : \E x \in tram_hold[ctl.dest][i] : \E note \in BOOLEAN :
          HoldPop(ctl.dest, i, x) /\ Fill(ctl.dest, x, 0, note)
    BY <1>2 DEF InsertBucketsTake, EmptyTake
  <2>2. PICK x \in tram_hold[ctl.dest][i], note \in BOOLEAN :
          HoldPop(ctl.dest, i, x) /\ Fill(ctl.dest, x, 0, note)
    BY <2>1
  <2>3. ctl.dest \in Dests
    BY AtDest DEF IInv
  <2>4. x \in heldBar[ctl.dest]
    BY <2>3 DEF heldBar
  <2>5. heldBar'[e] \subseteq heldBar[e]
    BY <2>2, <2>3, PopMoves
  <2>. QED BY <2>2, <2>3, <2>4, <2>5, FillMoves DEF Moves
<1>3. CASE \E m \in Merges : CoarsenBuckets(m.k, m.keep_top)
  <2>1. PICK m \in Merges : CoarsenBuckets(m.k, m.keep_top)
    BY <1>3
  <2>2. Held(e)' = Held(e)
    BY <2>1, CoarsenBucketsStep
  <2>3. heldBar'[e] = Held(e)' /\ heldBar[e] = Held(e)
    BY HeldBarIs, HeldBarIsPrime
  <2>4. UNCHANGED <<msgBuffers, full_sends>>
    BY <2>1 DEF CoarsenBuckets
  <2>. QED BY <2>2, <2>3, <2>4 DEF Moves
<1>4. CASE \/ UNCHANGED vars
           \/ \E direct \in DirectThresholds, tram \in Thresholds,
                 sel \in Selectivities : ChangeThreshold(direct, tram, sel)
           \/ \E n \in BufSizes : SetBufferSize(n)
           \/ InsertBucketsDone \/ ReleaseStep \/ TFlush \/ EmptyDone
           \/ FlushStale \/ FlushIdle \/ IdleStep
  <2>1. UNCHANGED <<tram_hold, msgBuffers, full_sends>>
    BY <1>4 DEF ChangeThreshold, SetBufferSize, traffic, vars,
                InsertBucketsDone, ReleaseStep, TFlush, EmptyDone,
                FlushStale, FlushIdle, IdleStep
  <2>2. heldBar' = heldBar
    BY <2>1 DEF heldBar
  <2>. QED BY <2>1, <2>2 DEF Moves
<1>5. CASE ResizeStep
  <2>1. ctl.dest \in Dests /\ tram_hold' = tram_hold
    BY <1>5, AtDest DEF IInv, ResizeStep
  <2>2. heldBar' = heldBar
    BY <2>1 DEF heldBar
  <2>3. CASE /\ msgBuffers' = [msgBuffers EXCEPT ![ctl.dest].cap = bufSize]
             /\ full_sends' = full_sends
    <3>1. msgBuffers'[e].items = msgBuffers[e].items
      BY <2>1, <2>3 DEF IInv, TypeOK
    <3>. QED BY <2>2, <2>3, <3>1 DEF Moves
  <2>4. CASE SendBuffer(ctl.dest, {}) /\ NoteFullSend(ctl.dest, TRUE)
    <3>1. msgBuffers'[e].items = IF e = ctl.dest THEN {} ELSE msgBuffers[e].items
      BY <2>1, <2>4, BufferSent
    <3>2. e # ctl.dest => full_sends'[e] = full_sends[e]
      BY <2>1, <2>4 DEF IInv, TypeOK, NoteFullSend
    <3>. QED BY <2>2, <3>1, <3>2 DEF Moves
  <2>5. CASE UNCHANGED <<msgBuffers, full_sends>>
    BY <2>2, <2>5 DEF Moves
  <2>. QED BY <1>5, <2>3, <2>4, <2>5 DEF ResizeStep
<1>6. CASE PartialStep \/ PadStep
  <2>1. ctl.dest \in Dests /\ full_sends' = full_sends
    BY <1>6, AtDest DEF IInv, PartialStep, PadStep
  <2>2. UNCHANGED msgBuffers \/ \E F : SendBuffer(ctl.dest, F)
    BY <1>6 DEF PartialStep, PadStep
  <2>3. msgBuffers'[e].items \subseteq msgBuffers[e].items
    BY <2>1, <2>2, BufferSent
  <2>4. heldBar'[e] \subseteq heldBar[e]
    <3>1. \A b \in Buckets : tram_hold'[e][b] \subseteq tram_hold[e][b]
      <4>1. CASE UNCHANGED tram_hold
        BY <4>1
      <4>2. ASSUME NEW F, tram_hold' = [tram_hold EXCEPT ![ctl.dest] =
                                          [b \in Buckets |-> @[b] \ F]]
            PROVE  \A b \in Buckets : tram_hold'[e][b] \subseteq tram_hold[e][b]
        BY <2>1, <4>2 DEF IInv, TypeOK
      <4>. QED BY <1>6, <4>1, <4>2 DEF PartialStep, PadStep
    <3>. QED BY <3>1 DEF heldBar
  <2>. QED BY <2>1, <2>3, <2>4 DEF Moves
<1>. QED BY <1>1, <1>2, <1>3, <1>4, <1>5, <1>6
         DEF Next, Client, Knob, Flush, Step

LEMMA StaleMoves ==
  ASSUME IInv, StaleStep
  PROVE  /\ UNCHANGED <<tram_hold, msgBuffers>> /\ heldBar' = heldBar
         /\ ctl.dest \in Dests /\ ~full_sends'[ctl.dest]
         /\ \A e \in Dests \ {ctl.dest} : full_sends'[e] = full_sends[e]
<1>1. ctl.dest \in Dests /\ full_sends \in [Dests -> BOOLEAN]
  BY AtDest DEF IInv, TypeOK
<1>2. /\ UNCHANGED <<tram_hold, msgBuffers>>
      /\ full_sends' = [full_sends EXCEPT ![ctl.dest] = FALSE]
  BY DEF StaleStep
<1>. QED BY <1>1, <1>2 DEF heldBar

LEMMA HeldNotFilledPrime ==
  IInv' => \A d \in Dests : heldBar'[d] \cap msgBuffers'[d].items = {}
<1>1. IInv => \A d \in Dests : heldBar[d] \cap msgBuffers[d].items = {}
  BY HeldNotFilled
<1>2. (IInv => \A d \in Dests : heldBar[d] \cap msgBuffers[d].items = {})'
  BY <1>1, PTL
<1>. QED BY <1>2

\* An abstract step takes no item to a second place, and loses none.
LEMMA OnePlaceStep ==
  ASSUME IInv, OnePlace, [Next]_vars
  PROVE  OnePlace' /\ Known \subseteq Known'
<1>1. /\ \A d, e \in Dests : d # e => pendingBar[d] \cap pendingBar[e] = {}
      /\ \A d \in Dests : SentItems \cap pendingBar[d] = {}
  BY AbstractDefs DEF OnePlace
<1>2. \A x : x \in Known <=> x \in SentItems \/ \E d \in Dests : x \in pendingBar[d]
  BY AbstractDefs DEF Known
<1>3. /\ \A d \in Dests : Pending(d)' = pendingBar'[d]
      /\ \A x : x \in Known' <=> x \in SentItems' \/ \E d \in Dests : x \in pendingBar'[d]
  <2>1. \A d \in Dests : Pending(d)' = pendingBar'[d]
    BY DEF pendingBar
  <2>. QED BY <2>1 DEF Known
<1>4. CASE \E d \in Dests : \E x \in Items : Service!Accept(d, x)
  <2>1. PICK d \in Dests, x \in Items : Service!Accept(d, x)
    BY <1>4
  <2>2. x \notin Known /\ SentItems' = SentItems
    BY <2>1, AbstractDefs DEF Service!Accept, SentItems
  <2>3. /\ pendingBar'[d] = pendingBar[d] \cup {x}
        /\ \A e \in Dests \ {d} : pendingBar'[e] = pendingBar[e]
    BY <2>1 DEF Service!Accept, pendingBar
  <2>. QED BY <1>1, <1>2, <1>3, <2>2, <2>3 DEF OnePlace
<1>5. CASE \E d \in Dests : \E S, fresh : Service!Ship(d, S, fresh)
  <2>0. PICK d \in Dests : \E S, fresh : Service!Ship(d, S, fresh)
    BY <1>5
  <2>1. PICK S, fresh : Service!Ship(d, S, fresh)
    BY <2>0
  <2>2. /\ fresh \cap Known = {} /\ S \subseteq pendingBar[d] \cup fresh
        /\ sent' = sent \cup {[dest |-> d, items |-> S]}
    BY <2>1, AbstractDefs DEF Service!Ship, pendingBar
  <2>3. /\ pendingBar'[d] = pendingBar[d] \ S
        /\ \A e \in Dests \ {d} : pendingBar'[e] = pendingBar[e]
    BY <2>1 DEF Service!Ship, pendingBar
  <2>4. \A x : x \in SentItems' <=> x \in SentItems \/ x \in S
    <3>1. PICK m : m = [dest |-> d, items |-> S]
      OBVIOUS
    <3>2. m.items = S /\ sent' = sent \cup {m}
      BY <2>2, <3>1
    <3>3. \A x : x \in SentItems' <=> \E k \in sent \cup {m} : x \in k.items
      BY <3>2 DEF SentItems
    <3>4. \A x : x \in SentItems <=> \E k \in sent : x \in k.items
      BY DEF SentItems
    <3>. QED BY <3>2, <3>3, <3>4
  <2>5. \A x \in S : \A e \in Dests \ {d} : x \notin pendingBar[e]
    BY <1>1, <1>2, <2>2
  <2>. QED BY <1>1, <1>2, <1>3, <2>3, <2>4, <2>5 DEF OnePlace
<1>6. CASE UNCHANGED Service!vars
  <2>1. pendingBar' = pendingBar /\ SentItems' = SentItems
    BY <1>6, AbstractDefs DEF Service!vars, SentItems, pendingBar
  <2>. QED BY <1>1, <1>2, <1>3, <2>1 DEF OnePlace
<1>. QED BY <1>4, <1>5, <1>6, NextRefines DEF Service!Next

\* What waits: nothing new before the round is over, and then what is
\* buffered.
LEMMA WaitsLess ==
  ASSUME IInv, Waits, NEW e \in Dests, Moves(e)
  PROVE  /\ overdue \cap msgBuffers'[e].items \subseteq Overdue(e)
         /\ overdue \cap heldBar'[e] = {}
<1>1. overdue \cap heldBar[e] = {} /\ overdue \subseteq Known
  BY HeldBarIs DEF Waits
<1>. QED BY <1>1 DEF Moves, Overdue

LEMMA StaleDone ==
  ASSUME IInv, Waits, NEW d \in Dests, ~Stale(d)
  PROVE  Overdue(d) = {}
<1>1. CASE full_sends[d]
  BY <1>1 DEF Waits
<1>2. CASE ~HasWork(d)
  <2>1. Filled(d) = 0
    BY <1>2, FilledType DEF IInv, HasWork
  <2>2. IsFiniteSet(msgBuffers[d].items)
    BY FilledType, ItemSets DEF IInv
  <2>3. msgBuffers[d].items = {}
    BY <2>1, <2>2, FS_EmptySet DEF Filled
  <2>. QED BY <2>3 DEF Overdue
<1>. QED BY <1>1, <1>2 DEF Stale

\* Where a step leaves the loop of flushStale.
LEMMA RoundPosition ==
  ASSUME IInv, CtlShape, [Next]_vars
  PROVE  \/ /\ ~(ctl.at = "stale" \/ ctl.back = "stale")
            /\ ctl' = ctl \/ ctl' = Loop("stale", 0)
                 \/ ~(ctl'.at = "stale" \/ ctl'.back = "stale")
         \/ UNCHANGED vars
         \/ StaleStep /\ Stale(ctl.dest) /\ ctl' = At("empty", ctl.dest, "stale")
         \/ StaleStep /\ ~Stale(ctl.dest) /\ ctl' = Loop("stale", ctl.dest + 1)
         \/ EmptyTake /\ ctl.back = "stale" /\ ctl' = ctl
         \/ EmptyDone /\ ctl.back = "stale" /\ ctl' = At("pad", ctl.dest, "stale")
         \/ PadStep /\ ctl.back = "stale" /\ ctl' = Loop("stale", ctl.dest + 1)
<1>0. ctl \in Ctl
  BY DEF IInv, TypeOK
<1>1. CASE StaleStep
  BY <1>1 DEF StaleStep, FlushDest
<1>2. CASE EmptyTake \/ EmptyDone \/ PadStep
  <2>1. CASE ctl.back = "stale"
    BY <1>2, <2>1 DEF EmptyTake, EmptyDone, PadStep, Return
  <2>2. CASE ctl.back # "stale"
    <3>1. ctl.at \in {"empty", "pad"} /\ ctl.back \in {"tflush", "flushIdle"}
      BY <1>2, <2>2 DEF EmptyTake, EmptyDone, PadStep, CtlShape
    <3>2. \/ ctl' = ctl
          \/ \E e : \/ ctl' \in {Idle, At("pad", e, ctl.back), At("empty", e, ctl.back)}
                    \/ ctl' = Loop("flushIdle", e)
      BY <1>2, <3>1 DEF EmptyTake, EmptyDone, PadStep, Return
    <3>3. ctl' = ctl \/ ~(ctl'.at = "stale" \/ ctl'.back = "stale")
      <4>1. ASSUME NEW e, ctl' = At("pad", e, ctl.back) \/ ctl' = At("empty", e, ctl.back)
            PROVE  ctl'.at \in {"pad", "empty"} /\ ctl'.back = ctl.back
        BY <4>1 DEF At
      <4>2. ASSUME NEW e, ctl' = Idle \/ ctl' = Loop("flushIdle", e)
            PROVE  ctl'.at \in {"idle", "flushIdle"} /\ ctl'.back = "idle"
        BY <4>2 DEF At, Loop, Idle
      <4>. QED BY <3>1, <3>2, <4>1, <4>2
    <3>. QED BY <3>1, <3>3
  <2>. QED BY <2>1, <2>2
<1>3. CASE Client
  <2>1. ctl.at = "idle" /\ ctl.back = "idle"
    <3>1. ctl = Idle
      BY <1>3 DEF Client, Knob, Flush, SendItem, ChangeThreshold, CoarsenBuckets,
                  SetBufferSize, TFlush, FlushStale, FlushIdle
    <3>. QED BY <3>1 DEF Idle, At
  <2>2. \/ ctl' \in {Idle, Loop("release", 0), Loop("resize", 0),
                     Loop("stale", 0), Loop("flushIdle", 0),
                     At("partial", 0, "tflush")}
        \/ \E d : ctl' = InsertBucketsByDest(d, "idle")
    BY <1>3 DEF Client, Knob, Flush, SendItem, ChangeThreshold, CoarsenBuckets,
                SetBufferSize, TFlush, FlushStale, FlushIdle
  <2>. QED BY <2>1, <2>2 DEF At, Loop, Idle, InsertBucketsByDest
<1>4. CASE InsertBucketsTake
  <2>1. ctl'.at = ctl.at /\ ctl'.back = ctl.back /\ ctl.at = "insertBuckets"
    BY <1>0, <1>4 DEF InsertBucketsTake, Ctl
  <2>. QED BY <2>1 DEF CtlShape
<1>5. CASE InsertBucketsDone
  <2>1. ctl.back \in {"idle", "release", "resize"} /\ ctl.at = "insertBuckets"
    BY <1>5 DEF InsertBucketsDone, CtlShape
  <2>2. ctl' \in {Idle, Loop("release", ctl.dest + 1), Loop("resize", ctl.dest + 1)}
    BY <1>5, <2>1 DEF InsertBucketsDone, Return
  <2>. QED BY <2>1, <2>2 DEF Loop, Idle, At
<1>6. CASE ReleaseStep \/ ResizeStep
  <2>1. ctl' \in {InsertBucketsByDest(ctl.dest, "release"),
                  InsertBucketsByDest(ctl.dest, "resize"),
                  Loop("release", ctl.dest + 1), Loop("resize", ctl.dest + 1)}
    BY <1>6 DEF ReleaseStep, ResizeStep
  <2>2. ctl.at \in {"release", "resize"} /\ ctl.back = "idle"
    BY <1>6 DEF ReleaseStep, ResizeStep, CtlShape
  <2>. QED BY <2>1, <2>2 DEF Loop, Idle, At, InsertBucketsByDest
<1>7. CASE PartialStep \/ IdleStep
  <2>1. ctl.at \in {"partial", "flushIdle"} /\ ctl.back \in {"tflush", "idle"}
    BY <1>7 DEF PartialStep, IdleStep, CtlShape
  <2>2. \E e : ctl' \in {At("partial", e, "tflush"), At("empty", e, "tflush"),
                         At("empty", e, "flushIdle"), Loop("flushIdle", e)}
    BY <1>7 DEF PartialStep, IdleStep, FlushDest
  <2>. QED BY <2>1, <2>2 DEF Loop, Idle, At
<1>. QED BY <1>1, <1>2, <1>3, <1>4, <1>5, <1>6, <1>7 DEF Next, Step

\* What waits and is buffered for d after a step, and a destination that the
\* loop is done with.
Left(d) == overdue \cap msgBuffers'[d].items
Cleared(d) == ~full_sends'[d] /\ Left(d) = {}

\* A step of the loop keeps what it has passed.
LEMMA PassedStep ==
  ASSUME WInv, [Next]_vars
  PROVE  /\ overdue' = overdue => Waits' /\ Passed'
         /\ EndOfRound => \A d \in Dests : Cleared(d)
<1>. DEFINE Same == overdue' = overdue
<1>d. PICK d \in Dests : d = ctl.dest
  BY AtDest DEF WInv, IInv
<1>0. /\ IInv /\ CtlShape /\ OnePlace /\ Waits /\ Passed /\ TypeOK
      /\ d \in Dests /\ d \in Nat /\ Before(0) = {} /\ d \notin Before(d)
      /\ Before(d) \subseteq Dests /\ d = ctl.dest
      /\ Before(d + 1) = Before(d) \cup {d}
      /\ d + 1 < NumDest \/ Dests = Before(d) \cup {d}
  BY <1>d, AtDest, BeforeFacts DEF WInv, IInv, Before
<1>1. ASSUME NEW e \in Dests
      PROVE  /\ Left(e) \subseteq Overdue(e)
             /\ overdue \cap heldBar'[e] = {}
             /\ full_sends'[e] => full_sends[e] \/ Left(e) = {}
  <2>1. CASE StaleStep
    <3>1. UNCHANGED <<tram_hold, msgBuffers>> /\ heldBar' = heldBar
          /\ (full_sends'[e] => full_sends[e])
      BY <1>0, <2>1, StaleMoves
    <3>. QED BY <1>0, <3>1, HeldBarIs DEF Waits, Overdue, Left
  <2>2. CASE ~StaleStep
    <3>1. Moves(e)
      BY <1>0, <2>2, StepMoves
    <3>. QED BY <1>0, <3>1, WaitsLess DEF Moves, Overdue, Left
  <2>. QED BY <2>1, <2>2
<1>2. Same => Waits'
  <2>1. overdue \subseteq Known'
    BY <1>0, OnePlaceStep DEF Waits
  <2>2. \A e \in Dests : full_sends'[e] => Left(e) = {}
    BY <1>0, <1>1 DEF Waits
  <2>. QED BY <1>1, <2>1, <2>2, HeldBarIsPrime DEF Waits, Left, Overdue
<1>3. ASSUME NEW e \in Before(d), ctl.at = "stale" \/ ctl.back = "stale",
             full_sends'[e] = full_sends[e]
      PROVE  Cleared(e)
  <2>1. ~full_sends[e] /\ Overdue(e) = {} /\ e \in Dests
    BY <1>0, <1>3 DEF Passed
  <2>. QED BY <1>1, <1>3, <2>1 DEF Cleared
<1>4. ASSUME StaleStep
      PROVE  /\ \A e \in Before(d) : Cleared(e)
             /\ ~full_sends'[d] /\ (~Stale(d) => Cleared(d))
  <2>1. ctl.at = "stale" /\ ~full_sends'[d]
        /\ \A e \in Dests \ {d} : full_sends'[e] = full_sends[e]
    BY <1>0, <1>4, StaleMoves DEF StaleStep
  <2>2. ~Stale(d) => Overdue(d) = {}
    BY <1>0, StaleDone
  <2>. QED BY <1>0, <1>1, <1>3, <2>1, <2>2 DEF Cleared
<1>5. ASSUME EmptyTake \/ EmptyDone \/ PadStep, ctl.back = "stale"
      PROVE  /\ \A e \in Before(d) : Cleared(e)
             /\ ~full_sends'[d]
  <2>1. ~full_sends[d] /\ full_sends \in [Dests -> BOOLEAN]
    BY <1>0, <1>5 DEF Passed, TypeOK
  <2>2. \A e \in Dests : full_sends'[e] = full_sends[e]
    <3>1. CASE EmptyTake
      <4>1. PICK i \in Buckets : \E x \in tram_hold[d][i] : Fill(d, x, 0, FALSE)
        BY <1>0, <3>1 DEF EmptyTake
      <4>2. PICK x \in tram_hold[d][i] : Fill(d, x, 0, FALSE)
        BY <4>1
      <4>3. x \in heldBar[d]
        BY <1>0 DEF heldBar
      <4>4. ASSUME NEW e \in Dests PROVE full_sends'[e] = full_sends[e]
        <5>1. ~FALSE => full_sends'[e] = full_sends[e]
          BY <1>0, <4>2, <4>3, FillMoves, Zenon
        <5>. QED BY <5>1
      <4>. QED BY <4>4
    <3>2. CASE EmptyDone \/ PadStep
      BY <3>2 DEF EmptyDone, PadStep, traffic
    <3>. QED BY <1>5, <3>1, <3>2
  <2>. QED BY <1>0, <1>3, <1>5, <2>1, <2>2
<1>6. ASSUME PadStep, ctl.back = "stale" PROVE Cleared(d)
  <2>1. \/ Filled(d) = 0 /\ UNCHANGED msgBuffers
        \/ \E F : SendBuffer(d, F)
    BY <1>0, <1>6 DEF PadStep
  <2>2. IsFiniteSet(msgBuffers[d].items)
    BY <1>0, FilledType, ItemSets
  <2>3. msgBuffers'[d].items = {}
    BY <1>0, <2>1, <2>2, BufferSent, FS_EmptySet DEF Filled
  <2>. QED BY <1>5, <1>6, <2>3 DEF Cleared, Left
<1>7. Loop("stale", d + 1) = Idle => Dests = Before(d) \cup {d}
  BY <1>0 DEF Loop, At, Idle
<1>8. ASSUME ctl' = Loop("stale", d + 1), \A e \in Before(d + 1) : Cleared(e)
      PROVE  (Same => Passed') /\ (ctl' = Idle => \A e \in Dests : Cleared(e))
  <2>1. \/ ctl' = At("stale", d + 1, "idle") \/ ctl' = Idle
    BY <1>8 DEF Loop
  <2>2. CASE ctl' = At("stale", d + 1, "idle")
    <3>1. ctl'.dest = d + 1 /\ ctl'.back # "stale" /\ ctl' # Idle
      BY <2>2 DEF At, Idle
    <3>. QED BY <1>8, <3>1 DEF Passed, Before, Cleared, Left, Overdue
  <2>3. CASE ctl' = Idle
    <3>1. ctl'.at # "stale" /\ ctl'.back # "stale"
      BY <2>3 DEF At, Idle
    <3>2. Before(d + 1) = Dests
      BY <1>0, <1>7, <1>8, <2>3
    <3>. QED BY <1>8, <3>1, <3>2 DEF Passed, Cleared, Left, Overdue
  <2>. QED BY <2>1, <2>2, <2>3
<1>9. ASSUME NEW at \in {"empty", "pad"}, ctl' = At(at, d, "stale"),
             \A e \in Before(d) : Cleared(e), ~full_sends'[d]
      PROVE  (Same => Passed') /\ ctl' # Idle
  <2>1. ctl'.dest = d /\ ctl' # Idle
    BY <1>9 DEF At, Idle
  <2>. QED BY <1>9, <2>1 DEF Passed, Before, Cleared, Left, Overdue
<1>10. CASE /\ ~(ctl.at = "stale" \/ ctl.back = "stale")
            /\ ctl' = ctl \/ ctl' = Loop("stale", 0)
                 \/ ~(ctl'.at = "stale" \/ ctl'.back = "stale")
  <2>1. ~EndOfRound
    BY <1>10 DEF EndOfRound
  <2>2. CASE ctl' = Loop("stale", 0)
    <3>1. (ctl'.at = "stale" => ctl'.dest = 0) /\ ctl'.back # "stale"
      BY <2>2 DEF Loop, At, Idle
    <3>. QED BY <1>0, <1>2, <2>1, <3>1 DEF Passed, Before, Cleared, Left, Overdue
  <2>3. CASE ctl' = ctl \/ ~(ctl'.at = "stale" \/ ctl'.back = "stale")
    BY <1>2, <1>10, <2>1, <2>3 DEF Passed
  <2>. QED BY <1>10, <2>2, <2>3
<1>11. CASE UNCHANGED vars
  <2>1. ~EndOfRound
    <3>1. ctl' = ctl
      BY <1>11 DEF vars
    <3>2. Idle.at # "stale" /\ Idle.back # "stale"
      BY DEF Idle, At
    <3>. QED BY <3>1, <3>2 DEF EndOfRound
  <2>2. Same => Passed'
    BY <1>0, <1>11 DEF Passed, Overdue, Before, vars, traffic
  <2>. QED BY <1>2, <2>1, <2>2
<1>12. CASE StaleStep /\ Stale(d) /\ ctl' = At("empty", d, "stale")
  BY <1>0, <1>2, <1>4, <1>9, <1>12 DEF EndOfRound
<1>13. CASE StaleStep /\ ~Stale(d) /\ ctl' = Loop("stale", d + 1)
  BY <1>0, <1>2, <1>4, <1>8, <1>13 DEF EndOfRound
<1>14. CASE EmptyTake /\ ctl.back = "stale" /\ ctl' = ctl
  <2>1. ctl' # Idle
    BY <1>14 DEF Idle, At
  <2>2. Same => Passed'
    BY <1>0, <1>5, <1>14 DEF Passed, Before, Cleared, Left, Overdue
  <2>. QED BY <1>2, <2>1, <2>2 DEF EndOfRound
<1>15. CASE EmptyDone /\ ctl.back = "stale" /\ ctl' = At("pad", d, "stale")
  BY <1>0, <1>2, <1>5, <1>9, <1>15 DEF EndOfRound
<1>16. CASE PadStep /\ ctl.back = "stale" /\ ctl' = Loop("stale", d + 1)
  BY <1>0, <1>2, <1>5, <1>6, <1>8, <1>16 DEF EndOfRound
<1>. QED BY <1>0, <1>10, <1>11, <1>12, <1>13, <1>14, <1>15, <1>16, RoundPosition

\* When a round ends, what is buffered waits, and no full send is recorded.
LEMMA RoundStep ==
  ASSUME WInv, [RoundNext]_<<vars, overdue>>
  PROVE  WInv' /\ (EndOfRound => overdue \cap Buffered' = {})
<1>1. [Next]_vars
  BY DEF RoundNext
<1>2. IInv' /\ CtlShape' /\ OnePlace'
  BY <1>1, NextIInv, ShapeStep, OnePlaceStep DEF WInv, IInv
<1>3. CASE overdue' = overdue
  <2>1. /\ Waits' /\ Passed'
        /\ EndOfRound => \A d \in Dests : Cleared(d)
    BY <1>1, <1>3, PassedStep
  <2>2. EndOfRound => overdue \cap Buffered' = {}
    BY <2>1 DEF Cleared, Left, Buffered
  <2>. QED BY <1>2, <2>1, <2>2 DEF WInv
<1>4. CASE EndOfRound /\ RoundNext
  <2>1. \A d \in Dests : Cleared(d)
    BY <1>1, <1>4, PassedStep
  <2>2. /\ \A d \in Dests : ~full_sends'[d]
        /\ \A d \in Dests : overdue \cap msgBuffers'[d].items = {}
    BY <2>1 DEF Cleared, Left
  <2>3. overdue \cap Buffered' = {}
    BY <2>2 DEF Buffered
  <2>4. overdue' = Buffered' /\ ctl' = Idle
    BY <1>4 DEF RoundNext, EndOfRound
  <2>5. \A d \in Dests : Pending(d)' = heldBar'[d] \cup msgBuffers'[d].items
    BY PendingIsPrime DEF pendingBar
  <2>6. \A x : x \in overdue' <=> \E d \in Dests : x \in msgBuffers'[d].items
    BY <2>4 DEF Buffered
  <2>7. overdue' \subseteq Known'
    BY <2>5, <2>6 DEF Known
  <2>8. ASSUME NEW d \in Dests PROVE overdue' \cap heldBar'[d] = {}
    <3>1. ASSUME NEW e \in Dests PROVE msgBuffers'[e].items \cap heldBar'[d] = {}
      <4>1. CASE e = d
        BY <1>2, <4>1, HeldNotFilledPrime
      <4>2. CASE e # d
        BY <1>2, <2>5, <4>2 DEF OnePlace
      <4>. QED BY <4>1, <4>2
    <3>. QED BY <2>6, <3>1
  <2>9. Waits'
    BY <2>2, <2>7, <2>8, HeldBarIsPrime DEF Waits
  <2>10. Passed'
    BY <2>4 DEF Passed, Idle, At
  <2>. QED BY <1>2, <2>3, <2>9, <2>10 DEF WInv
<1>. QED BY <1>3, <1>4 DEF RoundNext

\* An item that was buffered when one round of flushStale ended is gone when
\* the next one ends, for any number of destinations and any order of sends,
\* knobs and flushes in between: skipping a destination that had a full send
\* is safe, because that send took along what waited there.
THEOREM RoundsLeaveNothingOverdue == RoundSpec => NoItemWaitsTwoRounds
<1>1. RoundInit => WInv
  <2>. SUFFICES ASSUME RoundInit PROVE WInv
    OBVIOUS
  <2>1. IInv /\ CtlShape /\ ctl = Idle /\ overdue = {} /\ sent = {}
    BY InitIInv DEF RoundInit, Init, CtlShape, Idle, At
  <2>2. \A d \in Dests : heldBar[d] = {} /\ msgBuffers[d].items = {}
    BY DEF RoundInit, Init, heldBar, NewMessage
  <2>3. \A d \in Dests : Pending(d) = {}
    BY <2>2, PendingIs, AbstractDefs
  <2>4. OnePlace /\ Waits
    BY <2>1, <2>3 DEF OnePlace, Waits, SentItems, Overdue
  <2>5. Passed
    BY <2>1 DEF Passed, Idle, At
  <2>. QED BY <2>1, <2>4, <2>5 DEF WInv
<1>2. WInv /\ [RoundNext]_<<vars, overdue>> => WInv'
  BY RoundStep
<1>3. WInv /\ [RoundNext]_<<vars, overdue>> =>
        [EndOfRound => overdue \cap Buffered' = {}]_<<vars, overdue>>
  BY RoundStep
<1>. QED BY <1>1, <1>2, <1>3, PTL DEF RoundSpec, NoItemWaitsTwoRounds
=============================================================================
