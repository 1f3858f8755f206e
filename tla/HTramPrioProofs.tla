-------------------------- MODULE HTramPrioProofs --------------------------
(***************************************************************************)
(* What holds of HTramPrio for every number of destinations and buckets,   *)
(* every finite set of items and every set of knob values.                 *)
(*                                                                         *)
(* The inductive invariant IInv adds two conjuncts to the properties of    *)
(* HTramPrio: an item of a destination is in one bucket of its hold or in  *)
(* its buffer, never in two places; and a count is never too low.  The     *)
(* counters count items, so a handler keeps their drift (Steady) only as   *)
(* long as moving an item removes it from where it was.  A coarsening that *)
(* strands the bucket it keeps makes a count too high, and no step makes   *)
(* one too low.                                                            *)
(***************************************************************************)
EXTENDS HTramPrio, FiniteSetTheorems, TLAPS

HeldOnce ==
  \A d \in Dests : \A b \in Buckets :
    /\ tram_hold[d][b] \cap msgBuffers[d].items = {}
    /\ \A c \in Buckets : b # c => tram_hold[d][b] \cap tram_hold[d][c] = {}

CounterCovers == \A d \in Dests : Drift(d) >= 0

IInv == TypeOK /\ HeldOnce /\ BufferBounds /\ CounterCovers

\* A step that makes no count drift.
Steady == \A d \in Dests : Drift(d)' = Drift(d)

(***************************************************************************)
(* Sets of items.                                                          *)
(***************************************************************************)

\* A set of items is finite, and its size a number.
LEMMA ItemSets ==
  ASSUME NEW S, S \subseteq Items
  PROVE  IsFiniteSet(S) /\ Cardinality(S) \in Nat
BY FS_Subset, FS_CardinalityType, ConstantsAssumption DEF ConstantsAssumption

\* Adding a new item to a set, and taking one out of it, changes its size by 1.
LEMMA AddItem ==
  ASSUME NEW S, S \subseteq Items, NEW x \in Items
  PROVE  /\ x \notin S => Cardinality(S \cup {x}) = Cardinality(S) + 1
         /\ x \in S => Cardinality(S \ {x}) = Cardinality(S) - 1
BY ItemSets, FS_AddElement, FS_RemoveElement

\* The size of a set split in two.
LEMMA SplitItems ==
  ASSUME NEW S, NEW T, S \subseteq Items, T \subseteq Items, S \cap T = {}
  PROVE  Cardinality(S \cup T) = Cardinality(S) + Cardinality(T)
<1>1. IsFiniteSet(S) /\ IsFiniteSet(T) BY ItemSets
<1>2. Cardinality(S \cap T) = 0 BY FS_EmptySet
<1>3. Cardinality(S) \in Nat /\ Cardinality(T) \in Nat BY ItemSets
<1>4. Cardinality(S \cup T)
        = Cardinality(S) + Cardinality(T) - Cardinality(S \cap T)
  BY <1>1, FS_Union, Zenon
<1>. QED BY <1>2, <1>3, <1>4

LEMMA EmptyItems == Cardinality({}) = 0
BY FS_EmptySet

(***************************************************************************)
(* The building blocks of the handlers.                                    *)
(***************************************************************************)

\* What is held in a range of buckets is a set of items.
LEMMA HeldInType ==
  ASSUME TypeOK, NEW d \in Dests, NEW lo, NEW hi
  PROVE  HeldIn(d, lo, hi) \subseteq Items
BY DEF TypeOK, HeldIn

\* The number of items in a buffer.
LEMMA FilledType ==
  ASSUME TypeOK, NEW d \in Dests
  PROVE  /\ msgBuffers[d].items \subseteq Items
         /\ Filled(d) = Cardinality(msgBuffers[d].items)
         /\ Filled(d) \in Nat
         /\ msgBuffers[d].cap \in 1 .. BUFSIZE
<1>1. msgBuffers[d].items \subseteq Items /\ msgBuffers[d].cap \in 1 .. BUFSIZE
  BY DEF TypeOK
<1>. QED BY <1>1, ItemSets DEF Filled

\* How far a count is from what it counts is a number.
LEMMA DriftType ==
  ASSUME IInv, NEW d \in Dests
  PROVE  Drift(d) \in Int
<1>1. TypeOK
  BY DEF IInv
<1>2. updates_in_tram[d] \in Int
  BY <1>1 DEF TypeOK
<1>3. Cardinality(AdmittedHeld(d)) \in Nat
  BY <1>1, HeldInType, ItemSets DEF AdmittedHeld
<1>. QED BY <1>1, <1>2, <1>3, FilledType DEF Drift

\* Popping an admitted item takes exactly it out of the admitted items.
LEMMA PopAdmitted ==
  ASSUME TypeOK, HeldOnce, NEW d \in Dests, NEW i \in Buckets,
         NEW x \in tram_hold[d][i], Admitted(i),
         HoldPop(d, i, x), tram_threshold' = tram_threshold
  PROVE  /\ x \in Items
         /\ x \notin msgBuffers[d].items
         /\ x \in AdmittedHeld(d)
         /\ AdmittedHeld(d)' = AdmittedHeld(d) \ {x}
         /\ \A e \in Dests \ {d} : AdmittedHeld(e)' = AdmittedHeld(e)
         /\ tram_hold' \in [Dests -> [Buckets -> SUBSET Items]]
<1>1. /\ tram_hold \in [Dests -> [Buckets -> SUBSET Items]]
      /\ x \in Items
      /\ i \in Nat /\ i <= tram_threshold
      /\ tram_threshold \in Nat
      /\ NumBuckets \in Nat
  BY ConstantsAssumption DEF TypeOK, Admitted, Buckets, ConstantsAssumption
<1>2. tram_hold'[d] = [tram_hold[d] EXCEPT ![i] = @ \ {x}]
  BY <1>1 DEF HoldPop
<1>3. \A e \in Dests \ {d} : tram_hold'[e] = tram_hold[e]
  BY <1>1 DEF HoldPop
<1>4. \A b \in Buckets : tram_hold'[d][b] = tram_hold[d][b] \ {x}
  BY <1>1, <1>2 DEF HeldOnce
<1>5. x \notin msgBuffers[d].items /\ x \in AdmittedHeld(d)
  BY <1>1 DEF HeldOnce, AdmittedHeld, HeldIn, Buckets
<1>6. AdmittedHeld(d)' = AdmittedHeld(d) \ {x}
  BY <1>4 DEF AdmittedHeld, HeldIn
<1>7. \A e \in Dests \ {d} : AdmittedHeld(e)' = AdmittedHeld(e)
  BY <1>3 DEF AdmittedHeld, HeldIn
<1>8. tram_hold' \in [Dests -> [Buckets -> SUBSET Items]]
  BY <1>1 DEF HoldPop
<1>. QED BY <1>1, <1>5, <1>6, <1>7, <1>8

\* A fill site keeps the types, leaves room in the buffer, and changes the
\* admitted count by what it adds and sends.
LEMMA FillStep ==
  ASSUME TypeOK, NEW d \in Dests, NEW x \in Items,
         x \notin msgBuffers[d].items,
         Filled(d) < bufSize, bufSize <= msgBuffers[d].cap,
         NEW added \in Nat, NEW note \in BOOLEAN, Fill(d, x, added, note)
  PROVE  /\ msgBuffers' \in [Dests -> [items : SUBSET Items, cap : 1 .. BUFSIZE]]
         /\ updates_in_tram' \in [Dests -> Int]
         /\ full_sends' \in [Dests -> BOOLEAN]
         /\ tot_send_count' \in Nat
         /\ sent' \in SUBSET [dest : Dests, items : SUBSET Items]
         /\ \A e \in Dests \ {d} : /\ msgBuffers'[e] = msgBuffers[e]
                                   /\ updates_in_tram'[e] = updates_in_tram[e]
         /\ msgBuffers'[d].items \subseteq msgBuffers[d].items \cup {x}
         /\ Filled(d)' < bufSize /\ bufSize <= msgBuffers'[d].cap
         /\ updates_in_tram'[d] =
              updates_in_tram[d] + added + Filled(d)' - Filled(d) - 1
<1>. USE FilledType
<1>1. /\ bufSize \in 1 .. BUFSIZE
      /\ BUFSIZE \in Nat
      /\ msgBuffers \in [Dests -> [items : SUBSET Items, cap : 1 .. BUFSIZE]]
      /\ updates_in_tram \in [Dests -> Int]
      /\ full_sends \in [Dests -> BOOLEAN]
      /\ tot_send_count \in Nat
      /\ sent \in SUBSET [dest : Dests, items : SUBSET Items]
  BY ConstantsAssumption DEF TypeOK, ConstantsAssumption
<1>2. Cardinality(msgBuffers[d].items \cup {x}) = Filled(d) + 1
  BY AddItem
<1>3. CASE Filled(d) + 1 # bufSize
  <2>1. /\ msgBuffers' = [msgBuffers EXCEPT ![d].items = @ \cup {x}]
        /\ updates_in_tram' = [updates_in_tram EXCEPT ![d] = @ + added]
        /\ UNCHANGED <<sent, tot_send_count, full_sends>>
    BY <1>3 DEF Fill
  <2>2. /\ msgBuffers'[d].items = msgBuffers[d].items \cup {x}
        /\ msgBuffers'[d].cap = msgBuffers[d].cap
    BY <1>1, <2>1
  <2>3. Filled(d)' = Filled(d) + 1
    BY <1>2, <2>2 DEF Filled
  <2>. QED BY <1>1, <1>3, <2>1, <2>2, <2>3
<1>4. CASE Filled(d) + 1 = bufSize
  <2>1. /\ msgBuffers' = [msgBuffers EXCEPT ![d] = NewMessage(bufSize)]
        /\ sent' = sent \cup {[dest |-> d, items |-> msgBuffers[d].items \cup {x}]}
        /\ tot_send_count' = tot_send_count + bufSize
        /\ updates_in_tram' =
             [updates_in_tram EXCEPT ![d] = @ + added - bufSize]
        /\ full_sends' = [full_sends EXCEPT ![d] = @ \/ note]
    BY <1>4 DEF Fill, SendBuffer, NoteFullSend
  <2>2. msgBuffers'[d] = [items |-> {}, cap |-> bufSize]
    BY <1>1, <2>1 DEF NewMessage
  <2>3. Filled(d)' = 0
    BY <2>2, EmptyItems DEF Filled
  <2>4. [dest |-> d, items |-> msgBuffers[d].items \cup {x}]
          \in [dest : Dests, items : SUBSET Items]
    OBVIOUS
  <2>5. full_sends' \in [Dests -> BOOLEAN]
    BY <1>1, <2>1
  <2>6. msgBuffers' \in [Dests -> [items : SUBSET Items, cap : 1 .. BUFSIZE]]
    BY <1>1, <2>1 DEF NewMessage
  <2>. QED BY <1>1, <1>4, <2>1, <2>2, <2>3, <2>4, <2>5, <2>6
<1>. QED BY <1>3, <1>4

\* Sending a buffer empties it, into a message of a destination's items.
LEMMA SendStep ==
  ASSUME TypeOK, NEW d \in Dests, NEW extra, extra \subseteq Items,
         SendBuffer(d, extra)
  PROVE  /\ msgBuffers' \in [Dests -> [items : SUBSET Items, cap : 1 .. BUFSIZE]]
         /\ sent' \in SUBSET [dest : Dests, items : SUBSET Items]
         /\ \A e \in Dests \ {d} : msgBuffers'[e] = msgBuffers[e]
         /\ msgBuffers'[d].items = {}
         /\ msgBuffers'[d].cap = bufSize
         /\ Filled(d)' = 0
<1>1. /\ bufSize \in 1 .. BUFSIZE
      /\ msgBuffers \in [Dests -> [items : SUBSET Items, cap : 1 .. BUFSIZE]]
      /\ sent \in SUBSET [dest : Dests, items : SUBSET Items]
  BY ConstantsAssumption DEF TypeOK, ConstantsAssumption
<1>2. /\ msgBuffers' = [msgBuffers EXCEPT ![d] = NewMessage(bufSize)]
      /\ sent' = sent \cup {[dest |-> d, items |-> msgBuffers[d].items \cup extra]}
  BY DEF SendBuffer
<1>3. [dest |-> d, items |-> msgBuffers[d].items \cup extra]
        \in [dest : Dests, items : SUBSET Items]
  BY FilledType
<1>4. msgBuffers'[d] = [items |-> {}, cap |-> bufSize]
  BY <1>1, <1>2 DEF NewMessage
<1>5. Filled(d)' = 0
  BY <1>4, EmptyItems DEF Filled
<1>. QED BY <1>1, <1>2, <1>3, <1>4, <1>5 DEF NewMessage

\* The control points the handlers move to.
LEMMA CtlType ==
  /\ Idle \in Ctl
  /\ \A loop, back \in Loops, d \in Dests : At(loop, d, back) \in Ctl
  /\ \A loop \in Loops, d \in Nat : Loop(loop, d) \in Ctl
  /\ \A back \in Loops, d \in Nat : Return(d, back) \in Ctl
<1>1. 0 \in Dests /\ "idle" \in Loops /\ NumDest \in Nat
  BY ConstantsAssumption DEF Dests, Loops, ConstantsAssumption
<1>2. \A loop, back \in Loops, d \in Dests : At(loop, d, back) \in Ctl
  BY DEF At, Ctl
<1>3. Idle \in Ctl
  BY <1>1, <1>2 DEF Idle
<1>4. \A loop \in Loops, d \in Nat : Loop(loop, d) \in Ctl
  BY <1>1, <1>2, <1>3 DEF Loop, Dests
<1>5. \A back \in Loops, d \in Nat : Return(d, back) \in Ctl
  BY <1>1, <1>3, <1>4 DEF Return
<1>. QED BY <1>2, <1>3, <1>4, <1>5

\* What the type invariant says of a handler's position.
LEMMA AtDest ==
  ASSUME TypeOK
  PROVE  /\ ctl.dest \in Dests /\ ctl.dest \in Nat
         /\ ctl.back \in Loops /\ ctl.from \in Nat
         /\ NumDest \in Nat /\ 0 \in Dests
         /\ \A d \in Dests : d \in Nat /\ d < NumDest
         /\ \A d \in Nat : d < NumDest => d \in Dests
<1>1. ctl \in Ctl
  BY DEF TypeOK
<1>2. NumDest \in Nat /\ NumDest > 0
  BY ConstantsAssumption DEF ConstantsAssumption
<1>3. ctl.dest \in Dests /\ ctl.back \in Loops /\ ctl.from \in Nat
  BY <1>1 DEF Ctl
<1>. QED BY <1>2, <1>3 DEF Dests

(***************************************************************************)
(* Steps that only move the handler on.                                    *)
(***************************************************************************)

\* A step that changes no item, counter or knob keeps the invariant, as long
\* as it does not claim that more buffers have been resized.
LEMMA ControlStep ==
  ASSUME IInv, ctl' \in Ctl, full_sends' \in [Dests -> BOOLEAN],
         UNCHANGED <<tram_hold, msgBuffers, updates_in_tram, tot_send_count,
                     sent, bufSize, knobs, release_level>>,
         \A d \in Dests : NotResized(d) => NotResized(d)'
  PROVE  IInv' /\ Steady
<1>1. TypeOK' BY DEF IInv, TypeOK, knobs
<1>2. HeldOnce' BY DEF IInv, HeldOnce
<1>3. BufferBounds' BY DEF IInv, BufferBounds, Filled
<1>4. Steady
  BY DEF Steady, Drift, Filled, AdmittedHeld, HeldIn, knobs
<1>. QED BY <1>1, <1>2, <1>3, <1>4 DEF IInv, CounterCovers, Steady

\* Where each of those steps goes.
LEMMA ControlSteps ==
  ASSUME IInv,
         \/ InsertBucketsDone \/ ReleaseStep \/ TFlush \/ EmptyDone
         \/ FlushStale \/ StaleStep \/ FlushIdle \/ IdleStep
  PROVE  IInv' /\ Steady
<1>. TypeOK
  BY DEF IInv
<1>0. /\ ctl \in Ctl /\ ctl.dest \in Dests /\ ctl.back \in Loops
      /\ ctl.dest \in Nat /\ 0 \in Dests
      /\ NumDest \in Nat
      /\ \A d \in Dests : d \in Nat /\ d < NumDest
      /\ \A d \in Nat : d < NumDest => d \in Dests
      /\ full_sends \in [Dests -> BOOLEAN]
  BY AtDest DEF TypeOK
<1>1. CASE InsertBucketsDone
  <2>1. ctl' \in Ctl
    BY <1>0, <1>1, CtlType DEF InsertBucketsDone
  <2>2. ASSUME NEW d \in Dests, NotResized(d) PROVE NotResized(d)'
    <3>1. ctl.back = "resize" /\ ctl.dest < d
      BY <1>1, <2>2 DEF InsertBucketsDone, NotResized
    <3>2. ctl' = At("resize", ctl.dest + 1, "idle")
      BY <1>0, <1>1, <3>1 DEF InsertBucketsDone, Return, Loop
    <3>. QED BY <1>0, <3>1, <3>2 DEF NotResized, At
  <2>. QED BY <1>0, <1>1, <2>1, <2>2, ControlStep DEF InsertBucketsDone, traffic
<1>2. CASE ReleaseStep
  <2>1. ctl' \in Ctl
    BY <1>0, <1>2, CtlType DEF ReleaseStep, InsertBucketsByDest, Loops
  <2>2. \A d \in Dests : ~NotResized(d)
    BY <1>2 DEF ReleaseStep, NotResized
  <2>. QED BY <1>0, <1>2, <2>1, <2>2, ControlStep DEF ReleaseStep, traffic
<1>3. CASE TFlush
  <2>1. ctl' \in Ctl
    BY <1>0, <1>3, CtlType DEF TFlush, Loops
  <2>2. \A d \in Dests : ~NotResized(d)
    BY <1>3 DEF TFlush, NotResized, Idle, At
  <2>. QED BY <1>0, <1>3, <2>1, <2>2, ControlStep DEF TFlush, traffic
<1>4. CASE EmptyDone
  <2>1. ctl' \in Ctl
    BY <1>0, <1>4, CtlType DEF EmptyDone, Loops
  <2>2. \A d \in Dests : ~NotResized(d)
    BY <1>4 DEF EmptyDone, NotResized
  <2>. QED BY <1>0, <1>4, <2>1, <2>2, ControlStep DEF EmptyDone, traffic
<1>5. CASE FlushStale \/ FlushIdle
  <2>1. ctl' \in Ctl
    BY <1>0, <1>5, CtlType DEF FlushStale, FlushIdle, Loops
  <2>2. \A d \in Dests : ~NotResized(d)
    BY <1>5 DEF FlushStale, FlushIdle, NotResized, Idle, At
  <2>. QED BY <1>0, <1>5, <2>1, <2>2, ControlStep DEF FlushStale, FlushIdle, traffic
<1>6. CASE StaleStep
  <2>1. ctl' \in Ctl
    BY <1>0, <1>6, CtlType DEF StaleStep, FlushDest, Loops
  <2>2. \A d \in Dests : ~NotResized(d)
    BY <1>6 DEF StaleStep, NotResized
  <2>3. full_sends' \in [Dests -> BOOLEAN]
    BY <1>0, <1>6 DEF StaleStep
  <2>. QED BY <1>0, <1>6, <2>1, <2>2, <2>3, ControlStep DEF StaleStep
<1>7. CASE IdleStep
  <2>1. ctl' \in Ctl
    BY <1>0, <1>7, CtlType DEF IdleStep, FlushDest, Loops
  <2>2. \A d \in Dests : ~NotResized(d)
    BY <1>7 DEF IdleStep, NotResized
  <2>. QED BY <1>0, <1>7, <2>1, <2>2, ControlStep DEF IdleStep, traffic
<1>. QED BY <1>1, <1>2, <1>3, <1>4, <1>5, <1>6, <1>7

(***************************************************************************)
(* Steps that move items.                                                  *)
(***************************************************************************)

\* One turn of a drain: an admitted item goes from the hold to the buffer.
LEMMA DrainStep ==
  ASSUME IInv, NEW d \in Dests, ~NotResized(d),
         NEW i \in Buckets, NEW x \in tram_hold[d][i], Admitted(i),
         HoldPop(d, i, x), NEW note \in BOOLEAN, Fill(d, x, 0, note),
         UNCHANGED <<bufSize, knobs, release_level>>, ctl' \in Ctl,
         \A e \in Dests : NotResized(e) => NotResized(e)'
  PROVE  IInv' /\ Steady
<1>. DEFINE A == AdmittedHeld(d)
<1>1. TypeOK /\ HeldOnce /\ BufferBounds /\ CounterCovers
  BY DEF IInv
<1>2. tram_threshold' = tram_threshold /\ bufSize' = bufSize
  BY DEF knobs
<1>3. /\ x \in Items
      /\ x \notin msgBuffers[d].items
      /\ x \in A
      /\ AdmittedHeld(d)' = A \ {x}
      /\ \A e \in Dests \ {d} : AdmittedHeld(e)' = AdmittedHeld(e)
      /\ tram_hold' \in [Dests -> [Buckets -> SUBSET Items]]
  BY <1>1, <1>2, PopAdmitted
<1>4. Filled(d) < bufSize /\ bufSize <= msgBuffers[d].cap
  BY <1>1 DEF BufferBounds
<1>5. /\ msgBuffers' \in [Dests -> [items : SUBSET Items, cap : 1 .. BUFSIZE]]
      /\ updates_in_tram' \in [Dests -> Int]
      /\ full_sends' \in [Dests -> BOOLEAN]
      /\ tot_send_count' \in Nat
      /\ sent' \in SUBSET [dest : Dests, items : SUBSET Items]
      /\ \A e \in Dests \ {d} : /\ msgBuffers'[e] = msgBuffers[e]
                                /\ updates_in_tram'[e] = updates_in_tram[e]
      /\ msgBuffers'[d].items \subseteq msgBuffers[d].items \cup {x}
      /\ Filled(d)' < bufSize /\ bufSize <= msgBuffers'[d].cap
      /\ updates_in_tram'[d] =
           updates_in_tram[d] + 0 + Filled(d)' - Filled(d) - 1
  BY <1>1, <1>3, <1>4, FillStep
<1>6. TypeOK'
  BY <1>1, <1>3, <1>5 DEF TypeOK, knobs
<1>7. HeldOnce'
  <2>1. \A b \in Buckets : tram_hold'[d][b] = tram_hold[d][b] \ {x}
    BY <1>1 DEF HoldPop, HeldOnce, TypeOK
  <2>2. \A e \in Dests \ {d} : tram_hold'[e] = tram_hold[e]
    BY <1>1 DEF HoldPop, TypeOK
  <2>. QED BY <1>1, <1>5, <2>1, <2>2 DEF HeldOnce
<1>8. \A e \in Dests \ {d} : Filled(e)' = Filled(e)
  BY <1>5 DEF Filled
<1>9. BufferBounds'
  <2>1. Filled(d)' < msgBuffers'[d].cap
    <3>1. Filled(d)' \in Nat /\ msgBuffers'[d].cap \in Nat /\ bufSize \in Nat
      BY <1>1, <1>5, <1>6, FilledType, ItemSets, ConstantsAssumption
         DEF TypeOK, Filled, ConstantsAssumption
    <3>. QED BY <1>5, <3>1
  <2>. QED BY <1>1, <1>2, <1>5, <1>8, <2>1 DEF BufferBounds
<1>10. Steady
  <2>1. \A e \in Dests \ {d} : Drift(e)' = Drift(e)
    BY <1>3, <1>5, <1>8 DEF Drift
  <2>2. Cardinality(A \ {x}) = Cardinality(A) - 1 /\ Cardinality(A) \in Nat
    BY <1>1, <1>3, AddItem, ItemSets, HeldInType DEF AdmittedHeld
  <2>3. updates_in_tram[d] \in Int
    BY <1>1 DEF TypeOK
  <2>4. Filled(d) \in Nat /\ Filled(d)' \in Nat
    BY <1>1, <1>5, FilledType, ItemSets DEF Filled
  <2>5. Cardinality(AdmittedHeld(d)') = Cardinality(A) - 1
    BY <1>3, <2>2
  <2>6. Drift(d)' = Drift(d)
    BY <1>5, <2>2, <2>3, <2>4, <2>5 DEF Drift
  <2>. QED BY <2>1, <2>6 DEF Steady
<1>. QED BY <1>1, <1>6, <1>7, <1>9, <1>10 DEF IInv, CounterCovers, Steady

LEMMA DrainSteps ==
  ASSUME IInv, InsertBucketsTake \/ EmptyTake
  PROVE  IInv' /\ Steady
<1>. TypeOK
  BY DEF IInv
<1>0. /\ ctl \in Ctl /\ ctl.dest \in Dests
      /\ ctl.dest \in Nat
      /\ \A i \in Buckets : i \in Nat
      /\ ctl.from \in Nat
  BY AtDest DEF TypeOK, Buckets
<1>1. CASE InsertBucketsTake
  <2>1. PICK i \in Buckets : \E x \in tram_hold[ctl.dest][i] :
          /\ Admitted(i)
          /\ IsNext(ctl.dest, ctl.from, i)
          /\ HoldPop(ctl.dest, i, x)
          /\ Fill(ctl.dest, x, 0, TRUE)
          /\ ctl' = [ctl EXCEPT !.from = NextFrom(i, updates_in_tram'[ctl.dest])]
    BY <1>1 DEF InsertBucketsTake
  <2>2. PICK x \in tram_hold[ctl.dest][i] :
          /\ Admitted(i)
          /\ HoldPop(ctl.dest, i, x)
          /\ Fill(ctl.dest, x, 0, TRUE)
          /\ ctl' = [ctl EXCEPT !.from = NextFrom(i, updates_in_tram'[ctl.dest])]
    BY <2>1
  <2>3. ctl' \in Ctl
    BY <1>0, <2>2 DEF Ctl, NextFrom
  <2>4. ~NotResized(ctl.dest)
    BY <1>0, <1>1 DEF InsertBucketsTake, NotResized
  <2>5. \A e \in Dests : NotResized(e) => NotResized(e)'
    BY <1>0, <2>2 DEF NotResized, Ctl
  <2>6. UNCHANGED <<bufSize, knobs, release_level>>
    BY <1>1 DEF InsertBucketsTake
  <2>. QED BY <1>0, <2>2, <2>3, <2>4, <2>5, <2>6, DrainStep
<1>2. CASE EmptyTake
  <2>1. PICK i \in Buckets : \E x \in tram_hold[ctl.dest][i] :
          /\ Admitted(i)
          /\ HoldPop(ctl.dest, i, x)
          /\ Fill(ctl.dest, x, 0, FALSE)
    BY <1>2 DEF EmptyTake
  <2>2. PICK x \in tram_hold[ctl.dest][i] :
          /\ Admitted(i)
          /\ HoldPop(ctl.dest, i, x)
          /\ Fill(ctl.dest, x, 0, FALSE)
    BY <2>1
  <2>3. ~NotResized(ctl.dest)
    BY <1>2 DEF EmptyTake, NotResized
  <2>4. UNCHANGED <<bufSize, knobs, release_level>> /\ ctl' = ctl
    BY <1>2 DEF EmptyTake
  <2>5. \A e \in Dests : NotResized(e) => NotResized(e)'
    BY <2>4 DEF NotResized
  <2>. QED BY <1>0, <2>2, <2>3, <2>4, <2>5, DrainStep
<1>. QED BY <1>1, <1>2

\* A send of an item the library does not have yet.
LEMMA SendItemStep ==
  ASSUME IInv, NEW d \in Dests, NEW b \in Buckets, NEW x \in Items,
         SendItem(d, b, x)
  PROVE  IInv' /\ Steady
<1>1. TypeOK /\ HeldOnce /\ BufferBounds /\ CounterCovers
  BY DEF IInv
<1>2. /\ tram_hold \in [Dests -> [Buckets -> SUBSET Items]]
      /\ updates_in_tram \in [Dests -> Int]
      /\ tram_threshold \in Nat
      /\ \A c \in Buckets : c \in Nat
      /\ NumBuckets \in Nat
  BY <1>1, ConstantsAssumption DEF TypeOK, Buckets, ConstantsAssumption
<1>3. /\ x \notin msgBuffers[d].items
      /\ \A c \in Buckets : x \notin tram_hold[d][c]
      /\ x \notin AdmittedHeld(d)
  <2>1. x \notin Pending(d)
    BY DEF SendItem, Known
  <2>. QED BY <1>2, <2>1 DEF Pending, Held, AdmittedHeld, HeldIn, Buckets
<1>4. /\ UNCHANGED <<bufSize, knobs, release_level>>
      /\ tram_threshold' = tram_threshold
      /\ ctl = Idle
  BY DEF SendItem, knobs
<1>5. \A e \in Dests : ~NotResized(e)
  BY <1>4 DEF NotResized, Idle, At
<1>6. ctl' \in Ctl
  BY CtlType DEF SendItem, InsertBucketsByDest, Loops
<1>7. Filled(d) < bufSize /\ bufSize <= msgBuffers[d].cap
  BY <1>1, <1>5 DEF BufferBounds
<1>8. AdmittedHeld(d) \subseteq Items
  BY <1>1, HeldInType DEF AdmittedHeld
<1>9. CASE /\ Deferred(b)
           /\ HoldPush(d, b, x)
           /\ updates_in_tram' = [updates_in_tram EXCEPT ![d] = @ + Admits(b)]
           /\ UNCHANGED <<msgBuffers, full_sends, tot_send_count, sent>>
  <2>1. /\ \A c \in Buckets \ {b} : tram_hold'[d][c] = tram_hold[d][c]
        /\ tram_hold'[d][b] = tram_hold[d][b] \cup {x}
        /\ \A e \in Dests \ {d} : tram_hold'[e] = tram_hold[e]
        /\ tram_hold' \in [Dests -> [Buckets -> SUBSET Items]]
    BY <1>2, <1>9 DEF HoldPush
  <2>2. TypeOK'
    <3>1. Admits(b) \in Int
      BY DEF Admits
    <3>2. updates_in_tram' \in [Dests -> Int]
      BY <1>2, <1>9, <3>1
    <3>. QED BY <1>1, <1>4, <1>6, <1>9, <2>1, <3>2 DEF TypeOK, knobs
  <2>3. HeldOnce'
    BY <1>1, <1>3, <1>9, <2>1 DEF HeldOnce
  <2>4. BufferBounds'
    BY <1>1, <1>4, <1>5, <1>9 DEF BufferBounds, Filled
  <2>5. \A e \in Dests \ {d} : AdmittedHeld(e)' = AdmittedHeld(e)
    BY <1>4, <2>1 DEF AdmittedHeld, HeldIn
  <2>6. Cardinality(AdmittedHeld(d)') = Cardinality(AdmittedHeld(d)) + Admits(b)
    <3>1. CASE b > tram_threshold
      <4>1. \A c \in Buckets :
              c <= tram_threshold => tram_hold'[d][c] = tram_hold[d][c]
        BY <1>2, <2>1, <3>1
      <4>2. AdmittedHeld(d)' = AdmittedHeld(d)
        BY <1>4, <4>1 DEF AdmittedHeld, HeldIn
      <4>. QED BY <1>8, <3>1, <4>2, ItemSets DEF Admits
    <3>2. CASE ~(b > tram_threshold)
      <4>1. b <= tram_threshold /\ -1 < b
        BY <1>2, <3>2
      <4>2. \A c \in Buckets : tram_hold[d][c] \subseteq tram_hold'[d][c]
        BY <2>1
      <4>3. \A c \in Buckets : tram_hold'[d][c] \subseteq tram_hold[d][c] \cup {x}
        BY <2>1
      <4>4. x \in tram_hold'[d][b]
        BY <2>1
      <4>5. AdmittedHeld(d)' \subseteq AdmittedHeld(d) \cup {x}
        BY <1>4, <4>3 DEF AdmittedHeld, HeldIn
      <4>6. AdmittedHeld(d) \cup {x} \subseteq AdmittedHeld(d)'
        BY <1>4, <4>1, <4>2, <4>4 DEF AdmittedHeld, HeldIn
      <4>7. AdmittedHeld(d)' = AdmittedHeld(d) \cup {x}
        BY <4>5, <4>6
      <4>. QED BY <1>3, <1>8, <3>2, <4>7, AddItem DEF Admits
    <3>. QED BY <3>1, <3>2
  <2>7. Steady
    <3>1. /\ Filled(d) \in Nat /\ Cardinality(AdmittedHeld(d)) \in Nat
          /\ Admits(b) \in Nat
      BY <1>1, <1>8, FilledType, ItemSets DEF Admits
    <3>2. \A e \in Dests : Filled(e)' = Filled(e)
      BY <1>9 DEF Filled
    <3>3. Drift(d)' = Drift(d)
      BY <1>2, <1>9, <2>6, <3>1, <3>2 DEF Drift
    <3>4. \A e \in Dests \ {d} : Drift(e)' = Drift(e)
      BY <1>2, <1>9, <2>5, <3>2 DEF Drift
    <3>. QED BY <3>3, <3>4 DEF Steady
  <2>. QED BY <1>1, <2>2, <2>3, <2>4, <2>7 DEF IInv, CounterCovers, Steady
<1>10. CASE Fill(d, x, 1, TRUE) /\ UNCHANGED tram_hold
  <2>1. /\ msgBuffers' \in [Dests -> [items : SUBSET Items, cap : 1 .. BUFSIZE]]
        /\ updates_in_tram' \in [Dests -> Int]
        /\ full_sends' \in [Dests -> BOOLEAN]
        /\ tot_send_count' \in Nat
        /\ sent' \in SUBSET [dest : Dests, items : SUBSET Items]
        /\ \A e \in Dests \ {d} : /\ msgBuffers'[e] = msgBuffers[e]
                                  /\ updates_in_tram'[e] = updates_in_tram[e]
        /\ msgBuffers'[d].items \subseteq msgBuffers[d].items \cup {x}
        /\ Filled(d)' < bufSize /\ bufSize <= msgBuffers'[d].cap
        /\ updates_in_tram'[d] =
             updates_in_tram[d] + 1 + Filled(d)' - Filled(d) - 1
    BY <1>1, <1>3, <1>7, <1>10, FillStep
  <2>2. TypeOK'
    BY <1>1, <1>4, <1>6, <1>10, <2>1 DEF TypeOK, knobs
  <2>3. HeldOnce'
    BY <1>1, <1>3, <1>10, <2>1 DEF HeldOnce
  <2>4. \A e \in Dests \ {d} : Filled(e)' = Filled(e)
    BY <2>1 DEF Filled
  <2>5. /\ Filled(d) \in Nat /\ Filled(d)' \in Nat
        /\ msgBuffers'[d].cap \in Nat /\ bufSize \in Nat
        /\ Cardinality(AdmittedHeld(d)) \in Nat
    BY <1>1, <1>8, <2>1, <2>2, FilledType, ItemSets, ConstantsAssumption
       DEF TypeOK, Filled, ConstantsAssumption
  <2>6. BufferBounds'
    BY <1>1, <1>4, <1>5, <2>1, <2>4, <2>5 DEF BufferBounds
  <2>7. \A e \in Dests : AdmittedHeld(e)' = AdmittedHeld(e)
    BY <1>4, <1>10 DEF AdmittedHeld, HeldIn
  <2>8. Steady
    <3>1. Drift(d)' = Drift(d)
      BY <1>2, <2>1, <2>5, <2>7 DEF Drift
    <3>2. \A e \in Dests \ {d} : Drift(e)' = Drift(e)
      BY <2>1, <2>4, <2>7 DEF Drift
    <3>. QED BY <3>1, <3>2 DEF Steady
  <2>. QED BY <1>1, <2>2, <2>3, <2>6, <2>8 DEF IInv, CounterCovers, Steady
<1>. QED BY <1>9, <1>10 DEF SendItem

(***************************************************************************)
(* The knobs.                                                              *)
(***************************************************************************)

\* The items held up to hi are those up to lo and those between lo and hi.
LEMMA SplitHeld ==
  ASSUME TypeOK, HeldOnce, NEW d \in Dests, NEW lo \in Int, NEW hi \in Int,
         -1 <= lo, lo <= hi
  PROVE  /\ HeldIn(d, -1, hi) = HeldIn(d, -1, lo) \cup HeldIn(d, lo, hi)
         /\ Cardinality(HeldIn(d, -1, hi))
              = Cardinality(HeldIn(d, -1, lo)) + Cardinality(HeldIn(d, lo, hi))
         /\ Cardinality(HeldIn(d, -1, lo)) \in Nat
         /\ Cardinality(HeldIn(d, lo, hi)) \in Nat
<1>. DEFINE Below == HeldIn(d, -1, lo)
            Between == HeldIn(d, lo, hi)
<1>1. \A c \in Buckets : c \in Int
  BY DEF Buckets
<1>2. \A c \in Buckets : -1 < c /\ c <= hi
                           <=> (-1 < c /\ c <= lo) \/ (lo < c /\ c <= hi)
  BY <1>1
<1>3. HeldIn(d, -1, hi) = Below \cup Between
  BY <1>2 DEF HeldIn
<1>4. Below \cap Between = {}
  <2>1. SUFFICES ASSUME NEW x, x \in Below, x \in Between PROVE FALSE
    OBVIOUS
  <2>2. PICK b \in Buckets : b <= lo /\ x \in tram_hold[d][b]
    BY <2>1 DEF HeldIn
  <2>3. PICK c \in Buckets : lo < c /\ x \in tram_hold[d][c]
    BY <2>1 DEF HeldIn
  <2>4. b # c
    BY <1>1, <2>2, <2>3
  <2>. QED BY <2>2, <2>3, <2>4 DEF HeldOnce
<1>5. Below \subseteq Items /\ Between \subseteq Items
  BY HeldInType
<1>. QED BY <1>3, <1>4, <1>5, SplitItems, ItemSets

\* A change of the threshold counts the items it moves across.
LEMMA ChangeThresholdStep ==
  ASSUME IInv, NEW direct \in DirectThresholds, NEW tram \in Thresholds,
         NEW sel \in Selectivities, ChangeThreshold(direct, tram, sel)
  PROVE  IInv' /\ Steady
<1>1. TypeOK /\ HeldOnce /\ BufferBounds /\ CounterCovers
  BY DEF IInv
<1>2. /\ tram \in Nat /\ direct \in Int /\ sel \in Nat
      /\ bufSize \in Nat /\ tram_threshold \in Nat
      /\ updates_in_tram \in [Dests -> Int]
  BY <1>1, ConstantsAssumption DEF TypeOK, ConstantsAssumption
<1>3. /\ UNCHANGED <<tram_hold, msgBuffers, full_sends, tot_send_count, sent,
                     bufSize>>
      /\ tram_threshold' = tram /\ direct_threshold' = direct
      /\ selectivity' = sel /\ release_level' = sel * bufSize
      /\ updates_in_tram' =
           [d \in Dests |-> updates_in_tram[d] + Recount(d, tram)]
      /\ ctl = Idle
      /\ ctl' = Loop("release", 0)
  BY DEF ChangeThreshold
<1>4. ctl' \in Ctl
  BY <1>3, CtlType DEF Loops
<1>5. ASSUME NEW d \in Dests
      PROVE  /\ Recount(d, tram) \in Int
             /\ Cardinality(AdmittedHeld(d)') =
                  Cardinality(AdmittedHeld(d)) + Recount(d, tram)
  <2>1. AdmittedHeld(d)' = HeldIn(d, -1, tram)
    BY <1>3 DEF AdmittedHeld, HeldIn
  <2>2. CASE tram > tram_threshold
    <3>1. /\ Cardinality(HeldIn(d, -1, tram))
               = Cardinality(HeldIn(d, -1, tram_threshold))
                   + Cardinality(HeldIn(d, tram_threshold, tram))
          /\ Cardinality(HeldIn(d, tram_threshold, tram)) \in Nat
      BY <1>1, <1>2, <2>2, SplitHeld
    <3>. QED BY <2>1, <2>2, <3>1 DEF Recount, AdmittedHeld
  <2>3. CASE ~(tram > tram_threshold)
    <3>1. /\ Cardinality(HeldIn(d, -1, tram_threshold))
               = Cardinality(HeldIn(d, -1, tram))
                   + Cardinality(HeldIn(d, tram, tram_threshold))
          /\ Cardinality(HeldIn(d, -1, tram)) \in Nat
          /\ Cardinality(HeldIn(d, tram, tram_threshold)) \in Nat
      BY <1>1, <1>2, <2>3, SplitHeld
    <3>2. Recount(d, tram) = -Cardinality(HeldIn(d, tram, tram_threshold))
      BY <2>3 DEF Recount
    <3>. QED BY <2>1, <3>1, <3>2 DEF AdmittedHeld
  <2>. QED BY <2>2, <2>3
<1>6. updates_in_tram' \in [Dests -> Int]
  BY <1>2, <1>3, <1>5
<1>7. TypeOK'
  <2>1. release_level' \in Nat
    BY <1>2, <1>3
  <2>. QED BY <1>1, <1>2, <1>3, <1>4, <1>6, <2>1 DEF TypeOK
<1>8. HeldOnce'
  BY <1>1, <1>3 DEF HeldOnce
<1>9. BufferBounds'
  <2>1. \A d \in Dests : ~NotResized(d)
    BY <1>3 DEF NotResized, Idle, At
  <2>. QED BY <1>1, <1>3, <2>1 DEF BufferBounds, Filled
<1>10. Steady
  <2>1. SUFFICES ASSUME NEW d \in Dests PROVE Drift(d)' = Drift(d)
    BY DEF Steady
  <2>2. Filled(d)' = Filled(d) /\ Filled(d) \in Nat
    BY <1>1, <1>3, FilledType DEF Filled
  <2>3. Cardinality(AdmittedHeld(d)) \in Nat
    BY <1>1, HeldInType, ItemSets DEF AdmittedHeld
  <2>4. /\ updates_in_tram'[d] = updates_in_tram[d] + Recount(d, tram)
        /\ updates_in_tram[d] \in Int
    BY <1>2, <1>3
  <2>. QED BY <1>5, <2>2, <2>3, <2>4 DEF Drift
<1>. QED BY <1>1, <1>7, <1>8, <1>9, <1>10 DEF IInv, CounterCovers, Steady

\* Integer division by k >= 2: the bucket a bucket is merged into is one, and
\* it is at or below t \div k for the buckets below (t \div k + 1) * k.
LEMMA DivisionFacts ==
  ASSUME NEW k \in Nat, k > 1, NEW i \in Nat, NEW t \in Nat
  PROVE  /\ i \div k \in Nat
         /\ i \div k <= i
         /\ i \div k <= t \div k <=> i < (t \div k + 1) * k
         /\ t < (t \div k + 1) * k
<1>. DEFINE q == i \div k
            r == t \div k
<1>1. q \in Nat /\ r \in Nat
  BY SMT
<1>2. q * k <= i /\ i < (q + 1) * k
  BY SMT
<1>3. r * k <= t /\ t < (r + 1) * k
  BY SMT
<1>4. q <= i
  BY <1>1, <1>2, SMT
<1>5. q <= r => i < (r + 1) * k
  BY <1>1, <1>2, SMT
<1>6. i < (r + 1) * k => q <= r
  BY <1>1, <1>2, SMT
<1>. QED BY <1>1, <1>3, <1>4, <1>5, <1>6

\* Where coarsening puts a bucket: the buckets at or below the new threshold
\* are those that were and those it recounts, but for a last bucket that it
\* keeps and strands.
LEMMA MergedFacts ==
  ASSUME TypeOK, NEW m \in Merges, NEW c \in Buckets
  PROVE  /\ Merged(c, m.k, m.keep_top) \in Buckets
         /\ Merged(c, m.k, m.keep_top) <= tram_threshold \div m.k
              <=> \/ /\ c <= tram_threshold
                     /\ ~(/\ m.keep_top
                          /\ NumBuckets - 1 <= tram_threshold
                          /\ tram_threshold \div m.k < NumBuckets - 1
                          /\ c = NumBuckets - 1)
                  \/ c < AdmitBelow(m.k, m.keep_top)
         /\ AdmitBelow(m.k, m.keep_top) \in Int
         /\ AdmitBelow(m.k, m.keep_top) >= 0
         /\ tram_threshold \div m.k \in Nat
<1>. DEFINE k == m.k
            t == tram_threshold
            limit == (t \div k + 1) * k
            top == MergedTop(m.keep_top)
<1>1. /\ k \in Nat /\ k > 1 /\ m.keep_top \in BOOLEAN
      /\ c \in Nat /\ c < NumBuckets /\ t \in Nat
      /\ NumBuckets \in Nat /\ NumBuckets > 0
  BY ConstantsAssumption DEF TypeOK, Buckets, ConstantsAssumption
<1>. HIDE DEF k
<1>2. /\ c \div k \in Nat /\ c \div k <= c
      /\ (c \div k <= t \div k <=> c < limit)
      /\ t < limit
      /\ t \div k \in Nat /\ t \div k <= t
  BY <1>1, DivisionFacts
<1>3. limit \in Int
  BY <1>1, <1>2
<1>. HIDE DEF limit
<1>4. /\ top \in Int /\ top >= 0 /\ top <= NumBuckets /\ NumBuckets - 1 <= top
      /\ (m.keep_top => top = NumBuckets - 1)
      /\ (~m.keep_top => top = NumBuckets)
  BY <1>1 DEF MergedTop
<1>5. AdmitBelow(k, m.keep_top) = IF limit < top THEN limit ELSE top
  BY DEF AdmitBelow, limit
<1>6. Merged(c, k, m.keep_top) = IF c < top THEN c \div k ELSE c
  BY DEF Merged
<1>. HIDE DEF top
<1>7. Merged(c, k, m.keep_top) \in Buckets
  BY <1>1, <1>2, <1>6 DEF Buckets
<1>8. /\ AdmitBelow(k, m.keep_top) \in Int
      /\ AdmitBelow(k, m.keep_top) >= 0
  BY <1>1, <1>2, <1>3, <1>4, <1>5
<1>9. Merged(c, k, m.keep_top) <= t \div k
        <=> \/ /\ c <= t
               /\ ~(/\ m.keep_top
                    /\ NumBuckets - 1 <= t
                    /\ t \div k < NumBuckets - 1
                    /\ c = NumBuckets - 1)
            \/ c < AdmitBelow(k, m.keep_top)
  <2>1. CASE c < top
    BY <1>1, <1>2, <1>3, <1>4, <1>5, <1>6, <2>1
  <2>2. CASE ~(c < top)
    BY <1>1, <1>2, <1>3, <1>4, <1>5, <1>6, <2>2
  <2>. QED BY <2>1, <2>2
<1>. QED BY <1>2, <1>7, <1>8, <1>9 DEF k

\* Coarsening moves no item into the admitted ones but those it counts, none
\* out of them but those of a last bucket that it strands, which stay in the
\* count; and it merges buckets without losing an item.
LEMMA CoarsenBucketsStep ==
  ASSUME IInv, NEW m \in Merges, CoarsenBuckets(m.k, m.keep_top)
  PROVE  /\ IInv'
         /\ \A d \in Dests :
              /\ Held(d)' = Held(d)
              /\ AdmittedHeld(d) \ AdmittedHeld(d)'
                   = IF Strands(m.keep_top)
                       THEN tram_hold[d][NumBuckets - 1] ELSE {}
              /\ Drift(d)' = Drift(d)
                   + Cardinality(AdmittedHeld(d) \ AdmittedHeld(d)')
<1>. DEFINE k == m.k
            keep == m.keep_top
            below == AdmitBelow(m.k, m.keep_top)
            To(c) == Merged(c, m.k, m.keep_top)
            New(d) == HeldIn(d, tram_threshold, AdmitBelow(m.k, m.keep_top) - 1)
            top == NumBuckets - 1
            Lost(d) == IF Strands(m.keep_top) THEN tram_hold[d][top] ELSE {}
<1>1. TypeOK /\ HeldOnce /\ BufferBounds /\ CounterCovers
  BY DEF IInv
<1>2. /\ updates_in_tram' =
           [d \in Dests |-> updates_in_tram[d] + Cardinality(New(d))]
      /\ tram_hold' =
           [d \in Dests |-> [j \in Buckets |->
              UNION {tram_hold[d][i] : i \in {b \in Buckets : To(b) = j}}]]
      /\ tram_threshold' = tram_threshold \div k
      /\ direct_threshold' = IF direct_threshold > 0
                               THEN direct_threshold \div k
                               ELSE direct_threshold
      /\ ctl = Idle
      /\ ctl' = Loop("release", 0)
      /\ UNCHANGED <<msgBuffers, full_sends, tot_send_count, sent, bufSize,
                     selectivity, release_level>>
  BY DEF CoarsenBuckets
<1>3. /\ tram_hold \in [Dests -> [Buckets -> SUBSET Items]]
      /\ updates_in_tram \in [Dests -> Int]
      /\ tram_threshold \in Nat /\ direct_threshold \in Int
      /\ k \in Nat /\ k > 1 /\ NumBuckets \in Nat /\ 0 \in Buckets
      /\ \A c \in Buckets : c \in Nat /\ c < NumBuckets
  BY <1>1, ConstantsAssumption DEF TypeOK, Buckets, ConstantsAssumption
<1>4. /\ \A c \in Buckets :
           /\ To(c) \in Buckets
           /\ To(c) <= tram_threshold \div k
                <=> \/ c <= tram_threshold /\ ~(Strands(m.keep_top) /\ c = top)
                    \/ c < below
      /\ below \in Int /\ below >= 0
      /\ tram_threshold \div k \in Nat
  BY <1>1, <1>2, <1>3, MergedFacts DEF Strands
<1>4a. /\ top \in Buckets
       /\ Strands(m.keep_top) => top <= tram_threshold /\ below <= top
  <2>1. Strands(m.keep_top) => top <= tram_threshold /\ m.keep_top
    BY DEF Strands
  <2>2. m.keep_top => below <= top
    BY <1>3, <1>4 DEF AdmitBelow, MergedTop
  <2>. QED BY <1>3, <2>1, <2>2 DEF Buckets
<1>. HIDE DEF To, below, k, keep, top
<1>5. ASSUME NEW d \in Dests, NEW y, NEW j \in Buckets
      PROVE  y \in tram_hold'[d][j]
               <=> \E c \in Buckets : To(c) = j /\ y \in tram_hold[d][c]
  BY <1>2
<1>6. ASSUME NEW d \in Dests
      PROVE  /\ AdmittedHeld(d)' = (AdmittedHeld(d) \ Lost(d)) \cup New(d)
             /\ Held(d)' = Held(d)
             /\ AdmittedHeld(d) \cap New(d) = {}
             /\ Lost(d) \subseteq AdmittedHeld(d)
  <2>1. AdmittedHeld(d)' \subseteq (AdmittedHeld(d) \ Lost(d)) \cup New(d)
    <3>1. SUFFICES ASSUME NEW y \in AdmittedHeld(d)', y \notin New(d)
                   PROVE  y \in AdmittedHeld(d) \ Lost(d)
      OBVIOUS
    <3>2. PICK j \in Buckets : j <= tram_threshold \div k /\ y \in tram_hold'[d][j]
      BY <1>2, <3>1 DEF AdmittedHeld, HeldIn
    <3>3. PICK c \in Buckets : To(c) = j /\ y \in tram_hold[d][c]
      BY <1>5, <3>2
    <3>4. \/ c <= tram_threshold /\ ~(Strands(m.keep_top) /\ c = top)
          \/ tram_threshold < c /\ c <= below - 1
      BY <1>3, <1>4, <1>4a, <3>2, <3>3
    <3>5. c <= tram_threshold /\ ~(Strands(m.keep_top) /\ c = top)
      BY <3>1, <3>3, <3>4 DEF HeldIn, below
    <3>6. y \in AdmittedHeld(d)
      BY <1>3, <3>3, <3>5 DEF AdmittedHeld, HeldIn
    <3>7. y \notin Lost(d)
      BY <1>1, <1>4a, <3>3, <3>5 DEF HeldOnce
    <3>. QED BY <3>6, <3>7
  <2>2. (AdmittedHeld(d) \ Lost(d)) \cup New(d) \subseteq AdmittedHeld(d)'
    <3>1. SUFFICES ASSUME NEW y \in (AdmittedHeld(d) \ Lost(d)) \cup New(d)
                   PROVE  y \in AdmittedHeld(d)'
      OBVIOUS
    <3>2. PICK c \in Buckets :
            /\ y \in tram_hold[d][c]
            /\ \/ c <= tram_threshold /\ ~(Strands(m.keep_top) /\ c = top)
               \/ c <= below - 1
      BY <3>1 DEF AdmittedHeld, HeldIn, below
    <3>3. To(c) \in Buckets /\ To(c) <= tram_threshold \div k
      BY <1>3, <1>4, <3>2
    <3>4. y \in tram_hold'[d][To(c)]
      BY <1>5, <3>2, <3>3
    <3>5. -1 < To(c)
      BY <1>3, <3>3
    <3>. QED BY <1>2, <3>3, <3>4, <3>5 DEF AdmittedHeld, HeldIn
  <2>3. Held(d)' \subseteq Held(d)
    <3>1. SUFFICES ASSUME NEW y \in Held(d)' PROVE y \in Held(d)
      OBVIOUS
    <3>2. PICK j \in Buckets : y \in tram_hold'[d][j]
      BY <3>1 DEF Held, HeldIn
    <3>3. PICK c \in Buckets : y \in tram_hold[d][c]
      BY <1>5, <3>2
    <3>. QED BY <1>3, <3>3 DEF Held, HeldIn
  <2>4. Held(d) \subseteq Held(d)'
    <3>1. SUFFICES ASSUME NEW y \in Held(d) PROVE y \in Held(d)'
      OBVIOUS
    <3>2. PICK c \in Buckets : y \in tram_hold[d][c]
      BY <3>1 DEF Held, HeldIn
    <3>3. To(c) \in Buckets /\ y \in tram_hold'[d][To(c)]
      BY <1>4, <1>5, <3>2
    <3>4. -1 < To(c) /\ To(c) <= NumBuckets - 1
      BY <1>3, <3>3
    <3>. QED BY <3>3, <3>4 DEF Held, HeldIn
  <2>5. AdmittedHeld(d) \cap New(d) = {}
    <3>1. SUFFICES ASSUME NEW y, y \in AdmittedHeld(d), y \in New(d) PROVE FALSE
      OBVIOUS
    <3>2. PICK b \in Buckets : b <= tram_threshold /\ y \in tram_hold[d][b]
      BY <3>1 DEF AdmittedHeld, HeldIn
    <3>3. PICK c \in Buckets : tram_threshold < c /\ y \in tram_hold[d][c]
      BY <3>1 DEF HeldIn
    <3>4. b # c
      BY <1>3, <3>2, <3>3
    <3>. QED BY <1>1, <3>2, <3>3, <3>4 DEF HeldOnce
  <2>6. Lost(d) \subseteq AdmittedHeld(d)
    <3>1. SUFFICES ASSUME Strands(m.keep_top), NEW y \in tram_hold[d][top]
                   PROVE  y \in AdmittedHeld(d)
      OBVIOUS
    <3>2. -1 < top /\ top <= tram_threshold
      BY <1>3, <1>4a, <3>1
    <3>. QED BY <1>4a, <3>1, <3>2 DEF AdmittedHeld, HeldIn
  <2>. QED BY <2>1, <2>2, <2>3, <2>4, <2>5, <2>6
<1>7. ASSUME NEW d \in Dests
      PROVE  /\ AdmittedHeld(d) \ AdmittedHeld(d)' = Lost(d)
             /\ Cardinality(New(d)) \in Nat
             /\ Cardinality(Lost(d)) \in Nat
             /\ Cardinality(AdmittedHeld(d)) \in Nat
             /\ Cardinality(AdmittedHeld(d)') = Cardinality(AdmittedHeld(d))
                  - Cardinality(Lost(d)) + Cardinality(New(d))
  <2>. DEFINE Kept == AdmittedHeld(d) \ Lost(d)
  <2>1. AdmittedHeld(d) \subseteq Items /\ New(d) \subseteq Items
    BY <1>1, HeldInType DEF AdmittedHeld
  <2>2. AdmittedHeld(d) \ AdmittedHeld(d)' = Lost(d)
    BY <1>6
  <2>3. /\ Kept \subseteq Items /\ Lost(d) \subseteq Items
        /\ Kept \cap Lost(d) = {} /\ Kept \cap New(d) = {}
        /\ AdmittedHeld(d) = Kept \cup Lost(d)
        /\ AdmittedHeld(d)' = Kept \cup New(d)
    BY <1>6, <2>1
  <2>4. /\ Cardinality(AdmittedHeld(d)) = Cardinality(Kept) + Cardinality(Lost(d))
        /\ Cardinality(AdmittedHeld(d)') = Cardinality(Kept) + Cardinality(New(d))
    BY <2>1, <2>3, SplitItems
  <2>5. /\ Cardinality(Kept) \in Nat /\ Cardinality(Lost(d)) \in Nat
        /\ Cardinality(New(d)) \in Nat /\ Cardinality(AdmittedHeld(d)) \in Nat
    BY <2>1, <2>3, ItemSets
  <2>. QED BY <2>2, <2>4, <2>5
<1>8. TypeOK'
  <2>1. tram_hold' \in [Dests -> [Buckets -> SUBSET Items]]
    BY <1>2, <1>3
  <2>2. updates_in_tram' \in [Dests -> Int]
    BY <1>2, <1>3, <1>7
  <2>3. tram_threshold' \in Nat
    BY <1>2, <1>4
  <2>4. direct_threshold' \in Int
    <3>1. ASSUME direct_threshold > 0 PROVE direct_threshold \div k \in Nat
      <4>1. direct_threshold \in Nat
        BY <1>3, <3>1
      <4>2. k \in Nat /\ k > 1
        BY <1>3
      <4>. QED BY <4>1, <4>2, DivisionFacts
    <3>. QED BY <1>2, <1>3, <3>1
  <2>5. ctl' \in Ctl
    BY <1>2, CtlType DEF Loops
  <2>. QED BY <1>1, <1>2, <2>1, <2>2, <2>3, <2>4, <2>5 DEF TypeOK
<1>9. HeldOnce'
  <2>1. SUFFICES ASSUME NEW d \in Dests, NEW i \in Buckets, NEW j \in Buckets,
                        NEW y, y \in tram_hold'[d][i]
                 PROVE  /\ y \notin msgBuffers'[d].items
                        /\ i # j => y \notin tram_hold'[d][j]
    BY DEF HeldOnce
  <2>2. PICK b \in Buckets : To(b) = i /\ y \in tram_hold[d][b]
    BY <1>5, <2>1
  <2>3. y \notin msgBuffers'[d].items
    BY <1>1, <1>2, <2>2 DEF HeldOnce
  <2>4. ASSUME i # j, y \in tram_hold'[d][j] PROVE FALSE
    <3>1. PICK c \in Buckets : To(c) = j /\ y \in tram_hold[d][c]
      BY <1>5, <2>4
    <3>2. b # c
      BY <2>2, <2>4, <3>1
    <3>. QED BY <1>1, <2>2, <3>1, <3>2 DEF HeldOnce
  <2>. QED BY <2>3, <2>4
<1>10. BufferBounds'
  <2>1. \A d \in Dests : ~NotResized(d)
    BY <1>2 DEF NotResized, Idle, At
  <2>. QED BY <1>1, <1>2, <2>1 DEF BufferBounds, Filled
<1>11. ASSUME NEW d \in Dests
       PROVE  Drift(d)' = Drift(d)
                + Cardinality(AdmittedHeld(d) \ AdmittedHeld(d)')
  <2>1. Filled(d)' = Filled(d) /\ Filled(d) \in Nat
    BY <1>1, <1>2, FilledType DEF Filled
  <2>2. /\ updates_in_tram'[d] = updates_in_tram[d] + Cardinality(New(d))
        /\ updates_in_tram[d] \in Int
    BY <1>2, <1>3
  <2>3. /\ Cardinality(AdmittedHeld(d) \ AdmittedHeld(d)') = Cardinality(Lost(d))
        /\ Cardinality(New(d)) \in Nat /\ Cardinality(Lost(d)) \in Nat
        /\ Cardinality(AdmittedHeld(d)) \in Nat
        /\ Cardinality(AdmittedHeld(d))' = Cardinality(AdmittedHeld(d))
             - Cardinality(Lost(d)) + Cardinality(New(d))
    BY <1>7
  <2>. HIDE DEF New, Lost
  <2>. QED BY <2>1, <2>2, <2>3 DEF Drift
<1>12. CounterCovers'
  <2>1. SUFFICES ASSUME NEW d \in Dests PROVE Drift(d)' >= 0
    BY DEF CounterCovers
  <2>2. Drift(d) >= 0 /\ Drift(d) \in Int
    BY <1>1, <1>3, <1>7, FilledType DEF CounterCovers, Drift
  <2>. QED BY <1>7, <1>11, <2>2
<1>. QED BY <1>6, <1>7, <1>8, <1>9, <1>10, <1>11, <1>12 DEF IInv, top

\* Setting the buffer size leaves every buffer to be resized.
LEMMA SetBufferSizeStep ==
  ASSUME IInv, NEW n \in BufSizes, SetBufferSize(n)
  PROVE  IInv' /\ Steady
<1>1. TypeOK /\ HeldOnce /\ BufferBounds /\ CounterCovers
  BY DEF IInv
<1>2. /\ bufSize' = n /\ release_level' = selectivity * n
      /\ UNCHANGED <<tram_hold, msgBuffers, updates_in_tram, full_sends,
                     tot_send_count, sent, knobs>>
      /\ ctl' = Loop("resize", 0)
  BY DEF SetBufferSize, traffic
<1>3. /\ NumDest > 0 /\ NumDest \in Nat /\ 0 \in Dests
      /\ \A d \in Dests : d \in Nat
      /\ n \in Nat /\ selectivity \in Nat
  BY <1>1, ConstantsAssumption DEF TypeOK, Dests, ConstantsAssumption
<1>4. ctl' \in Ctl
  BY <1>2, CtlType DEF Loops
<1>5. TypeOK'
  <2>1. release_level' \in Nat
    BY <1>2, <1>3
  <2>. QED BY <1>1, <1>2, <1>4, <2>1 DEF TypeOK, knobs
<1>6. \A d \in Dests : NotResized(d)'
  BY <1>2, <1>3 DEF NotResized, Loop, At
<1>7. BufferBounds'
  BY <1>1, <1>2, <1>6 DEF BufferBounds, Filled
<1>8. HeldOnce' /\ Steady
  BY <1>1, <1>2 DEF HeldOnce, Steady, Drift, Filled, AdmittedHeld, HeldIn, knobs
<1>. QED BY <1>1, <1>5, <1>7, <1>8 DEF IInv, CounterCovers, Steady

\* A step that sends the buffer of d, with extra items from above the
\* threshold, and counts the others out.
LEMMA SendOffStep ==
  ASSUME IInv, NEW d \in Dests, NEW extra, extra \subseteq HeldAbove(d),
         SendBuffer(d, extra),
         updates_in_tram' = [updates_in_tram EXCEPT ![d] = @ - Filled(d)],
         tram_hold' \in [Dests -> [Buckets -> SUBSET Items]],
         \A b \in Buckets : tram_hold'[d][b] = tram_hold[d][b] \ extra,
         \A e \in Dests \ {d} : tram_hold'[e] = tram_hold[e],
         UNCHANGED <<bufSize, knobs, release_level>>,
         full_sends' \in [Dests -> BOOLEAN], tot_send_count' \in Nat,
         ctl' \in Ctl,
         \A e \in Dests \ {d} : NotResized(e) => NotResized(e)'
  PROVE  IInv' /\ Steady
<1>1. TypeOK /\ HeldOnce /\ BufferBounds /\ CounterCovers
  BY DEF IInv
<1>2. extra \subseteq Items
  BY <1>1, HeldInType DEF HeldAbove
<1>3. /\ msgBuffers' \in [Dests -> [items : SUBSET Items, cap : 1 .. BUFSIZE]]
      /\ sent' \in SUBSET [dest : Dests, items : SUBSET Items]
      /\ \A e \in Dests \ {d} : msgBuffers'[e] = msgBuffers[e]
      /\ msgBuffers'[d].items = {}
      /\ msgBuffers'[d].cap = bufSize
      /\ Filled(d)' = 0
  BY <1>1, <1>2, SendStep
<1>4. /\ updates_in_tram \in [Dests -> Int] /\ Filled(d) \in Nat
      /\ bufSize \in Nat /\ bufSize > 0
      /\ tram_threshold' = tram_threshold /\ bufSize' = bufSize
  BY <1>1, FilledType, ConstantsAssumption DEF TypeOK, knobs, ConstantsAssumption
<1>5. TypeOK'
  BY <1>1, <1>3, <1>4 DEF TypeOK, knobs
<1>6. HeldOnce'
  BY <1>1, <1>3, ZenonT(30) DEF HeldOnce
<1>7. \A e \in Dests \ {d} : Filled(e)' = Filled(e)
  BY <1>3 DEF Filled
<1>8. BufferBounds'
  BY <1>1, <1>3, <1>4, <1>7 DEF BufferBounds
<1>9. AdmittedHeld(d)' = AdmittedHeld(d)
  <2>1. ASSUME NEW c \in Buckets, c <= tram_threshold
        PROVE  tram_hold[d][c] \cap extra = {}
    <3>1. SUFFICES ASSUME NEW y, y \in tram_hold[d][c], y \in extra PROVE FALSE
      OBVIOUS
    <3>2. PICK b \in Buckets : tram_threshold < b /\ y \in tram_hold[d][b]
      BY <3>1 DEF HeldAbove, HeldIn
    <3>3. b # c
      BY <1>1, <2>1, <3>2 DEF TypeOK, Buckets
    <3>. QED BY <1>1, <3>1, <3>2, <3>3 DEF HeldOnce
  <2>2. \A c \in Buckets :
          c <= tram_threshold => tram_hold'[d][c] = tram_hold[d][c]
    BY <2>1
  <2>. QED BY <1>4, <2>2 DEF AdmittedHeld, HeldIn
<1>10. \A e \in Dests \ {d} : AdmittedHeld(e)' = AdmittedHeld(e)
  BY <1>4 DEF AdmittedHeld, HeldIn
<1>11. Steady
  <2>1. Cardinality(AdmittedHeld(d)) \in Nat
    BY <1>1, HeldInType, ItemSets DEF AdmittedHeld
  <2>2. updates_in_tram'[d] = updates_in_tram[d] - Filled(d)
    BY <1>4
  <2>3. Drift(d)' = Drift(d)
    BY <1>3, <1>4, <1>9, <2>1, <2>2 DEF Drift
  <2>4. \A e \in Dests \ {d} : updates_in_tram'[e] = updates_in_tram[e]
    BY <1>4
  <2>5. \A e \in Dests \ {d} : Drift(e)' = Drift(e)
    BY <1>7, <1>10, <2>4 DEF Drift
  <2>. QED BY <2>3, <2>5 DEF Steady
<1>. QED BY <1>1, <1>5, <1>6, <1>8, <1>11 DEF IInv, CounterCovers, Steady

LEMMA ResizeStepStep ==
  ASSUME IInv, ResizeStep
  PROVE  IInv' /\ Steady
<1>. DEFINE d == ctl.dest
<1>1. TypeOK /\ HeldOnce /\ BufferBounds /\ CounterCovers
  BY DEF IInv
<1>2. /\ d \in Dests /\ d \in Nat /\ ctl.at = "resize"
      /\ \A e \in Dests : e \in Nat /\ e < NumDest
      /\ NumDest \in Nat
      /\ tram_hold \in [Dests -> [Buckets -> SUBSET Items]]
      /\ msgBuffers \in [Dests -> [items : SUBSET Items, cap : 1 .. BUFSIZE]]
      /\ full_sends \in [Dests -> BOOLEAN] /\ tot_send_count \in Nat
      /\ bufSize \in 1 .. BUFSIZE
  <2>1. ctl.at = "resize"
    BY DEF ResizeStep
  <2>2. bufSize \in 1 .. BUFSIZE
    BY <1>1, ConstantsAssumption DEF TypeOK, ConstantsAssumption
  <2>. QED BY <1>1, <2>1, <2>2, AtDest DEF TypeOK
<1>3. /\ UNCHANGED <<tram_hold, bufSize, knobs, release_level>>
      /\ \/ ctl' = InsertBucketsByDest(d, "resize")
         \/ ctl' = Loop("resize", d + 1)
  BY DEF ResizeStep
<1>4. ctl' \in Ctl
  BY <1>2, <1>3, CtlType DEF InsertBucketsByDest, Loops
<1>5. \A e \in Dests \ {d} : NotResized(e) => NotResized(e)'
  <2>1. SUFFICES ASSUME NEW e \in Dests \ {d}, NotResized(e)
                 PROVE  NotResized(e)'
    OBVIOUS
  <2>2. d <= e /\ e # d
    BY <1>2, <2>1 DEF NotResized
  <2>3. e \in Nat /\ e < NumDest
    BY <1>2
  <2>4. d < e /\ d + 1 <= e /\ d + 1 < NumDest
    BY <1>2, <2>2, <2>3
  <2>. QED BY <1>2, <1>3, <2>4 DEF NotResized, InsertBucketsByDest, Loop, At
<1>6. \A e \in Dests : Filled(e) \in Nat
  BY <1>1, FilledType
<1>7. CASE /\ TooSmall(d)
           /\ msgBuffers' = [msgBuffers EXCEPT ![d].cap = bufSize]
           /\ UNCHANGED <<updates_in_tram, full_sends, tot_send_count, sent>>
  <2>1. /\ msgBuffers' \in [Dests -> [items : SUBSET Items, cap : 1 .. BUFSIZE]]
        /\ msgBuffers'[d].items = msgBuffers[d].items
        /\ msgBuffers'[d].cap = bufSize
        /\ \A e \in Dests \ {d} : msgBuffers'[e] = msgBuffers[e]
    BY <1>2, <1>7
  <2>2. TypeOK'
    BY <1>1, <1>3, <1>4, <1>7, <2>1 DEF TypeOK, knobs
  <2>3. \A e \in Dests : msgBuffers'[e].items = msgBuffers[e].items
    BY <2>1
  <2>4. HeldOnce'
    BY <1>1, <1>3, <2>3 DEF HeldOnce
  <2>5. \A e \in Dests : Filled(e)' = Filled(e)
    BY <2>3 DEF Filled
  <2>6. Steady
    BY <1>3, <1>7, <2>5 DEF Steady, Drift, AdmittedHeld, HeldIn, knobs
  <2>7. Filled(d) < bufSize
    <3>1. Filled(d) < msgBuffers[d].cap /\ msgBuffers[d].cap \in Nat
      BY <1>1, <1>2 DEF BufferBounds
    <3>. QED BY <1>2, <1>6, <1>7, <3>1 DEF TooSmall
  <2>8. BufferBounds'
    BY <1>1, <1>2, <1>3, <1>5, <2>1, <2>5, <2>7 DEF BufferBounds
  <2>. QED BY <1>1, <2>2, <2>4, <2>6, <2>8 DEF IInv, CounterCovers, Steady
<1>8. CASE /\ SendBuffer(d, {})
           /\ updates_in_tram' = [updates_in_tram EXCEPT ![d] = @ - Filled(d)]
           /\ tot_send_count' = tot_send_count + Filled(d)
           /\ NoteFullSend(d, TRUE)
  <2>1. full_sends' \in [Dests -> BOOLEAN]
    BY <1>2, <1>8 DEF NoteFullSend
  <2>2. tot_send_count' \in Nat
    BY <1>2, <1>6, <1>8
  <2>3. /\ \A b \in Buckets : tram_hold'[d][b] = tram_hold[d][b] \ {}
        /\ \A e \in Dests \ {d} : tram_hold'[e] = tram_hold[e]
        /\ tram_hold' \in [Dests -> [Buckets -> SUBSET Items]]
    BY <1>2, <1>3
  <2>. QED BY <1>2, <1>3, <1>4, <1>5, <1>8, <2>1, <2>2, <2>3, SendOffStep
<1>9. CASE /\ ~TooSmall(d) /\ ~Overfull(d)
           /\ UNCHANGED <<msgBuffers, updates_in_tram, full_sends,
                          tot_send_count, sent>>
  <2>1. TypeOK'
    BY <1>1, <1>3, <1>4, <1>9 DEF TypeOK, knobs
  <2>2. HeldOnce' /\ Steady
    BY <1>1, <1>3, <1>9
       DEF HeldOnce, Steady, Drift, Filled, AdmittedHeld, HeldIn, knobs
  <2>3. Filled(d) < bufSize /\ bufSize <= msgBuffers[d].cap
    BY <1>2, <1>6, <1>9 DEF TooSmall, Overfull
  <2>4. \A e \in Dests : Filled(e)' = Filled(e)
    BY <1>9 DEF Filled
  <2>5. BufferBounds'
    BY <1>1, <1>3, <1>5, <1>9, <2>3, <2>4 DEF BufferBounds
  <2>. QED BY <1>1, <2>1, <2>2, <2>5 DEF IInv, CounterCovers, Steady
<1>. QED BY <1>7, <1>8, <1>9 DEF ResizeStep

LEMMA PartialStepStep ==
  ASSUME IInv, PartialStep
  PROVE  IInv' /\ Steady
<1>. DEFINE d == ctl.dest
<1>. TypeOK
  BY DEF IInv
<1>1. /\ d \in Dests /\ d \in Nat /\ ctl.at = "partial"
      /\ \A e \in Nat : e < NumDest => e \in Dests
      /\ 0 \in Dests
      /\ tram_hold \in [Dests -> [Buckets -> SUBSET Items]]
      /\ full_sends \in [Dests -> BOOLEAN] /\ tot_send_count \in Nat
  <2>1. ctl.at = "partial"
    BY DEF PartialStep
  <2>. QED BY <2>1, AtDest DEF TypeOK
<1>2. /\ UNCHANGED <<tram_hold, full_sends, tot_send_count, bufSize, knobs,
                     release_level>>
      /\ ctl' = IF d + 1 < NumDest THEN At("partial", d + 1, "tflush")
                                   ELSE At("empty", 0, "tflush")
  BY DEF PartialStep
<1>3. ctl' \in Ctl
  BY <1>1, <1>2, CtlType DEF Loops
<1>4. \A e \in Dests : ~NotResized(e)
  BY <1>1 DEF NotResized
<1>5. CASE /\ SendBuffer(d, {})
           /\ updates_in_tram' = [updates_in_tram EXCEPT ![d] = @ - Filled(d)]
  <2>1. /\ \A b \in Buckets : tram_hold'[d][b] = tram_hold[d][b] \ {}
        /\ \A e \in Dests \ {d} : tram_hold'[e] = tram_hold[e]
        /\ tram_hold' \in [Dests -> [Buckets -> SUBSET Items]]
    BY <1>1, <1>2
  <2>. QED BY <1>1, <1>2, <1>3, <1>4, <1>5, <2>1, SendOffStep
<1>6. CASE UNCHANGED <<sent, msgBuffers, updates_in_tram>>
  BY <1>1, <1>2, <1>3, <1>4, <1>6, ControlStep
<1>. QED BY <1>5, <1>6 DEF PartialStep

LEMMA PadStepStep ==
  ASSUME IInv, PadStep
  PROVE  IInv' /\ Steady
<1>. DEFINE d == ctl.dest
<1>. TypeOK
  BY DEF IInv
<1>1. /\ ctl.back \in Loops
      /\ d \in Dests /\ d \in Nat /\ ctl.at = "pad"
      /\ \A e \in Nat : e < NumDest => e \in Dests
      /\ tram_hold \in [Dests -> [Buckets -> SUBSET Items]]
      /\ full_sends \in [Dests -> BOOLEAN] /\ tot_send_count \in Nat
      /\ NumDest \in Nat
  <2>1. ctl.at = "pad"
    BY DEF PadStep
  <2>. QED BY <2>1, AtDest DEF TypeOK
<1>2. /\ UNCHANGED <<full_sends, bufSize, knobs, release_level>>
      /\ ctl' = CASE ctl.back # "tflush" -> Return(d, ctl.back)
                  [] ctl.back = "tflush" /\ d + 1 < NumDest ->
                       At("pad", d + 1, "tflush")
                  [] OTHER -> Idle
  BY DEF PadStep
<1>3. ctl' \in Ctl
  BY <1>1, <1>2, CtlType DEF Loops
<1>4. \A e \in Dests : ~NotResized(e)
  BY <1>1 DEF NotResized
<1>5. CASE /\ \E F \in Fillers(d) :
                /\ SendBuffer(d, F)
                /\ tram_hold' = [tram_hold EXCEPT ![d] =
                                   [b \in Buckets |-> @[b] \ F]]
                /\ tot_send_count' = tot_send_count + Filled(d) + Cardinality(F)
           /\ updates_in_tram' = [updates_in_tram EXCEPT ![d] = @ - Filled(d)]
  <2>1. PICK F \in Fillers(d) :
                /\ SendBuffer(d, F)
                /\ tram_hold' = [tram_hold EXCEPT ![d] =
                                   [b \in Buckets |-> @[b] \ F]]
                /\ tot_send_count' = tot_send_count + Filled(d) + Cardinality(F)
    BY <1>5
  <2>2. F \subseteq HeldAbove(d) /\ F \subseteq Items
    BY <1>1, HeldInType DEF Fillers, HeldAbove
  <2>3. tot_send_count' \in Nat
    BY <1>1, <2>1, <2>2, FilledType, ItemSets
  <2>4. /\ \A b \in Buckets : tram_hold'[d][b] = tram_hold[d][b] \ F
        /\ \A e \in Dests \ {d} : tram_hold'[e] = tram_hold[e]
        /\ tram_hold' \in [Dests -> [Buckets -> SUBSET Items]]
    BY <1>1, <2>1
  <2>. QED BY <1>1, <1>2, <1>3, <1>4, <1>5, <2>1, <2>2, <2>3, <2>4, SendOffStep
<1>6. CASE UNCHANGED <<tram_hold, msgBuffers, updates_in_tram,
                       tot_send_count, sent>>
  BY <1>1, <1>2, <1>3, <1>4, <1>6, ControlStep
<1>. QED BY <1>5, <1>6 DEF PadStep

(***************************************************************************)
(* The invariant.                                                          *)
(***************************************************************************)
LEMMA InitIInv == Init => IInv /\ CounterExact
<1>. SUFFICES ASSUME Init PROVE IInv /\ CounterExact
  OBVIOUS
<1>1. /\ bufSize \in BufSizes /\ bufSize \in Nat /\ bufSize > 0
      /\ bufSize \in 1 .. BUFSIZE
      /\ selectivity = SelUnit /\ SelUnit \in Nat
      /\ release_level = selectivity * bufSize
  BY ConstantsAssumption DEF Init, ConstantsAssumption
<1>2. /\ \A d \in Dests : msgBuffers[d] = [items |-> {}, cap |-> bufSize]
      /\ \A d \in Dests, b \in Buckets : tram_hold[d][b] = {}
      /\ \A d \in Dests : updates_in_tram[d] = 0
  BY DEF Init, NewMessage
<1>3. \A d \in Dests : Filled(d) = 0 /\ Cardinality(AdmittedHeld(d)) = 0
  <2>1. \A d \in Dests : AdmittedHeld(d) = {}
    BY <1>2 DEF AdmittedHeld, HeldIn
  <2>. QED BY <1>2, <2>1, EmptyItems DEF Filled
<1>4. TypeOK
  <2>1. release_level \in Nat
    BY <1>1
  <2>2. ctl \in Ctl
    BY CtlType DEF Init
  <2>3. msgBuffers \in [Dests -> [items : SUBSET Items, cap : 1 .. BUFSIZE]]
    BY <1>1 DEF Init, NewMessage
  <2>4. tram_hold \in [Dests -> [Buckets -> SUBSET Items]]
    BY DEF Init
  <2>. QED BY <1>1, <2>1, <2>2, <2>3, <2>4 DEF TypeOK, Init
<1>5. HeldOnce
  BY <1>2 DEF HeldOnce
<1>6. BufferBounds
  BY <1>1, <1>2, <1>3 DEF BufferBounds
<1>7. CounterExact
  BY <1>2, <1>3 DEF CounterExact, Drift
<1>. QED BY <1>4, <1>5, <1>6, <1>7 DEF IInv, CounterCovers, CounterExact

\* Every step keeps the invariant, and the drifts but for a coarsening that
\* keeps the last bucket.
LEMMA NextStep ==
  ASSUME IInv, [Next]_vars
  PROVE  IInv' /\ (KeepsTop \/ Steady)
<1>1. CASE UNCHANGED vars
  <2>1. IInv'
    BY <1>1 DEF IInv, TypeOK, HeldOnce, BufferBounds, CounterCovers, Drift, vars,
                traffic, knobs, Filled, AdmittedHeld, HeldIn, NotResized
  <2>2. Steady
    BY <1>1 DEF Steady, Drift, vars, traffic, knobs, Filled, AdmittedHeld, HeldIn
  <2>. QED BY <2>1, <2>2
<1>2. CASE \E d \in Dests, b \in Buckets, x \in Items : SendItem(d, b, x)
  BY <1>2, SendItemStep
<1>3. CASE \E direct \in DirectThresholds, tram \in Thresholds,
              sel \in Selectivities : ChangeThreshold(direct, tram, sel)
  BY <1>3, ChangeThresholdStep
<1>4. CASE \E m \in Merges : CoarsenBuckets(m.k, m.keep_top)
  <2>1. PICK m \in Merges : CoarsenBuckets(m.k, m.keep_top)
    BY <1>4
  <2>2. IInv'
    BY <2>1, CoarsenBucketsStep
  <2>3. CASE m.keep_top
    <3>1. m.keep_top = TRUE
      BY <2>3, ConstantsAssumption DEF ConstantsAssumption
    <3>2. KeepsTop
      BY <2>1, <3>1 DEF KeepsTop
    <3>. QED BY <2>2, <3>2
  <2>4. CASE ~m.keep_top
    <3>1. \A d \in Dests :
            /\ AdmittedHeld(d) \ AdmittedHeld(d)' = {}
            /\ Drift(d)' = Drift(d)
                 + Cardinality(AdmittedHeld(d) \ AdmittedHeld(d)')
      BY <2>1, <2>4, CoarsenBucketsStep DEF Strands
    <3>2. \A d \in Dests : Drift(d)' = Drift(d) + 0
      BY <3>1, EmptyItems
    <3>. QED BY <2>2, <3>2, DriftType DEF Steady
  <2>. QED BY <2>3, <2>4
<1>5. CASE \E n \in BufSizes : SetBufferSize(n)
  BY <1>5, SetBufferSizeStep
<1>6. CASE InsertBucketsTake \/ EmptyTake
  BY <1>6, DrainSteps
<1>7. CASE ResizeStep
  BY <1>7, ResizeStepStep
<1>8. CASE PartialStep
  BY <1>8, PartialStepStep
<1>9. CASE PadStep
  BY <1>9, PadStepStep
<1>10. CASE \/ InsertBucketsDone \/ ReleaseStep \/ TFlush \/ EmptyDone
            \/ FlushStale \/ StaleStep \/ FlushIdle \/ IdleStep
  BY <1>10, ControlSteps
<1>. QED BY <1>1, <1>2, <1>3, <1>4, <1>5, <1>6, <1>7, <1>8, <1>9, <1>10
         DEF Next, Client, Knob, Flush, Step

LEMMA NextIInv == IInv /\ [Next]_vars => IInv'
BY NextStep

THEOREM Invariance == Spec => []IInv
BY InitIInv, NextIInv, PTL DEF Spec

\* The variables keep their types, whatever the client does.
THEOREM TypeCorrect == Spec => []TypeOK
BY Invariance, PTL DEF IInv

\* What one step does to a drift.
LEMMA DriftLaw ==
  ASSUME IInv, [Next]_vars, NEW d \in Dests
  PROVE  Drift(d)' = Drift(d)
           + (IF KeepsTop THEN Cardinality(AdmittedHeld(d) \ AdmittedHeld(d)')
                          ELSE 0)
<1>1. CASE KeepsTop
  <2>1. PICK m \in Merges : m.keep_top /\ CoarsenBuckets(m.k, TRUE)
    BY <1>1 DEF KeepsTop
  <2>2. m.keep_top = TRUE
    BY <2>1, ConstantsAssumption DEF ConstantsAssumption
  <2>. QED BY <1>1, <2>1, <2>2, CoarsenBucketsStep
<1>2. CASE ~KeepsTop
  <2>1. Drift(d)' = Drift(d)
    BY <1>2, NextStep DEF Steady
  <2>. QED BY <1>2, <2>1, DriftType
<1>. QED BY <1>1, <1>2

\* An admitted count drifts by what a coarsening strands, and by nothing else:
\* ten sites and every handler, stopped anywhere, keep admittedDrift().
THEOREM CountersDriftByStranding == Spec => DriftIsWhatStrands
<1>1. IInv /\ [Next]_vars
        => [\A d \in Dests : Drift(d)' = Drift(d)
              + (IF KeepsTop THEN Cardinality(AdmittedHeld(d) \ AdmittedHeld(d)')
                             ELSE 0)]_vars
  BY DriftLaw
<1>. QED BY <1>1, InitIInv, Invariance, PTL DEF Spec, DriftIsWhatStrands

\* A count is never below what admittedDrift() recounts: a destination with
\* something admitted, held or buffered, has a count above zero, on which
\* flushStale, flushIdle and the quiescence count rely.
THEOREM CountersCover == Spec => []CounterCovers
BY Invariance, PTL DEF IInv

\* A coarsening that strands an item: the threshold is at the bucket it keeps,
\* which holds one, or past it, and falls below.
Stranding ==
  \E m \in Merges, d \in Dests :
    /\ CoarsenBuckets(m.k, m.keep_top)
    /\ Strands(m.keep_top)
    /\ tram_hold[d][NumBuckets - 1] # {}

\* For a client that never strands an item admittedDrift() is 0 in every state,
\* in the middle of a handler as well.
THEOREM CountersAreExact ==
  Spec /\ [][~Stranding]_vars => []CounterExact
<1>1. IInv /\ CounterExact /\ [Next]_vars /\ [~Stranding]_vars => CounterExact'
  <2>1. SUFFICES ASSUME IInv, CounterExact, [Next]_vars, [~Stranding]_vars
                 PROVE  CounterExact'
    OBVIOUS
  <2>2. CASE Steady
    BY <2>1, <2>2 DEF CounterExact, Steady
  <2>3. CASE KeepsTop
    <3>1. PICK m \in Merges : m.keep_top /\ CoarsenBuckets(m.k, TRUE)
      BY <2>3 DEF KeepsTop
    <3>2. m.keep_top = TRUE /\ CoarsenBuckets(m.k, m.keep_top)
      BY <3>1, ConstantsAssumption DEF ConstantsAssumption
    <3>3. ~Stranding
      <4>1. ctl' # ctl \/ NumDest = 0
        BY <3>1, ConstantsAssumption
           DEF CoarsenBuckets, Idle, Loop, At, ConstantsAssumption
      <4>. QED BY <2>1, <4>1, ConstantsAssumption DEF vars, ConstantsAssumption
    <3>4. \A d \in Dests : AdmittedHeld(d) \ AdmittedHeld(d)' = {}
      BY <2>1, <3>2, <3>3, CoarsenBucketsStep DEF Stranding
    <3>5. \A d \in Dests : Drift(d)' = Drift(d) + 0
      BY <2>1, <3>2, <3>4, CoarsenBucketsStep, EmptyItems
    <3>. QED BY <2>1, <3>5 DEF CounterExact
  <2>. QED BY <2>1, <2>2, <2>3, NextStep
<1>. QED BY <1>1, InitIInv, Invariance, PTL DEF Spec

\* No fill site ever writes past a buffer, or steps over the equality test
\* that sends it, whatever sizes the client asks for.
THEOREM BuffersHaveRoom == Spec => []BufferBounds
BY Invariance, PTL DEF IInv

\* What coarsenBuckets takes back, for every bucket count and every factor: the
\* admissions of a last bucket that it keeps and lowers the threshold past, all
\* of them and no other.
THEOREM CoarseningStrands == Spec => CoarseningStrandsOnlyKept
<1>1. ASSUME IInv, NEW m \in Merges, CoarsenBuckets(m.k, m.keep_top)
      PROVE  \A d \in Dests :
               AdmittedHeld(d) \ AdmittedHeld(d)'
                 = IF Strands(m.keep_top) THEN tram_hold[d][NumBuckets - 1] ELSE {}
  BY <1>1, CoarsenBucketsStep
<1>2. IInv => (\A m \in Merges : CoarsenBuckets(m.k, m.keep_top) =>
                 \A d \in Dests :
                   AdmittedHeld(d) \ AdmittedHeld(d)'
                     = IF Strands(m.keep_top) THEN tram_hold[d][NumBuckets - 1]
                                              ELSE {})
  BY <1>1
<1>. QED BY <1>2, Invariance, PTL DEF CoarseningStrandsOnlyKept
=============================================================================
