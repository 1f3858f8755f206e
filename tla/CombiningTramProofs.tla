------------------------ MODULE CombiningTramProofs ------------------------
(***************************************************************************)
(* CombiningTram for every number of destinations and buckets and every    *)
(* finite set of items.                                                    *)
(*                                                                         *)
(* Until combining is on the invariant of HTramPrio holds, and nothing is  *)
(* in the library (Blank), since the client may not send yet; so no        *)
(* coarsening strands an item, and the counts are exact.  From then        *)
(* on an item is in one place: an entry of one hold, one buffer, a message *)
(* that was sent, or the absorbed items.  The counters count entries, so   *)
(* they stay exact only as long as an entry that leaves a hold or takes    *)
(* the place of another is nowhere else.                                   *)
(***************************************************************************)
EXTENDS CombiningTram, HTramPrioProofs

EntryRecords == [item : Items, bucket : Buckets]
Waiting(d) == ItemsOf(holds[d]) \cup msgBuffers[d].items

Blank ==
  /\ \A d \in Dests : \A b \in Buckets : tram_hold[d][b] = {}
  /\ \A d \in Dests : msgBuffers[d].items = {}
  /\ sent = {}
  /\ holds = [d \in Dests |-> {}]
  /\ absorbed = {}

\* The loops of a library that combines, and those a call may return to.
FoldLoops == {"idle", "insertBuckets", "release", "empty", "pad", "flushAll",
              "stale", "flushIdle"}
FoldBacks == {"idle", "release", "flushAll", "stale", "flushIdle"}
FoldCtl ==
  /\ ctl \in [at : FoldLoops, dest : Dests, from : Nat, back : FoldBacks]
  /\ ctl.at = "insertBuckets" => ctl.back \in {"idle", "release"}
  /\ ctl.at \in {"empty", "pad"} => ctl.back \in {"flushAll", "stale", "flushIdle"}
  /\ ctl.at \notin {"insertBuckets", "empty", "pad"} => ctl.back = "idle"

FoldTypes ==
  /\ tram_hold \in [Dests -> [Buckets -> {{}}]]
  /\ msgBuffers \in [Dests -> [items : SUBSET Items, cap : 1 .. BUFSIZE]]
  /\ updates_in_tram \in [Dests -> Int]
  /\ full_sends \in [Dests -> BOOLEAN]
  /\ bufSize \in BufSizes
  /\ tram_threshold \in Nat
  /\ direct_threshold \in Int
  /\ selectivity \in Nat
  /\ release_level = selectivity * bufSize
  /\ tot_send_count \in Nat
  /\ sent \in SUBSET [dest : Dests, items : SUBSET Items]
  /\ holds \in [Dests -> SUBSET EntryRecords]
  /\ absorbed \subseteq Items

Once ==
  /\ \A d \in Dests : \A r, q \in holds[d] : r.item = q.item => r = q
  /\ \A d \in Dests : ItemsOf(holds[d]) \cap msgBuffers[d].items = {}
  /\ \A d, e \in Dests : d # e => Waiting(d) \cap Waiting(e) = {}
  /\ \A d \in Dests : Waiting(d) \cap (SentItems \cup absorbed) = {}
  /\ SentItems \cap absorbed = {}

Room == \A d \in Dests : Filled(d) < bufSize /\ bufSize <= msgBuffers[d].cap

Counted ==
  \A d \in Dests : updates_in_tram[d] = Filled(d) + Cardinality(Admissible(d))

(***************************************************************************)
(* How far a handler has got: the destinations that a release loop is past *)
(* have no backlog, and those a flush is past have nothing admitted.       *)
(***************************************************************************)
Relieved(d) == Over(updates_in_tram[d], release_level) => Admissible(d) = {}
Clean(d) == Filled(d) = 0 /\ Admissible(d) = {}

Progress ==
  /\ "release" \in {ctl.at, ctl.back} => \A d \in Dests : d < ctl.dest => Relieved(d)
  /\ {ctl.at, ctl.back} \cap {"flushAll", "flushIdle"} # {} =>
       \A d \in Dests : d < ctl.dest => Clean(d)
  /\ ctl.at = "pad" => Admissible(ctl.dest) = {}

FoldInv == FoldTypes /\ FoldCtl /\ Once /\ Room /\ Counted /\ Progress

CInv ==
  /\ combining \in BOOLEAN
  /\ combining => FoldInv
  /\ ~combining => /\ IInv /\ Blank /\ CounterExact
                   /\ release_level = selectivity * bufSize

(***************************************************************************)
(* Sets of entries.                                                        *)
(***************************************************************************)

\* There are finitely many entries.
LEMMA EntrySets ==
  ASSUME NEW S, S \subseteq EntryRecords
  PROVE  IsFiniteSet(S) /\ Cardinality(S) \in Nat
<1>. DEFINE f == [p \in Items \X Buckets |-> Entry(p[1], p[2])]
<1>1. IsFiniteSet(Buckets)
  <2>1. 0 \in Int /\ NumBuckets - 1 \in Int
    BY ConstantsAssumption DEF ConstantsAssumption
  <2>. QED BY <2>1, FS_Interval DEF Buckets
<1>2. IsFiniteSet(Items \X Buckets)
  BY <1>1, FS_Product, ConstantsAssumption DEF ConstantsAssumption
<1>3. f \in Surjection(Items \X Buckets, EntryRecords)
  <2>1. f \in [Items \X Buckets -> EntryRecords]
    BY DEF Entry, EntryRecords
  <2>2. ASSUME NEW r \in EntryRecords
        PROVE  \E p \in Items \X Buckets : f[p] = r
    <3>1. <<r.item, r.bucket>> \in Items \X Buckets
      BY DEF EntryRecords
    <3>2. f[<<r.item, r.bucket>>] = r
      BY <3>1 DEF Entry, EntryRecords
    <3>. QED BY <3>1, <3>2
  <2>. QED BY <2>1, <2>2 DEF Surjection
<1>4. IsFiniteSet(EntryRecords)
  BY <1>2, <1>3, FS_Surjection
<1>. QED BY <1>4, FS_Subset, FS_CardinalityType

\* Entries with different items are as many as their items.
LEMMA ItemsCount ==
  ASSUME NEW R, R \subseteq EntryRecords,
         \A r, q \in R : r.item = q.item => r = q
  PROVE  /\ ItemsOf(R) \subseteq Items
         /\ Cardinality(ItemsOf(R)) = Cardinality(R)
<1>. DEFINE f == [r \in R |-> r.item]
<1>1. ItemsOf(R) \subseteq Items
  BY DEF ItemsOf, EntryRecords
<1>2. f \in Bijection(R, ItemsOf(R))
  <2>1. f \in Injection(R, ItemsOf(R))
    BY DEF Injection, IsInjective, ItemsOf
  <2>2. f \in Surjection(R, ItemsOf(R))
    BY DEF Surjection, ItemsOf
  <2>. QED BY <2>1, <2>2 DEF Bijection
<1>3. ExistsBijection(R, ItemsOf(R))
  BY <1>2 DEF ExistsBijection
<1>. QED BY <1>1, <1>3, EntrySets, FS_Bijection

\* Taking entries out of a set.
LEMMA TakeEntries ==
  ASSUME NEW S, S \subseteq EntryRecords, NEW R, R \subseteq S
  PROVE  Cardinality(S \ R) = Cardinality(S) - Cardinality(R)
<1>1. S \cap R = R
  OBVIOUS
<1>2. IsFiniteSet(S)
  BY EntrySets
<1>3. Cardinality(S \ R) = Cardinality(S) - Cardinality(S \cap R)
  BY <1>2, FS_Difference
<1>. QED BY <1>1, <1>3

\* Two parts of a set of entries.
LEMMA JoinEntries ==
  ASSUME NEW S, S \subseteq EntryRecords, NEW T, T \subseteq EntryRecords,
         S \cap T = {}
  PROVE  Cardinality(S \cup T) = Cardinality(S) + Cardinality(T)
<1>1. IsFiniteSet(S) /\ IsFiniteSet(T)
      /\ Cardinality(S) \in Nat /\ Cardinality(T) \in Nat
  BY EntrySets
<1>2. Cardinality(S \cup T)
        = Cardinality(S) + Cardinality(T) - Cardinality(S \cap T)
  BY <1>1, FS_Union, Zenon
<1>3. Cardinality(S \cap T) = 0
  BY EmptyItems
<1>. QED BY <1>1, <1>2, <1>3

(***************************************************************************)
(* Where an item is.                                                       *)
(***************************************************************************)

\* With combining on nothing is in the old holds.
LEMMA OldHoldsEmpty ==
  ASSUME tram_hold \in [Dests -> [Buckets -> {{}}]], NEW d \in Dests
  PROVE  /\ \A lo, hi : HeldIn(d, lo, hi) = {}
         /\ Pending(d) = msgBuffers[d].items
         /\ CombinedPending(d) = Waiting(d)
<1>1. \A b \in Buckets : tram_hold[d][b] = {}
  OBVIOUS
<1>2. \A lo, hi : HeldIn(d, lo, hi) = {}
  BY <1>1 DEF HeldIn
<1>. QED BY <1>2 DEF Pending, Held, CombinedPending, Waiting

\* An item that the library does not know is nowhere.
LEMMA UnknownIsNowhere ==
  ASSUME tram_hold \in [Dests -> [Buckets -> {{}}]], NEW x, x \notin CombinedKnown
  PROVE  /\ x \notin SentItems /\ x \notin absorbed
         /\ \A d \in Dests : x \notin Waiting(d)
<1>1. \A d \in Dests : x \notin Pending(d) /\ x \notin ItemsOf(holds[d])
  BY DEF CombinedKnown, Known
<1>2. \A d \in Dests : x \notin Waiting(d)
  BY <1>1, OldHoldsEmpty DEF Waiting
<1>. QED BY <1>2 DEF CombinedKnown, Known

\* The items of the entries that stay and of those that leave.
LEMMA ItemsSplit ==
  ASSUME NEW H, NEW R, R \subseteq H, \A r, q \in H : r.item = q.item => r = q
  PROVE  /\ ItemsOf(R) \subseteq ItemsOf(H)
         /\ ItemsOf(H \ R) = ItemsOf(H) \ ItemsOf(R)
         /\ ItemsOf(H \ R) \cap ItemsOf(R) = {}
BY DEF ItemsOf

\* The items of one message more.
LEMMA SentMore ==
  ASSUME NEW d, NEW S, sent' = sent \cup {[dest |-> d, items |-> S]}
  PROVE  SentItems' = SentItems \cup S
<1>. DEFINE m == [dest |-> d, items |-> S]
<1>1. m.items = S
  OBVIOUS
<1>2. sent' = sent \cup {m}
  OBVIOUS
<1>. HIDE DEF m
<1>3. \A x : x \in SentItems' <=> \E k \in sent' : x \in k.items
  BY DEF SentItems
<1>4. \A x : x \in SentItems <=> \E k \in sent : x \in k.items
  BY DEF SentItems
<1>5. \A x : x \in SentItems' <=> x \in SentItems \/ x \in S
  BY <1>1, <1>2, <1>3, <1>4
<1>. QED BY <1>5

\* Entries R leave the hold of d for its buffer, or with it in a message.
LEMMA EntriesMove ==
  ASSUME FoldTypes, Once, NEW d \in Dests, NEW R, R \subseteq holds[d],
         holds' = [holds EXCEPT ![d] = @ \ R], absorbed' = absorbed,
         \A e \in Dests \ {d} : msgBuffers'[e].items = msgBuffers[e].items,
         NEW S, S = msgBuffers[d].items \cup ItemsOf(R),
         \/ msgBuffers'[d].items = S /\ sent' = sent
         \/ msgBuffers'[d].items = {} /\ sent' = sent \cup {[dest |-> d, items |-> S]}
  PROVE  /\ Once'
         /\ holds' \in [Dests -> SUBSET EntryRecords]
         /\ \A e \in Dests \ {d} : Waiting(e)' = Waiting(e)
<1>1. holds \in [Dests -> SUBSET EntryRecords]
  BY DEF FoldTypes
<1>2. holds'[d] = holds[d] \ R /\ \A e \in Dests \ {d} : holds'[e] = holds[e]
  BY <1>1
<1>3. holds' \in [Dests -> SUBSET EntryRecords]
  BY <1>1
<1>4. \A e \in Dests \ {d} : Waiting(e)' = Waiting(e)
  BY <1>2 DEF Waiting
<1>5. /\ ItemsOf(R) \subseteq ItemsOf(holds[d])
      /\ ItemsOf(holds'[d]) = ItemsOf(holds[d]) \ ItemsOf(R)
      /\ ItemsOf(holds[d]) \cap msgBuffers[d].items = {}
  BY <1>2, ItemsSplit DEF Once
<1>6. S \subseteq Waiting(d)
  BY <1>5 DEF Waiting
<1>7. \A e \in Dests : \A r, q \in holds'[e] : r.item = q.item => r = q
  BY <1>2 DEF Once
<1>8. CASE msgBuffers'[d].items = S /\ sent' = sent
  <2>1. Waiting(d)' = Waiting(d)
    BY <1>5, <1>8 DEF Waiting
  <2>2. SentItems' = SentItems
    BY <1>8 DEF SentItems
  <2>3. \A e \in Dests : ItemsOf(holds'[e]) \cap msgBuffers'[e].items = {}
    BY <1>2, <1>5, <1>8 DEF Once
  <2>4. \A e \in Dests : Waiting(e)' = Waiting(e)
    BY <1>4, <2>1
  <2>5. Once'
    BY <1>7, <2>2, <2>3, <2>4 DEF Once
  <2>. QED BY <1>3, <1>4, <2>5
<1>9. CASE /\ msgBuffers'[d].items = {}
           /\ sent' = sent \cup {[dest |-> d, items |-> S]}
  <2>1. Waiting(d)' = Waiting(d) \ S
    BY <1>5, <1>9 DEF Waiting
  <2>2. SentItems' = SentItems \cup S
    BY <1>9, SentMore
  <2>3. \A e \in Dests : ItemsOf(holds'[e]) \cap msgBuffers'[e].items = {}
    BY <1>2, <1>5, <1>9 DEF Once
  <2>4. \A e \in Dests \ {d} : Waiting(e) \cap S = {}
    BY <1>6 DEF Once
  <2>5. \A e \in Dests : Waiting(e)' \subseteq Waiting(e) /\ Waiting(e)' \cap S = {}
    BY <1>4, <2>1, <2>4
  <2>6. S \cap absorbed = {} /\ SentItems \cap absorbed = {}
    BY <1>6 DEF Once
  <2>7. \A e, f \in Dests : e # f => Waiting(e)' \cap Waiting(f)' = {}
    BY <2>5 DEF Once
  <2>8. \A e \in Dests : Waiting(e)' \cap (SentItems' \cup absorbed') = {}
    BY <2>2, <2>5 DEF Once
  <2>9. SentItems' \cap absorbed' = {}
    BY <2>2, <2>6
  <2>10. Once'
    BY <1>7, <2>3, <2>7, <2>8, <2>9 DEF Once
  <2>. QED BY <1>3, <1>4, <2>10
<1>. QED BY <1>8, <1>9

\* A new item enters the hold of d, alone or in the place of entries Q; one
\* item y is absorbed or none.
LEMMA EntryEnters ==
  ASSUME FoldTypes, Once, NEW d \in Dests, NEW x \in Items, NEW b \in Buckets,
         x \notin CombinedKnown, NEW Q, Q \subseteq holds[d],
         NEW H, H = (holds[d] \ Q) \cup {Entry(x, b)},
         holds' = [holds EXCEPT ![d] = H],
         absorbed' = absorbed \cup ItemsOf(Q), UNCHANGED <<msgBuffers, sent>>
  PROVE  /\ Once'
         /\ holds' \in [Dests -> SUBSET EntryRecords]
         /\ absorbed' \subseteq Items
         /\ Entry(x, b) \notin holds[d]
         /\ \A e \in Dests \ {d} : Waiting(e)' = Waiting(e)
         /\ Waiting(d)' = (Waiting(d) \ ItemsOf(Q)) \cup {x}
<1>1. holds \in [Dests -> SUBSET EntryRecords] /\ absorbed \subseteq Items
      /\ Entry(x, b) \in EntryRecords /\ Entry(x, b).item = x
  BY DEF FoldTypes, Entry, EntryRecords
<1>2. /\ holds'[d] = (holds[d] \ Q) \cup {Entry(x, b)}
      /\ \A e \in Dests \ {d} : holds'[e] = holds[e]
  BY <1>1
<1>3. holds' \in [Dests -> SUBSET EntryRecords]
  BY <1>1
<1>4. x \notin SentItems /\ x \notin absorbed /\ \A e \in Dests : x \notin Waiting(e)
  BY UnknownIsNowhere DEF FoldTypes
<1>5. x \notin ItemsOf(holds[d]) /\ \A r \in holds[d] : r.item # x
  BY <1>4 DEF Waiting, ItemsOf
<1>6. Entry(x, b) \notin holds[d]
  BY <1>1, <1>5
<1>7. /\ ItemsOf(Q) \subseteq ItemsOf(holds[d])
      /\ ItemsOf(holds[d] \ Q) = ItemsOf(holds[d]) \ ItemsOf(Q)
      /\ ItemsOf(holds[d]) \cap msgBuffers[d].items = {}
  BY ItemsSplit DEF Once
<1>8. ItemsOf(holds'[d]) = ItemsOf(holds[d] \ Q) \cup {x}
  BY <1>1, <1>2 DEF ItemsOf
<1>9. Waiting(d)' = (Waiting(d) \ ItemsOf(Q)) \cup {x}
  BY <1>7, <1>8 DEF Waiting
<1>10. \A e \in Dests \ {d} : Waiting(e)' = Waiting(e)
  BY <1>2 DEF Waiting
<1>11. ItemsOf(Q) \subseteq Items /\ ItemsOf(Q) \subseteq Waiting(d)
  BY <1>1, <1>7 DEF ItemsOf, EntryRecords, Waiting
<1>12. \A e \in Dests : \A r, q \in holds'[e] : r.item = q.item => r = q
  BY <1>1, <1>2, <1>5 DEF Once
<1>13. \A e \in Dests : ItemsOf(holds'[e]) \cap msgBuffers'[e].items = {}
  <2>1. ItemsOf(holds'[d]) \cap msgBuffers[d].items = {}
    BY <1>4, <1>7, <1>8 DEF Waiting
  <2>. QED BY <1>2, <2>1 DEF Once
<1>14. SentItems' = SentItems
  BY DEF SentItems
<1>15. \A e, f \in Dests : e # f => Waiting(e)' \cap Waiting(f)' = {}
  BY <1>4, <1>9, <1>10 DEF Once
<1>16. \A e \in Dests : Waiting(e)' \cap (SentItems' \cup absorbed') = {}
  <2>1. ASSUME NEW e \in Dests \ {d} PROVE Waiting(e)' \cap (SentItems' \cup absorbed') = {}
    <3>1. Waiting(e) \cap Waiting(d) = {}
      BY DEF Once
    <3>. QED BY <1>10, <1>11, <1>14, <3>1 DEF Once
  <2>2. Waiting(d)' \cap (SentItems' \cup absorbed') = {}
    BY <1>4, <1>9, <1>11, <1>14 DEF Once
  <2>. QED BY <2>1, <2>2
<1>17. SentItems' \cap absorbed' = {}
  BY <1>11, <1>14 DEF Once
<1>18. Once'
  BY <1>12, <1>13, <1>15, <1>16, <1>17 DEF Once
<1>. QED BY <1>1, <1>3, <1>6, <1>9, <1>10, <1>11, <1>18

(***************************************************************************)
(* What leaves a hold for a buffer.                                        *)
(***************************************************************************)

LEMMA Sizes ==
  ASSUME FoldTypes, NEW d \in Dests
  PROVE  /\ msgBuffers[d].items \subseteq Items
         /\ Filled(d) = Cardinality(msgBuffers[d].items) /\ Filled(d) \in Nat
         /\ holds[d] \subseteq EntryRecords
         /\ \A lo, hi : Live(d, lo, hi) \subseteq holds[d]
         /\ Admissible(d) \subseteq holds[d]
         /\ Cardinality(Admissible(d)) \in Nat
         /\ bufSize \in Nat /\ 1 <= bufSize /\ bufSize <= BUFSIZE /\ BUFSIZE \in Nat
<1>1. msgBuffers[d].items \subseteq Items /\ holds[d] \subseteq EntryRecords
  BY DEF FoldTypes
<1>2. \A lo, hi : Live(d, lo, hi) \subseteq holds[d]
  BY DEF Live
<1>3. Admissible(d) \subseteq holds[d]
  BY <1>2 DEF Admissible
<1>4. Cardinality(Admissible(d)) \in Nat
  BY <1>1, <1>3, EntrySets
<1>5. Filled(d) = Cardinality(msgBuffers[d].items) /\ Filled(d) \in Nat
  BY <1>1, ItemSets DEF Filled
<1>6. bufSize \in 1 .. BUFSIZE /\ BUFSIZE \in Nat
  BY ConstantsAssumption DEF FoldTypes, ConstantsAssumption
<1>. QED BY <1>1, <1>2, <1>3, <1>4, <1>5, <1>6

\* release() gives at most `limit` entries, and fewer only if there are none
\* left.
LEMMA ReleasedFacts ==
  ASSUME FoldTypes, NEW d \in Dests, NEW high, NEW limit \in Nat,
         NEW R \in Released(d, high, limit)
  PROVE  /\ R \subseteq Live(d, -1, high) /\ R \subseteq holds[d]
         /\ Cardinality(R) \in Nat /\ Cardinality(R) <= limit
         /\ Cardinality(R) < limit => R = Live(d, -1, high)
<1>1. /\ R \subseteq Live(d, -1, high)
      /\ \/ Cardinality(R) = limit
         \/ R = Live(d, -1, high) /\ Cardinality(R) < limit
  BY DEF Released
<1>2. R \subseteq holds[d] /\ holds[d] \subseteq EntryRecords
  BY <1>1, Sizes
<1>3. Cardinality(R) \in Nat
  BY <1>2, EntrySets
<1>. QED BY <1>1, <1>2, <1>3

\* A buffer with the items of entries from the same hold.
LEMMA BatchSize ==
  ASSUME FoldTypes, Once, NEW d \in Dests, NEW R, R \subseteq holds[d]
  PROVE  /\ msgBuffers[d].items \cup ItemsOf(R) \subseteq Items
         /\ Cardinality(msgBuffers[d].items \cup ItemsOf(R))
              = Filled(d) + Cardinality(R)
<1>1. R \subseteq EntryRecords /\ \A r, q \in R : r.item = q.item => r = q
  BY Sizes DEF Once
<1>2. ItemsOf(R) \subseteq Items /\ Cardinality(ItemsOf(R)) = Cardinality(R)
  BY <1>1, ItemsCount
<1>3. ItemsOf(R) \cap msgBuffers[d].items = {}
  BY DEF Once, ItemsOf
<1>. QED BY <1>2, <1>3, Sizes, SplitItems

\* What a batch that leaves does to one destination.
Unmoved(e) ==
  /\ Filled(e)' = Filled(e)
  /\ Admissible(e)' = Admissible(e)
  /\ updates_in_tram'[e] = updates_in_tram[e]

\* Only d's hold, buffer and counter change.
LEMMA OthersUnmoved ==
  ASSUME NEW d \in Dests, tram_threshold' = tram_threshold,
         \A e \in Dests \ {d} : /\ msgBuffers'[e].items = msgBuffers[e].items
                                /\ holds'[e] = holds[e]
                                /\ updates_in_tram'[e] = updates_in_tram[e]
  PROVE  \A e \in Dests \ {d} : Unmoved(e)
BY DEF Unmoved, Filled, Admissible, Live

\* The invariant holds for d again, and nothing else has changed.
LEMMA OneMoved ==
  ASSUME Room, Counted, NEW d \in Dests, \A e \in Dests \ {d} : Unmoved(e),
         bufSize' = bufSize,
         \A e \in Dests \ {d} : msgBuffers'[e] = msgBuffers[e],
         Filled(d)' < bufSize /\ bufSize <= msgBuffers'[d].cap,
         updates_in_tram'[d] = Filled(d)' + Cardinality(Admissible(d)')
  PROVE  Room' /\ Counted'
<1>1. Room'
  BY DEF Room, Unmoved
<1>2. Counted'
  BY DEF Counted, Unmoved
<1>. QED BY <1>1, <1>2

\* One turn of a drain.
LEMMA DrainTurn ==
  ASSUME FoldTypes, Once, Room, Counted, NEW d \in Dests,
         NEW R \in Released(d, tram_threshold, bufSize - Filled(d)),
         NEW note \in BOOLEAN, Drain(d, R, note),
         UNCHANGED <<tram_hold, bufSize, knobs, release_level, absorbed>>
  PROVE  /\ FoldTypes' /\ Once' /\ Room' /\ Counted'
         /\ \A e \in Dests \ {d} : Unmoved(e)
         /\ Admissible(d)' \subseteq Admissible(d)
         /\ Fills(d, R) \/ Admissible(d)' = {}
<1>. DEFINE S == msgBuffers[d].items \cup ItemsOf(R)
            A == Admissible(d)
<1>1. Filled(d) \in Nat /\ bufSize \in Nat /\ Filled(d) < bufSize
      /\ bufSize - Filled(d) \in Nat
  BY Sizes DEF Room
<1>2. /\ R \subseteq A /\ R \subseteq holds[d]
      /\ Cardinality(R) \in Nat /\ Cardinality(R) <= bufSize - Filled(d)
      /\ Cardinality(R) < bufSize - Filled(d) => R = A
  BY <1>1, ReleasedFacts DEF Admissible
<1>3. S \subseteq Items /\ Cardinality(S) = Filled(d) + Cardinality(R)
  BY <1>2, BatchSize
<1>4. /\ holds' = [holds EXCEPT ![d] = @ \ R]
      /\ holds \in [Dests -> SUBSET EntryRecords]
      /\ msgBuffers \in [Dests -> [items : SUBSET Items, cap : 1 .. BUFSIZE]]
      /\ updates_in_tram \in [Dests -> Int]
      /\ full_sends \in [Dests -> BOOLEAN]
      /\ tot_send_count \in Nat
      /\ sent \in SUBSET [dest : Dests, items : SUBSET Items]
      /\ bufSize \in 1 .. BUFSIZE /\ BUFSIZE \in Nat
      /\ tram_threshold' = tram_threshold /\ bufSize' = bufSize
      /\ absorbed' = absorbed
  BY Sizes, ConstantsAssumption DEF Drain, FoldTypes, ConstantsAssumption, knobs
<1>5. /\ holds'[d] = holds[d] \ R
      /\ \A e \in Dests \ {d} : holds'[e] = holds[e]
  BY <1>4
<1>6. Admissible(d)' = A \ R
  BY <1>4, <1>5 DEF Admissible, Live
<1>7. Cardinality(Admissible(d)') = Cardinality(A) - Cardinality(R)
      /\ Cardinality(A) \in Nat
  BY <1>2, <1>6, Sizes, TakeEntries
<1>8. updates_in_tram[d] = Filled(d) + Cardinality(A)
  BY DEF Counted
<1>9. CASE ~Fills(d, R)
  <2>1. /\ msgBuffers' = [msgBuffers EXCEPT ![d].items = @ \cup ItemsOf(R)]
        /\ UNCHANGED <<sent, tot_send_count, updates_in_tram, full_sends>>
    BY <1>9 DEF Drain, Append
  <2>2. /\ msgBuffers'[d].items = S /\ msgBuffers'[d].cap = msgBuffers[d].cap
        /\ \A e \in Dests \ {d} : msgBuffers'[e] = msgBuffers[e]
        /\ msgBuffers' \in [Dests -> [items : SUBSET Items, cap : 1 .. BUFSIZE]]
    BY <1>3, <1>4, <2>1
  <2>3. Filled(d)' = Filled(d) + Cardinality(R)
    BY <1>3, <2>2 DEF Filled
  <2>4. Once' /\ holds' \in [Dests -> SUBSET EntryRecords]
    BY <1>2, <1>4, <2>1, <2>2, EntriesMove
  <2>5. FoldTypes'
    BY <1>4, <2>1, <2>2, <2>4 DEF FoldTypes, knobs
  <2>6. \A e \in Dests \ {d} : Unmoved(e)
    BY <1>4, <1>5, <2>1, <2>2, OthersUnmoved
  <2>7. Filled(d)' < bufSize /\ bufSize <= msgBuffers'[d].cap
    BY <1>9, <2>2, <2>3, <1>1, <1>2 DEF Fills, Room
  <2>8. updates_in_tram'[d] = Filled(d)' + Cardinality(Admissible(d)')
    BY <1>1, <1>2, <1>7, <1>8, <2>1, <2>3
  <2>9. Room' /\ Counted'
    BY <1>4, <2>2, <2>6, <2>7, <2>8, OneMoved
  <2>10. Admissible(d)' = {}
    BY <1>1, <1>2, <1>6, <1>9 DEF Fills
  <2>. QED BY <1>6, <2>4, <2>5, <2>6, <2>9, <2>10
<1>10. CASE Fills(d, R)
  <2>1. /\ sent' = sent \cup {[dest |-> d, items |-> S]}
        /\ msgBuffers' = [msgBuffers EXCEPT ![d] = NewMessage(bufSize)]
        /\ tot_send_count' = tot_send_count + Filled(d) + Cardinality(R)
        /\ updates_in_tram' = [updates_in_tram EXCEPT
                                 ![d] = @ - Filled(d) - Cardinality(R)]
        /\ full_sends' = [full_sends EXCEPT ![d] = @ \/ note]
    BY <1>10 DEF Drain, ShipBuffer, SendBuffer, NoteFullSend
  <2>2. /\ msgBuffers'[d] = [items |-> {}, cap |-> bufSize]
        /\ \A e \in Dests \ {d} : msgBuffers'[e] = msgBuffers[e]
        /\ msgBuffers' \in [Dests -> [items : SUBSET Items, cap : 1 .. BUFSIZE]]
    BY <1>4, <2>1 DEF NewMessage
  <2>3. Filled(d)' = 0
    BY <2>2, EmptyItems DEF Filled
  <2>4. Once' /\ holds' \in [Dests -> SUBSET EntryRecords]
    <3>1. /\ msgBuffers'[d].items = {}
          /\ \A e \in Dests \ {d} : msgBuffers'[e].items = msgBuffers[e].items
      BY <2>2
    <3>. HIDE DEF S
    <3>. QED BY <1>2, <1>4, <2>1, <3>1, EntriesMove DEF S
  <2>5. [dest |-> d, items |-> S] \in [dest : Dests, items : SUBSET Items]
    BY <1>3
  <2>6. full_sends' \in [Dests -> BOOLEAN]
    BY <1>4, <2>1
  <2>7. /\ updates_in_tram' \in [Dests -> Int] /\ tot_send_count' \in Nat
        /\ updates_in_tram'[d] = updates_in_tram[d] - Filled(d) - Cardinality(R)
        /\ \A e \in Dests \ {d} : updates_in_tram'[e] = updates_in_tram[e]
    BY <1>1, <1>2, <1>4, <2>1
  <2>8. FoldTypes'
    BY <1>4, <2>1, <2>2, <2>4, <2>5, <2>6, <2>7 DEF FoldTypes, knobs
  <2>9. \A e \in Dests \ {d} : Unmoved(e)
    BY <1>4, <1>5, <2>7, <2>2, OthersUnmoved
  <2>10. updates_in_tram'[d] = Filled(d)' + Cardinality(Admissible(d)')
    BY <1>1, <1>2, <1>7, <1>8, <2>3, <2>7
  <2>11. Filled(d)' < bufSize /\ bufSize <= msgBuffers'[d].cap
    BY <1>1, <2>2, <2>3
  <2>12. Room' /\ Counted'
    BY <1>4, <2>2, <2>9, <2>10, <2>11, OneMoved
  <2>. QED BY <1>6, <1>10, <2>4, <2>8, <2>9, <2>12
<1>. QED BY <1>9, <1>10

Core == FoldTypes /\ Once /\ Room /\ Counted

\* Steps that move no item and no counter.
LEMMA Still ==
  ASSUME Core, full_sends' \in [Dests -> BOOLEAN],
         UNCHANGED <<tram_hold, msgBuffers, updates_in_tram, tot_send_count,
                     sent, bufSize, knobs, release_level, holds, absorbed>>
  PROVE  Core' /\ \A e \in Dests : Unmoved(e)
<1>1. FoldTypes'
  BY DEF Core, FoldTypes, knobs
<1>2. \A e \in Dests : Unmoved(e)
  BY DEF Unmoved, Filled, Admissible, Live, knobs
<1>3. Once'
  BY DEF Core, Once, Waiting, SentItems
<1>4. Room' /\ Counted'
  BY <1>2 DEF Core, Room, Counted, Unmoved
<1>. QED BY <1>1, <1>2, <1>3, <1>4 DEF Core

\* The last, padded message of flushDest: with nothing admitted in the hold
\* the fillers are none that were counted.
LEMMA PartialTurn ==
  ASSUME Core, FlushPartial, NEW d \in Dests, d = ctl.dest,
         Admissible(d) = {}, absorbed' = absorbed
  PROVE  /\ Core'
         /\ \A e \in Dests \ {d} : Unmoved(e)
         /\ Clean(d)'
<1>1. /\ UNCHANGED <<tram_hold, full_sends, bufSize, knobs, release_level>>
      /\ tram_threshold' = tram_threshold /\ bufSize' = bufSize
      /\ d \in Dests
  BY DEF FlushPartial, knobs
<1>2. CASE Filled(d) = 0
  <2>1. UNCHANGED <<holds, msgBuffers, updates_in_tram, tot_send_count, sent>>
    BY <1>2 DEF FlushPartial
  <2>2. full_sends' \in [Dests -> BOOLEAN]
    BY <1>1 DEF Core, FoldTypes
  <2>3. Core' /\ \A e \in Dests : Unmoved(e)
    BY <1>1, <2>1, <2>2, Still
  <2>. QED BY <1>1, <1>2, <2>3 DEF Clean, Unmoved
<1>3. CASE Filled(d) # 0
  <2>1. PICK R \in Released(d, NumBuckets - 1, Wanted(d)) :
          ShipBuffer(d, R) /\ holds' = [holds EXCEPT ![d] = @ \ R]
    BY <1>3 DEF FlushPartial
  <2>2. updates_in_tram' = [updates_in_tram EXCEPT ![d] = @ - Filled(d)]
    BY <1>3 DEF FlushPartial
  <2>. DEFINE S == msgBuffers[d].items \cup ItemsOf(R)
  <2>3. /\ holds \in [Dests -> SUBSET EntryRecords]
        /\ msgBuffers \in [Dests -> [items : SUBSET Items, cap : 1 .. BUFSIZE]]
        /\ updates_in_tram \in [Dests -> Int]
        /\ tot_send_count \in Nat
        /\ sent \in SUBSET [dest : Dests, items : SUBSET Items]
        /\ bufSize \in 1 .. BUFSIZE /\ BUFSIZE \in Nat
        /\ Filled(d) \in Nat /\ bufSize \in Nat
    BY <1>1, Sizes, ConstantsAssumption DEF Core, FoldTypes, ConstantsAssumption
  <2>4. Wanted(d) \in Nat
    BY <2>3 DEF Wanted
  <2>5. R \subseteq holds[d] /\ Cardinality(R) \in Nat
    BY <1>1, <2>4, ReleasedFacts DEF Core
  <2>6. S \subseteq Items
    BY <1>1, <2>5, BatchSize DEF Core
  <2>7. /\ sent' = sent \cup {[dest |-> d, items |-> S]}
        /\ msgBuffers' = [msgBuffers EXCEPT ![d] = NewMessage(bufSize)]
        /\ tot_send_count' = tot_send_count + Filled(d) + Cardinality(R)
    BY <2>1 DEF ShipBuffer, SendBuffer
  <2>8. /\ msgBuffers'[d] = [items |-> {}, cap |-> bufSize]
        /\ \A e \in Dests \ {d} : msgBuffers'[e] = msgBuffers[e]
        /\ msgBuffers' \in [Dests -> [items : SUBSET Items, cap : 1 .. BUFSIZE]]
    BY <1>1, <2>3, <2>7 DEF NewMessage
  <2>9. Filled(d)' = 0
    BY <2>8, EmptyItems DEF Filled
  <2>10. /\ holds'[d] = holds[d] \ R
         /\ \A e \in Dests \ {d} : holds'[e] = holds[e]
    BY <1>1, <2>1, <2>3
  <2>11. Once' /\ holds' \in [Dests -> SUBSET EntryRecords]
    <3>1. /\ msgBuffers'[d].items = {}
          /\ \A e \in Dests \ {d} : msgBuffers'[e].items = msgBuffers[e].items
      BY <2>8
    <3>. HIDE DEF S
    <3>. QED BY <1>1, <2>1, <2>5, <2>7, <3>1, EntriesMove DEF S, Core
  <2>12. Admissible(d)' = {}
    BY <1>1, <2>10 DEF Admissible, Live
  <2>13. [dest |-> d, items |-> S] \in [dest : Dests, items : SUBSET Items]
    BY <1>1, <2>6
  <2>14. /\ updates_in_tram' \in [Dests -> Int] /\ tot_send_count' \in Nat
         /\ updates_in_tram'[d] = updates_in_tram[d] - Filled(d)
         /\ \A e \in Dests \ {d} : updates_in_tram'[e] = updates_in_tram[e]
    BY <1>1, <2>2, <2>3, <2>5, <2>7
  <2>15. FoldTypes'
    BY <1>1, <2>7, <2>8, <2>11, <2>13, <2>14 DEF Core, FoldTypes, knobs
  <2>16. \A e \in Dests \ {d} : Unmoved(e)
    BY <1>1, <2>8, <2>10, <2>14, OthersUnmoved
  <2>17. updates_in_tram'[d] = Filled(d)' + Cardinality(Admissible(d)')
    <3>1. updates_in_tram[d] = Filled(d) + Cardinality(Admissible(d))
      BY <1>1 DEF Core, Counted
    <3>. QED BY <2>3, <2>9, <2>12, <2>14, <3>1, EmptyItems
  <2>18. Filled(d)' < bufSize /\ bufSize <= msgBuffers'[d].cap
    BY <2>3, <2>8, <2>9
  <2>19. Room' /\ Counted'
    BY <1>1, <2>8, <2>16, <2>17, <2>18, OneMoved DEF Core
  <2>. QED BY <2>9, <2>11, <2>12, <2>15, <2>16, <2>19 DEF Core, Clean
<1>. QED BY <1>2, <1>3

LEMMA CombineTurnEnds ==
  ASSUME Core, NEW d \in Dests, NEW H, holds' = [holds EXCEPT ![d] = H],
         Once', holds' \in [Dests -> SUBSET EntryRecords], absorbed' \subseteq Items,
         UNCHANGED <<tram_hold, msgBuffers, full_sends, tot_send_count, sent,
                     bufSize, knobs, release_level>>,
         updates_in_tram' \in [Dests -> Int],
         updates_in_tram'[d] = Filled(d)' + Cardinality(Admissible(d)'),
         \A e \in Dests \ {d} : updates_in_tram'[e] = updates_in_tram[e]
  PROVE  Core' /\ \A e \in Dests \ {d} : Unmoved(e)
<1>1. tram_threshold' = tram_threshold /\ bufSize' = bufSize
      /\ holds \in [Dests -> SUBSET EntryRecords]
      /\ Filled(d)' = Filled(d)
  BY DEF knobs, Core, FoldTypes, Filled
<1>2. \A e \in Dests \ {d} : /\ holds'[e] = holds[e]
                              /\ msgBuffers'[e] = msgBuffers[e]
                              /\ msgBuffers'[e].items = msgBuffers[e].items
  BY <1>1
<1>3. \A e \in Dests \ {d} : Unmoved(e)
  BY <1>1, <1>2, OthersUnmoved
<1>4. Room' /\ Counted'
  <2>1. Filled(d)' < bufSize /\ bufSize <= msgBuffers'[d].cap
    BY <1>1 DEF Core, Room
  <2>. QED BY <1>1, <1>2, <1>3, <2>1, OneMoved DEF Core
<1>5. FoldTypes'
  BY DEF Core, FoldTypes, knobs
<1>. QED BY <1>3, <1>4, <1>5 DEF Core

\* A new item, held or folded.  In a fold that takes the item its entry takes
\* the place of another, and the count follows the two buckets.
LEMMA CombineTurn ==
  ASSUME Core, NEW d \in Dests, NEW b \in Buckets, NEW x \in Items,
         CombineItem(d, b, x)
  PROVE  Core' /\ \A e \in Dests \ {d} : Unmoved(e)
<1>. DEFINE A == Admissible(d)
            n == Entry(x, b)
<1>1. /\ UNCHANGED <<tram_hold, msgBuffers, full_sends, tot_send_count, sent,
                     bufSize, knobs, release_level>>
      /\ tram_threshold' = tram_threshold /\ bufSize' = bufSize
      /\ x \notin CombinedKnown
      /\ HoldNew(d, x, b) \/ Fold(d, x, b)
  BY DEF CombineItem, knobs
<1>2. /\ holds \in [Dests -> SUBSET EntryRecords]
      /\ updates_in_tram \in [Dests -> Int] /\ absorbed \subseteq Items
      /\ tram_threshold \in Nat /\ b \in Int /\ -1 < b
      /\ holds[d] \subseteq EntryRecords
      /\ Cardinality(A) \in Nat /\ A \subseteq holds[d]
      /\ Filled(d) \in Nat
      /\ updates_in_tram[d] = Filled(d) + Cardinality(A)
      /\ \A r \in holds[d] : r.bucket \in Int /\ -1 < r.bucket
  <2>1. /\ holds \in [Dests -> SUBSET EntryRecords]
        /\ updates_in_tram \in [Dests -> Int] /\ absorbed \subseteq Items
        /\ tram_threshold \in Nat
        /\ updates_in_tram[d] = Filled(d) + Cardinality(A)
    BY DEF Core, FoldTypes, Counted
  <2>2. /\ holds[d] \subseteq EntryRecords
        /\ Cardinality(A) \in Nat /\ A \subseteq holds[d]
        /\ Filled(d) \in Nat
    BY Sizes DEF Core
  <2>3. \A c \in Buckets : c \in Int /\ -1 < c
    BY ConstantsAssumption DEF Buckets, ConstantsAssumption
  <2>4. \A r \in holds[d] : r.bucket \in Buckets
    BY <2>2 DEF EntryRecords
  <2>. QED BY <2>1, <2>2, <2>3, <2>4
<1>3. n \in EntryRecords /\ n.bucket = b
  BY DEF Entry, EntryRecords
<1>. HIDE DEF n
<1>4. \A e \in Dests : Filled(e)' = Filled(e) /\ msgBuffers'[e] = msgBuffers[e]
  BY <1>1 DEF Filled
<1>5. CASE HoldNew(d, x, b)
  <2>. DEFINE H == (holds[d] \ {}) \cup {n}
  <2>1. /\ holds' = [holds EXCEPT ![d] = H]
        /\ updates_in_tram' = [updates_in_tram EXCEPT ![d] = @ + Admits(b)]
        /\ absorbed' = absorbed \cup ItemsOf({})
    <3>1. ItemsOf({}) = {}
      BY DEF ItemsOf
    <3>. QED BY <1>5, <3>1 DEF HoldNew, n
  <2>2. Once' /\ holds' \in [Dests -> SUBSET EntryRecords] /\ n \notin holds[d]
        /\ absorbed' \subseteq Items
    BY <1>1, <2>1, EntryEnters DEF Core, n
  <2>3. Admissible(d)' = IF b <= tram_threshold THEN A \cup {n} ELSE A
    BY <1>1, <1>2, <1>3, <2>1 DEF Admissible, Live
  <2>4. Cardinality(A \cup {n}) = Cardinality(A) + 1
    BY <1>2, <2>2, EntrySets, FS_AddElement
  <2>5. Cardinality(Admissible(d)') = Cardinality(A) + Admits(b)
    BY <1>2, <2>3, <2>4 DEF Admits
  <2>6. /\ updates_in_tram'[d] = Filled(d)' + Cardinality(Admissible(d)')
        /\ \A e \in Dests \ {d} : updates_in_tram'[e] = updates_in_tram[e]
        /\ updates_in_tram' \in [Dests -> Int]
    BY <1>2, <1>4, <2>1, <2>5 DEF Admits
  <2>. QED BY <1>1, <1>2, <2>1, <2>2, <2>6, CombineTurnEnds
<1>6. ASSUME NEW r \in holds[d], absorbed' = absorbed \cup {x},
             UNCHANGED <<holds, updates_in_tram>>
      PROVE  Core' /\ \A e \in Dests \ {d} : Unmoved(e)
  <2>1. x \notin SentItems /\ \A e \in Dests : x \notin Waiting(e)
    BY <1>1, UnknownIsNowhere DEF Core, FoldTypes
  <2>2. SentItems' = SentItems /\ \A e \in Dests : Waiting(e)' = Waiting(e)
    BY <1>1, <1>6 DEF SentItems, Waiting
  <2>3. Once'
    BY <1>1, <1>6, <2>1, <2>2 DEF Core, Once
  <2>4. \A e \in Dests : Unmoved(e)
    BY <1>1, <1>6 DEF Unmoved, Filled, Admissible, Live
  <2>5. FoldTypes'
    BY <1>1, <1>2, <1>6 DEF Core, FoldTypes, knobs
  <2>6. Room' /\ Counted'
    BY <1>1, <2>4 DEF Core, Room, Counted, Unmoved
  <2>. QED BY <2>3, <2>4, <2>5, <2>6 DEF Core
<1>7. ASSUME NEW r \in holds[d], absorbed' = absorbed \cup {r.item},
             holds' = [holds EXCEPT ![d] = Folded(d, r, x, b)],
             updates_in_tram' =
               [updates_in_tram EXCEPT ![d] = @ + Moved(r.bucket, b)]
      PROVE  Core' /\ \A e \in Dests \ {d} : Unmoved(e)
  <2>. DEFINE H == (holds[d] \ {r}) \cup {n}
  <2>1. /\ holds' = [holds EXCEPT ![d] = H]
        /\ absorbed' = absorbed \cup ItemsOf({r})
    <3>1. ItemsOf({r}) = {r.item}
      BY DEF ItemsOf
    <3>. QED BY <1>2, <1>7, <3>1 DEF Folded, n
  <2>2. Once' /\ holds' \in [Dests -> SUBSET EntryRecords] /\ n \notin holds[d]
        /\ absorbed' \subseteq Items
    BY <1>1, <2>1, EntryEnters DEF Core, n
  <2>. DEFINE B == A \ {r}
  <2>3. Admissible(d)' = IF b <= tram_threshold THEN B \cup {n} ELSE B
    BY <1>1, <1>2, <1>3, <2>1 DEF Admissible, Live
  <2>4. /\ B \subseteq EntryRecords /\ n \notin B
        /\ IsFiniteSet(B) /\ Cardinality(B) \in Nat
    BY <1>2, <2>2, EntrySets
  <2>5. Cardinality(B \cup {n}) = Cardinality(B) + 1
    BY <2>4, FS_AddElement
  <2>6. Cardinality(B) = Cardinality(A) - Admits(r.bucket)
    <3>1. IsFiniteSet(A)
      BY <1>2, EntrySets
    <3>2. r \in A <=> r.bucket <= tram_threshold
      BY <1>2, <1>7 DEF Admissible, Live
    <3>3. Cardinality(A \ {r}) = IF r \in A THEN Cardinality(A) - 1 ELSE Cardinality(A)
      BY <3>1, FS_RemoveElement
    <3>. QED BY <1>2, <1>7, <3>2, <3>3 DEF Admits
  <2>7. Cardinality(Admissible(d)') = Cardinality(B) + Admits(b)
    BY <1>2, <2>3, <2>4, <2>5 DEF Admits
  <2>8. /\ updates_in_tram'[d] = Filled(d)' + Cardinality(Admissible(d)')
        /\ \A e \in Dests \ {d} : updates_in_tram'[e] = updates_in_tram[e]
        /\ updates_in_tram' \in [Dests -> Int]
    BY <1>2, <1>4, <1>7, <2>6, <2>7 DEF Admits, Moved
  <2>. QED BY <1>1, <1>2, <2>1, <2>2, <2>8, CombineTurnEnds
<1>8. CASE Fold(d, x, b)
  BY <1>6, <1>7, <1>8 DEF Fold
<1>. QED BY <1>1, <1>5, <1>8

(***************************************************************************)
(* The knobs.                                                              *)
(***************************************************************************)

\* Moving the threshold admits the entries between the two, or unadmits them.
LEMMA ThresholdTurn ==
  ASSUME Core, NEW direct \in DirectThresholds, NEW tram \in Thresholds,
         NEW sel \in Selectivities, CombinedThreshold(direct, tram, sel),
         UNCHANGED <<holds, absorbed>>
  PROVE  Core'
<1>1. /\ UNCHANGED <<tram_hold, msgBuffers, full_sends, tot_send_count, sent,
                     bufSize, holds, absorbed>>
      /\ tram_threshold' = tram /\ direct_threshold' = direct
      /\ selectivity' = sel /\ release_level' = sel * bufSize
      /\ tram \in Nat /\ direct \in Int /\ sel \in Nat
      /\ tram_threshold \in Nat
      /\ updates_in_tram' =
           [d \in Dests |-> updates_in_tram[d] + CombinedRecount(d, tram)]
  BY ConstantsAssumption
     DEF CombinedThreshold, ConstantsAssumption, Core, FoldTypes
<1>2. ASSUME NEW d \in Dests
      PROVE  /\ CombinedRecount(d, tram) \in Int
             /\ Cardinality(Admissible(d)')
                  = Cardinality(Admissible(d)) + CombinedRecount(d, tram)
  <2>. DEFINE Lo == Live(d, -1, tram_threshold)
              New == Live(d, -1, tram)
  <2>1. /\ Admissible(d) = Lo /\ Admissible(d)' = New
        /\ Lo \subseteq EntryRecords /\ New \subseteq EntryRecords
        /\ \A lo, hi : Live(d, lo, hi) \subseteq EntryRecords
    BY <1>1, Sizes DEF Admissible, Live, Core
  <2>2. \A r \in holds[d] : r.bucket \in Int
    BY Sizes, ConstantsAssumption
       DEF Core, EntryRecords, Buckets, ConstantsAssumption
  <2>3. CASE tram > tram_threshold
    <3>. DEFINE M == Live(d, tram_threshold, tram)
    <3>1. New = Lo \cup M /\ Lo \cap M = {}
      BY <1>1, <2>2, <2>3 DEF Live
    <3>2. M \subseteq EntryRecords /\ Cardinality(M) \in Nat
          /\ Cardinality(Lo) \in Nat
      BY <2>1, EntrySets
    <3>3. Cardinality(New) = Cardinality(Lo) + Cardinality(M)
      BY <2>1, <3>1, <3>2, JoinEntries
    <3>. QED BY <2>1, <2>3, <3>2, <3>3 DEF CombinedRecount
  <2>4. CASE ~(tram > tram_threshold)
    <3>. DEFINE M == Live(d, tram, tram_threshold)
    <3>1. Lo = New \cup M /\ New \cap M = {}
      BY <1>1, <2>2, <2>4 DEF Live
    <3>2. M \subseteq EntryRecords /\ Cardinality(M) \in Nat
          /\ Cardinality(New) \in Nat
      BY <2>1, EntrySets
    <3>3. Cardinality(Lo) = Cardinality(New) + Cardinality(M)
      BY <2>1, <3>1, <3>2, JoinEntries
    <3>. QED BY <2>1, <2>4, <3>2, <3>3 DEF CombinedRecount
  <2>. QED BY <2>3, <2>4
<1>3. updates_in_tram' \in [Dests -> Int]
  BY <1>1, <1>2 DEF Core, FoldTypes
<1>4. FoldTypes'
  BY <1>1, <1>3 DEF Core, FoldTypes
<1>5. Once'
  BY <1>1 DEF Core, Once, Waiting, SentItems
<1>6. \A d \in Dests : Filled(d)' = Filled(d)
  BY <1>1 DEF Filled
<1>7. Room'
  BY <1>1, <1>6 DEF Core, Room
<1>8. Counted'
  <2>1. ASSUME NEW d \in Dests
        PROVE  updates_in_tram'[d] = Filled(d)' + Cardinality(Admissible(d)')
    <3>1. updates_in_tram[d] = Filled(d) + Cardinality(Admissible(d))
      BY DEF Core, Counted
    <3>2. Filled(d) \in Nat /\ Cardinality(Admissible(d)) \in Nat
      BY Sizes DEF Core
    <3>3. updates_in_tram'[d] = updates_in_tram[d] + CombinedRecount(d, tram)
      BY <1>1
    <3>. QED BY <1>2, <1>6, <3>1, <3>2, <3>3
  <2>. QED BY <2>1 DEF Counted
<1>. QED BY <1>4, <1>5, <1>7, <1>8 DEF Core

\* A new size finds every buffer empty.
LEMMA ResizeTurn ==
  ASSUME Core, NEW n \in BufSizes, ResizeEmpty(n), UNCHANGED <<holds, absorbed>>
  PROVE  Core'
<1>1. /\ UNCHANGED <<tram_hold, updates_in_tram, full_sends, tot_send_count,
                     sent, knobs, holds, absorbed>>
      /\ bufSize' = n /\ n \in 1 .. BUFSIZE /\ n \in Nat /\ BUFSIZE \in Nat
      /\ release_level' = selectivity * n
      /\ msgBuffers' = [d \in Dests |-> [items |-> {}, cap |-> n]]
      /\ \A d \in Dests : Filled(d) = 0
  BY ConstantsAssumption DEF ResizeEmpty, NewMessage, ConstantsAssumption
<1>2. \A d \in Dests : msgBuffers[d].items = {}
  <2>1. ASSUME NEW d \in Dests PROVE msgBuffers[d].items = {}
    <3>1. IsFiniteSet(msgBuffers[d].items) /\ Cardinality(msgBuffers[d].items) = 0
      BY <1>1, Sizes, ItemSets DEF Core
    <3>. QED BY <3>1, FS_EmptySet
  <2>. QED BY <2>1
<1>3. \A d \in Dests : msgBuffers'[d].items = msgBuffers[d].items /\ msgBuffers'[d].cap = n
  BY <1>1, <1>2
<1>4. FoldTypes'
  <2>1. msgBuffers' \in [Dests -> [items : SUBSET Items, cap : 1 .. BUFSIZE]]
    BY <1>1
  <2>. QED BY <1>1, <2>1 DEF Core, FoldTypes, knobs
<1>5. Once'
  BY <1>1, <1>3 DEF Core, Once, Waiting, SentItems
<1>6. \A d \in Dests : Unmoved(d)
  BY <1>1, <1>3 DEF Unmoved, Filled, Admissible, Live, knobs
<1>7. Room'
  BY <1>1, <1>3, <1>6 DEF Room, Unmoved
<1>8. Counted'
  BY <1>6 DEF Core, Counted, Unmoved
<1>. QED BY <1>4, <1>5, <1>7, <1>8 DEF Core

(***************************************************************************)
(* Where a handler goes.                                                   *)
(***************************************************************************)
Outer == {"release", "flushAll", "stale", "flushIdle"}
Inner == {"insertBuckets", "empty", "pad"}

\* The loop over destinations goes on behind d, or d was the last one.
LEMMA GoesOn ==
  ASSUME NEW L \in Outer, NEW d \in Dests, ctl' = Loop(L, d + 1)
  PROVE  /\ FoldCtl'
         /\ \/ /\ ctl'.at = L /\ ctl'.back = "idle" /\ ctl'.dest = d + 1
               /\ ctl' # Idle
            \/ /\ ctl' = Idle /\ ctl'.at = "idle" /\ ctl'.back = "idle"
               /\ \A e \in Dests : e < d \/ e = d
         /\ \A e \in Dests : e < d + 1 <=> e < d \/ e = d
<1>1. /\ d \in Nat /\ NumDest \in Nat /\ d < NumDest /\ 0 \in Dests
      /\ \A e \in Dests : e \in Nat /\ e < NumDest
  BY ConstantsAssumption DEF Dests, ConstantsAssumption
<1>2. CASE d + 1 < NumDest
  <2>1. ctl' = [at |-> L, dest |-> d + 1, from |-> 0, back |-> "idle"]
    BY <1>2 DEF Loop, At
  <2>2. d + 1 \in Dests
    BY <1>1, <1>2 DEF Dests
  <2>3. FoldCtl'
    BY <2>1, <2>2 DEF FoldCtl, FoldLoops, FoldBacks, Outer
  <2>4. ctl' # Idle
    BY <2>1 DEF Idle, At, Outer
  <2>. QED BY <1>1, <2>1, <2>3, <2>4
<1>3. CASE ~(d + 1 < NumDest)
  <2>1. ctl' = [at |-> "idle", dest |-> 0, from |-> 0, back |-> "idle"]
        /\ ctl' = Idle
    BY <1>3 DEF Loop, At, Idle
  <2>2. FoldCtl'
    BY <1>1, <2>1 DEF FoldCtl, FoldLoops, FoldBacks
  <2>. QED BY <1>1, <1>3, <2>1, <2>2
<1>. QED BY <1>2, <1>3

\* A call is made for d.
LEMMA Calls ==
  ASSUME NEW L \in Inner, NEW d \in Dests, NEW back \in FoldBacks,
         ctl' = At(L, d, back),
         L = "insertBuckets" => back \in {"idle", "release"},
         L \in {"empty", "pad"} => back \in {"flushAll", "stale", "flushIdle"}
  PROVE  /\ FoldCtl' /\ ctl' # Idle
         /\ ctl'.at = L /\ ctl'.dest = d /\ ctl'.back = back
BY DEF FoldCtl, FoldLoops, FoldBacks, Inner, At, Idle

\* A loop starts, or nothing runs.
LEMMA Starts ==
  ASSUME NEW L \in Outer, ctl' = Loop(L, 0)
  PROVE  /\ FoldCtl' /\ ctl' # Idle
         /\ ctl'.at = L /\ ctl'.dest = 0 /\ ctl'.back = "idle"
         /\ \A e \in Dests : ~(e < 0)
<1>1. 0 \in Dests /\ 0 < NumDest /\ \A e \in Dests : e \in Nat
  BY ConstantsAssumption DEF Dests, ConstantsAssumption
<1>2. ctl' = [at |-> L, dest |-> 0, from |-> 0, back |-> "idle"]
  BY <1>1 DEF Loop, At
<1>. QED BY <1>1, <1>2 DEF FoldCtl, FoldLoops, FoldBacks, Outer, Idle, At

LEMMA Rests ==
  ASSUME ctl' = Idle
  PROVE  FoldCtl' /\ ctl'.at = "idle" /\ ctl'.back = "idle"
<1>1. 0 \in Dests
  BY ConstantsAssumption DEF Dests, ConstantsAssumption
<1>. QED BY <1>1 DEF FoldCtl, FoldLoops, FoldBacks, Idle, At

\* What is settled for a destination stays so while it is not touched.
LEMMA Untouched ==
  ASSUME NEW d \in Dests, Unmoved(d), release_level' = release_level
  PROVE  (Relieved(d) => Relieved(d)') /\ (Clean(d) => Clean(d)')
BY DEF Unmoved, Relieved, Clean, Over

\* What a handler that returns has settled: a release its destinations, a
\* flush all of them.
Ends ==
  ctl' = Idle =>
    /\ ctl.at \in {"insertBuckets", "release"} => \A d \in Visited : Relieved(d)'
    /\ {ctl.at, ctl.back} \cap {"flushAll", "flushIdle"} # {} =>
         \A d \in Dests : Clean(d)'

LEMMA CtlFacts ==
  ASSUME FoldInv
  PROVE  /\ Core /\ FoldCtl /\ Progress
         /\ ctl.dest \in Dests /\ ctl.back \in FoldBacks /\ ctl.at \in FoldLoops
BY DEF FoldInv, Core, FoldCtl

\* releaseFull.
LEMMA ReleaseFullTurn ==
  ASSUME FoldInv, ReleaseFull, absorbed' = absorbed
  PROVE  FoldInv' /\ Ends
<1>1. PICK d \in Dests : d = ctl.dest
  BY CtlFacts
<1>2. /\ ctl.at = "insertBuckets" /\ ctl.back \in {"idle", "release"}
      /\ Core /\ FoldCtl /\ Progress
      /\ "release" \in Outer /\ "insertBuckets" \in Inner
  BY CtlFacts DEF ReleaseFull, FoldCtl, Outer, Inner
<1>3. UNCHANGED <<bufSize, knobs, release_level>> /\ release_level' = release_level
  BY DEF ReleaseFull
<1>4. ctl.back = "release" => \A e \in Dests : e < d => Relieved(e)
  BY <1>1, <1>2 DEF Progress
<1>5. ASSUME ctl' = Return(d, ctl.back), Core', Relieved(d)',
             \A e \in Dests \ {d} : Unmoved(e)
      PROVE  FoldInv' /\ Ends
  <2>1. CASE ctl.back = "idle"
    <3>1. ctl' = Idle
      BY <1>5, <2>1 DEF Return
    <3>2. FoldCtl' /\ ctl'.at = "idle" /\ ctl'.back = "idle"
      BY <3>1, Rests
    <3>3. Progress'
      BY <3>2 DEF Progress
    <3>4. Ends
      BY <1>1, <1>2, <1>5, <2>1 DEF Ends, Visited
    <3>. QED BY <1>5, <3>2, <3>3, <3>4 DEF FoldInv, Core
  <2>2. CASE ctl.back = "release"
    <3>1. ctl' = Loop("release", d + 1)
      BY <1>5, <2>2 DEF Return
    <3>2. /\ FoldCtl'
          /\ \/ /\ ctl'.at = "release" /\ ctl'.back = "idle" /\ ctl'.dest = d + 1
                /\ ctl' # Idle
             \/ /\ ctl' = Idle /\ ctl'.at = "idle" /\ ctl'.back = "idle"
                /\ \A e \in Dests : e < d \/ e = d
          /\ \A e \in Dests : e < d + 1 <=> e < d \/ e = d
      BY <1>2, <3>1, GoesOn
    <3>3. \A e \in Dests : e < d \/ e = d => Relieved(e)'
      BY <1>3, <1>4, <1>5, <2>2, Untouched
    <3>4. Progress'
      BY <3>2, <3>3 DEF Progress
    <3>5. Ends
      BY <1>2, <2>2, <3>2, <3>3 DEF Ends, Visited
    <3>. QED BY <1>5, <3>2, <3>4, <3>5 DEF FoldInv, Core
  <2>. QED BY <1>2, <2>1, <2>2
<1>6. CASE ~ReleaseDue(updates_in_tram[d]) /\ ctl' = Return(d, ctl.back)
           /\ UNCHANGED <<traffic, holds>>
  <2>1. Core' /\ \A e \in Dests : Unmoved(e)
    <3>1. full_sends' \in [Dests -> BOOLEAN]
      BY <1>2, <1>6 DEF Core, FoldTypes, traffic
    <3>. QED BY <1>2, <1>3, <1>6, <3>1, Still DEF traffic
  <2>2. ~Over(updates_in_tram[d], release_level)
    <3>1. /\ updates_in_tram[d] \in Int /\ release_level \in Int /\ SelUnit \in Nat
      BY <1>2, ConstantsAssumption
         DEF Core, FoldTypes, ConstantsAssumption
    <3>. QED BY <1>6, <3>1 DEF ReleaseDue, Over
  <2>3. Relieved(d)'
    BY <1>3, <2>1, <2>2, Untouched DEF Relieved
  <2>. QED BY <1>5, <1>6, <2>1, <2>3
<1>7. CASE /\ \E R \in Released(d, tram_threshold, bufSize - Filled(d)) :
                Drain(d, R, TRUE) /\ ctl' = ReleaseAgain(d, R)
           /\ UNCHANGED tram_hold
  <2>1. PICK R \in Released(d, tram_threshold, bufSize - Filled(d)) :
              Drain(d, R, TRUE) /\ ctl' = ReleaseAgain(d, R)
    BY <1>7
  <2>2. tram_hold' = tram_hold
    BY <1>7
  <2>3. /\ Core' /\ \A e \in Dests \ {d} : Unmoved(e)
        /\ Fills(d, R) \/ Admissible(d)' = {}
    BY <1>2, <1>3, <2>1, <2>2, DrainTurn DEF Core
  <2>4. CASE ~Fills(d, R)
    <3>1. ctl' = Return(d, ctl.back)
      BY <2>1, <2>4 DEF ReleaseAgain
    <3>2. Relieved(d)'
      BY <2>3, <2>4 DEF Relieved
    <3>. QED BY <1>5, <2>3, <3>1, <3>2
  <2>5. CASE Fills(d, R)
    <3>1. ctl' = ctl
      BY <2>1, <2>5 DEF ReleaseAgain
    <3>2. FoldCtl'
      BY <1>2, <3>1 DEF FoldCtl
    <3>3. \A e \in Dests \ {d} : Relieved(e) => Relieved(e)'
      BY <1>3, <2>3, Untouched
    <3>4. \A e \in Dests : e < d => e # d
      BY ConstantsAssumption DEF Dests, ConstantsAssumption
    <3>5. Progress'
      BY <1>1, <1>2, <3>1, <3>3, <3>4 DEF Progress
    <3>6. Ends
      BY <1>2, <3>1 DEF Ends, Idle, At
    <3>. QED BY <2>3, <3>2, <3>5, <3>6 DEF FoldInv, Core
  <2>. QED BY <2>4, <2>5
<1>. QED BY <1>1, <1>2, <1>6, <1>7 DEF ReleaseFull

\* flushDest, until the admitted entries are out.
LEMMA FlushDrainTurn ==
  ASSUME FoldInv, FlushDrain, absorbed' = absorbed
  PROVE  FoldInv' /\ Ends
<1>1. PICK d \in Dests : d = ctl.dest
  BY CtlFacts
<1>2. /\ ctl.at = "empty" /\ ctl.back \in {"flushAll", "stale", "flushIdle"}
      /\ Core /\ FoldCtl /\ Progress /\ "pad" \in Inner /\ ctl.back \in FoldBacks
  BY CtlFacts DEF FlushDrain, FoldCtl, Inner
<1>3. UNCHANGED <<tram_hold, bufSize, knobs, release_level>>
      /\ release_level' = release_level
  BY DEF FlushDrain
<1>4. PICK R \in Released(d, tram_threshold, bufSize - Filled(d)) :
          Drain(d, R, FALSE) /\ ctl' = DrainAgain(d, R)
  BY <1>1 DEF FlushDrain
<1>5. /\ Core' /\ \A e \in Dests \ {d} : Unmoved(e)
      /\ Fills(d, R) \/ Admissible(d)' = {}
  BY <1>2, <1>3, <1>4, DrainTurn DEF Core
<1>6. \A e \in Dests \ {d} : Clean(e) => Clean(e)'
  BY <1>3, <1>5, Untouched
<1>7. \A e \in Dests : e < d => e # d
  BY ConstantsAssumption DEF Dests, ConstantsAssumption
<1>8. ctl.back \in {"flushAll", "flushIdle"} => \A e \in Dests : e < d => Clean(e)'
  BY <1>1, <1>2, <1>6, <1>7 DEF Progress
<1>9. CASE Fills(d, R)
  <2>1. ctl' = ctl
    BY <1>4, <1>9 DEF DrainAgain
  <2>2. FoldCtl'
    BY <1>2, <2>1 DEF FoldCtl
  <2>3. Progress'
    BY <1>1, <1>2, <1>8, <2>1 DEF Progress
  <2>4. Ends
    BY <1>2, <2>1 DEF Ends, Idle, At
  <2>. QED BY <1>5, <2>2, <2>3, <2>4 DEF FoldInv, Core
<1>10. CASE ~Fills(d, R)
  <2>1. ctl' = At("pad", d, ctl.back)
    BY <1>4, <1>10 DEF DrainAgain
  <2>2. /\ FoldCtl' /\ ctl' # Idle
        /\ ctl'.at = "pad" /\ ctl'.dest = d /\ ctl'.back = ctl.back
    BY <1>2, <2>1, Calls
  <2>3. Admissible(ctl.dest)' = {}
    BY <1>5, <1>10, <2>2 DEF Admissible, Live
  <2>4. Progress'
    BY <1>2, <1>8, <2>2, <2>3 DEF Progress
  <2>5. Ends
    BY <2>2 DEF Ends
  <2>. QED BY <1>5, <2>2, <2>4, <2>5 DEF FoldInv, Core
<1>. QED BY <1>9, <1>10

\* A flush goes on behind d, which is clean.
LEMMA FlushGoesOn ==
  ASSUME FoldInv, NEW d \in Dests, d = ctl.dest, Core',
         NEW L \in {"flushAll", "stale", "flushIdle"},
         ctl' = Loop(L, d + 1), L = "stale" \/ Clean(d)',
         ctl.at \in {"flushAll", "stale", "flushIdle", "pad"},
         IF ctl.at = "pad" THEN ctl.back = L ELSE ctl.at = L,
         release_level' = release_level, \A e \in Dests \ {d} : Unmoved(e)
  PROVE  FoldInv' /\ Ends
<1>1. FoldCtl /\ Progress /\ L \in Outer
  BY DEF FoldInv, Outer
<1>2. /\ FoldCtl'
      /\ \/ /\ ctl'.at = L /\ ctl'.back = "idle" /\ ctl'.dest = d + 1
            /\ ctl' # Idle
         \/ /\ ctl' = Idle /\ ctl'.at = "idle" /\ ctl'.back = "idle"
            /\ \A e \in Dests : e < d \/ e = d
      /\ \A e \in Dests : e < d + 1 <=> e < d \/ e = d
  BY <1>1, GoesOn
<1>3. \A e \in Dests \ {d} : Clean(e) => Clean(e)'
  BY Untouched
<1>4. L # "stale" => \A e \in Dests : e < d \/ e = d => Clean(e)'
  BY <1>1, <1>3 DEF Progress
<1>5. Progress'
  BY <1>2, <1>4 DEF Progress
<1>6. Ends
  <2>1. {ctl.at, ctl.back} \cap {"flushAll", "flushIdle"} # {} => L # "stale"
    BY <1>1 DEF FoldCtl
  <2>. QED BY <1>2, <1>4, <2>1 DEF Ends
<1>. QED BY <1>2, <1>5, <1>6 DEF FoldInv, Core

\* flushDest, the last message.
LEMMA FlushPartialTurn ==
  ASSUME FoldInv, FlushPartial, absorbed' = absorbed
  PROVE  FoldInv' /\ Ends
<1>1. PICK d \in Dests : d = ctl.dest
  BY CtlFacts
<1>2. /\ ctl.at = "pad" /\ ctl.back \in {"flushAll", "stale", "flushIdle"}
      /\ Core /\ FoldCtl /\ Progress
  BY CtlFacts DEF FlushPartial, FoldCtl
<1>3. /\ release_level' = release_level /\ ctl' = Return(d, ctl.back)
  BY <1>1 DEF FlushPartial
<1>4. Admissible(d) = {}
  BY <1>1, <1>2 DEF Progress
<1>5. Core' /\ Clean(d)' /\ \A e \in Dests \ {d} : Unmoved(e)
  BY <1>1, <1>2, <1>4, PartialTurn
<1>6. ctl' = Loop(ctl.back, d + 1)
  BY <1>2, <1>3 DEF Return
<1>. QED BY <1>1, <1>2, <1>3, <1>5, <1>6, FlushGoesOn

\* The turns of the loops over destinations.
LEMMA LoopTurns ==
  ASSUME FoldInv, UNCHANGED folding,
         FlushAllStep \/ ReleaseStep \/ StaleStep \/ IdleStep
  PROVE  FoldInv' /\ Ends
<1>1. PICK d \in Dests : d = ctl.dest
  BY CtlFacts
<1>2. Core /\ FoldCtl /\ Progress
  BY CtlFacts
<1>3. /\ UNCHANGED <<tram_hold, msgBuffers, updates_in_tram, tot_send_count,
                     sent, bufSize, knobs, release_level, holds, absorbed>>
      /\ full_sends' \in [Dests -> BOOLEAN]
  BY <1>2 DEF FlushAllStep, ReleaseStep, StaleStep, IdleStep, traffic, folding,
              Core, FoldTypes
<1>4. Core' /\ (\A e \in Dests : Unmoved(e)) /\ release_level' = release_level
  BY <1>2, <1>3, Still
<1>5. \A e \in Dests : (Relieved(e) => Relieved(e)') /\ (Clean(e) => Clean(e)')
  BY <1>4, Untouched
<1>6. ASSUME NEW L \in {"flushAll", "stale", "flushIdle"}, ctl.at = L,
             ctl' = At("empty", d, L)
      PROVE  FoldInv' /\ Ends
  <2>1. /\ FoldCtl' /\ ctl' # Idle
        /\ ctl'.at = "empty" /\ ctl'.dest = d /\ ctl'.back = L
    BY <1>6, Calls DEF Inner, FoldBacks
  <2>2. Progress'
    BY <1>1, <1>2, <1>5, <1>6, <2>1 DEF Progress
  <2>. QED BY <1>4, <2>1, <2>2 DEF FoldInv, Core, Ends
<1>7. CASE FlushAllStep
  BY <1>1, <1>6, <1>7 DEF FlushAllStep, FlushDest
<1>8. CASE StaleStep
  <2>1. ctl.at = "stale"
        /\ ctl' = IF Stale(d) THEN At("empty", d, "stale") ELSE Loop("stale", d + 1)
    BY <1>1, <1>8 DEF StaleStep, FlushDest
  <2>. QED BY <1>1, <1>4, <1>6, <2>1, FlushGoesOn
<1>9. CASE IdleStep
  <2>1. ctl.at = "flushIdle"
        /\ ctl' = IF HasWork(d) THEN At("empty", d, "flushIdle")
                                ELSE Loop("flushIdle", d + 1)
    BY <1>1, <1>9 DEF IdleStep, FlushDest
  <2>2. ASSUME ~HasWork(d) PROVE Clean(d)'
    <3>1. /\ updates_in_tram[d] = Filled(d) + Cardinality(Admissible(d))
          /\ Filled(d) \in Nat /\ Cardinality(Admissible(d)) \in Nat
          /\ holds[d] \subseteq EntryRecords /\ Admissible(d) \subseteq holds[d]
      BY <1>2, Sizes DEF Core, Counted
    <3>2. Filled(d) = 0 /\ Cardinality(Admissible(d)) = 0
      BY <2>2, <3>1 DEF HasWork
    <3>3. IsFiniteSet(Admissible(d))
      BY <3>1, EntrySets
    <3>4. Admissible(d) = {}
      BY <3>2, <3>3, FS_EmptySet
    <3>. QED BY <1>5, <3>2, <3>4 DEF Clean
  <2>. QED BY <1>1, <1>4, <1>6, <2>1, <2>2, FlushGoesOn
<1>10. CASE ReleaseStep
  <2>1. /\ ctl.at = "release"
        /\ ctl' = IF Over(updates_in_tram[d], selectivity * bufSize)
                    THEN At("insertBuckets", d, "release")
                    ELSE Loop("release", d + 1)
    BY <1>1, <1>10 DEF ReleaseStep, InsertBucketsByDest
  <2>2. \A e \in Dests : e < d => Relieved(e)
    BY <1>1, <1>2, <2>1 DEF Progress
  <2>3. CASE ~Over(updates_in_tram[d], selectivity * bufSize)
    <3>1. Relieved(d)
      BY <1>2, <2>3 DEF Core, FoldTypes, Relieved
    <3>2. /\ FoldCtl'
          /\ \/ /\ ctl'.at = "release" /\ ctl'.back = "idle" /\ ctl'.dest = d + 1
                /\ ctl' # Idle
             \/ /\ ctl' = Idle /\ ctl'.at = "idle" /\ ctl'.back = "idle"
                /\ \A e \in Dests : e < d \/ e = d
          /\ \A e \in Dests : e < d + 1 <=> e < d \/ e = d
      BY <2>1, <2>3, GoesOn DEF Outer
    <3>3. \A e \in Dests : e < d \/ e = d => Relieved(e)'
      BY <1>5, <2>2, <3>1
    <3>4. Progress'
      BY <3>2, <3>3 DEF Progress
    <3>5. Ends
      <4>1. {ctl.at, ctl.back} \cap {"flushAll", "flushIdle"} = {}
        BY <1>2, <2>1 DEF FoldCtl
      <4>. QED BY <2>1, <3>2, <3>3, <4>1 DEF Ends, Visited
    <3>. QED BY <1>4, <3>2, <3>4, <3>5 DEF FoldInv, Core
  <2>4. CASE Over(updates_in_tram[d], selectivity * bufSize)
    <3>1. ctl' = At("insertBuckets", d, "release")
      BY <2>1, <2>4
    <3>2. /\ FoldCtl' /\ ctl' # Idle
          /\ ctl'.at = "insertBuckets" /\ ctl'.dest = d /\ ctl'.back = "release"
      BY <3>1, Calls DEF Inner, FoldBacks
    <3>3. Progress'
      BY <1>5, <2>2, <3>2 DEF Progress
    <3>. QED BY <1>4, <3>2, <3>3 DEF FoldInv, Core, Ends
  <2>. QED BY <2>3, <2>4
<1>. QED BY <1>7, <1>8, <1>9, <1>10

LEMMA HandlerTurn ==
  ASSUME FoldInv, CombinedStep
  PROVE  FoldInv' /\ Ends
<1>1. CASE ReleaseFull /\ UNCHANGED <<combining, absorbed>>
  BY <1>1, ReleaseFullTurn
<1>2. CASE FlushDrain /\ UNCHANGED <<combining, absorbed>>
  BY <1>2, FlushDrainTurn
<1>3. CASE FlushPartial /\ UNCHANGED <<combining, absorbed>>
  BY <1>3, FlushPartialTurn
<1>. QED BY <1>1, <1>2, <1>3, LoopTurns DEF CombinedStep

(***************************************************************************)
(* The client's calls.                                                     *)
(***************************************************************************)
LEMMA ClientTurn ==
  ASSUME FoldInv, combining,
         \/ \E d \in Dests, b \in Buckets, x \in Items : CombineItem(d, b, x)
         \/ CombinedKnob \/ CombinedFlush
  PROVE  FoldInv' /\ ctl = Idle /\ combining' = combining
<1>. "release" \in Outer /\ "flushAll" \in Outer /\ "stale" \in Outer /\ "flushIdle" \in Outer
  BY DEF Outer
<1>0. Core /\ FoldCtl /\ full_sends \in [Dests -> BOOLEAN]
  BY CtlFacts DEF Core, FoldTypes
<1>1. ASSUME NEW d \in Dests, NEW b \in Buckets, NEW x \in Items,
             CombineItem(d, b, x)
      PROVE  FoldInv' /\ ctl = Idle /\ combining' = combining
  <2>1. Core'
    BY <1>0, <1>1, CombineTurn
  <2>2. ctl = Idle /\ combining' = combining
        /\ (ctl' = At("insertBuckets", d, "idle") \/ ctl' = Idle)
    BY <1>1 DEF CombineItem, InsertBucketsByDest
  <2>3. CASE ctl' = Idle
    BY <2>1, <2>2, <2>3, Rests DEF FoldInv, Core, Progress
  <2>4. CASE ctl' = At("insertBuckets", d, "idle")
    <3>1. /\ FoldCtl' /\ ctl'.at = "insertBuckets" /\ ctl'.back = "idle"
      BY <2>4, Calls DEF Inner, FoldBacks
    <3>. QED BY <2>1, <2>2, <3>1 DEF FoldInv, Core, Progress
  <2>. QED BY <2>2, <2>3, <2>4
<1>2. ASSUME NEW direct \in DirectThresholds, NEW tram \in Thresholds,
             NEW sel \in Selectivities, CombinedThreshold(direct, tram, sel),
             UNCHANGED folding
      PROVE  FoldInv' /\ ctl = Idle /\ combining' = combining
  <2>1. Core'
    BY <1>0, <1>2, ThresholdTurn DEF folding
  <2>2. ctl = Idle /\ combining' = combining /\ ctl' = Loop("release", 0)
    BY <1>2 DEF CombinedThreshold, folding
  <2>3. /\ FoldCtl' /\ ctl'.at = "release" /\ ctl'.dest = 0 /\ ctl'.back = "idle"
        /\ \A e \in Dests : ~(e < 0)
    BY <2>2, Starts
  <2>. QED BY <2>1, <2>2, <2>3 DEF FoldInv, Core, Progress
<1>3. ASSUME NEW n \in BufSizes, ResizeEmpty(n), UNCHANGED folding
      PROVE  FoldInv' /\ ctl = Idle /\ combining' = combining
  <2>1. Core'
    BY <1>0, <1>3, ResizeTurn DEF folding
  <2>2. ctl = Idle /\ combining' = combining /\ ctl' = Idle
    BY <1>3 DEF ResizeEmpty, folding
  <2>. QED BY <2>1, <2>2, Rests DEF FoldInv, Core, Progress
<1>4. ASSUME UNCHANGED folding, CombinedTFlush \/ FlushStale \/ FlushIdle
      PROVE  FoldInv' /\ ctl = Idle /\ combining' = combining
  <2>1. /\ UNCHANGED <<traffic, bufSize, knobs, release_level>>
        /\ ctl = Idle /\ combining' = combining
        /\ \E L \in {"flushAll", "stale", "flushIdle"} : ctl' = Loop(L, 0)
    BY <1>4 DEF CombinedTFlush, FlushStale, FlushIdle, folding
  <2>2. PICK L \in {"flushAll", "stale", "flushIdle"} : ctl' = Loop(L, 0)
    BY <2>1
  <2>3. /\ FoldCtl' /\ ctl'.at = L /\ ctl'.dest = 0 /\ ctl'.back = "idle"
        /\ \A e \in Dests : ~(e < 0)
    BY <2>2, Starts
  <2>4. Core'
    BY <1>0, <1>4, <2>1, Still DEF traffic, folding
  <2>. QED BY <2>1, <2>3, <2>4 DEF FoldInv, Core, Progress
<1>. QED BY <1>1, <1>2, <1>3, <1>4 DEF CombinedKnob, CombinedFlush

(***************************************************************************)
(* Before combining is on.                                                 *)
(***************************************************************************)

\* Without a send nothing enters the library.
LEMMA BlankStays ==
  ASSUME IInv, Blank, Knob \/ Flush \/ Step, UNCHANGED folding
  PROVE  Blank'
<1>. DEFINE Bare == /\ \A d \in Dests : \A b \in Buckets : tram_hold'[d][b] = {}
                    /\ \A d \in Dests : msgBuffers'[d].items = {}
                    /\ sent' = sent
<1>. SUFFICES Bare
  BY DEF Blank, folding
<1>1. /\ tram_hold \in [Dests -> [Buckets -> SUBSET Items]]
      /\ msgBuffers \in [Dests -> [items : SUBSET Items, cap : 1 .. BUFSIZE]]
      /\ \A d \in Dests : Filled(d) = 0
      /\ \A d \in Dests : \A b \in Buckets : tram_hold[d][b] = {}
      /\ \A d \in Dests : msgBuffers[d].items = {}
      /\ ctl.dest \in Dests
      /\ bufSize \in Nat /\ 1 <= bufSize
  <2>1. \A d \in Dests : msgBuffers[d].items = {}
    BY DEF Blank
  <2>2. \A d \in Dests : Filled(d) = 0
    BY <2>1, EmptyItems DEF Filled
  <2>3. ctl.dest \in Dests
    BY AtDest DEF IInv
  <2>4. bufSize \in 1 .. BUFSIZE /\ BUFSIZE \in Nat
    BY ConstantsAssumption DEF IInv, TypeOK, ConstantsAssumption
  <2>. QED BY <2>1, <2>2, <2>3, <2>4 DEF Blank, IInv, TypeOK
<1>2. CASE UNCHANGED <<tram_hold, msgBuffers, sent>>
  BY <1>1, <1>2
<1>3. ASSUME NEW m \in Merges, CoarsenBuckets(m.k, m.keep_top) PROVE Bare
  <2>1. UNCHANGED <<msgBuffers, sent>>
    BY <1>3 DEF CoarsenBuckets
  <2>2. tram_hold' =
          [d \in Dests |-> [j \in Buckets |->
             UNION {tram_hold[d][i] : i \in {b \in Buckets :
                                             Merged(b, m.k, m.keep_top) = j}}]]
    BY <1>3 DEF CoarsenBuckets
  <2>3. ASSUME NEW d \in Dests, NEW j \in Buckets PROVE tram_hold'[d][j] = {}
    <3>. DEFINE I == {b \in Buckets : Merged(b, m.k, m.keep_top) = j}
    <3>1. tram_hold'[d][j] = UNION {tram_hold[d][i] : i \in I}
      BY <2>2
    <3>2. I \subseteq Buckets
      OBVIOUS
    <3>. HIDE DEF I
    <3>. QED BY <1>1, <3>1, <3>2
  <2>. QED BY <1>1, <2>1, <2>3
<1>4. CASE InsertBucketsTake \/ EmptyTake
  BY <1>1, <1>4 DEF InsertBucketsTake, EmptyTake
<1>5. CASE ResizeStep
  <2>1. ~Overfull(ctl.dest)
    BY <1>1 DEF Overfull
  <2>2. UNCHANGED <<tram_hold, sent>>
        /\ \/ msgBuffers' = [msgBuffers EXCEPT ![ctl.dest].cap = bufSize]
           \/ msgBuffers' = msgBuffers
    BY <1>5, <2>1 DEF ResizeStep
  <2>. QED BY <1>1, <2>2
<1>6. CASE PartialStep \/ PadStep
  <2>1. UNCHANGED <<tram_hold, sent, msgBuffers>>
    BY <1>1, <1>6 DEF PartialStep, PadStep
  <2>. QED BY <1>2, <2>1
<1>7. CASE \/ InsertBucketsDone \/ ReleaseStep \/ EmptyDone \/ StaleStep \/ IdleStep
           \/ Flush
  BY <1>2, <1>7 DEF InsertBucketsDone, ReleaseStep, EmptyDone, StaleStep, IdleStep,
                    Flush, TFlush, FlushStale, FlushIdle, traffic
<1>8. ASSUME NEW direct \in DirectThresholds, NEW tram \in Thresholds,
             NEW sel \in Selectivities, ChangeThreshold(direct, tram, sel)
      PROVE  Bare
  BY <1>2, <1>8 DEF ChangeThreshold
<1>9. ASSUME NEW n \in BufSizes, SetBufferSize(n) PROVE Bare
  BY <1>2, <1>9 DEF SetBufferSize, traffic
<1>. QED BY <1>3, <1>4, <1>5, <1>6, <1>7, <1>8, <1>9 DEF Knob, Step

\* And without an item there is nothing to strand: the counts stay exact.
LEMMA BlankKeepsCounts ==
  ASSUME IInv, Blank, CounterExact, [Next]_vars
  PROVE  CounterExact'
<1>1. SUFFICES ASSUME NEW d \in Dests PROVE Drift(d)' = 0
  BY DEF CounterExact
<1>2. AdmittedHeld(d) \ AdmittedHeld(d)' = {}
  BY DEF Blank, AdmittedHeld, HeldIn
<1>3. Drift(d) = 0
  BY DEF CounterExact
<1>. QED BY <1>2, <1>3, DriftLaw, EmptyItems

\* The release level is recomputed whenever what it stands for changes.
LEMMA LevelStays ==
  ASSUME IInv, release_level = selectivity * bufSize, Knob \/ Flush \/ Step
  PROVE  release_level' = selectivity' * bufSize'
<1>1. CASE Knob
  BY <1>1 DEF Knob, ChangeThreshold, CoarsenBuckets, SetBufferSize, knobs
<1>2. CASE Flush
  BY <1>2 DEF Flush, TFlush, FlushStale, FlushIdle, knobs
<1>3. CASE Step
  BY <1>3 DEF Step, InsertBucketsTake, InsertBucketsDone, ReleaseStep, ResizeStep,
              PartialStep, EmptyTake, EmptyDone, PadStep, StaleStep, IdleStep, knobs
<1>. QED BY <1>1, <1>2, <1>3

\* Combining starts from an idle library that is blank.
LEMMA Switches ==
  ASSUME IInv, Blank, CounterExact, release_level = selectivity * bufSize, EnableCombining
  PROVE  FoldInv'
<1>1. /\ UNCHANGED <<vars, holds, absorbed>> /\ ctl = Idle
      /\ UNCHANGED <<tram_hold, msgBuffers, updates_in_tram, full_sends,
                     tot_send_count, sent, bufSize, tram_threshold,
                     direct_threshold, selectivity, release_level, ctl>>
  BY DEF EnableCombining, vars, traffic, knobs
<1>2. FoldTypes
  <2>1. tram_hold \in [Dests -> [Buckets -> {{}}]]
    BY DEF Blank, IInv, TypeOK
  <2>2. holds \in [Dests -> SUBSET EntryRecords]
    BY DEF Blank
  <2>. QED BY <2>1, <2>2 DEF IInv, TypeOK, FoldTypes, Blank
<1>3. Once
  <2>1. \A d \in Dests : holds[d] = {} /\ msgBuffers[d].items = {}
    BY DEF Blank
  <2>2. \A d \in Dests : Waiting(d) = {} /\ ItemsOf(holds[d]) = {}
    BY <2>1 DEF Waiting, ItemsOf
  <2>3. SentItems \cap absorbed = {}
    BY DEF Blank
  <2>. QED BY <2>1, <2>2, <2>3 DEF Once
<1>4. \A d \in Dests : ~NotResized(d)
  BY <1>1 DEF NotResized, Idle, At
<1>5. Room
  BY <1>4 DEF IInv, BufferBounds, Room
<1>6. Counted
  <2>1. ASSUME NEW d \in Dests
        PROVE  updates_in_tram[d] = Filled(d) + Cardinality(Admissible(d))
    <3>1. AdmittedHeld(d) = {} /\ Admissible(d) = {}
      BY DEF Blank, AdmittedHeld, HeldIn, Admissible, Live
    <3>2. updates_in_tram[d] \in Int /\ Filled(d) \in Nat
      BY FilledType DEF IInv, TypeOK
    <3>3. updates_in_tram[d] - (Filled(d) + Cardinality({})) = 0
      BY <3>1 DEF CounterExact, Drift
    <3>. QED BY <3>1, <3>2, <3>3, EmptyItems
  <2>. QED BY <2>1 DEF Counted
<1>7. Core'
  BY <1>1, <1>2, <1>3, <1>5, <1>6, Still DEF Core, FoldTypes, knobs
<1>8. FoldCtl' /\ Progress'
  BY <1>1, Rests DEF Progress
<1>. QED BY <1>7, <1>8 DEF FoldInv, Core

(***************************************************************************)
(* The invariant, and what follows from it.                                *)
(***************************************************************************)
LEMMA InitCInv == CombinedInit => CInv
<1>. SUFFICES ASSUME CombinedInit PROVE CInv
  OBVIOUS
<1>1. Init /\ combining = FALSE /\ holds = [d \in Dests |-> {}] /\ absorbed = {}
  BY DEF CombinedInit
<1>2. IInv /\ CounterExact
  BY <1>1, InitIInv
<1>3. Blank
  BY <1>1 DEF Init, Blank, NewMessage
<1>4. release_level = selectivity * bufSize
  BY <1>1 DEF Init
<1>. QED BY <1>1, <1>2, <1>3, <1>4 DEF CInv

\* Before combining is on a step is one of HTramPrio.
LEMMA BeforeTurn ==
  ASSUME IInv, Blank, CounterExact, release_level = selectivity * bufSize, Before
  PROVE  /\ IInv' /\ Blank' /\ CounterExact'
         /\ release_level' = selectivity' * bufSize'
<1>1. (Knob \/ Flush \/ Step) /\ UNCHANGED folding
  BY DEF Before
<1>2. Next
  BY <1>1 DEF Next, Client
<1>3. CounterExact'
  BY <1>2, BlankKeepsCounts
<1>. QED BY <1>1, <1>2, <1>3, NextIInv, BlankStays, LevelStays

LEMMA NextCInv == CInv /\ [CombinedNext]_combinedVars => CInv'
<1>. SUFFICES ASSUME CInv, [CombinedNext]_combinedVars PROVE CInv'
  OBVIOUS
<1>1. CASE UNCHANGED combinedVars
  <2>1. UNCHANGED vars /\ UNCHANGED <<combining, holds, absorbed>>
    BY <1>1 DEF combinedVars, folding
  <2>2. CASE combining
    <3>1. FoldInv
      BY <2>2 DEF CInv
    <3>2. Core' /\ \A e \in Dests : Unmoved(e)
      BY <2>1, <3>1, Still, CtlFacts DEF Core, FoldTypes, vars, traffic
    <3>3. ctl' = ctl /\ release_level' = release_level
      BY <2>1 DEF vars
    <3>4. FoldCtl'
      BY <3>1, <3>3 DEF FoldInv, FoldCtl
    <3>5. \A e \in Dests : (Relieved(e) => Relieved(e)') /\ (Clean(e) => Clean(e)')
      BY <3>2, <3>3, Untouched
    <3>6. ctl.at = "pad" => Admissible(ctl.dest)' = {}
      BY <2>1, <3>1 DEF FoldInv, Progress, Admissible, Live, vars, knobs
    <3>7. Progress'
      BY <3>1, <3>3, <3>5, <3>6 DEF FoldInv, Progress
    <3>. QED BY <2>1, <2>2, <3>2, <3>4, <3>7 DEF CInv, FoldInv, Core
  <2>3. CASE ~combining
    <3>1. IInv'
      BY <2>1, <2>3, NextIInv DEF CInv
    <3>2. Blank' /\ release_level' = selectivity' * bufSize'
      BY <2>1, <2>3 DEF CInv, Blank, vars, traffic, knobs
    <3>3. CounterExact'
      BY <2>1, <2>3, BlankKeepsCounts DEF CInv
    <3>. QED BY <2>1, <2>3, <3>1, <3>2, <3>3 DEF CInv
  <2>. QED BY <2>2, <2>3 DEF CInv
<1>2. CASE Before
  <2>1. ~combining /\ combining' = combining
    BY <1>2 DEF Before, folding
  <2>. QED BY <1>2, <2>1, BeforeTurn DEF CInv
<1>3. CASE EnableCombining
  <2>1. ~combining /\ combining' = TRUE
    BY <1>3 DEF EnableCombining
  <2>2. FoldInv'
    BY <1>3, <2>1, Switches DEF CInv
  <2>. QED BY <2>1, <2>2 DEF CInv
<1>4. CASE \/ \E d \in Dests, b \in Buckets, x \in Items : CombineItem(d, b, x)
           \/ CombinedKnob \/ CombinedFlush
  <2>1. combining
    BY <1>4 DEF CombineItem, CombinedKnob, CombinedFlush
  <2>2. FoldInv' /\ combining' = combining
    BY <1>4, <2>1, ClientTurn DEF CInv
  <2>. QED BY <2>1, <2>2 DEF CInv
<1>5. CASE CombinedStep
  <2>1. combining /\ combining' = combining
    BY <1>5 DEF CombinedStep, folding
  <2>2. FoldInv'
    BY <1>5, <2>1, HandlerTurn DEF CInv
  <2>. QED BY <2>1, <2>2 DEF CInv
<1>. QED BY <1>1, <1>2, <1>3, <1>4, <1>5 DEF CombinedNext

THEOREM CombinedInvariance == CombinedSpec => []CInv
BY InitCInv, NextCInv, PTL DEF CombinedSpec

\* The admitted count of a destination is what its hold and its buffer say,
\* whatever the client folds, releases, flushes and recounts
\* (sendItemPrioDeferredDest, releaseFull, flushDest, changeThreshold).
THEOREM CombinedCountersExact == CombinedSpec => []CombinedCounterExact
<1>1. CInv => CombinedCounterExact
  BY DEF CInv, FoldInv, Counted, CombinedCounterExact
<1>. QED BY <1>1, CombinedInvariance, PTL

\* A buffer has room for the next item in every state, before combining is
\* on and after: releases take no more than fits (releaseFull, flushDest).
THEOREM CombinedBuffersHaveRoom == CombinedSpec => []BufferBounds
<1>1. CInv => BufferBounds
  <2>. SUFFICES ASSUME CInv PROVE BufferBounds
    OBVIOUS
  <2>1. CASE ~combining
    BY <2>1 DEF CInv, IInv
  <2>2. CASE combining
    <3>1. FoldTypes /\ Room
      BY <2>2 DEF CInv, FoldInv
    <3>2. ASSUME NEW d \in Dests
          PROVE  /\ Filled(d) < msgBuffers[d].cap
                 /\ Filled(d) < bufSize /\ bufSize <= msgBuffers[d].cap
      <4>1. Filled(d) \in Nat /\ bufSize \in Nat /\ BUFSIZE \in Nat
            /\ msgBuffers[d].cap \in 1 .. BUFSIZE
        BY <3>1, Sizes DEF FoldTypes
      <4>2. Filled(d) < bufSize /\ bufSize <= msgBuffers[d].cap
        BY <3>1 DEF Room
      <4>. QED BY <4>1, <4>2
    <3>. QED BY <3>2 DEF BufferBounds
  <2>. QED BY <2>1, <2>2 DEF CInv
<1>. QED BY <1>1, CombinedInvariance, PTL

\* Which steps end a handler with combining on.
LEMMA EndsOf ==
  ASSUME CInv, [CombinedNext]_combinedVars, combining, ctl # Idle
  PROVE  FoldInv /\ (Ends \/ UNCHANGED combinedVars)
<1>1. FoldInv
  BY DEF CInv
<1>2. CASE Before \/ EnableCombining
  BY <1>2 DEF Before, EnableCombining
<1>3. CASE \/ \E d \in Dests, b \in Buckets, x \in Items : CombineItem(d, b, x)
           \/ CombinedKnob \/ CombinedFlush
  BY <1>1, <1>3, ClientTurn
<1>4. CASE CombinedStep
  BY <1>1, <1>4, HandlerTurn
<1>. QED BY <1>1, <1>2, <1>3, <1>4 DEF CombinedNext

\* A release that returns has left no backlog (releaseFull, changeThreshold).
THEOREM CombinedReleasesAll == CombinedSpec => CombinedNoBacklog
<1>1. CInv /\ [CombinedNext]_combinedVars =>
        [combining /\ ctl.at \in {"insertBuckets", "release"} /\ ctl' = Idle =>
           \A d \in Visited :
             Over(updates_in_tram[d], release_level)' => Admissible(d)' = {}]_combinedVars
  <2>. SUFFICES ASSUME CInv, [CombinedNext]_combinedVars, combining,
                       ctl.at \in {"insertBuckets", "release"}, ctl' = Idle,
                       ~UNCHANGED combinedVars
                PROVE  \A d \in Visited : Relieved(d)'
    BY DEF Relieved
  <2>1. ctl # Idle
    BY DEF Idle, At
  <2>. QED BY <2>1, EndsOf DEF Ends
<1>. QED BY <1>1, CombinedInvariance, PTL DEF CombinedSpec, CombinedNoBacklog

\* tflush and flushIdle leave nothing admitted behind (flushDest).
THEOREM CombinedFlushesComplete == CombinedSpec => CombinedFlushComplete
<1>1. CInv /\ [CombinedNext]_combinedVars =>
        [CombinedFlushing /\ ctl' = Idle =>
           \A d \in Dests : Filled(d)' = 0 /\ Admissible(d)' = {}]_combinedVars
  <2>. SUFFICES ASSUME CInv, [CombinedNext]_combinedVars, CombinedFlushing,
                       ctl' = Idle, ~UNCHANGED combinedVars
                PROVE  \A d \in Dests : Clean(d)'
    BY DEF Clean
  <2>1. combining /\ (\/ ctl.at = "flushIdle" \/ ctl.back \in {"tflush", "flushIdle"}
                      \/ "flushAll" \in {ctl.at, ctl.back})
    BY DEF CombinedFlushing, Flushing
  <2>2. ctl # Idle
    BY <2>1 DEF Idle, At
  <2>3. Ends /\ FoldInv
    BY <2>1, <2>2, EndsOf
  <2>4. ctl.back # "tflush"
    BY <2>3 DEF FoldInv, FoldCtl, FoldBacks
  <2>. QED BY <2>1, <2>3, <2>4 DEF Ends
<1>. QED BY <1>1, CombinedInvariance, PTL DEF CombinedSpec, CombinedFlushComplete

(***************************************************************************)
(* What leaves a hold: a batch for d, or nothing.                          *)
(***************************************************************************)
\* The batch S leaves for d.
Leaves(d, S) ==
  /\ S \subseteq Items /\ S # {} /\ S \subseteq Waiting(d)
  /\ sent' = sent \cup {[dest |-> d, items |-> S]}
  /\ Waiting(d)' = Waiting(d) \ S
  /\ \A e \in Dests \ {d} : Waiting(e)' = Waiting(e)

\* Nothing leaves.
Stays == sent' = sent /\ \A e \in Dests : Waiting(e)' = Waiting(e)

LEMMA MovedItems ==
  ASSUME Core, NEW d \in Dests, NEW R, R \subseteq holds[d],
         holds' = [holds EXCEPT ![d] = @ \ R]
  PROVE  /\ ItemsOf(R) \subseteq ItemsOf(holds[d])
         /\ ItemsOf(holds'[d]) = ItemsOf(holds[d]) \ ItemsOf(R)
         /\ ItemsOf(holds[d]) \cap msgBuffers[d].items = {}
<1>1. holds'[d] = holds[d] \ R
  BY DEF Core, FoldTypes
<1>. QED BY <1>1, ItemsSplit DEF Core, Once

LEMMA BatchLeaves ==
  ASSUME Core, NEW d \in Dests, NEW R, R \subseteq holds[d],
         holds' = [holds EXCEPT ![d] = @ \ R], absorbed' = absorbed,
         ShipBuffer(d, R), Filled(d) + Cardinality(R) # 0
  PROVE  \E T : Leaves(d, T) /\ Cardinality(T) = Filled(d) + Cardinality(R)
<1>0. PICK S : S = msgBuffers[d].items \cup ItemsOf(R)
  OBVIOUS
<1>1. S \subseteq Items /\ Cardinality(S) = Filled(d) + Cardinality(R)
  BY <1>0, BatchSize DEF Core
<1>2. S # {}
  BY <1>1, EmptyItems
<1>3. sent' = sent \cup {[dest |-> d, items |-> S]}
  BY <1>0 DEF ShipBuffer, SendBuffer
<1>4. /\ msgBuffers'[d].items = {}
      /\ \A e \in Dests \ {d} : msgBuffers'[e].items = msgBuffers[e].items
  BY DEF ShipBuffer, SendBuffer, NewMessage, Core, FoldTypes
<1>5. \A e \in Dests \ {d} : Waiting(e)' = Waiting(e)
  BY <1>0, <1>3, <1>4, EntriesMove DEF Core
<1>6. S \subseteq Waiting(d) /\ Waiting(d)' = Waiting(d) \ S
  BY <1>0, <1>4, MovedItems DEF Core, Waiting
<1>. QED BY <1>1, <1>2, <1>3, <1>5, <1>6 DEF Leaves

\* A drain sends exactly what makes the buffer bufSize items, or nothing.
LEMMA DrainLeaves ==
  ASSUME Core, NEW d \in Dests,
         NEW R \in Released(d, tram_threshold, bufSize - Filled(d)),
         NEW note, Drain(d, R, note), absorbed' = absorbed
  PROVE  Stays \/ \E T : Leaves(d, T) /\ Cardinality(T) = bufSize
<1>1. Filled(d) \in Nat /\ bufSize \in Nat /\ Filled(d) < bufSize
      /\ bufSize - Filled(d) \in Nat
  BY Sizes DEF Core, Room
<1>2. /\ R \subseteq holds[d]
      /\ Cardinality(R) \in Nat /\ Cardinality(R) <= bufSize - Filled(d)
  BY <1>1, ReleasedFacts DEF Core
<1>3. holds' = [holds EXCEPT ![d] = @ \ R]
  BY DEF Drain
<1>0. PICK S : S = msgBuffers[d].items \cup ItemsOf(R)
  OBVIOUS
<1>4. CASE Fills(d, R)
  <2>1. ShipBuffer(d, R) /\ Filled(d) + Cardinality(R) = bufSize
    BY <1>1, <1>2, <1>4 DEF Drain, Fills
  <2>2. Filled(d) + Cardinality(R) # 0
    BY <1>1, <2>1
  <2>3. R \subseteq holds[d]
    BY <1>2
  <2>4. \E T : Leaves(d, T) /\ Cardinality(T) = Filled(d) + Cardinality(R)
    BY <1>3, <2>1, <2>2, <2>3, BatchLeaves, Zenon
  <2>. QED BY <2>1, <2>4
<1>5. CASE ~Fills(d, R)
  <2>1. /\ msgBuffers' = [msgBuffers EXCEPT ![d].items = @ \cup ItemsOf(R)]
        /\ sent' = sent
    BY <1>5 DEF Drain, Append
  <2>2. /\ msgBuffers'[d].items = S
        /\ \A e \in Dests \ {d} : msgBuffers'[e].items = msgBuffers[e].items
    BY <1>0, <2>1 DEF Core, FoldTypes
  <2>3. \A e \in Dests \ {d} : Waiting(e)' = Waiting(e)
    <3>1. R \subseteq holds[d]
      BY <1>2
    <3>2. FoldTypes /\ Once /\ sent' = sent /\ absorbed' = absorbed
      BY <2>1 DEF Core
    <3>. QED BY <1>0, <1>3, <2>2, <3>1, <3>2, EntriesMove
  <2>4. Waiting(d)' = Waiting(d)
    <3>1. R \subseteq holds[d]
      BY <1>2
    <3>2. /\ ItemsOf(R) \subseteq ItemsOf(holds[d])
          /\ ItemsOf(holds'[d]) = ItemsOf(holds[d]) \ ItemsOf(R)
      BY <1>3, <3>1, MovedItems
    <3>. QED BY <1>0, <2>2, <3>2 DEF Waiting
  <2>. QED BY <2>1, <2>3, <2>4 DEF Stays
<1>. QED BY <1>4, <1>5

\* The last message of a flush has at most bufSize items.
LEMMA PartialLeaves ==
  ASSUME Core, FlushPartial, NEW d \in Dests, d = ctl.dest, absorbed' = absorbed
  PROVE  Stays \/ \E T : Leaves(d, T) /\ Cardinality(T) <= bufSize
<1>1. Filled(d) \in Nat /\ bufSize \in Nat /\ Filled(d) < bufSize
  BY Sizes DEF Core, Room
<1>2. Wanted(d) \in Nat /\ Filled(d) + Wanted(d) <= bufSize
  BY <1>1 DEF Wanted
<1>3. CASE Filled(d) = 0
  BY <1>3 DEF FlushPartial, Stays, Waiting
<1>4. CASE Filled(d) # 0
  <2>1. PICK R \in Released(d, NumBuckets - 1, Wanted(d)) :
          ShipBuffer(d, R) /\ holds' = [holds EXCEPT ![d] = @ \ R]
    BY <1>4 DEF FlushPartial
  <2>2. R \subseteq holds[d] /\ Cardinality(R) \in Nat /\ Cardinality(R) <= Wanted(d)
    BY <1>2, ReleasedFacts DEF Core
  <2>3. \E T : Leaves(d, T) /\ Cardinality(T) = Filled(d) + Cardinality(R)
    <3>1. Filled(d) + Cardinality(R) # 0
      BY <1>1, <1>4, <2>2
    <3>2. R \subseteq holds[d]
      BY <2>2
    <3>. QED BY <2>1, <3>1, <3>2, BatchLeaves, Zenon
  <2>4. Filled(d) + Cardinality(R) <= bufSize
    BY <1>1, <1>2, <2>2
  <2>. QED BY <2>3, <2>4
<1>. QED BY <1>3, <1>4

\* What a handler's step sends: nothing, or one batch, which is short only
\* at the end of a flush.
LEMMA HandlerLeaves ==
  ASSUME FoldInv, CombinedStep
  PROVE  \/ Stays
         \/ \E d \in Dests, S \in SUBSET Items :
              /\ Leaves(d, S) /\ Cardinality(S) <= bufSize
              /\ Cardinality(S) < bufSize => ctl.at = "pad"
<1>1. Core /\ ctl.dest \in Dests /\ bufSize \in Nat
  BY CtlFacts, Sizes DEF Core
<1>2. CASE (ReleaseFull \/ FlushDrain) /\ UNCHANGED <<combining, absorbed>>
  <2>1. PICK d \in Dests : d = ctl.dest
    BY <1>1
  <2>2. \/ UNCHANGED <<traffic, holds>>
        \/ \E R \in Released(d, tram_threshold, bufSize - Filled(d)),
              note \in BOOLEAN : Drain(d, R, note)
    BY <1>2, <2>1 DEF ReleaseFull, FlushDrain
  <2>3. UNCHANGED <<traffic, holds>> => Stays
    BY DEF Stays, Waiting, traffic
  <2>4. Stays \/ \E S : Leaves(d, S) /\ Cardinality(S) = bufSize
    BY <1>1, <1>2, <2>2, <2>3, DrainLeaves
  <2>. QED BY <1>1, <2>4 DEF Leaves
<1>3. CASE FlushPartial /\ UNCHANGED <<combining, absorbed>>
  <2>1. PICK d \in Dests : d = ctl.dest
    BY <1>1
  <2>2. Stays \/ \E S : Leaves(d, S) /\ Cardinality(S) <= bufSize
    BY <1>1, <1>3, <2>1, PartialLeaves
  <2>3. ctl.at = "pad"
    BY <1>3 DEF FlushPartial
  <2>. QED BY <2>2, <2>3 DEF Leaves
<1>4. CASE (FlushAllStep \/ ReleaseStep \/ StaleStep \/ IdleStep) /\ UNCHANGED folding
  BY <1>4 DEF FlushAllStep, ReleaseStep, StaleStep, IdleStep, traffic, folding,
              Stays, Waiting
<1>. QED BY <1>2, <1>3, <1>4 DEF CombinedStep

\* Before combining is on nothing is sent, and the client's own calls send
\* nothing.
LEMMA CallsKeepSent ==
  ASSUME CInv, [CombinedNext]_combinedVars, ~(combining /\ CombinedStep)
  PROVE  sent' = sent
<1>1. CASE UNCHANGED combinedVars
  BY <1>1 DEF combinedVars, vars, traffic
<1>2. CASE Before
  <2>1. ~combining /\ (Knob \/ Flush \/ Step) /\ UNCHANGED folding
    BY <1>2 DEF Before
  <2>2. Blank /\ Blank'
    BY <2>1, BlankStays DEF CInv
  <2>. QED BY <2>2 DEF Blank
<1>3. CASE EnableCombining
  BY <1>3 DEF EnableCombining, vars, traffic
<1>4. CASE \E d \in Dests, b \in Buckets, x \in Items : CombineItem(d, b, x)
  BY <1>4 DEF CombineItem
<1>5. CASE CombinedKnob
  BY <1>5 DEF CombinedKnob, CombinedThreshold, ResizeEmpty
<1>6. CASE CombinedFlush
  BY <1>6 DEF CombinedFlush, CombinedTFlush, FlushStale, FlushIdle, traffic
<1>7. CASE CombinedStep
  <2>1. combining
    BY <1>7 DEF CombinedStep
  <2>. QED BY <1>7, <2>1
<1>. QED BY <1>1, <1>2, <1>3, <1>4, <1>5, <1>6, <1>7 DEF CombinedNext

\* A message with fewer than bufSize items leaves only in the flush of its
\* destination, before combining is on and after (releaseFull, flushDest).
THEOREM CombinedMessagesLeaveFull == CombinedSpec => FullUnlessFlushed
<1>1. CInv /\ [CombinedNext]_combinedVars =>
        [\A m \in sent' \ sent :
           Cardinality(m.items) < bufSize => ctl.at \in {"partial", "pad"}]_vars
  <2>. SUFFICES ASSUME CInv, [CombinedNext]_combinedVars, NEW m \in sent' \ sent,
                       Cardinality(m.items) < bufSize
                PROVE  ctl.at \in {"partial", "pad"}
    OBVIOUS
  <2>1. combining /\ CombinedStep
    BY CallsKeepSent
  <2>2. FoldInv
    BY <2>1 DEF CInv
  <2>3. PICK d \in Dests, S \in SUBSET Items :
          Leaves(d, S) /\ (Cardinality(S) < bufSize => ctl.at = "pad")
    BY <2>1, <2>2, HandlerLeaves DEF Stays
  <2>4. m.items = S
    BY <2>3 DEF Leaves
  <2>. QED BY <2>3, <2>4
<1>. QED BY <1>1, CombinedInvariance, PTL DEF CombinedSpec, FullUnlessFlushed

(***************************************************************************)
(* CombiningTram implements CombiningService.  With combining on what is   *)
(* pending for a destination is what waits for it, in the hold or in the   *)
(* buffer: a drain into the buffer is a stutter, a batch is sent, and an   *)
(* item that meets one of its key is a fold.                               *)
(***************************************************************************)
waitingBar == [d \in Dests |-> CombinedPending(d)]

LEMMA ServiceDefs ==
  /\ Combined!Accepted = SentItems \cup UNION {CombinedPending(d) : d \in Dests}
  /\ Combined!combinedVars = <<<<waitingBar, sent>>, absorbed>>
<1>1. \A d \in Dests : waitingBar[d] = CombinedPending(d)
  BY DEF waitingBar
<1>2. Combined!combinedVars = <<<<waitingBar, sent>>, absorbed>>
  BY DEF Combined!combinedVars, Combined!vars, waitingBar
<1>3. Combined!Accepted = (UNION {waitingBar[d] : d \in Dests}) \cup SentItems
  BY DEF Combined!Accepted, waitingBar, SentItems
<1>4. {waitingBar[d] : d \in Dests} = {CombinedPending(d) : d \in Dests}
  BY <1>1
<1>. QED BY <1>2, <1>3, <1>4

\* With combining on, what is pending waits in the hold or in the buffer,
\* and nothing that was absorbed is still in the library or sent.
LEMMA WaitingIs ==
  FoldTypes /\ Once =>
    /\ waitingBar = [d \in Dests |-> Waiting(d)]
    /\ Combined!Accepted \cap absorbed = {}
    /\ Combined!Accepted \subseteq CombinedKnown
<1>. SUFFICES ASSUME FoldTypes, Once
              PROVE  /\ waitingBar = [d \in Dests |-> Waiting(d)]
                     /\ Combined!Accepted \cap absorbed = {}
                     /\ Combined!Accepted \subseteq CombinedKnown
  OBVIOUS
<1>1. \A d \in Dests : CombinedPending(d) = Waiting(d)
  BY OldHoldsEmpty DEF FoldTypes
<1>2. waitingBar = [d \in Dests |-> Waiting(d)]
  BY <1>1 DEF waitingBar
<1>3. Combined!Accepted \cap absorbed = {}
  BY <1>1, ServiceDefs DEF Once
<1>4. Combined!Accepted \subseteq CombinedKnown
  <2>1. \A d \in Dests : CombinedPending(d) \subseteq CombinedKnown
    BY DEF CombinedPending, CombinedKnown, Known
  <2>2. SentItems \subseteq CombinedKnown
    BY DEF CombinedKnown, Known
  <2>. QED BY <2>1, <2>2, ServiceDefs
<1>. QED BY <1>2, <1>3, <1>4

LEMMA WaitingIsPrime ==
  (FoldTypes /\ Once)' =>
    /\ waitingBar' = [d \in Dests |-> Waiting(d)']
    /\ Combined!Accepted' \cap absorbed' = {}
<1>1. (FoldTypes /\ Once =>
         /\ waitingBar = [d \in Dests |-> Waiting(d)]
         /\ Combined!Accepted \cap absorbed = {}
         /\ Combined!Accepted \subseteq CombinedKnown)'
  BY WaitingIs, PTL
<1>. QED BY <1>1

\* Nothing of what CombiningService sees changes.
LEMMA Idles ==
  ASSUME Core, Core', Stays, absorbed' = absorbed
  PROVE  UNCHANGED Combined!combinedVars
<1>1. waitingBar' = waitingBar
  BY WaitingIs, WaitingIsPrime DEF Core, Stays
<1>. QED BY <1>1, ServiceDefs DEF Stays, Combined!combinedVars, Combined!vars, waitingBar

\* A new item waits in the hold of d, alone with its key.
LEMMA HoldRefines ==
  ASSUME Core, Core', NEW d \in Dests, NEW b \in Buckets, NEW x \in Items,
         x \notin CombinedKnown, HoldNew(d, x, b), UNCHANGED <<msgBuffers, sent>>
  PROVE  Combined!CombinedNext
<1>1. PICK H : H = (holds[d] \ {}) \cup {Entry(x, b)}
  OBVIOUS
<1>2. holds' = [holds EXCEPT ![d] = H] /\ absorbed' = absorbed
  BY <1>1 DEF HoldNew
<1>3. absorbed' = absorbed \cup ItemsOf({})
  BY <1>2 DEF ItemsOf
<1>4. /\ \A e \in Dests \ {d} : Waiting(e)' = Waiting(e)
      /\ Waiting(d)' = (Waiting(d) \ ItemsOf({})) \cup {x}
  BY <1>1, <1>2, <1>3, EntryEnters DEF Core
<1>5. Waiting(d)' = Waiting(d) \cup {x}
  BY <1>4 DEF ItemsOf
<1>6. waitingBar' = [waitingBar EXCEPT ![d] = @ \cup {x}]
  BY <1>4, <1>5, WaitingIs, WaitingIsPrime DEF Core
<1>7. x \notin Combined!Accepted
  BY WaitingIs DEF Core
<1>8. Combined!Accept(d, x)
  BY <1>6, <1>7 DEF Combined!Accept, waitingBar
<1>9. Combined!Next
  BY <1>8 DEF Combined!Next
<1>10. Combined!Accepted' \cap absorbed' = {}
  BY WaitingIsPrime DEF Core
<1>. QED BY <1>2, <1>9, <1>10 DEF Combined!CombinedNext

\* A new item meets one of its key, and one of the two is absorbed.
LEMMA FoldRefines ==
  ASSUME Core, Core', NEW d \in Dests, NEW b \in Buckets, NEW x \in Items,
         x \notin CombinedKnown, Fold(d, x, b), UNCHANGED <<msgBuffers, sent>>
  PROVE  Combined!CombinedNext
<1>1. PICK r \in holds[d] :
        /\ Key[r.item] = Key[x]
        /\ \/ /\ absorbed' = absorbed \cup {x}
              /\ UNCHANGED holds
           \/ /\ absorbed' = absorbed \cup {r.item}
              /\ holds' = [holds EXCEPT ![d] = Folded(d, r, x, b)]
  BY DEF Fold
<1>2. /\ r.item \in Waiting(d) /\ waitingBar[d] = Waiting(d)
      /\ x \notin Combined!Accepted /\ x \notin absorbed
  <2>1. r.item \in Waiting(d)
    BY DEF Waiting, ItemsOf
  <2>2. x \notin absorbed
    BY DEF CombinedKnown
  <2>. QED BY <2>1, <2>2, WaitingIs DEF Core
<1>3. Combined!Accepted' \cap absorbed' = {}
  BY WaitingIsPrime DEF Core
<1>4. CASE absorbed' = absorbed \cup {x} /\ UNCHANGED holds
  <2>1. \A e \in Dests : Waiting(e)' = Waiting(e)
    BY <1>4 DEF Waiting
  <2>2. waitingBar' = waitingBar
    BY <2>1, WaitingIs, WaitingIsPrime DEF Core
  <2>3. Combined!Fold(d, x)
    BY <1>1, <1>2, <1>4, <2>2 DEF Combined!Fold, waitingBar
  <2>. QED BY <1>2, <1>3, <2>3 DEF Combined!CombinedNext
<1>5. CASE /\ absorbed' = absorbed \cup {r.item}
           /\ holds' = [holds EXCEPT ![d] = Folded(d, r, x, b)]
  <2>1. PICK Q : Q = {r}
    OBVIOUS
  <2>2. PICK H : H = (holds[d] \ Q) \cup {Entry(x, b)}
    OBVIOUS
  <2>3. ItemsOf(Q) = {r.item} /\ Q \subseteq holds[d]
    BY <2>1 DEF ItemsOf
  <2>4. holds' = [holds EXCEPT ![d] = H] /\ absorbed' = absorbed \cup ItemsOf(Q)
    BY <1>5, <2>1, <2>2, <2>3 DEF Folded
  <2>5. /\ \A e \in Dests \ {d} : Waiting(e)' = Waiting(e)
        /\ Waiting(d)' = (Waiting(d) \ ItemsOf(Q)) \cup {x}
    BY <2>2, <2>3, <2>4, EntryEnters DEF Core
  <2>6. waitingBar' = [waitingBar EXCEPT ![d] = (@ \ {r.item}) \cup {x}]
    BY <2>3, <2>5, WaitingIs, WaitingIsPrime DEF Core
  <2>7. Combined!Fold(d, x)
    BY <1>1, <1>2, <1>5, <2>6 DEF Combined!Fold, waitingBar
  <2>. QED BY <1>2, <1>3, <2>7 DEF Combined!CombinedNext
<1>. QED BY <1>1, <1>4, <1>5

\* A batch leaves in one message.
LEMMA LeavesRefines ==
  ASSUME Core, Core', NEW d \in Dests, NEW S \in SUBSET Items, Leaves(d, S),
         Cardinality(S) <= bufSize, absorbed' = absorbed
  PROVE  Combined!CombinedNext
<1>1. Cardinality(S) <= BUFSIZE
  <2>1. Cardinality(S) \in Nat
    BY ItemSets
  <2>2. bufSize \in Nat /\ BUFSIZE \in Nat /\ bufSize <= BUFSIZE
    BY Sizes DEF Core
  <2>. QED BY <2>1, <2>2
<1>2. waitingBar' = [waitingBar EXCEPT ![d] = @ \ S] /\ S \subseteq waitingBar[d]
  BY WaitingIs, WaitingIsPrime DEF Core, Leaves
<1>3. /\ S \in {T \in SUBSET Items : T # {} /\ Cardinality(T) <= BUFSIZE}
      /\ sent' = sent \cup {[dest |-> d, items |-> S]}
  BY <1>1 DEF Leaves
<1>4. Combined!Ship(d, S, {})
  BY <1>2, <1>3 DEF Combined!Ship, waitingBar
<1>5. Combined!Next
  BY <1>3, <1>4 DEF Combined!Next
<1>6. Combined!Accepted' \cap absorbed' = {}
  BY WaitingIsPrime DEF Core
<1>. QED BY <1>5, <1>6 DEF Combined!CombinedNext

\* Without combining nothing is in the library.
LEMMA BlankIs ==
  Blank => /\ waitingBar = [d \in Dests |-> {}]
           /\ sent = {} /\ absorbed = {}
<1>. SUFFICES ASSUME Blank PROVE waitingBar = [d \in Dests |-> {}]
  BY DEF Blank
<1>1. ASSUME NEW d \in Dests PROVE CombinedPending(d) = {}
  <2>1. Held(d) = {}
    BY DEF Blank, Held, HeldIn
  <2>2. ItemsOf(holds[d]) = {}
    BY DEF Blank, ItemsOf
  <2>. QED BY <2>1, <2>2 DEF CombinedPending, Pending, Blank
<1>. QED BY <1>1 DEF waitingBar

LEMMA BlankIsPrime ==
  Blank' => /\ waitingBar' = [d \in Dests |-> {}]
            /\ sent' = {} /\ absorbed' = {}
<1>1. (Blank => /\ waitingBar = [d \in Dests |-> {}]
                /\ sent = {} /\ absorbed = {})'
  BY BlankIs, PTL
<1>. QED BY <1>1

LEMMA CombinedRefines ==
  CInv /\ [CombinedNext]_combinedVars
    => [Combined!CombinedNext]_Combined!combinedVars
<1>. SUFFICES ASSUME CInv, [CombinedNext]_combinedVars
              PROVE  [Combined!CombinedNext]_Combined!combinedVars
  OBVIOUS
<1>1. CInv'
  BY NextCInv
<1>2. ASSUME UNCHANGED <<tram_hold, msgBuffers, sent, holds, absorbed>>
      PROVE  UNCHANGED Combined!combinedVars
  BY <1>2 DEF Combined!combinedVars, Combined!vars, CombinedPending, Pending, Held,
              HeldIn
<1>3. CASE UNCHANGED combinedVars
  BY <1>2, <1>3 DEF combinedVars, vars, traffic, folding
<1>4. CASE EnableCombining
  BY <1>2, <1>4 DEF EnableCombining, vars, traffic
<1>5. CASE Before
  <2>1. Blank /\ Blank'
    <3>1. ~combining /\ ~combining'
      BY <1>5 DEF Before, folding
    <3>. QED BY <1>1, <3>1 DEF CInv
  <2>. QED BY <2>1, BlankIs, BlankIsPrime, ServiceDefs
           DEF Combined!combinedVars, Combined!vars, waitingBar
<1>6. ASSUME combining, combining' = combining
      PROVE  Core /\ Core' /\ FoldInv
  BY <1>1, <1>6 DEF CInv, FoldInv, Core
<1>7. ASSUME NEW d \in Dests, NEW b \in Buckets, NEW x \in Items,
             CombineItem(d, b, x)
      PROVE  Combined!CombinedNext
  <2>1. /\ combining /\ combining' = combining /\ x \notin CombinedKnown
        /\ HoldNew(d, x, b) \/ Fold(d, x, b)
        /\ UNCHANGED <<msgBuffers, sent>>
    BY <1>7 DEF CombineItem
  <2>. QED BY <1>6, <2>1, HoldRefines, FoldRefines
<1>8. CASE CombinedKnob
  <2>1. /\ combining /\ combining' = combining /\ sent' = sent
        /\ holds' = holds /\ absorbed' = absorbed
    BY <1>8 DEF CombinedKnob, CombinedThreshold, ResizeEmpty, folding
  <2>2. \A e \in Dests : msgBuffers'[e].items = msgBuffers[e].items
    <3>1. CASE msgBuffers' = msgBuffers
      BY <3>1
    <3>2. ASSUME NEW n \in BufSizes, ResizeEmpty(n)
          PROVE  \A e \in Dests : msgBuffers'[e].items = msgBuffers[e].items
      <4>1. \A e \in Dests : msgBuffers'[e].items = {} /\ Filled(e) = 0
        BY <3>2 DEF ResizeEmpty, NewMessage
      <4>2. ASSUME NEW e \in Dests PROVE msgBuffers[e].items = {}
        <5>1. /\ msgBuffers[e].items \subseteq Items
              /\ Cardinality(msgBuffers[e].items) = 0
          BY <1>6, <2>1, <4>1, Sizes DEF Core
        <5>. QED BY <5>1, ItemSets, FS_EmptySet
      <4>. QED BY <4>1, <4>2
    <3>. QED BY <1>8, <3>1, <3>2 DEF CombinedKnob, CombinedThreshold
  <2>3. Stays
    BY <2>1, <2>2 DEF Stays, Waiting
  <2>. QED BY <1>6, <2>1, <2>3, Idles
<1>9. CASE CombinedFlush
  BY <1>2, <1>9 DEF CombinedFlush, CombinedTFlush, FlushStale, FlushIdle, traffic,
                    folding
<1>10. CASE CombinedStep
  <2>1. combining
    BY <1>10 DEF CombinedStep
  <2>2. UNCHANGED <<combining, absorbed>>
    BY <1>10 DEF CombinedStep, folding
  <2>3. CASE Stays
    BY <1>6, <2>1, <2>2, <2>3, Idles
  <2>4. ASSUME NEW d \in Dests, NEW S \in SUBSET Items,
               Leaves(d, S), Cardinality(S) <= bufSize
        PROVE  Combined!CombinedNext
    BY <1>6, <2>1, <2>2, <2>4, LeavesRefines
  <2>. QED BY <1>6, <1>10, <2>1, <2>2, <2>3, <2>4, HandlerLeaves
<1>. QED BY <1>3, <1>4, <1>5, <1>7, <1>8, <1>9, <1>10 DEF CombinedNext

\* With combining on every item is held, buffered, sent or absorbed, exactly
\* one of these, and absorbed only while one with its key stays pending for
\* the same destination: the hold's on_absorb accounts for every item.
THEOREM CombiningRefinement == CombinedSpec => ImplementsCombiningService
<1>1. CombinedInit => Combined!CombinedInit
  <2>. SUFFICES ASSUME CombinedInit PROVE Combined!CombinedInit
    OBVIOUS
  <2>1. Blank
    BY DEF CombinedInit, Init, Blank, NewMessage
  <2>. QED BY <2>1, BlankIs DEF Combined!CombinedInit, Combined!Init, waitingBar
<1>. QED BY <1>1, CombinedRefines, CombinedInvariance, PTL
         DEF CombinedSpec, ImplementsCombiningService, Combined!CombinedSpec
=============================================================================
