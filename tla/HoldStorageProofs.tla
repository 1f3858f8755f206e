------------------------- MODULE HoldStorageProofs -------------------------
(***************************************************************************)
(* HoldStorage for every number of buckets, width of a word and threshold  *)
(* of compaction: the scan over the words finds the first bucket that has  *)
(* items, and vector, head and bits implement a queue per bucket.          *)
(*                                                                         *)
(* The scan is right because the bits are exact: a bit is set if, and only *)
(* if, its bucket has items and no flush is taking them out.  That in turn *)
(* needs each loop to stand at a bucket the scan has found, since a merge  *)
(* sets the bit of the bucket it moves to without looking at what it moves.*)
(***************************************************************************)
EXTENDS HoldStorage, SequenceTheorems, WellFoundedInduction, TLAPS

Queue == {q \in [items : Seq(Items), head : Nat] : q.head <= Len(q.items)}
HasItems(b) == ~Empty(tram_hold[b])

BitTable == {bits \in [Words -> SUBSET (0 .. WordBits - 1)] :
               \A w \in Words : \A k \in bits[w] : w * WordBits + k < NumBuckets}
BitIn(bits, b) == b % WordBits \in bits[b \div WordBits]
Bit(b) == BitIn(hold_bits, b)

LoopNames == {"insertBuckets", "flush", "flushing", "coarsen", "coarsened"}
CtlOK ==
  \/ ctl = Idle
  \/ /\ ctl \in [at : LoopNames, b : Buckets, high : Int, k : Nat]
     /\ ctl.at \in {"coarsen", "coarsened"} => 2 <= ctl.k /\ 1 <= ctl.b
     /\ ctl.at = "coarsen" => HasItems(ctl.b)

BitsOK ==
  /\ hold_bits \in BitTable
  /\ \A b \in Buckets : Bit(b) <=> HasItems(b) /\ ~BeingFlushed(b)

HInv ==
  /\ CtlOK
  /\ tram_hold \in [Buckets -> Queue]
  /\ BitsOK
  /\ sent \subseteq Items

(***************************************************************************)
(* Numbers.                                                                *)
(***************************************************************************)

\* A set of natural numbers has a least element, and Min is that element.
LEMMA Least ==
  ASSUME NEW S, S \subseteq Nat, S # {}
  PROVE  Min(S) \in S /\ \A y \in S : Min(S) <= y
<1>1. IsWellFoundedOn(OpToRel(<, Nat), Nat)
  BY NatLessThanWellFounded
<1>2. PICK x \in S : \A y \in S : <<y, x>> \notin OpToRel(<, Nat)
  BY <1>1, WFMin
<1>3. ASSUME NEW y \in S PROVE x <= y
  <2>1. x \in Nat /\ y \in Nat
    BY <1>2
  <2>2. ~(y < x)
    BY <1>2, <2>1, Zenon DEF OpToRel
  <2>. QED BY <2>1, <2>2
<1>. QED BY <1>2, <1>3, Zenon DEF Min

\* The least element is the only one below all others.
LEMMA LeastIs ==
  ASSUME NEW S, S \subseteq Nat, NEW x \in S, \A y \in S : x <= y
  PROVE  Min(S) = x
<1>1. Min(S) \in S /\ \A y \in S : Min(S) <= y
  BY Least
<1>2. Min(S) <= x /\ x <= Min(S) /\ x \in Nat /\ Min(S) \in Nat
  BY <1>1
<1>. QED BY <1>2

\* The word and the bit of a bucket.
LEMMA BitOf ==
  ASSUME NEW b \in Buckets
  PROVE  /\ b \div WordBits \in Words
         /\ b % WordBits \in 0 .. WordBits - 1
         /\ b = (b \div WordBits) * WordBits + (b % WordBits)
<1>1. /\ b \in Nat /\ b < NumBuckets /\ NumBuckets \in Nat \ {0}
      /\ WordBits \in Nat \ {0}
  BY StorageAssumption DEF Buckets, StorageAssumption
<1>2. /\ b = (b \div WordBits) * WordBits + (b % WordBits)
      /\ b % WordBits \in 0 .. WordBits - 1 /\ b \div WordBits \in Nat
  BY <1>1
<1>3. b \div WordBits < (NumBuckets + WordBits - 1) \div WordBits
  BY <1>1, <1>2
<1>. QED BY <1>1, <1>2, <1>3 DEF Words, hold_words

\* The bucket of a word and a bit.
LEMMA BucketOf ==
  ASSUME NEW w \in Nat, NEW k \in 0 .. WordBits - 1
  PROVE  /\ (w * WordBits + k) \div WordBits = w
         /\ (w * WordBits + k) % WordBits = k
BY StorageAssumption DEF StorageAssumption

(***************************************************************************)
(* The scan.                                                               *)
(***************************************************************************)
Marked(from) == {b \in Buckets : from <= b /\ Bit(b)}

\* What the masked words hold are the marked buckets from `from` on.
LEMMA MaskedIsMarked ==
  ASSUME hold_bits \in BitTable, NEW from \in Buckets,
         NEW w \in Words, w >= from \div WordBits, NEW k
  PROVE  k \in MaskedFrom(from, w)
           <=> /\ k \in 0 .. WordBits - 1
               /\ w * WordBits + k \in Marked(from)
<1>1. /\ w \in Nat /\ WordBits \in Nat \ {0} /\ NumBuckets \in Nat
      /\ from \in Nat /\ hold_bits[w] \subseteq 0 .. WordBits - 1
  BY StorageAssumption DEF StorageAssumption, Words, Buckets, BitTable
<1>2. /\ from \div WordBits \in Nat /\ from % WordBits \in 0 .. WordBits - 1
      /\ from = (from \div WordBits) * WordBits + (from % WordBits)
  BY BitOf DEF Words
<1>3. ASSUME NEW j \in 0 .. WordBits - 1
      PROVE  /\ w * WordBits + j \in Nat
             /\ Bit(w * WordBits + j) <=> j \in hold_bits[w]
             /\ w = from \div WordBits => (from <= w * WordBits + j <=> j >= from % WordBits)
             /\ w # from \div WordBits => from <= w * WordBits + j
  <2>1. w * WordBits + j \in Nat
    BY <1>1
  <2>2. Bit(w * WordBits + j) <=> j \in hold_bits[w]
    BY <1>1, <1>3, BucketOf DEF Bit, BitIn
  <2>3. w = from \div WordBits => (from <= w * WordBits + j <=> j >= from % WordBits)
    BY <1>1, <1>2
  <2>4. ASSUME w # from \div WordBits PROVE from <= w * WordBits + j
    <3>. DEFINE v == from \div WordBits
    <3>1. v + 1 <= w /\ v \in Nat
      BY <1>1, <1>2, <2>4
    <3>2. from < v * WordBits + WordBits
      BY <1>1, <1>2
    <3>. HIDE DEF v
    <3>3. v * WordBits + WordBits <= w * WordBits
      BY <1>1, <3>1
    <3>. QED BY <1>1, <3>1, <3>2, <3>3
  <2>. QED BY <2>1, <2>2, <2>3, <2>4
<1>4. ASSUME k \in MaskedFrom(from, w)
      PROVE  k \in 0 .. WordBits - 1 /\ w * WordBits + k \in Marked(from)
  <2>1. k \in hold_bits[w] /\ (w = from \div WordBits => k >= from % WordBits)
    BY <1>4 DEF MaskedFrom
  <2>2. k \in 0 .. WordBits - 1 /\ w * WordBits + k < NumBuckets
    BY <1>1, <2>1 DEF BitTable
  <2>3. w * WordBits + k \in Nat /\ Bit(w * WordBits + k) /\ from <= w * WordBits + k
    BY <1>3, <2>1, <2>2
  <2>4. w * WordBits + k \in Buckets
    BY <1>1, <2>2, <2>3 DEF Buckets
  <2>. QED BY <2>2, <2>3, <2>4 DEF Marked
<1>5. ASSUME k \in 0 .. WordBits - 1, w * WordBits + k \in Marked(from)
      PROVE  k \in MaskedFrom(from, w)
  <2>1. from <= w * WordBits + k /\ Bit(w * WordBits + k)
    BY <1>5 DEF Marked
  <2>. QED BY <1>3, <1>5, <2>1 DEF MaskedFrom
<1>. QED BY <1>4, <1>5

\* holdNext answers with the first marked bucket from `from` on, or none.
LEMMA ScanIs ==
  ASSUME hold_bits \in BitTable, NEW from \in Buckets
  PROVE  HoldNext(from) = IF Marked(from) = {} THEN None ELSE Min(Marked(from))
<1>. DEFINE words == {w \in Words : w >= from \div WordBits /\ MaskedFrom(from, w) # {}}
<1>1. /\ WordBits \in Nat \ {0} /\ from \in Nat /\ ~(from >= NumBuckets)
      /\ from \div WordBits \in Nat /\ words \subseteq Nat
      /\ Marked(from) \subseteq Nat
  BY BitOf, StorageAssumption DEF StorageAssumption, Words, Buckets, Marked
<1>2. ASSUME NEW b \in Marked(from)
      PROVE  /\ b \div WordBits \in words
             /\ b % WordBits \in MaskedFrom(from, b \div WordBits)
  <2>1. b \in Buckets /\ from <= b
    BY DEF Marked
  <2>2. /\ b \div WordBits \in Words /\ b % WordBits \in 0 .. WordBits - 1
        /\ b = (b \div WordBits) * WordBits + (b % WordBits)
    BY <2>1, BitOf
  <2>3. b \div WordBits >= from \div WordBits
    <3>1. b \in Nat
      BY <2>1 DEF Buckets
    <3>. QED BY <1>1, <2>1, <3>1
  <2>4. b % WordBits \in MaskedFrom(from, b \div WordBits)
    BY <2>2, <2>3, MaskedIsMarked
  <2>. QED BY <2>2, <2>3, <2>4
<1>3. CASE words = {}
  <2>1. Marked(from) = {}
    BY <1>2, <1>3
  <2>. QED BY <1>1, <1>3, <2>1 DEF HoldNext
<1>4. CASE words # {}
  <2>1. PICK w : w = Min(words)
    OBVIOUS
  <2>2. w \in words /\ \A v \in words : w <= v
    BY <1>1, <1>4, <2>1, Least
  <2>. DEFINE bits == MaskedFrom(from, w)
  <2>3. bits \subseteq Nat /\ bits # {}
    <3>1. bits \subseteq hold_bits[w]
      BY DEF MaskedFrom
    <3>2. hold_bits[w] \subseteq Nat
      BY <1>1, <2>2 DEF BitTable
    <3>. QED BY <2>2, <3>1, <3>2
  <2>4. PICK k : k = Min(bits)
    OBVIOUS
  <2>5. k \in bits /\ \A j \in bits : k <= j
    BY <2>3, <2>4, Least
  <2>6. HoldNext(from) = w * WordBits + k
    BY <1>1, <1>4, <2>1, <2>4 DEF HoldNext
  <2>7. /\ w \in Words /\ w \in Nat /\ w >= from \div WordBits
        /\ k \in 0 .. WordBits - 1 /\ w * WordBits + k \in Marked(from)
    <3>1. w \in Words /\ w \in Nat /\ w >= from \div WordBits
      BY <1>1, <2>2
    <3>. QED BY <2>5, <3>1, MaskedIsMarked
  <2>8. ASSUME NEW b \in Marked(from) PROVE w * WordBits + k <= b
    <3>1. PICK v \in words : v = b \div WordBits
      BY <1>2
    <3>2. PICK j \in 0 .. WordBits - 1 : j = b % WordBits
      BY BitOf DEF Marked
    <3>3. b = v * WordBits + j /\ j \in MaskedFrom(from, v)
      BY <1>2, <3>1, <3>2, BitOf DEF Marked
    <3>4. w <= v /\ v \in Nat
      BY <1>1, <2>2
    <3>5. CASE v = w
      BY <1>1, <2>5, <2>7, <3>2, <3>3, <3>5
    <3>6. CASE v # w
      <4>1. w + 1 <= v
        BY <2>7, <3>4, <3>6
      <4>2. w * WordBits + WordBits <= v * WordBits
        BY <1>1, <2>7, <3>4, <4>1
      <4>. QED BY <1>1, <2>7, <3>2, <3>3, <3>4, <4>2
    <3>. QED BY <3>5, <3>6
  <2>9. Min(Marked(from)) = w * WordBits + k
    BY <1>1, <2>7, <2>8, LeastIs
  <2>. QED BY <2>6, <2>7, <2>9
<1>. QED BY <1>3, <1>4

\* While the bits are exact the scan answers with the first bucket that has
\* items and is not being flushed.
LEMMA ScanExact ==
  ASSUME BitsOK
  PROVE  ScanFindsFirst
<1>. SUFFICES ASSUME NEW from \in Buckets
              PROVE  LET found == {b \in from .. NumBuckets - 1 : HasItems(b) /\ ~BeingFlushed(b)}
                     IN  HoldNext(from) = IF found = {} THEN None ELSE Min(found)
  BY DEF ScanFindsFirst, HasItems
<1>1. \A b : b \in from .. NumBuckets - 1 <=> b \in Buckets /\ from <= b
  BY StorageAssumption DEF StorageAssumption, Buckets
<1>2. Marked(from) = {b \in from .. NumBuckets - 1 : HasItems(b) /\ ~BeingFlushed(b)}
  BY <1>1 DEF Marked, BitsOK
<1>. QED BY <1>2, ScanIs DEF BitsOK

(***************************************************************************)
(* The bits.                                                               *)
(***************************************************************************)

\* Two buckets with the same word and bit are the same.
LEMMA SameBit ==
  ASSUME NEW b \in Buckets, NEW c \in Buckets,
         b \div WordBits = c \div WordBits, b % WordBits = c % WordBits
  PROVE  b = c
BY BitOf

LEMMA SetBit ==
  ASSUME NEW bits \in BitTable, NEW b \in Buckets
  PROVE  /\ Set(bits, b) \in BitTable
         /\ \A c \in Buckets : BitIn(Set(bits, b), c) <=> BitIn(bits, c) \/ c = b
<1>. DEFINE w == b \div WordBits
            k == b % WordBits
<1>1. w \in Words /\ k \in 0 .. WordBits - 1 /\ w * WordBits + k < NumBuckets
  <2>1. w \in Words /\ k \in 0 .. WordBits - 1 /\ b = w * WordBits + k
    BY BitOf
  <2>2. b < NumBuckets
    BY StorageAssumption DEF StorageAssumption, Buckets
  <2>. QED BY <2>1, <2>2
<1>2. Set(bits, b) = [bits EXCEPT ![w] = @ \cup {k}]
  BY DEF Set
<1>3. ASSUME NEW c \in Buckets
      PROVE  BitIn(Set(bits, b), c) <=> BitIn(bits, c) \/ c = b
  <2>. DEFINE v == c \div WordBits
              j == c % WordBits
  <2>1. v \in Words /\ (v = w /\ j = k => c = b)
    BY BitOf, SameBit
  <2>2. c = b => v = w /\ j = k
    OBVIOUS
  <2>. HIDE DEF v, j, w, k
  <2>3. j \in Set(bits, b)[v] <=> j \in bits[v] \/ (v = w /\ j = k)
    BY <1>1, <1>2, <2>1 DEF BitTable
  <2>. QED BY <2>1, <2>2, <2>3 DEF BitIn, v, j
<1>. HIDE DEF w, k
<1>4. Set(bits, b) \in BitTable
  BY <1>1, <1>2 DEF BitTable
<1>. QED BY <1>3, <1>4

LEMMA ClearBit ==
  ASSUME NEW bits \in BitTable, NEW b \in Buckets
  PROVE  /\ Emptied(bits, b) \in BitTable
         /\ \A c \in Buckets : BitIn(Emptied(bits, b), c) <=> BitIn(bits, c) /\ c # b
<1>. DEFINE w == b \div WordBits
            k == b % WordBits
<1>1. w \in Words /\ k \in 0 .. WordBits - 1
  BY BitOf
<1>2. Emptied(bits, b) = [bits EXCEPT ![w] = @ \ {k}]
  BY DEF Emptied
<1>3. ASSUME NEW c \in Buckets
      PROVE  BitIn(Emptied(bits, b), c) <=> BitIn(bits, c) /\ c # b
  <2>. DEFINE v == c \div WordBits
              j == c % WordBits
  <2>1. v \in Words /\ (v = w /\ j = k => c = b)
    BY BitOf, SameBit
  <2>2. c = b => v = w /\ j = k
    OBVIOUS
  <2>. HIDE DEF v, j, w, k
  <2>3. j \in Emptied(bits, b)[v] <=> j \in bits[v] /\ ~(v = w /\ j = k)
    BY <1>1, <1>2, <2>1 DEF BitTable
  <2>. QED BY <2>1, <2>2, <2>3 DEF BitIn, v, j
<1>. HIDE DEF w, k
<1>4. Emptied(bits, b) \in BitTable
  BY <1>1, <1>2 DEF BitTable
<1>. QED BY <1>3, <1>4

(***************************************************************************)
(* A HoldQueue is a queue: what lies behind head_, in order.               *)
(***************************************************************************)
LEMMA LiveIs ==
  ASSUME NEW q \in Queue
  PROVE  /\ q.items \in Seq(Items) /\ q.head \in Nat
         /\ Len(q.items) \in Nat /\ q.head <= Len(q.items)
         /\ Live(q) \in Seq(Items)
         /\ Len(Live(q)) = Len(q.items) - q.head
         /\ \A i \in 1 .. Len(q.items) - q.head : Live(q)[i] = q.items[q.head + i]
         /\ Empty(q) <=> Live(q) = <<>>
<1>1. /\ q.items \in Seq(Items) /\ q.head \in Nat /\ Len(q.items) \in Nat
      /\ q.head <= Len(q.items)
  BY DEF Queue
<1>2. \A i \in q.head + 1 .. Len(q.items) : q.items[i] \in Items
  BY <1>1, ElementOfSeq
<1>3. /\ Live(q) \in Seq(Items)
      /\ Len(Live(q)) = IF q.head + 1 <= Len(q.items)
                          THEN Len(q.items) - (q.head + 1) + 1 ELSE 0
      /\ \A i \in 1 .. Len(q.items) - (q.head + 1) + 1 :
            Live(q)[i] = q.items[q.head + 1 + i - 1]
  BY <1>1, <1>2, SubSeqProperties, SMTT(30) DEF Live
<1>4. /\ Len(Live(q)) = Len(q.items) - q.head
      /\ \A i \in 1 .. Len(q.items) - q.head : Live(q)[i] = q.items[q.head + i]
  BY <1>1, <1>3, SMTT(30)
<1>5. Live(q) = <<>> <=> Len(Live(q)) = 0
  BY <1>3, EmptySeq
<1>. QED BY <1>1, <1>3, <1>4, <1>5 DEF Empty

LEMMA EmptyQueue ==
  ASSUME NEW q, q = [items |-> <<>>, head |-> 0]
  PROVE  q \in Queue /\ Live(q) = <<>> /\ Empty(q)
<1>1. <<>> \in Seq(Items) /\ Len(<<>>) = 0
  BY EmptySeq
<1>2. q \in Queue /\ Empty(q)
  BY <1>1 DEF Queue, Empty
<1>. QED BY <1>2, LiveIs

LEMMA PushIs ==
  ASSUME NEW q \in Queue, NEW x \in Items
  PROVE  /\ Push(q, x) \in Queue /\ ~Empty(Push(q, x))
         /\ Live(Push(q, x)) = Append(Live(q), x)
<1>1. PICK p : p = Push(q, x)
  OBVIOUS
<1>2. p.items = Append(q.items, x) /\ p.head = q.head
  BY <1>1 DEF Push, Queue
<1>3. /\ p.items \in Seq(Items) /\ Len(p.items) = Len(q.items) + 1
      /\ \A i \in 1 .. Len(q.items) : p.items[i] = q.items[i]
      /\ p.items[Len(q.items) + 1] = x
  BY <1>2, LiveIs, AppendProperties
<1>4. p \in Queue /\ ~Empty(p)
  <2>1. p \in [items : Seq(Items), head : Nat]
    BY <1>1, <1>2, <1>3 DEF Push, Queue
  <2>2. p.head <= Len(p.items) /\ p.head # Len(p.items)
    <3>1. q.head \in Nat /\ Len(q.items) \in Nat /\ q.head <= Len(q.items)
      BY LiveIs
    <3>. QED BY <1>2, <1>3, <3>1
  <2>. QED BY <2>1, <2>2 DEF Queue, Empty
<1>5. Live(p) = Append(Live(q), x)
  <2>1. /\ Append(Live(q), x) \in Seq(Items)
        /\ Len(Append(Live(q), x)) = Len(Live(q)) + 1
        /\ \A i \in 1 .. Len(Live(q)) : Append(Live(q), x)[i] = Live(q)[i]
        /\ Append(Live(q), x)[Len(Live(q)) + 1] = x
    BY LiveIs, AppendProperties
  <2>2. /\ Live(p) \in Seq(Items) /\ Len(Live(p)) = Len(q.items) + 1 - q.head
        /\ \A i \in 1 .. Len(q.items) + 1 - q.head : Live(p)[i] = p.items[q.head + i]
    <3>1. /\ Live(p) \in Seq(Items)
          /\ Len(Live(p)) = Len(p.items) - p.head
          /\ \A i \in 1 .. Len(p.items) - p.head : Live(p)[i] = p.items[p.head + i]
      BY <1>4, LiveIs
    <3>2. p.head = q.head /\ Len(p.items) = Len(q.items) + 1
      BY <1>2, <1>3
    <3>3. q.head \in Nat /\ Len(q.items) \in Nat
      BY LiveIs
    <3>4. Len(p.items) - p.head = Len(q.items) + 1 - q.head
      BY <3>2, <3>3
    <3>. QED BY <3>1, <3>2, <3>4
  <2>3. /\ Len(Live(q)) = Len(q.items) - q.head
        /\ \A i \in 1 .. Len(q.items) - q.head : Live(q)[i] = q.items[q.head + i]
        /\ Len(q.items) \in Nat /\ q.head \in Nat /\ q.head <= Len(q.items)
    BY LiveIs
  <2>4. Len(Live(p)) = Len(Append(Live(q), x))
    BY <2>1, <2>2, <2>3
  <2>5. ASSUME NEW i \in 1 .. Len(Live(p)) PROVE Live(p)[i] = Append(Live(q), x)[i]
    <3>0. i \in Int /\ Live(p)[i] = p.items[q.head + i]
      BY <2>2
    <3>1. CASE i \in 1 .. Len(Live(q))
      <4>1. q.head + i \in 1 .. Len(q.items)
        BY <2>3, <3>1
      <4>2. p.items[q.head + i] = q.items[q.head + i]
        BY <1>3, <4>1
      <4>. QED BY <2>1, <2>3, <3>0, <3>1, <4>2
    <3>2. CASE i = Len(Live(q)) + 1
      <4>1. q.head + i = Len(q.items) + 1
        BY <2>3, <3>2
      <4>. QED BY <1>3, <2>1, <3>0, <3>2, <4>1
    <3>. QED BY <2>2, <2>3, <3>1, <3>2
  <2>. QED BY <2>1, <2>2, <2>4, <2>5, SeqEqual
<1>. QED BY <1>1, <1>4, <1>5

\* pop takes the first item, whether it resets, compacts or moves the head.
LEMMA PopIs ==
  ASSUME NEW q \in Queue, ~Empty(q)
  PROVE  /\ Pop(q) \in Queue
         /\ Live(q) # <<>> /\ Live(Pop(q)) = Tail(Live(q))
         /\ First(q) \in Items
<1>. DEFINE h == q.head + 1
            n == Len(q.items)
            T == SubSeq(q.items, h + 1, n)
<1>1. /\ q.items \in Seq(Items) /\ q.head \in Nat /\ n \in Nat
      /\ h \in 1 .. n /\ n \in h .. n /\ Live(q) # <<>>
  BY LiveIs DEF Empty
<1>2. Tail(Live(q)) = T
  BY <1>1, HeadTailOfSubSeq DEF Live
<1>3. \A i \in 1 .. n : q.items[i] \in Items
  BY <1>1, ElementOfSeq
<1>4. T \in Seq(Items) /\ Len(T) = n - h
  <2>1. \A i \in h + 1 .. n : q.items[i] \in Items
    BY <1>1, <1>3
  <2>2. T \in Seq(Items) /\ Len(T) = IF h + 1 <= n THEN n - (h + 1) + 1 ELSE 0
    <3>1. h + 1 \in Int /\ n \in Int
      BY <1>1
    <3>. HIDE DEF h, n
    <3>. QED BY <2>1, <3>1, SubSeqProperties
  <2>. QED BY <1>1, <2>2
<1>5. First(q) \in Items
  BY <1>1, <1>3 DEF First
<1>6. PICK p : p = Pop(q)
  OBVIOUS
<1>. HIDE DEF T
<1>7. CASE h = n
  <2>1. p = [items |-> <<>>, head |-> 0]
    BY <1>6, <1>7 DEF Pop
  <2>2. T = <<>>
    BY <1>1, <1>4, <1>7, EmptySeq
  <2>. QED BY <1>1, <1>2, <1>5, <1>6, <2>1, <2>2, EmptyQueue
<1>8. CASE p = [items |-> T, head |-> 0]
  <2>1. p \in Queue
    BY <1>1, <1>4, <1>8 DEF Queue
  <2>2. Live(p) = SubSeq(T, 1, Len(T))
    BY <1>8 DEF Live
  <2>3. Live(p) = T
    BY <1>4, <2>2, SubSeqFull
  <2>. QED BY <1>1, <1>2, <1>5, <1>6, <2>1, <2>3
<1>9. CASE p = [q EXCEPT !.head = h]
  <2>1. p \in [items : Seq(Items), head : Nat] /\ p.items = q.items /\ p.head = h
    BY <1>1, <1>9 DEF Queue
  <2>2. p \in Queue
    BY <1>1, <2>1 DEF Queue
  <2>3. Live(p) = T
    BY <2>1 DEF Live, T
  <2>. QED BY <1>1, <1>2, <1>5, <1>6, <2>2, <2>3
<1>. QED BY <1>6, <1>7, <1>8, <1>9 DEF Pop, T

\* A queue behind another one.
LEMMA MoveIs ==
  ASSUME NEW q \in Queue, NEW r \in Queue,
         NEW m \in [items : Seq(Items), head : Nat],
         m.items = q.items \o Live(r), m.head = q.head
  PROVE  /\ m \in Queue /\ Live(m) = Live(q) \o Live(r)
         /\ ~Empty(r) => ~Empty(m)
<1>1. /\ q.items \in Seq(Items) /\ q.head \in Nat /\ Len(q.items) \in Nat
      /\ q.head <= Len(q.items)
      /\ Live(q) \in Seq(Items) /\ Len(Live(q)) = Len(q.items) - q.head
      /\ \A i \in 1 .. Len(q.items) - q.head : Live(q)[i] = q.items[q.head + i]
  BY LiveIs
<1>2. Live(r) \in Seq(Items) /\ Len(Live(r)) \in Nat
  BY LiveIs, LenProperties
<1>3. m.items = q.items \o Live(r) /\ m.head = q.head
  OBVIOUS
<1>4. /\ m.items \in Seq(Items) /\ Len(m.items) = Len(q.items) + Len(Live(r))
      /\ \A i \in 1 .. Len(q.items) + Len(Live(r)) :
           m.items[i] = IF i <= Len(q.items) THEN q.items[i]
                                             ELSE Live(r)[i - Len(q.items)]
  BY <1>1, <1>2, <1>3, ConcatProperties
<1>5. m \in Queue
  <2>1. m \in [items : Seq(Items), head : Nat]
    BY <1>3, <1>4 DEF Queue
  <2>2. m.head <= Len(m.items)
    BY <1>1, <1>2, <1>3, <1>4
  <2>. QED BY <2>1, <2>2 DEF Queue
<1>6. /\ Live(m) \in Seq(Items)
      /\ Len(Live(m)) = Len(m.items) - m.head
      /\ \A i \in 1 .. Len(m.items) - m.head : Live(m)[i] = m.items[m.head + i]
      /\ Empty(m) <=> Live(m) = <<>>
  BY <1>5, LiveIs
<1>0. PICK L, a, c : L = Live(q) \o Live(r) /\ a = Len(Live(q)) /\ c = Len(Live(r))
  OBVIOUS
<1>7. /\ L \in Seq(Items) /\ Len(L) = a + c
      /\ \A i \in 1 .. a + c : L[i] = IF i <= a THEN Live(q)[i] ELSE Live(r)[i - a]
  <2>1. /\ Live(q) \o Live(r) \in Seq(Items)
        /\ Len(Live(q) \o Live(r)) = Len(Live(q)) + Len(Live(r))
        /\ \A i \in 1 .. Len(Live(q)) + Len(Live(r)) : (Live(q) \o Live(r))[i] =
              IF i <= Len(Live(q)) THEN Live(q)[i] ELSE Live(r)[i - Len(Live(q))]
    <3>1. Live(q) \in Seq(Items) /\ Live(r) \in Seq(Items)
      BY <1>1, <1>2
    <3>. QED BY <3>1, ConcatProperties
  <2>. QED BY <1>0, <2>1
<1>8. a = Len(q.items) - q.head /\ Len(m.items) - m.head = a + c /\ a \in Nat /\ c \in Nat
  <2>1. a = Len(q.items) - q.head /\ c \in Nat /\ a \in Nat
    BY <1>0, <1>1, <1>2
  <2>2. Len(m.items) = Len(q.items) + c
    BY <1>0, <1>4
  <2>. QED BY <1>1, <1>3, <2>1, <2>2, SMTT(30)
<1>9. ASSUME NEW i \in 1 .. a + c PROVE Live(m)[i] = L[i]
  <2>1. i \in Int /\ 1 <= i /\ i <= a + c
    BY <1>8
  <2>2. Live(m)[i] = m.items[q.head + i]
    BY <1>3, <1>6, <1>8
  <2>3. q.head + i \in 1 .. Len(q.items) + Len(Live(r))
    <3>1. /\ q.head \in Nat /\ Len(q.items) \in Nat /\ c \in Nat
          /\ a = Len(q.items) - q.head
      BY <1>1, <1>8
    <3>2. q.head + i \in 1 .. Len(q.items) + c
      BY <2>1, <3>1, SMTT(30)
    <3>. QED BY <1>0, <3>2
  <2>4. CASE i <= a
    <3>1. m.items[q.head + i] = q.items[q.head + i]
      BY <1>1, <1>4, <1>8, <2>1, <2>3, <2>4, SMTT(30)
    <3>2. Live(q)[i] = q.items[q.head + i]
      <4>1. i \in 1 .. Len(q.items) - q.head
        BY <1>1, <1>8, <2>1, <2>4
      <4>. QED BY <1>1, <4>1, Zenon
    <3>3. L[i] = Live(q)[i]
      BY <1>7, <2>4
    <3>. QED BY <2>2, <3>1, <3>2, <3>3
  <2>5. CASE ~(i <= a)
    <3>1. m.items[q.head + i] = Live(r)[(q.head + i) - Len(q.items)]
      <4>1. ~(q.head + i <= Len(q.items))
        BY <1>1, <1>8, <2>1, <2>5
      <4>. QED BY <1>4, <2>3, <4>1, Zenon
    <3>2. (q.head + i) - Len(q.items) = i - a
      BY <1>1, <1>8, <2>1
    <3>3. L[i] = Live(r)[i - a]
      BY <1>7, <2>5
    <3>. QED BY <2>2, <3>1, <3>2, <3>3
  <2>. QED BY <2>4, <2>5
<1>10. Live(m) = L
  <2>1. Len(Live(m)) = Len(L) /\ Len(L) = a + c
    BY <1>6, <1>7, <1>8
  <2>. QED BY <1>6, <1>7, <1>9, <2>1, SeqEqual
<1>11. ~Empty(r) => ~Empty(m)
  <2>1. Live(m) = <<>> => Live(r) = <<>>
    <3>1. Live(q) \o Live(r) = <<>> <=> Live(q) = <<>> /\ Live(r) = <<>>
      BY <1>1, <1>2, ConcatEqualIffEmpty
    <3>. QED BY <1>0, <1>10, <3>1
  <2>. QED BY <1>6, <2>1, LiveIs
<1>. QED BY <1>0, <1>5, <1>10, <1>11

(***************************************************************************)
(* The loops.                                                              *)
(***************************************************************************)

\* A loop goes on with a bucket that has items, or is over.
LEMMA GotoIs ==
  ASSUME HInv, NEW at \in LoopNames, NEW from \in Nat, NEW high \in Int, NEW k \in Nat
  PROVE  \/ Goto(at, from, high, k) = Idle
         \/ \E i \in Buckets :
              /\ Goto(at, from, high, k) = Loop(at, i, high, k)
              /\ from <= i /\ HasItems(i)
<1>1. CASE from \notin Buckets
  <2>1. from >= NumBuckets
    BY <1>1, StorageAssumption DEF StorageAssumption, Buckets
  <2>. QED BY <2>1 DEF Goto, HoldNext
<1>2. CASE from \in Buckets
  <2>1. HoldNext(from) = IF Marked(from) = {} THEN None ELSE Min(Marked(from))
    BY <1>2, ScanIs DEF HInv, BitsOK
  <2>2. CASE Marked(from) = {}
    BY <2>1, <2>2 DEF Goto
  <2>3. CASE Marked(from) # {}
    <3>1. Marked(from) \subseteq Nat
      BY StorageAssumption DEF StorageAssumption, Buckets, Marked
    <3>2. PICK i : i = HoldNext(from)
      OBVIOUS
    <3>3. i \in Marked(from)
      BY <2>1, <2>3, <3>1, <3>2, Least
    <3>4. i \in Buckets /\ from <= i /\ HasItems(i)
      BY <3>3 DEF Marked, HInv, BitsOK
    <3>5. Goto(at, from, high, k) = Idle \/ Goto(at, from, high, k) = Loop(at, i, high, k)
      BY <3>2 DEF Goto
    <3>. QED BY <3>4, <3>5
  <2>. QED BY <2>2, <2>3
<1>. QED BY <1>1, <1>2

\* Where a loop goes on it is in its place.
LEMMA GotoKeepsCtl ==
  ASSUME HInv, NEW at \in {"insertBuckets", "flush", "coarsen"},
         NEW from \in Nat, NEW high \in Int, NEW k \in Nat,
         at = "coarsen" => 1 <= from /\ 2 <= k,
         ctl' = Goto(at, from, high, k), tram_hold' = tram_hold
  PROVE  CtlOK' /\ ctl'.at # "flushing"
<1>1. CASE ctl' = Idle
  BY <1>1 DEF CtlOK, Idle
<1>2. CASE ctl' # Idle
  <2>0. at \in LoopNames
    BY DEF LoopNames
  <2>1. PICK i \in Buckets : ctl' = Loop(at, i, high, k) /\ from <= i /\ HasItems(i)
    BY <1>2, <2>0, GotoIs
  <2>2. i \in Nat
    BY StorageAssumption DEF StorageAssumption, Buckets
  <2>3. ctl' \in [at : LoopNames, b : Buckets, high : Int, k : Nat]
        /\ ctl'.at = at /\ ctl'.b = i /\ ctl'.k = k
    BY <2>0, <2>1 DEF Loop
  <2>4. HasItems(i)'
    BY <2>1 DEF HasItems
  <2>5. HasItems(ctl.b)' <=> HasItems(i)'
    BY <2>3 DEF HasItems
  <2>6. ctl'.at \in {"coarsen", "coarsened"} => 2 <= ctl'.k /\ 1 <= ctl'.b
    BY <2>1, <2>2, <2>3
  <2>. QED BY <2>3, <2>4, <2>5, <2>6 DEF CtlOK
<1>. QED BY <1>1, <1>2

\* A step that moves no item.
LEMMA OnlyCtl ==
  ASSUME HInv, CtlOK', UNCHANGED <<tram_hold, hold_bits, sent>>,
         \A b \in Buckets : HasItems(b) => (BeingFlushed(b)' <=> BeingFlushed(b))
  PROVE  HInv'
<1>1. \A b \in Buckets : (HasItems(b)' <=> HasItems(b)) /\ (Bit(b)' <=> Bit(b))
  BY DEF HasItems, Bit
<1>. QED BY <1>1 DEF HInv, BitsOK

(***************************************************************************)
(* The steps: each keeps the invariant, and is a step of BucketQueues or   *)
(* changes no queue.                                                       *)
(***************************************************************************)
queueBar == [b \in Buckets |-> Live(tram_hold[b])]

\* One queue is replaced, and the bits follow.
LEMMA OneQueue ==
  ASSUME HInv, NEW b \in Buckets, NEW q \in Queue,
         tram_hold' = [tram_hold EXCEPT ![b] = q],
         hold_bits' \in BitTable, sent' \subseteq Items, CtlOK',
         \A c \in Buckets \ {b} : /\ Bit(c)' <=> Bit(c)
                                  /\ BeingFlushed(c)' <=> BeingFlushed(c),
         Bit(b)' <=> ~Empty(q) /\ ~BeingFlushed(b)'
  PROVE  /\ HInv'
         /\ queueBar' = [queueBar EXCEPT ![b] = Live(q)]
<1>1. /\ tram_hold \in [Buckets -> Queue]
      /\ tram_hold'[b] = q
      /\ \A c \in Buckets \ {b} : tram_hold'[c] = tram_hold[c]
      /\ tram_hold' \in [Buckets -> Queue]
  BY DEF HInv
<1>2. \A c \in Buckets : Bit(c)' <=> HasItems(c)' /\ ~BeingFlushed(c)'
  <2>1. ASSUME NEW c \in Buckets \ {b}
        PROVE  Bit(c)' <=> HasItems(c)' /\ ~BeingFlushed(c)'
    <3>1. HasItems(c)' <=> HasItems(c)
      BY <1>1 DEF HasItems
    <3>. QED BY <3>1 DEF HInv, BitsOK
  <2>2. HasItems(b)' <=> ~Empty(q)
    BY <1>1 DEF HasItems
  <2>. QED BY <2>1, <2>2
<1>3. HInv'
  BY <1>1, <1>2 DEF HInv, BitsOK
<1>4. queueBar' = [queueBar EXCEPT ![b] = Live(q)]
  BY <1>1 DEF queueBar
<1>. QED BY <1>3, <1>4

LEMMA PushStep ==
  ASSUME HInv, NEW b \in Buckets, NEW x \in Items, HoldPush(b, x)
  PROVE  HInv' /\ Queues!Put(b, x)
<1>1. PICK q : q = Push(tram_hold[b], x)
  OBVIOUS
<1>2. tram_hold[b] \in Queue
  BY DEF HInv
<1>3. q \in Queue /\ ~Empty(q) /\ Live(q) = Append(Live(tram_hold[b]), x)
  BY <1>1, <1>2, PushIs
<1>4. /\ tram_hold' = [tram_hold EXCEPT ![b] = q]
      /\ hold_bits' = Set(hold_bits, b) /\ UNCHANGED <<sent, ctl>>
      /\ ctl = Idle
  BY <1>1 DEF HoldPush
<1>5. CtlOK' /\ \A c : ~BeingFlushed(c) /\ ~BeingFlushed(c)'
  BY <1>4 DEF CtlOK, BeingFlushed, Idle
<1>6. /\ hold_bits' \in BitTable
      /\ \A c \in Buckets : Bit(c)' <=> Bit(c) \/ c = b
  BY <1>4, SetBit DEF Bit, HInv, BitsOK
<1>7. HInv' /\ queueBar' = [queueBar EXCEPT ![b] = Live(q)]
  <2>1. sent' \subseteq Items
    BY <1>4 DEF HInv
  <2>2. Bit(b)' <=> ~Empty(q) /\ ~BeingFlushed(b)'
    BY <1>3, <1>5, <1>6
  <2>3. \A c \in Buckets \ {b} : /\ Bit(c)' <=> Bit(c)
                                 /\ BeingFlushed(c)' <=> BeingFlushed(c)
    BY <1>5, <1>6
  <2>. QED BY <1>3, <1>4, <1>5, <1>6, <2>1, <2>2, <2>3, OneQueue
<1>8. Queues!Put(b, x)
  BY <1>3, <1>7 DEF Queues!Put, queueBar
<1>. QED BY <1>7, <1>8

\* Taking the first item of a bucket.
LEMMA TakeStep ==
  ASSUME HInv, NEW b \in Buckets, HasItems(b), Taken(b),
         hold_bits' \in BitTable, CtlOK',
         \A c \in Buckets \ {b} : Bit(c)' <=> Bit(c),
         \A c \in Buckets : BeingFlushed(c)' <=> BeingFlushed(c),
         Bit(b)' <=> ~Empty(tram_hold'[b]) /\ ~BeingFlushed(b)'
  PROVE  HInv' /\ Queues!Take(b)
<1>1. PICK q : q = Pop(tram_hold[b])
  OBVIOUS
<1>2. tram_hold[b] \in Queue /\ tram_hold \in [Buckets -> Queue]
  BY DEF HInv
<1>3. /\ q \in Queue /\ Live(tram_hold[b]) # <<>>
      /\ Live(q) = Tail(Live(tram_hold[b]))
      /\ First(tram_hold[b]) \in Items
  BY <1>1, <1>2, PopIs DEF HasItems
<1>4. /\ tram_hold' = [tram_hold EXCEPT ![b] = q] /\ tram_hold'[b] = q
      /\ sent' \subseteq Items
  BY <1>1, <1>2, <1>3 DEF Taken, HInv
<1>5. HInv' /\ queueBar' = [queueBar EXCEPT ![b] = Live(q)]
  BY <1>3, <1>4, OneQueue
<1>6. Queues!Take(b)
  BY <1>3, <1>5 DEF Queues!Take, queueBar
<1>. QED BY <1>5, <1>6

LEMMA CtlAt ==
  ASSUME HInv, ctl.at # "idle"
  PROVE  /\ ctl \in [at : LoopNames, b : Buckets, high : Int, k : Nat]
         /\ ctl.b \in Buckets /\ ctl.b \in Nat /\ ctl.b + 1 \in Nat
<1>1. ctl \in [at : LoopNames, b : Buckets, high : Int, k : Nat]
  BY DEF HInv, CtlOK, Idle
<1>. QED BY <1>1, StorageAssumption DEF StorageAssumption, Buckets

LEMMA InsertStep ==
  ASSUME HInv, InsertBuckets
  PROVE  HInv' /\ \E b \in Buckets : Queues!Take(b)
<1>1. ctl.at = "insertBuckets" /\ ctl' = ctl
  BY DEF InsertBuckets
<1>2. PICK b \in Buckets : b = ctl.b
  BY <1>1, CtlAt
<1>3. /\ HasItems(b) /\ Taken(b) /\ hold_bits' = ClearedWhenEmpty(b)
  BY <1>2 DEF InsertBuckets, HasItems
<1>4. CtlOK' /\ \A c : ~BeingFlushed(c) /\ ~BeingFlushed(c)'
  BY <1>1 DEF HInv, CtlOK, BeingFlushed, Idle
<1>5. hold_bits \in BitTable /\ Bit(b)
  BY <1>3, <1>4 DEF HInv, BitsOK
<1>6. /\ hold_bits' \in BitTable
      /\ \A c \in Buckets \ {b} : Bit(c)' <=> Bit(c)
      /\ Bit(b)' <=> ~Empty(tram_hold'[b])
  <2>1. CASE Empty(tram_hold'[b])
    <3>1. hold_bits' = Emptied(hold_bits, b)
      BY <1>3, <2>1 DEF ClearedWhenEmpty
    <3>. QED BY <1>5, <2>1, <3>1, ClearBit DEF Bit
  <2>2. CASE ~Empty(tram_hold'[b])
    <3>1. hold_bits' = hold_bits
      BY <1>3, <2>2 DEF ClearedWhenEmpty
    <3>. QED BY <1>5, <2>2, <3>1 DEF Bit
  <2>. QED BY <2>1, <2>2
<1>7. HInv' /\ Queues!Take(b)
  BY <1>3, <1>4, <1>6, TakeStep
<1>. QED BY <1>7

LEMMA NextStep ==
  ASSUME HInv, InsertBucketsNext \/ CoarsenNext
  PROVE  HInv' /\ queueBar' = queueBar
<1>1. /\ UNCHANGED <<tram_hold, hold_bits, sent>>
      /\ ctl.at \in {"insertBuckets", "coarsened"}
  BY DEF InsertBucketsNext, CoarsenNext
<1>2. /\ ctl.b + 1 \in Nat /\ ctl.high \in Int /\ ctl.k \in Nat /\ 1 <= ctl.b + 1
      /\ ctl.at = "coarsened" => 2 <= ctl.k
  <2>1. /\ ctl \in [at : LoopNames, b : Buckets, high : Int, k : Nat]
        /\ ctl.b \in Nat /\ ctl.b + 1 \in Nat
    BY <1>1, CtlAt
  <2>2. ctl.at = "coarsened" => 2 <= ctl.k
    BY <1>1 DEF HInv, CtlOK, Idle
  <2>. QED BY <2>1, <2>2
<1>3. PICK at \in {"insertBuckets", "coarsen"} :
        /\ ctl' = Goto(at, ctl.b + 1, ctl.high, ctl.k)
        /\ at = "coarsen" => ctl.at = "coarsened"
  BY DEF InsertBucketsNext, CoarsenNext
<1>4. CtlOK' /\ ctl'.at # "flushing"
  BY <1>1, <1>2, <1>3, GotoKeepsCtl
<1>5. \A b \in Buckets : ~BeingFlushed(b) /\ ~BeingFlushed(b)'
  BY <1>1, <1>4 DEF BeingFlushed
<1>. QED BY <1>1, <1>4, <1>5, OnlyCtl DEF queueBar

LEMMA EnterStep ==
  ASSUME HInv, NEW at \in {"insertBuckets", "flush", "coarsen"},
         NEW from \in Nat, NEW high \in Int, NEW k \in Nat,
         at = "coarsen" => 1 <= from /\ 2 <= k, Enter(at, from, high, k)
  PROVE  HInv' /\ queueBar' = queueBar
<1>1. /\ UNCHANGED <<tram_hold, hold_bits, sent>>
      /\ ctl = Idle /\ ctl' = Goto(at, from, high, k)
  BY DEF Enter
<1>2. CtlOK' /\ ctl'.at # "flushing"
  BY <1>1, GotoKeepsCtl
<1>3. \A b \in Buckets : ~BeingFlushed(b) /\ ~BeingFlushed(b)'
  BY <1>1, <1>2 DEF BeingFlushed, Idle
<1>. QED BY <1>1, <1>2, <1>3, OnlyCtl DEF queueBar

LEMMA FlushBucketStep ==
  ASSUME HInv, FlushBucket
  PROVE  HInv' /\ queueBar' = queueBar
<1>1. /\ UNCHANGED <<tram_hold, sent>> /\ ctl.at = "flush"
      /\ hold_bits' = Emptied(hold_bits, ctl.b)
      /\ ctl' = [ctl EXCEPT !.at = "flushing"]
  BY DEF FlushBucket
<1>2. /\ ctl \in [at : LoopNames, b : Buckets, high : Int, k : Nat]
      /\ ctl.b \in Buckets
  BY <1>1, CtlAt
<1>3. /\ ctl' \in [at : LoopNames, b : Buckets, high : Int, k : Nat]
      /\ ctl'.at = "flushing" /\ ctl'.b = ctl.b
  BY <1>1, <1>2 DEF LoopNames
<1>4. CtlOK'
  BY <1>3 DEF CtlOK
<1>5. /\ hold_bits' \in BitTable
      /\ \A c \in Buckets : Bit(c)' <=> Bit(c) /\ c # ctl.b
  BY <1>1, <1>2, ClearBit DEF Bit, HInv, BitsOK
<1>6. \A c \in Buckets : /\ HasItems(c)' <=> HasItems(c)
                         /\ ~BeingFlushed(c)
                         /\ BeingFlushed(c)' <=> c = ctl.b
  BY <1>1, <1>3 DEF HasItems, BeingFlushed
<1>7. HInv'
  BY <1>1, <1>4, <1>5, <1>6 DEF HInv, BitsOK
<1>. QED BY <1>1, <1>7 DEF queueBar

LEMMA FlushItemStep ==
  ASSUME HInv, FlushItem
  PROVE  HInv' /\ (queueBar' = queueBar \/ \E b \in Buckets : Queues!Take(b))
<1>1. ctl.at = "flushing" /\ hold_bits' = hold_bits
  BY DEF FlushItem
<1>2. /\ ctl \in [at : LoopNames, b : Buckets, high : Int, k : Nat]
      /\ ctl.b \in Buckets /\ ctl.b + 1 \in Nat
  BY <1>1, CtlAt
<1>3. PICK b \in Buckets : b = ctl.b
  BY <1>2
<1>4. \A c \in Buckets : Bit(c)' <=> Bit(c)
  BY <1>1 DEF Bit
<1>5. CASE HasItems(b) /\ Taken(b) /\ UNCHANGED ctl
  <2>1. CtlOK' /\ \A c \in Buckets : BeingFlushed(c)' <=> BeingFlushed(c)
    <3>1. ctl' = ctl
      BY <1>5
    <3>2. /\ ctl' \in [at : LoopNames, b : Buckets, high : Int, k : Nat]
          /\ ctl'.at = "flushing"
      BY <1>1, <1>2, <3>1
    <3>3. CtlOK'
      BY <3>2 DEF CtlOK
    <3>. QED BY <3>1, <3>3 DEF BeingFlushed
  <2>2. BeingFlushed(b) /\ BeingFlushed(b)' /\ ~Bit(b)'
    BY <1>1, <1>3, <1>4, <1>5 DEF BeingFlushed, HInv, BitsOK
  <2>3. hold_bits' \in BitTable
    BY <1>1 DEF HInv, BitsOK
  <2>4. HInv' /\ Queues!Take(b)
    BY <1>4, <1>5, <2>1, <2>2, <2>3, TakeStep
  <2>. QED BY <2>4
<1>6. CASE /\ ~HasItems(b) /\ ctl' = Goto("flush", ctl.b + 1, ctl.high, ctl.k)
           /\ UNCHANGED <<tram_hold, sent>>
  <2>1. ctl.high \in Int /\ ctl.k \in Nat
    BY <1>2
  <2>2. CtlOK' /\ ctl'.at # "flushing"
    BY <1>2, <1>6, <2>1, GotoKeepsCtl
  <2>3. \A c \in Buckets : HasItems(c) => (BeingFlushed(c)' <=> BeingFlushed(c))
    BY <1>3, <1>6, <2>2 DEF BeingFlushed
  <2>. QED BY <1>1, <1>6, <2>2, <2>3, OnlyCtl DEF queueBar
<1>. QED BY <1>3, <1>5, <1>6 DEF FlushItem, HasItems

\* What a merge by a factor of two or more does to a bucket's number.
LEMMA MergedBucket ==
  ASSUME NEW b \in Buckets, 1 <= b, NEW k \in Nat, 2 <= k
  PROVE  /\ b \div k \in Buckets /\ b \div k # b
         /\ \E j \in 2 .. NumBuckets : b \div j = b \div k
<1>1. b \in Nat /\ b < NumBuckets /\ NumBuckets \in Nat
  BY StorageAssumption DEF StorageAssumption, Buckets
<1>2. PICK t : t = b \div k
  OBVIOUS
<1>3. t \in Nat /\ t * k <= b /\ b < t * k + k
  BY <1>1, <1>2
<1>4. 2 * t <= t * k
  BY <1>3
<1>5. t < b
  BY <1>1, <1>3, <1>4
<1>6. t \in Buckets
  BY <1>1, <1>3, <1>5 DEF Buckets
<1>7. CASE k <= NumBuckets
  <2>1. k \in 2 .. NumBuckets
    BY <1>1, <1>7
  <2>. QED BY <1>2, <1>5, <1>6, <2>1
<1>8. CASE k > NumBuckets
  <2>1. t = 0 /\ b \div NumBuckets = 0
    BY <1>1, <1>2, <1>8
  <2>2. NumBuckets \in 2 .. NumBuckets
    BY <1>1
  <2>. QED BY <1>2, <1>5, <1>6, <2>1, <2>2
<1>. QED BY <1>1, <1>7, <1>8

LEMMA CoarsenStep ==
  ASSUME HInv, Coarsen
  PROVE  HInv' /\ \E b \in Buckets : \E k \in 2 .. NumBuckets : Queues!Move(b, k)
<1>1. /\ ctl.at = "coarsen" /\ sent' = sent
      /\ ctl' = [ctl EXCEPT !.at = "coarsened"]
  BY DEF Coarsen
<1>2. /\ ctl \in [at : LoopNames, b : Buckets, high : Int, k : Nat]
      /\ 2 <= ctl.k /\ 1 <= ctl.b /\ HasItems(ctl.b)
  BY <1>1 DEF HInv, CtlOK, Idle
<1>3. PICK b \in Buckets, k \in Nat : b = ctl.b /\ k = ctl.k
  BY <1>2
<1>4. PICK t \in Buckets : t = b \div k /\ t # b
  BY <1>2, <1>3, MergedBucket
<1>5. /\ ctl' \in [at : LoopNames, b : Buckets, high : Int, k : Nat]
      /\ ctl'.at = "coarsened" /\ ctl'.b = b /\ ctl'.k = k
  BY <1>1, <1>2, <1>3 DEF LoopNames
<1>6. CtlOK'
  BY <1>2, <1>3, <1>5 DEF CtlOK
<1>7. \A c : ~BeingFlushed(c) /\ ~BeingFlushed(c)'
  BY <1>1, <1>5 DEF BeingFlushed
<1>8. /\ tram_hold \in [Buckets -> Queue] /\ tram_hold[b] \in Queue
      /\ tram_hold[t] \in Queue
  BY DEF HInv
<1>9. PICK z, m : /\ z = [items |-> <<>>, head |-> 0]
                  /\ m = [tram_hold[t] EXCEPT !.items = @ \o Live(tram_hold[b])]
  OBVIOUS
<1>10. z \in Queue /\ Live(z) = <<>> /\ Empty(z)
  BY <1>9, EmptyQueue
<1>11. /\ m \in Queue /\ Live(m) = Live(tram_hold[t]) \o Live(tram_hold[b])
       /\ ~Empty(m)
  <2>1. ~Empty(tram_hold[b])
    BY <1>2, <1>3 DEF HasItems
  <2>2. PICK u, v : u = tram_hold[t] /\ v = tram_hold[b]
    OBVIOUS
  <2>3. u \in Queue /\ v \in Queue /\ ~Empty(v)
    BY <1>8, <2>1, <2>2
  <2>4. m.items = u.items \o Live(v) /\ m.head = u.head
    BY <1>9, <2>2, <2>3 DEF Queue
  <2>6. m \in [items : Seq(Items), head : Nat]
    <3>1. Live(v) \in Seq(Items) /\ u.items \in Seq(Items)
      BY <2>3, LiveIs
    <3>2. u.items \o Live(v) \in Seq(Items)
      BY <3>1, ConcatProperties
    <3>. QED BY <1>9, <2>2, <2>3, <3>2 DEF Queue
  <2>5. m \in Queue /\ Live(m) = Live(u) \o Live(v) /\ ~Empty(m)
    BY <2>3, <2>4, <2>6, MoveIs
  <2>. QED BY <2>2, <2>5
<1>12. tram_hold' = [tram_hold EXCEPT ![b] = z, ![t] = m]
  <2>1. tram_hold' = [tram_hold EXCEPT ![b] = [items |-> <<>>, head |-> 0],
                                       ![t].items = @ \o Live(tram_hold[b])]
    BY <1>3, <1>4 DEF Coarsen, Moved
  <2>. QED BY <1>4, <1>8, <1>9, <2>1
<1>13. /\ tram_hold' \in [Buckets -> Queue]
       /\ tram_hold'[b] = z /\ tram_hold'[t] = m
       /\ \A c \in Buckets \ {b, t} : tram_hold'[c] = tram_hold[c]
  BY <1>4, <1>8, <1>10, <1>11, <1>12
<1>14. /\ hold_bits' \in BitTable
       /\ \A c \in Buckets : Bit(c)' <=> (Bit(c) \/ c = t) /\ c # b
  <2>1. PICK set : set = Set(hold_bits, t)
    OBVIOUS
  <2>2. set \in BitTable /\ \A c \in Buckets : BitIn(set, c) <=> BitIn(hold_bits, c) \/ c = t
    BY <2>1, SetBit DEF HInv, BitsOK
  <2>3. hold_bits' = Emptied(set, b)
    BY <1>3, <1>4, <2>1 DEF Coarsen, BitsMoved
  <2>4. /\ Emptied(set, b) \in BitTable
        /\ \A c \in Buckets : BitIn(Emptied(set, b), c) <=> BitIn(set, c) /\ c # b
    BY <2>2, ClearBit
  <2>. QED BY <2>2, <2>3, <2>4 DEF Bit
<1>15. ASSUME NEW c \in Buckets
       PROVE  Bit(c)' <=> HasItems(c)' /\ ~BeingFlushed(c)'
  <2>1. HasItems(b)' <=> FALSE
    BY <1>10, <1>13 DEF HasItems
  <2>2. HasItems(t)' <=> TRUE
    BY <1>11, <1>13 DEF HasItems
  <2>3. c # b /\ c # t => (HasItems(c)' <=> HasItems(c))
    BY <1>13 DEF HasItems
  <2>4. Bit(c) <=> HasItems(c)
    BY <1>7 DEF HInv, BitsOK
  <2>. QED BY <1>4, <1>7, <1>14, <2>1, <2>2, <2>3, <2>4
<1>16. HInv'
  BY <1>1, <1>6, <1>13, <1>14, <1>15 DEF HInv, BitsOK
<1>17. PICK j \in 2 .. NumBuckets : b \div j = t
  BY <1>2, <1>3, <1>4, MergedBucket
<1>18. queueBar' = [queueBar EXCEPT ![b] = <<>>, ![t] = @ \o queueBar[b]]
  BY <1>4, <1>10, <1>11, <1>13 DEF queueBar
<1>19. Queues!Move(b, j)
  BY <1>17, <1>18 DEF Queues!Move, queueBar
<1>. QED BY <1>16, <1>17, <1>19

LEMMA InitHInv == Init => HInv /\ Queues!Init
<1>. SUFFICES ASSUME Init PROVE HInv /\ Queues!Init
  OBVIOUS
<1>1. PICK z : z = [items |-> <<>>, head |-> 0]
  OBVIOUS
<1>2. z \in Queue /\ Live(z) = <<>> /\ Empty(z)
  BY <1>1, EmptyQueue
<1>3. tram_hold = [b \in Buckets |-> z]
  BY <1>1 DEF Init
<1>4. hold_bits \in BitTable /\ \A b \in Buckets : ~Bit(b)
  <2>1. hold_bits = [w \in Words |-> {}]
    BY DEF Init
  <2>2. hold_bits \in BitTable
    BY <2>1 DEF BitTable
  <2>3. \A b \in Buckets : ~Bit(b)
    BY <2>1, BitOf DEF Bit, BitIn
  <2>. QED BY <2>2, <2>3
<1>5. HInv
  BY <1>2, <1>3, <1>4 DEF Init, HInv, CtlOK, BitsOK, HasItems
<1>6. Queues!Init
  <2>1. queueBar = [b \in Buckets |-> <<>>]
    BY <1>2, <1>3 DEF queueBar
  <2>. QED BY <2>1 DEF queueBar, Queues!Init, Queues!Buckets, Buckets
<1>. QED BY <1>5, <1>6

LEMMA NextHInv == HInv /\ [Next]_vars => HInv' /\ [Queues!Next]_queueBar
<1>. SUFFICES ASSUME HInv, [Next]_vars PROVE HInv' /\ [Queues!Next]_queueBar
  OBVIOUS
<1>1. CASE UNCHANGED vars
  <2>1. UNCHANGED <<tram_hold, hold_bits, sent, ctl>>
    BY <1>1 DEF vars
  <2>2. CtlOK' /\ \A b \in Buckets : BeingFlushed(b)' <=> BeingFlushed(b)
    BY <2>1 DEF HInv, CtlOK, BeingFlushed, Idle, HasItems
  <2>. QED BY <2>1, <2>2, OnlyCtl DEF queueBar
<1>2. ASSUME NEW b \in Buckets, NEW x \in Items, HoldPush(b, x)
      PROVE  HInv' /\ Queues!Next
  BY <1>2, PushStep DEF Queues!Next, Queues!Buckets, Buckets
<1>3. CASE \/ \E from, high \in Buckets : Enter("insertBuckets", from, high, 1)
           \/ \E high \in Buckets : Enter("flush", 0, high, 1)
           \/ \E keep_top \in {0, 1}, k \in Factors :
                Enter("coarsen", 1, NumBuckets - 1 - keep_top, k)
  <2>1. Buckets \subseteq Nat /\ Buckets \subseteq Int
    BY DEF Buckets
  <2>2. ASSUME NEW from \in Buckets, NEW high \in Buckets,
               Enter("insertBuckets", from, high, 1)
        PROVE  HInv' /\ queueBar' = queueBar
    BY <2>1, <2>2, EnterStep
  <2>3. ASSUME NEW high \in Buckets, Enter("flush", 0, high, 1)
        PROVE  HInv' /\ queueBar' = queueBar
    BY <2>1, <2>3, EnterStep
  <2>4. ASSUME NEW keep_top \in {0, 1}, NEW k \in Factors,
               Enter("coarsen", 1, NumBuckets - 1 - keep_top, k)
        PROVE  HInv' /\ queueBar' = queueBar
    <3>1. k \in Nat /\ 2 <= k /\ NumBuckets - 1 - keep_top \in Int
      BY StorageAssumption DEF StorageAssumption
    <3>2. PICK high \in Int : high = NumBuckets - 1 - keep_top
      BY <3>1
    <3>3. Enter("coarsen", 1, high, k)
      BY <2>4, <3>2
    <3>. QED BY <3>1, <3>3, EnterStep
  <2>. QED BY <1>3, <2>2, <2>3, <2>4
<1>4. CASE InsertBuckets
  BY <1>4, InsertStep DEF Queues!Next, Queues!Buckets, Buckets
<1>5. CASE InsertBucketsNext \/ CoarsenNext
  BY <1>5, NextStep
<1>6. CASE FlushBucket
  BY <1>6, FlushBucketStep
<1>7. CASE FlushItem
  BY <1>7, FlushItemStep DEF Queues!Next, Queues!Buckets, Buckets
<1>8. CASE Coarsen
  BY <1>8, CoarsenStep DEF Queues!Next, Queues!Buckets, Buckets
<1>. QED BY <1>1, <1>2, <1>3, <1>4, <1>5, <1>6, <1>7, <1>8 DEF Next

THEOREM HoldInvariance == Spec => []HInv
BY InitHInv, NextHInv, PTL DEF Spec

\* The types; a bit beyond the last bucket is never set, so that holdNext,
\* which does not mask the end of its last word, never answers with it.
THEOREM StorageTypes == Spec => []TypeOK
<1>1. HInv => TypeOK
  <2>. SUFFICES ASSUME HInv PROVE TypeOK
    OBVIOUS
  <2>1. ASSUME NEW b \in Buckets
        PROVE  /\ tram_hold[b].items \in Seq(Items)
               /\ tram_hold[b].head \in 0 .. Len(tram_hold[b].items)
    <3>1. tram_hold[b] \in Queue
      BY DEF HInv
    <3>. QED BY <3>1, LiveIs
  <2>2. ASSUME NEW w \in Words, NEW k \in hold_bits[w]
        PROVE  k < WordBits /\ w * WordBits + k < NumBuckets
    <3>1. k \in 0 .. WordBits - 1 /\ w * WordBits + k < NumBuckets
      BY DEF HInv, BitsOK, BitTable
    <3>. QED BY <3>1, StorageAssumption DEF StorageAssumption
  <2>. QED BY <2>1, <2>2 DEF TypeOK, HInv
<1>. QED BY <1>1, HoldInvariance, PTL

\* The scan over the words finds the first bucket that has items, whatever
\* pushes, drains, flushes and merges came before (holdNext, holdPush,
\* holdEmptied and their callers).
THEOREM ScanIsExact == Spec => []ScanFindsFirst
<1>1. HInv => ScanFindsFirst
  BY ScanExact DEF HInv
<1>. QED BY <1>1, HoldInvariance, PTL

\* Vector, head and bits implement a FIFO queue per bucket: no item is lost,
\* repeated or overtaken in its bucket, through resets, compactions and
\* merges (HoldQueue, coarsenBuckets).
THEOREM HoldRefinement == Spec => ImplementsBucketQueues
<1>1. queueBar = [b \in Buckets |-> Live(tram_hold[b])]
  BY DEF queueBar
<1>2. HInv /\ [Next]_vars => [Queues!Next]_[b \in Buckets |-> Live(tram_hold[b])]
  BY NextHInv DEF queueBar
<1>. QED BY <1>2, InitHInv, HoldInvariance, PTL
         DEF Spec, ImplementsBucketQueues, Queues!Spec
=============================================================================
