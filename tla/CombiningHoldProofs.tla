------------------------ MODULE CombiningHoldProofs ------------------------
(***************************************************************************)
(* CombiningHold for every number of items, keys, buckets, hash and size   *)
(* of the table.                                                           *)
(*                                                                         *)
(* The table is an argument about ways: a lookup of a key passes the slots *)
(* from the key's home on, cyclically, and must not meet an empty one      *)
(* before it is at the key's entry.  The lists are one about stamps: no    *)
(* reference has a stamp that its entry has not had yet, so a new stamp    *)
(* invalidates every old reference.                                        *)
(***************************************************************************)
EXTENDS CombiningHold, FiniteSetTheorems, SequenceTheorems,
        WellFoundedInduction, TLAPS

(***************************************************************************)
(* Numbers.                                                                *)
(***************************************************************************)

\* A set of natural numbers has a least element.
LEMMA LeastNumber ==
  ASSUME NEW S, S \subseteq Nat, S # {}
  PROVE  \E x \in S : \A y \in S : x <= y
<1>1. IsWellFoundedOn(OpToRel(<, Nat), Nat)
  BY NatLessThanWellFounded, Zenon
<1>2. PICK x \in S : \A y \in S : <<y, x>> \notin OpToRel(<, Nat)
  BY <1>1, WFMin, Zenon
<1>3. ASSUME NEW y \in S PROVE x <= y
  <2>1. x \in Nat /\ y \in Nat
    BY <1>2
  <2>2. ~(y < x)
    BY <1>2, <2>1, Zenon DEF OpToRel
  <2>. QED BY <2>1, <2>2
<1>. QED BY <1>2, <1>3

LEMMA MinIsLeast ==
  ASSUME NEW S, S \subseteq Nat, S # {}
  PROVE  Min(S) \in S /\ \A y \in S : Min(S) <= y
BY LeastNumber, Zenon DEF Min

\* A set that has 0, and i + 1 for every i it has below n, has 0 .. n.
LEMMA UpTo ==
  ASSUME NEW n \in Nat, NEW S, 0 \in S,
         \A i \in 0 .. n - 1 : i \in S => i + 1 \in S
  PROVE  \A i \in 0 .. n : i \in S
<1>. SUFFICES ASSUME NEW j \in 0 .. n, j \notin S PROVE FALSE
  OBVIOUS
<1>. DEFINE T == {i \in 0 .. n : i \notin S}
<1>1. T \subseteq Nat /\ T # {}
  OBVIOUS
<1>2. PICK i \in T : \A k \in T : i <= k
  BY <1>1, LeastNumber
<1>3. i \in 0 .. n /\ i \notin S /\ i # 0
  BY <1>2
<1>4. i - 1 \in 0 .. n - 1 /\ i - 1 \in 0 .. n /\ (i - 1) + 1 = i /\ ~(i <= i - 1)
  BY <1>3
<1>5. i - 1 \in S
  BY <1>2, <1>4
<1>. QED BY <1>3, <1>4, <1>5

\* Going j slots on from h in a table of n.
On(n, h, j) == IF h + j < n THEN h + j ELSE h + j - n

LEMMA ModIs ==
  ASSUME NEW n \in Nat \ {0}, NEW q \in Nat, NEW m \in 0 .. n - 1
  PROVE  (q * n + m) % n = m
OBVIOUS

LEMMA TurnIs ==
  ASSUME NEW n \in Nat \ {0}, NEW a \in Nat, NEW j \in 0 .. n - 1
  PROVE  /\ a % n \in 0 .. n - 1
         /\ (a + j) % n = On(n, a % n, j)
         /\ On(n, a % n, j) \in 0 .. n - 1
<1>1. PICK q, m : q = a \div n /\ m = a % n
  OBVIOUS
<1>2. q \in Nat /\ m \in 0 .. n - 1 /\ a = q * n + m
  BY <1>1
<1>3. CASE m + j < n
  <2>1. m + j \in 0 .. n - 1 /\ a + j = q * n + (m + j)
    BY <1>2, <1>3
  <2>2. (q * n + (m + j)) % n = m + j
    BY <1>2, <2>1, ModIs
  <2>. QED BY <1>1, <1>2, <1>3, <2>1, <2>2 DEF On
<1>4. CASE ~(m + j < n)
  <2>1. m + j - n \in 0 .. n - 1 /\ q + 1 \in Nat
    BY <1>2, <1>4
  <2>2. ((q + 1) * n + (m + j - n)) % n = m + j - n
    BY <2>1, ModIs
  <2>3. a + j = (q + 1) * n + (m + j - n)
    BY <1>2
  <2>. QED BY <1>1, <1>2, <1>4, <2>1, <2>2, <2>3 DEF On
<1>. QED BY <1>3, <1>4

(***************************************************************************)
(* Ways: x is passed on the way from h to s.                               *)
(***************************************************************************)
Passed(x, h, s) == IF h <= s THEN h <= x /\ x < s ELSE h <= x \/ x < s

\* Of two slots one is passed on the way to the other.
LEMMA OneIsPassed ==
  ASSUME NEW h \in Nat, NEW x \in Nat, NEW y \in Nat, x # y
  PROVE  Passed(x, h, y) <=> ~Passed(y, h, x)
BY DEF Passed

\* Going on from h to the j-th slot passes the slots before it.
LEMMA PassedBefore ==
  ASSUME NEW n \in Nat \ {0}, NEW h \in 0 .. n - 1, NEW j \in 0 .. n - 1,
         NEW x \in 0 .. n - 1
  PROVE  /\ Passed(x, h, On(n, h, j)) <=> \E i \in 0 .. j - 1 : x = On(n, h, i)
         /\ \E i \in 0 .. n - 1 : x = On(n, h, i)
<1>1. PICK i \in 0 .. n - 1 : i = IF h <= x THEN x - h ELSE x - h + n
  <2>1. PICK k : k = IF h <= x THEN x - h ELSE x - h + n
    OBVIOUS
  <2>2. k \in 0 .. n - 1
    BY <2>1
  <2>. QED BY <2>1, <2>2
<1>2. x = On(n, h, i)
  BY <1>1 DEF On
<1>3. Passed(x, h, On(n, h, j)) <=> i < j
  BY <1>1 DEF On, Passed
<1>4. \A k \in 0 .. n - 1 : x = On(n, h, k) => k = i
  BY <1>2 DEF On
<1>. QED BY <1>2, <1>3, <1>4

(***************************************************************************)
(* A probe ends at the first slot of those it looks for.                   *)
(***************************************************************************)
LEMMA CapIs ==
  ASSUME NEW t, NEW n \in Nat, DOMAIN t = 0 .. n - 1
  PROVE  Cap(t) = n
BY FS_Interval DEF Cap

LEMMA ProbeSeqIs ==
  ASSUME NEW t, NEW n \in Nat \ {0}, DOMAIN t = 0 .. n - 1, NEW a \in Nat
  PROVE  /\ Len(ProbeSeq(t, a)) = n
         /\ \A i \in 1 .. n : /\ ProbeSeq(t, a)[i] = On(n, a % n, i - 1)
                              /\ ProbeSeq(t, a)[i] \in 0 .. n - 1
<1>1. ProbeSeq(t, a) = [i \in 1 .. n |-> (a + i - 1) % n]
  BY CapIs DEF ProbeSeq
<1>2. ASSUME NEW i \in 1 .. n
      PROVE  /\ (a + i - 1) % n = On(n, a % n, i - 1)
             /\ (a + i - 1) % n \in 0 .. n - 1
  <2>1. PICK j \in 0 .. n - 1 : j = i - 1
    OBVIOUS
  <2>2. a + i - 1 = a + j
    BY <2>1
  <2>. QED BY <2>1, <2>2, TurnIs
<1>3. Len([i \in 1 .. n |-> (a + i - 1) % n]) = n
  OBVIOUS
<1>. QED BY <1>1, <1>2, <1>3

LEMMA FirstOfSeq ==
  ASSUME NEW t, NEW n \in Nat \ {0}, DOMAIN t = 0 .. n - 1, NEW a \in Nat,
         NEW S, S \subseteq 0 .. n - 1, S # {},
         NEW I, \A i : i \in I <=> i \in 1 .. n /\ ProbeSeq(t, a)[i] \in S,
         NEW p, I # {} => p = ProbeSeq(t, a)[Min(I)]
  PROVE  p \in S /\ \A y \in S : ~Passed(y, a % n, p)
<1>1. PICK h \in 0 .. n - 1 : h = a % n
  BY TurnIs
<1>2. \A i \in 1 .. n : ProbeSeq(t, a)[i] = On(n, h, i - 1)
  BY <1>1, ProbeSeqIs
<1>3. ASSUME NEW y \in S PROVE \E i \in I : y = On(n, h, i - 1)
  <2>1. PICK i \in 0 .. n - 1 : y = On(n, h, i)
    BY PassedBefore
  <2>2. i + 1 \in 1 .. n /\ (i + 1) - 1 = i
    OBVIOUS
  <2>. QED BY <1>2, <2>1, <2>2
<1>4. I # {} /\ I \subseteq Nat
  <2>1. PICK y \in S : TRUE
    OBVIOUS
  <2>2. I # {}
    BY <1>3, <2>1
  <2>3. I \subseteq 1 .. n
    OBVIOUS
  <2>. QED BY <2>2, <2>3
<1>5. PICK m \in I : m = Min(I) /\ \A i \in I : m <= i
  <2>1. Min(I) \in I /\ \A i \in I : Min(I) <= i
    BY <1>4, MinIsLeast, Zenon
  <2>. QED BY <2>1
<1>6. m \in 1 .. n /\ p = On(n, h, m - 1) /\ p \in S
  BY <1>2, <1>4, <1>5
<1>7. ASSUME NEW y \in S, Passed(y, h, p) PROVE FALSE
  <2>1. m - 1 \in 0 .. n - 1 /\ y \in 0 .. n - 1
    BY <1>6
  <2>2. PICK i \in 0 .. m - 2 : y = On(n, h, i)
    <3>1. PICK j \in 0 .. n - 1 : j = m - 1
      BY <2>1
    <3>2. Passed(y, h, On(n, h, j))
      BY <1>6, <1>7, <3>1
    <3>3. \E i \in 0 .. j - 1 : y = On(n, h, i)
      BY <2>1, <3>2, PassedBefore
    <3>4. j - 1 = m - 2
      BY <1>6, <3>1
    <3>. QED BY <3>3, <3>4
  <2>3. i + 1 \in 1 .. n /\ (i + 1) - 1 = i /\ ~(m <= i + 1)
    BY <1>6, <2>2
  <2>4. i + 1 \in I
    BY <1>2, <1>7, <2>2, <2>3
  <2>. QED BY <1>5, <2>3, <2>4
<1>. QED BY <1>1, <1>6, <1>7

(***************************************************************************)
(* The table of the entries E, by the pool en: a slot in use is that of an *)
(* entry of E, every entry has one slot, and no slot on the way from an    *)
(* entry's home to its slot is empty.                                      *)
(***************************************************************************)
Slots == [entry : Nat, tag : Nat]
Full(t) == {s \in DOMAIN t : ~IsEmpty(t, s)}
Home(en, e, n) == Hash[en[e].key] % n
SlotFor(en, e) == [entry |-> e, tag |-> Tag[en[e].key]]

TableOK(t, n, E, en) ==
  /\ n \in Nat \ {0} /\ t \in [0 .. n - 1 -> Slots]
  /\ E \subseteq Nat \ {0} /\ \A e \in E : en[e].key \in Keys
  /\ \A s \in Full(t) : t[s].entry \in E /\ t[s] = SlotFor(en, t[s].entry)
  /\ \A e \in E : \E s \in Full(t) : t[s].entry = e
  /\ \A s, r \in Full(t) : t[s].entry = t[r].entry => s = r
  /\ \A s \in Full(t) : \A x \in 0 .. n - 1 :
       Passed(x, Home(en, t[s].entry, n), s) => x \in Full(t)

LEMMA HashIs ==
  ASSUME NEW k \in Keys
  PROVE  Hash[k] \in Nat /\ Tag[k] \in Nat
BY HoldAssumption DEF HoldAssumption

LEMMA HomeIs ==
  ASSUME NEW en, NEW e, en[e].key \in Keys, NEW n \in Nat \ {0}
  PROVE  Home(en, e, n) \in 0 .. n - 1
<1>1. Hash[en[e].key] \in Nat
  BY HashIs
<1>. QED BY <1>1 DEF Home

\* As many slots are in use as there are entries.
LEMMA FullCount ==
  ASSUME NEW t, NEW n, NEW E, NEW en, TableOK(t, n, E, en), IsFiniteSet(E)
  PROVE  /\ IsFiniteSet(Full(t)) /\ Cardinality(Full(t)) = Cardinality(E)
         /\ Cardinality(E) < n => \E s \in 0 .. n - 1 : s \notin Full(t)
<1>1. DOMAIN t = 0 .. n - 1 /\ n \in Nat
  BY DEF TableOK
<1>2. IsFiniteSet(0 .. n - 1) /\ Cardinality(0 .. n - 1) = n
  BY <1>1, FS_Interval
<1>3. Full(t) \subseteq 0 .. n - 1
  BY <1>1 DEF Full
<1>4. IsFiniteSet(Full(t))
  BY <1>2, <1>3, FS_Subset
<1>5. ExistsBijection(Full(t), E)
  <2>. DEFINE f == [s \in Full(t) |-> t[s].entry]
  <2>1. f \in Bijection(Full(t), E)
    BY DEF TableOK, Bijection, Injection, Surjection, IsInjective
  <2>. QED BY <2>1 DEF ExistsBijection
<1>6. Cardinality(Full(t)) = Cardinality(E)
  BY <1>4, <1>5, FS_Bijection
<1>7. ASSUME Cardinality(E) < n, ~(\E s \in 0 .. n - 1 : s \notin Full(t)) PROVE FALSE
  <2>1. Full(t) = 0 .. n - 1
    BY <1>3, <1>7
  <2>. QED BY <1>1, <1>2, <1>6, <1>7, <2>1
<1>. QED BY <1>4, <1>6, <1>7

\* Only the keys of the entries of E matter.
LEMMA SameKeys ==
  ASSUME NEW t, NEW n, NEW E, NEW en, TableOK(t, n, E, en),
         NEW em, \A e \in E : em[e].key = en[e].key
  PROVE  TableOK(t, n, E, em)
<1>1. \A e \in E : Home(em, e, n) = Home(en, e, n) /\ SlotFor(em, e) = SlotFor(en, e)
  BY DEF Home, SlotFor
<1>. QED BY <1>1 DEF TableOK

\* A new entry goes where its probe meets the first empty slot.
LEMMA PutSlot ==
  ASSUME NEW t, NEW n, NEW E, NEW en, TableOK(t, n, E, en),
         NEW e \in Nat \ {0}, e \notin E, en[e].key \in Keys,
         NEW p \in 0 .. n - 1, p \notin Full(t),
         \A x \in 0 .. n - 1 : Passed(x, Home(en, e, n), p) => x \in Full(t),
         NEW t2, t2 = [t EXCEPT ![p] = SlotFor(en, e)]
  PROVE  TableOK(t2, n, E \cup {e}, en) /\ Full(t2) = Full(t) \cup {p}
<1>1. /\ n \in Nat \ {0} /\ t \in [0 .. n - 1 -> Slots] /\ DOMAIN t = 0 .. n - 1
      /\ E \subseteq Nat \ {0}
  BY DEF TableOK
<1>2. SlotFor(en, e) \in Slots /\ SlotFor(en, e).entry = e
  BY HashIs DEF SlotFor, Slots
<1>3. /\ t2 \in [0 .. n - 1 -> Slots] /\ t2[p] = SlotFor(en, e)
      /\ \A s \in 0 .. n - 1 : s # p => t2[s] = t[s]
  BY <1>1, <1>2
<1>4. Full(t2) = Full(t) \cup {p}
  BY <1>1, <1>2, <1>3 DEF Full, IsEmpty
<1>5. \A s \in Full(t) : s # p /\ s \in 0 .. n - 1 /\ t2[s] = t[s] /\ t2[s].entry \in E
  BY <1>1, <1>3 DEF Full, TableOK
<1>6. \A s \in Full(t2) : t2[s].entry \in E \cup {e} /\ t2[s] = SlotFor(en, t2[s].entry)
  BY <1>2, <1>3, <1>4, <1>5 DEF TableOK
<1>7. \A f \in E \cup {e} : \E s \in Full(t2) : t2[s].entry = f
  BY <1>2, <1>3, <1>4, <1>5 DEF TableOK
<1>8. \A s, r \in Full(t2) : t2[s].entry = t2[r].entry => s = r
  BY <1>2, <1>3, <1>4, <1>5 DEF TableOK
<1>9. \A s \in Full(t2) : \A x \in 0 .. n - 1 :
        Passed(x, Home(en, t2[s].entry, n), s) => x \in Full(t2)
  <2>1. ASSUME NEW s \in Full(t), NEW x \in 0 .. n - 1,
               Passed(x, Home(en, t2[s].entry, n), s)
        PROVE  x \in Full(t2)
    <3>1. t2[s].entry = t[s].entry
      BY <1>5
    <3>2. Passed(x, Home(en, t[s].entry, n), s)
      BY <2>1, <3>1
    <3>. QED BY <1>4, <3>2 DEF TableOK
  <2>2. ASSUME NEW x \in 0 .. n - 1, Passed(x, Home(en, t2[p].entry, n), p)
        PROVE  x \in Full(t2)
    <3>1. t2[p].entry = e
      BY <1>2, <1>3
    <3>. QED BY <1>4, <2>2, <3>1
  <2>. QED BY <1>4, <2>1, <2>2
<1>10. \A f \in E \cup {e} : en[f].key \in Keys
  BY DEF TableOK
<1>. QED BY <1>1, <1>3, <1>4, <1>6, <1>7, <1>8, <1>9, <1>10 DEF TableOK

(***************************************************************************)
(* Lookups.                                                                *)
(***************************************************************************)
DistinctKeys(E, en) == \A e, f \in E : en[e].key = en[f].key => e = f

LEMMA FoundIs ==
  ASSUME NEW t, NEW n, NEW E, TableOK(t, n, E, entries), IsFiniteSet(E),
         Cardinality(E) < n, DistinctKeys(E, entries), NEW k \in Keys,
         NEW p, p = Found(t, k)
  PROVE  /\ p \in 0 .. n - 1
         /\ \A e \in E : entries[e].key = k => p \in Full(t) /\ t[p] = SlotFor(entries, e)
         /\ (\A e \in E : entries[e].key # k) =>
              /\ p \notin Full(t)
              /\ \A x \in 0 .. n - 1 : Passed(x, Hash[k] % n, p) => x \in Full(t)
<1>. DEFINE S == {s \in 0 .. n - 1 : IsEmpty(t, s) \/ Holds(t, s, k)}
<1>1. /\ n \in Nat \ {0} /\ t \in [0 .. n - 1 -> Slots] /\ DOMAIN t = 0 .. n - 1
      /\ Hash[k] \in Nat /\ Hash[k] % n \in 0 .. n - 1
  <2>1. n \in Nat \ {0} /\ t \in [0 .. n - 1 -> Slots] /\ Hash[k] \in Nat
    BY HashIs DEF TableOK
  <2>. QED BY <2>1
<1>2. S # {}
  <2>1. PICK s \in 0 .. n - 1 : s \notin Full(t)
    BY FullCount
  <2>2. IsEmpty(t, s)
    BY <1>1, <2>1 DEF Full
  <2>. QED BY <2>1, <2>2
<1>3. /\ p \in 0 .. n - 1 /\ (IsEmpty(t, p) \/ Holds(t, p, k))
      /\ \A y \in 0 .. n - 1 : Passed(y, Hash[k] % n, p) =>
           ~IsEmpty(t, y) /\ ~Holds(t, y, k)
  <2>1. PICK I : I = {i \in 1 .. n : ProbeSeq(t, Hash[k])[i] \in S}
    OBVIOUS
  <2>2. \A i \in 1 .. n : ProbeSeq(t, Hash[k])[i] \in 0 .. n - 1
    BY <1>1, ProbeSeqIs
  <2>3. Len(ProbeSeq(t, Hash[k])) = n
    BY <1>1, ProbeSeqIs
  <2>4. I = {i \in 1 .. Len(ProbeSeq(t, Hash[k])) :
               \/ IsEmpty(t, ProbeSeq(t, Hash[k])[i])
               \/ Holds(t, ProbeSeq(t, Hash[k])[i], k)}
    BY <2>1, <2>2, <2>3
  <2>5. p = ProbeSeq(t, Hash[k])[IF I # {} THEN Min(I) ELSE 0]
    BY <2>4 DEF Found, Probe, SelectInSeq
  <2>6. S \subseteq 0 .. n - 1
    OBVIOUS
  <2>. HIDE DEF S
  <2>7. p \in S /\ \A y \in S : ~Passed(y, Hash[k] % n, p)
    <3>1. PICK a \in Nat, m \in Nat \ {0} : a = Hash[k] /\ m = n
      BY <1>1
    <3>2. /\ DOMAIN t = 0 .. m - 1 /\ S \subseteq 0 .. m - 1
          /\ \A i : i \in I <=> i \in 1 .. m /\ ProbeSeq(t, a)[i] \in S
          /\ I # {} => p = ProbeSeq(t, a)[Min(I)]
      BY <1>1, <2>1, <2>5, <2>6, <3>1
    <3>3. p \in S /\ \A y \in S : ~Passed(y, a % m, p)
      BY <1>2, <3>2, FirstOfSeq, Zenon
    <3>. QED BY <3>1, <3>3
  <2>. QED BY <2>7 DEF S
<1>4. ASSUME NEW s \in Full(t), Holds(t, s, k)
      PROVE  t[s].entry \in E /\ entries[t[s].entry].key = k
  BY <1>4 DEF TableOK, Holds
<1>5. p \in Full(t) <=> ~IsEmpty(t, p)
  BY <1>1, <1>3 DEF Full
<1>6. ASSUME NEW e \in E, entries[e].key = k
      PROVE  p \in Full(t) /\ t[p] = SlotFor(entries, e)
  <2>1. PICK s \in Full(t) : t[s].entry = e
    BY DEF TableOK
  <2>2. /\ s \in 0 .. n - 1 /\ t[s] = SlotFor(entries, e) /\ Holds(t, s, k)
        /\ \A x \in 0 .. n - 1 : Passed(x, Hash[k] % n, s) => x \in Full(t)
    <3>1. s \in 0 .. n - 1 /\ t[s] = SlotFor(entries, e) /\ Home(entries, e, n) = Hash[k] % n
      BY <1>1, <1>6, <2>1 DEF TableOK, Full, Home
    <3>2. \A x \in 0 .. n - 1 : Passed(x, Hash[k] % n, s) => x \in Full(t)
      BY <2>1, <3>1 DEF TableOK
    <3>. QED BY <1>6, <3>1, <3>2 DEF Holds, SlotFor
  <2>3. ASSUME p # s PROVE FALSE
    <3>1. CASE Passed(s, Hash[k] % n, p)
      BY <1>3, <2>2, <3>1
    <3>2. CASE Passed(p, Hash[k] % n, s)
      <4>1. p \in Full(t) /\ Holds(t, p, k)
        BY <1>3, <1>5, <2>2, <3>2
      <4>2. t[p].entry = e
        BY <1>4, <1>6, <4>1 DEF DistinctKeys
      <4>. QED BY <2>1, <2>3, <4>1, <4>2 DEF TableOK
    <3>. QED BY <1>1, <1>3, <2>2, <2>3, <3>1, <3>2, OneIsPassed
  <2>. QED BY <2>1, <2>2, <2>3
<1>7. ASSUME \A e \in E : entries[e].key # k
      PROVE  /\ p \notin Full(t)
             /\ \A x \in 0 .. n - 1 : Passed(x, Hash[k] % n, p) => x \in Full(t)
  BY <1>1, <1>3, <1>4, <1>5, <1>7 DEF Full
<1>. QED BY <1>3, <1>6, <1>7

(***************************************************************************)
(* Growing the table: after i turns the new table is that of the entries   *)
(* in the first i slots of the old one.                                    *)
(***************************************************************************)
LEMMA PlacedIs ==
  ASSUME NEW en, en = entries', NEW t, NEW n, NEW E, TableOK(t, n, E, en),
         IsFiniteSet(E), Cardinality(E) < n,
         NEW e \in Nat \ {0}, e \notin E, en[e].key \in Keys,
         NEW slot, slot = SlotFor(en, e)
  PROVE  TableOK(Placed(t, slot), n, E \cup {e}, en)
<1>1. /\ n \in Nat \ {0} /\ t \in [0 .. n - 1 -> Slots] /\ DOMAIN t = 0 .. n - 1
  BY DEF TableOK
<1>2. PICK a \in Nat : a = Hash[en[e].key] /\ a % n = Home(en, e, n)
  BY HashIs DEF Home
<1>3. PICK S : S = {s \in 0 .. n - 1 : s \notin Full(t)}
  OBVIOUS
<1>4. S # {} /\ S \subseteq 0 .. n - 1
  BY <1>3, FullCount
<1>5. PICK I : I = {i \in 1 .. Len(ProbeSeq(t, a)) : IsEmpty(t, ProbeSeq(t, a)[i])}
  OBVIOUS
<1>6. \A i : i \in I <=> i \in 1 .. n /\ ProbeSeq(t, a)[i] \in S
  <2>1. Len(ProbeSeq(t, a)) = n /\ \A i \in 1 .. n : ProbeSeq(t, a)[i] \in 0 .. n - 1
    BY <1>1, ProbeSeqIs
  <2>2. \A s \in 0 .. n - 1 : IsEmpty(t, s) <=> s \in S
    BY <1>1, <1>3 DEF Full
  <2>. QED BY <1>5, <2>1, <2>2
<1>7. PICK p : p = Probe(t, a, LAMBDA s : IsEmpty(t, s))
  OBVIOUS
<1>8. I # {} => p = ProbeSeq(t, a)[Min(I)]
  BY <1>5, <1>7 DEF Probe, SelectInSeq
<1>9. p \in S /\ \A y \in S : ~Passed(y, a % n, p)
  <2>1. PICK m \in Nat \ {0} : m = n
    BY <1>1
  <2>2. p \in S /\ \A y \in S : ~Passed(y, a % m, p)
    BY <1>1, <1>4, <1>6, <1>8, <2>1, FirstOfSeq, Zenon
  <2>. QED BY <2>1, <2>2
<1>10. Placed(t, slot) = [t EXCEPT ![p] = slot]
  BY <1>2, <1>7 DEF Placed, SlotFor
<1>11. /\ p \in 0 .. n - 1 /\ p \notin Full(t)
       /\ \A x \in 0 .. n - 1 : Passed(x, Home(en, e, n), p) => x \in Full(t)
  BY <1>2, <1>3, <1>9
<1>12. PICK t2 : t2 = Placed(t, slot)
  OBVIOUS
<1>13. t2 = [t EXCEPT ![p] = SlotFor(en, e)]
  BY <1>10, <1>12
<1>14. TableOK(t2, n, E \cup {e}, en)
  BY <1>11, <1>13, PutSlot
<1>. QED BY <1>12, <1>14

LEMMA RebuiltIs ==
  ASSUME NEW en, en = entries', NEW t, NEW n, NEW E, TableOK(t, n, E, en),
         IsFiniteSet(E), NEW cap \in Nat \ {0}, Cardinality(E) < cap
  PROVE  TableOK(Rebuilt(t, cap), cap, E, en)
<1>1. /\ n \in Nat \ {0} /\ t \in [0 .. n - 1 -> Slots] /\ DOMAIN t = 0 .. n - 1
      /\ Cap(t) = n
  BY CapIs DEF TableOK
<1>. DEFINE Body(f, i) == IF i = 0 THEN NewTable(cap)
                          ELSE IF IsEmpty(t, i - 1) THEN f[i - 1]
                          ELSE Placed(f[i - 1], t[i - 1])
<1>2. \E f : f = [i \in 0 .. n |-> Body(f, i)]
  <2>. DEFINE T == {m \in 0 .. n : \E f : f = [i \in 0 .. m |-> Body(f, i)]}
  <2>1. 0 \in T
    <3>. DEFINE f == [i \in 0 .. 0 |-> NewTable(cap)]
    <3>1. f = [i \in 0 .. 0 |-> Body(f, i)]
      OBVIOUS
    <3>2. 0 \in 0 .. n
      BY <1>1
    <3>. QED BY <3>1, <3>2
  <2>2. ASSUME NEW m \in 0 .. n - 1, m \in T PROVE m + 1 \in T
    <3>1. PICK f : f = [i \in 0 .. m |-> Body(f, i)]
      BY <2>2
    <3>2. PICK g : g = [i \in 0 .. m + 1 |-> IF i <= m THEN f[i] ELSE Body(f, i)]
      OBVIOUS
    <3>3. ASSUME NEW i \in 0 .. m + 1 PROVE g[i] = Body(g, i)
      <4>1. CASE i = 0
        BY <3>1, <3>2, <4>1
      <4>2. CASE i # 0
        <5>1. i - 1 \in 0 .. m /\ i - 1 \in 0 .. m + 1 /\ i - 1 <= m
          BY <4>2
        <5>2. g[i - 1] = f[i - 1]
          BY <3>2, <5>1
        <5>3. Body(g, i) = Body(f, i)
          BY <5>2
        <5>4. g[i] = Body(f, i)
          BY <3>1, <3>2
        <5>. QED BY <5>3, <5>4
      <4>. QED BY <4>1, <4>2
    <3>4. g = [i \in 0 .. m + 1 |-> Body(g, i)]
      <4>. HIDE DEF Body
      <4>. QED BY <3>2, <3>3
    <3>5. m + 1 \in 0 .. n
      BY <1>1
    <3>. QED BY <3>4, <3>5
  <2>3. \A m \in 0 .. n : m \in T
    <3>1. n \in Nat
      BY <1>1
    <3>. HIDE DEF T
    <3>. QED BY <2>1, <2>2, <3>1, UpTo
  <2>4. n \in 0 .. n
    BY <1>1
  <2>. QED BY <2>3, <2>4
<1>3. PICK f : f = [i \in 0 .. n |-> Body(f, i)] /\ Rebuilt(t, cap) = f[n]
  BY <1>1, <1>2 DEF Rebuilt
<1>4. \A i \in 0 .. n : f[i] = Body(f, i)
  <2>. HIDE DEF Body
  <2>. QED BY <1>3
<1>. DEFINE Early(i) == {t[s].entry : s \in {r \in Full(t) : r < i}}
            T == {i \in 0 .. n : TableOK(f[i], cap, Early(i), en)}
<1>5. \A i : Early(i) \subseteq E
  BY DEF TableOK
<1>6. E \subseteq Nat \ {0} /\ \A e \in E : en[e].key \in Keys
  BY DEF TableOK
<1>7. 0 \in T
  <2>1. Early(0) = {}
    BY <1>1 DEF Full
  <2>2. f[0] = [s \in 0 .. cap - 1 |-> Empty]
    BY <1>1, <1>4 DEF NewTable
  <2>3. PICK z : z = f[0]
    OBVIOUS
  <2>4. z \in [0 .. cap - 1 -> Slots] /\ Full(z) = {}
    BY <2>2, <2>3 DEF Slots, Full, IsEmpty, Empty
  <2>5. TableOK(z, cap, {}, en)
    BY <2>4 DEF TableOK
  <2>6. TableOK(f[0], cap, Early(0), en)
    <3>1. PICK D : D = Early(0)
      OBVIOUS
    <3>. QED BY <2>1, <2>3, <2>5, <3>1
  <2>7. 0 \in 0 .. n
    BY <1>1
  <2>. QED BY <2>6, <2>7
<1>8. ASSUME NEW i \in 0 .. n - 1, i \in T PROVE i + 1 \in T
  <2>1. i + 1 \in 0 .. n /\ i + 1 # 0 /\ (i + 1) - 1 = i /\ i \in DOMAIN t
    BY <1>1
  <2>2. CASE IsEmpty(t, i)
    <3>1. f[i + 1] = f[i]
      BY <1>4, <2>1, <2>2
    <3>2. Early(i + 1) = Early(i)
      <4>1. \A r \in Full(t) : r < i + 1 <=> r < i
        BY <1>1, <2>2 DEF Full
      <4>. QED BY <4>1
    <3>. QED BY <1>8, <2>1, <3>1, <3>2
  <2>3. CASE ~IsEmpty(t, i)
    <3>1. i \in Full(t)
      BY <2>1, <2>3 DEF Full
    <3>2. PICK e \in E : e = t[i].entry /\ t[i] = SlotFor(en, e)
      BY <3>1 DEF TableOK
    <3>3. f[i + 1] = Placed(f[i], t[i])
      BY <1>4, <2>1, <2>3
    <3>4. Early(i + 1) = Early(i) \cup {e}
      <4>1. \A r \in Full(t) : r < i + 1 <=> r < i \/ r = i
        BY <1>1 DEF Full
      <4>. QED BY <3>1, <3>2, <4>1
    <3>5. e \notin Early(i)
      <4>1. \A r \in Full(t) : t[r].entry = e => r = i
        BY <3>1, <3>2 DEF TableOK
      <4>2. ~(i < i)
        OBVIOUS
      <4>. QED BY <4>1, <4>2
    <3>6. IsFiniteSet(Early(i)) /\ Cardinality(Early(i)) < cap
      <4>1. PICK D : D = Early(i) /\ D \subseteq E
        BY <1>5
      <4>2. IsFiniteSet(D) /\ Cardinality(D) <= Cardinality(E)
        BY <4>1, FS_Subset
      <4>3. Cardinality(D) \in Nat /\ Cardinality(E) \in Nat
        BY <4>2, FS_CardinalityType
      <4>. QED BY <4>1, <4>2, <4>3
    <3>7. TableOK(Placed(f[i], t[i]), cap, Early(i) \cup {e}, en)
      <4>1. PICK D, u, v : D = Early(i) /\ u = f[i] /\ v = t[i]
        OBVIOUS
      <4>2. TableOK(u, cap, D, en) /\ e \notin D /\ IsFiniteSet(D) /\ Cardinality(D) < cap
        BY <1>8, <3>5, <3>6, <4>1
      <4>3. e \in Nat \ {0} /\ en[e].key \in Keys /\ v = SlotFor(en, e)
        BY <1>6, <3>2, <4>1
      <4>4. TableOK(Placed(u, v), cap, D \cup {e}, en)
        BY <4>2, <4>3, PlacedIs
      <4>. QED BY <4>1, <4>4
    <3>. QED BY <2>1, <3>3, <3>4, <3>7
  <2>. QED BY <2>2, <2>3
<1>9. TableOK(f[n], cap, Early(n), en)
  <2>1. n \in Nat /\ n \in 0 .. n
    BY <1>1
  <2>2. \A i \in 0 .. n : i \in T
    <3>. HIDE DEF T
    <3>. QED BY <1>7, <1>8, <2>1, UpTo
  <2>. QED BY <2>1, <2>2
<1>10. Early(n) = E
  <2>1. \A r \in Full(t) : r < n
    BY <1>1 DEF Full
  <2>2. ASSUME NEW e \in E PROVE e \in Early(n)
    <3>1. PICK s \in Full(t) : t[s].entry = e
      BY DEF TableOK
    <3>. QED BY <2>1, <3>1
  <2>. QED BY <1>5, <2>2
<1>. QED BY <1>3, <1>9, <1>10

(***************************************************************************)
(* Backward shifts.  While erase moves the hole on, the slots in use stay  *)
(* the same ones (O), and those behind the hole need no slot before it: a  *)
(* way to one of them does not pass the hole.  The loop ends at an empty   *)
(* slot, beyond which no way leads back to the hole.                       *)
(***************************************************************************)
LEMMA MovableIs ==
  ASSUME NEW h \in Nat, NEW x \in Nat, NEW s \in Nat, x # s
  PROVE  Movable(x, s, h) <=> Passed(x, h, s)
BY DEF Movable, Passed

LEMMA WaysJoin ==
  ASSUME NEW h \in Nat, NEW x \in Nat, NEW y \in Nat, NEW s \in Nat, Passed(x, h, s)
  PROVE  /\ Passed(y, h, x) => Passed(y, h, s)
         /\ Passed(y, x, s) => Passed(y, h, s)
BY DEF Passed

\* The slots but the hole are those of the entries but e.
Shifted(T, h, n, O, F) ==
  /\ T \in [0 .. n - 1 -> Slots] /\ Full(T) = O /\ h \in O
  /\ \A s \in O : s # h => T[s].entry \in F /\ T[s] = SlotFor(entries, T[s].entry)
  /\ \A f \in F : \E s \in O : s # h /\ T[s].entry = f
  /\ \A s, r \in O : s # h /\ r # h /\ T[s].entry = T[r].entry => s = r
  /\ \A s \in O : s # h => \A x \in 0 .. n - 1 :
       Passed(x, Home(entries, T[s].entry, n), s) => x \in O

\* No way to s passes the hole.
Clear(T, h, n, s) == ~Passed(h, Home(entries, T[s].entry, n), s)

\* The loop is at w, or has ended at an empty slot.
AtSlot(T, h, n, O, a, w) ==
  /\ h = w \/ Passed(h, a, w)
  /\ \A x \in 0 .. n - 1 : x = w \/ Passed(x, a, w) => x \in O
  /\ \A s \in O : s # h /\ (s = w \/ Passed(s, h, w)) => Clear(T, h, n, s)
Ended(T, h, n, O, a) ==
  \E q \in 0 .. n - 1 : /\ q \notin O
                        /\ \A s \in O : s # h /\ Passed(s, h, q) => Clear(T, h, n, s)

Accs(n) == [t : [0 .. n - 1 -> Slots], hole : 0 .. n - 1, done : BOOLEAN]

ShiftInv(acc, n, O, F, a, w) ==
  /\ acc \in Accs(n)
  /\ Shifted(acc.t, acc.hole, n, O, F)
  /\ IF acc.done THEN Ended(acc.t, acc.hole, n, O, a)
                 ELSE AtSlot(acc.t, acc.hole, n, O, a, w)

LEMMA ShiftInvIs ==
  ASSUME NEW n, NEW O, NEW F, NEW a, NEW w, NEW T, NEW h, NEW d,
         T \in [0 .. n - 1 -> Slots], h \in 0 .. n - 1, Shifted(T, h, n, O, F),
         \/ d = TRUE /\ Ended(T, h, n, O, a)
         \/ d = FALSE /\ AtSlot(T, h, n, O, a, w),
         NEW acc, acc = [t |-> T, hole |-> h, done |-> d]
  PROVE  ShiftInv(acc, n, O, F, a, w)
<1>1. acc \in Accs(n)
  BY DEF Accs
<1>2. acc.t = T /\ acc.hole = h /\ acc.done = d
  OBVIOUS
<1>3. CASE d = TRUE /\ Ended(T, h, n, O, a)
  <2>1. acc.done /\ Ended(acc.t, acc.hole, n, O, a)
    BY <1>2, <1>3
  <2>2. Shifted(acc.t, acc.hole, n, O, F)
    BY <1>2
  <2>. QED BY <1>1, <2>1, <2>2 DEF ShiftInv
<1>4. CASE d = FALSE /\ AtSlot(T, h, n, O, a, w)
  <2>1. ~acc.done /\ AtSlot(acc.t, acc.hole, n, O, a, w)
    BY <1>2, <1>4
  <2>2. Shifted(acc.t, acc.hole, n, O, F)
    BY <1>2
  <2>. QED BY <1>1, <2>1, <2>2 DEF ShiftInv
<1>. QED BY <1>3, <1>4

LEMMA MoveSlot ==
  ASSUME NEW n \in Nat \ {0}, NEW O, O \subseteq 0 .. n - 1, NEW F,
         \A f \in F : entries[f].key \in Keys,
         NEW T, NEW h, Shifted(T, h, n, O, F), NEW w \in O, w # h,
         Passed(h, Home(entries, T[w].entry, n), w),
         NEW U, U = [T EXCEPT ![h] = T[w]]
  PROVE  Shifted(U, w, n, O, F)
<1>1. h \in O /\ h \in 0 .. n - 1 /\ w \in 0 .. n - 1 /\ T \in [0 .. n - 1 -> Slots]
      /\ Full(T) = O
  BY DEF Shifted
<1>2. /\ U \in [0 .. n - 1 -> Slots] /\ U[h] = T[w]
      /\ \A s \in 0 .. n - 1 : s # h => U[s] = T[s]
  BY <1>1
<1>3. Full(U) = O
  BY <1>1, <1>2 DEF Full, IsEmpty
<1>4. \A s \in O : s # w => U[s].entry \in F /\ U[s] = SlotFor(entries, U[s].entry)
  BY <1>1, <1>2 DEF Shifted
<1>5. \A f \in F : \E s \in O : s # w /\ U[s].entry = f
  <2>. SUFFICES ASSUME NEW f \in F PROVE \E s \in O : s # w /\ U[s].entry = f
    OBVIOUS
  <2>1. PICK s \in O : s # h /\ T[s].entry = f
    BY DEF Shifted
  <2>2. CASE s = w
    BY <1>1, <1>2, <2>1, <2>2
  <2>3. CASE s # w
    BY <1>1, <1>2, <2>1, <2>3
  <2>. QED BY <2>2, <2>3
<1>6. \A s, r \in O : s # w /\ r # w /\ U[s].entry = U[r].entry => s = r
  <2>1. \A s \in O : U[s] = IF s = h THEN T[w] ELSE T[s]
    BY <1>1, <1>2
  <2>2. \A s, r \in O : s # h /\ r # h /\ T[s].entry = T[r].entry => s = r
    BY DEF Shifted
  <2>. QED BY <2>1, <2>2
<1>7. ASSUME NEW s \in O, s # w, NEW x \in 0 .. n - 1,
             Passed(x, Home(entries, U[s].entry, n), s)
      PROVE  x \in O
  <2>1. CASE s # h
    <3>1. Passed(x, Home(entries, T[s].entry, n), s)
      BY <1>1, <1>2, <1>7, <2>1
    <3>. QED BY <2>1, <3>1 DEF Shifted
  <2>2. CASE s = h
    <3>1. PICK g : g = Home(entries, T[w].entry, n)
      OBVIOUS
    <3>2. g \in Nat
      <4>1. PICK f \in F : f = T[w].entry
        BY DEF Shifted
      <4>2. entries[f].key \in Keys
        BY <4>1
      <4>. QED BY <3>1, <4>1, <4>2, HomeIs
    <3>3. Passed(x, g, h) /\ Passed(h, g, w)
      BY <1>2, <1>7, <2>2, <3>1
    <3>4. x \in Nat /\ h \in Nat /\ w \in Nat
      BY <1>1
    <3>5. Passed(x, g, w)
      BY <3>2, <3>3, <3>4, WaysJoin
    <3>. QED BY <3>1, <3>5 DEF Shifted
  <2>. QED BY <2>1, <2>2
<1>. QED BY <1>2, <1>3, <1>4, <1>5, <1>6, <1>7 DEF Shifted

LEMMA ShiftStep ==
  ASSUME NEW n \in Nat \ {0}, NEW O, O \subseteq 0 .. n - 1, NEW F,
         \A f \in F : entries[f].key \in Keys, NEW a \in 0 .. n - 1,
         NEW i \in Nat, i + 1 <= n - 1,
         NEW acc, ShiftInv(acc, n, O, F, a, On(n, a, i)),
         NEW w, w = On(n, a, i + 1)
  PROVE  ShiftInv(Shift(acc, w), n, O, F, a, w)
<1>1. PICK v : v = On(n, a, i)
  OBVIOUS
<1>2. PICK T, h, d : T = acc.t /\ h = acc.hole /\ d = acc.done
  OBVIOUS
<1>3. /\ acc = [t |-> T, hole |-> h, done |-> d]
      /\ T \in [0 .. n - 1 -> Slots] /\ h \in 0 .. n - 1 /\ d \in BOOLEAN
      /\ Shifted(T, h, n, O, F)
      /\ IF d THEN Ended(T, h, n, O, a) ELSE AtSlot(T, h, n, O, a, v)
  BY <1>1, <1>2 DEF ShiftInv, Accs
<1>4. /\ v \in 0 .. n - 1 /\ w \in 0 .. n - 1 /\ v # w /\ Passed(v, a, w)
      /\ \A x \in 0 .. n - 1 : Passed(x, a, w) <=> x = v \/ Passed(x, a, v)
      /\ \A g \in 0 .. n - 1 : g = v \/ Passed(g, a, v) =>
           \A s \in 0 .. n - 1 : Passed(s, g, w) <=> s = v \/ Passed(s, g, v)
  BY <1>1 DEF On, Passed
<1>5. Cap(T) = n /\ DOMAIN T = 0 .. n - 1
  BY <1>3, CapIs
<1>6. IsEmpty(T, w) <=> w \notin O
  BY <1>3, <1>4, <1>5 DEF Shifted, Full
<1>7. CASE d
  <2>1. Shift(acc, w) = [acc EXCEPT !.done = TRUE]
    BY <1>2, <1>7 DEF Shift
  <2>2. d = TRUE
    BY <1>3, <1>7
  <2>3. Shift(acc, w) = [t |-> T, hole |-> h, done |-> TRUE]
    BY <1>3, <2>1
  <2>4. Ended(T, h, n, O, a)
    BY <1>3, <1>7
  <2>5. PICK z : z = Shift(acc, w)
    OBVIOUS
  <2>6. ShiftInv(z, n, O, F, a, w)
    BY <1>3, <2>3, <2>4, <2>5, ShiftInvIs
  <2>. QED BY <2>5, <2>6
<1>8. CASE ~d /\ w \notin O
  <2>1. Shift(acc, w) = [t |-> T, hole |-> h, done |-> TRUE]
    BY <1>3, <1>6, <1>8 DEF Shift
  <2>2. AtSlot(T, h, n, O, a, v)
    BY <1>3, <1>8
  <2>3. h = v \/ Passed(h, a, v)
    BY <2>2 DEF AtSlot
  <2>4. \A s \in O : s # h /\ Passed(s, h, w) => Clear(T, h, n, s)
    BY <1>3, <1>4, <2>2, <2>3 DEF AtSlot
  <2>5. Ended(T, h, n, O, a)
    BY <1>4, <1>8, <2>4 DEF Ended
  <2>6. PICK z : z = Shift(acc, w)
    OBVIOUS
  <2>7. ShiftInv(z, n, O, F, a, w)
    BY <1>3, <2>1, <2>5, <2>6, ShiftInvIs
  <2>. QED BY <2>6, <2>7
<1>9. CASE ~d /\ w \in O
  <2>1. AtSlot(T, h, n, O, a, v)
    BY <1>3, <1>9
  <2>2. (h = v \/ Passed(h, a, v)) /\ Passed(h, a, w)
    BY <1>3, <1>4, <2>1 DEF AtSlot
  <2>3. w # h
    BY <1>3, <1>4, <2>2 DEF Passed
  <2>4. PICK g : g = Home(entries, T[w].entry, n)
    OBVIOUS
  <2>5. g \in 0 .. n - 1
    <3>1. PICK f \in F : f = T[w].entry
      BY <1>3, <1>9, <2>3 DEF Shifted
    <3>2. entries[f].key \in Keys
      BY <3>1
    <3>. QED BY <2>4, <3>1, <3>2, HomeIs
  <2>6. Movable(h, w, g) <=> Passed(h, g, w)
    <3>1. h \in Nat /\ w \in Nat /\ g \in Nat
      BY <1>3, <1>4, <2>5
    <3>. QED BY <2>3, <3>1, MovableIs
  <2>7. \A x \in 0 .. n - 1 : x = w \/ Passed(x, a, w) => x \in O
    BY <1>4, <1>9, <2>1 DEF AtSlot
  <2>8. CASE Movable(h, w, g)
    <3>1. PICK U : U = [T EXCEPT ![h] = T[w]]
      OBVIOUS
    <3>2. Shift(acc, w) = [t |-> U, hole |-> w, done |-> FALSE]
      BY <1>3, <1>5, <1>6, <1>9, <2>4, <2>8, <3>1 DEF Shift, Home
    <3>3. Shifted(U, w, n, O, F)
      BY <1>3, <1>9, <2>3, <2>4, <2>6, <2>8, <3>1, MoveSlot
    <3>4. \A s \in 0 .. n - 1 : s # w => ~(s = w \/ Passed(s, w, w))
      BY <1>4 DEF Passed
    <3>5. AtSlot(U, w, n, O, a, w)
      BY <2>7, <3>4 DEF AtSlot
    <3>6. U \in [0 .. n - 1 -> Slots]
      BY <3>3 DEF Shifted
    <3>7. PICK z : z = Shift(acc, w)
      OBVIOUS
    <3>8. ShiftInv(z, n, O, F, a, w)
      BY <1>4, <3>2, <3>3, <3>5, <3>6, <3>7, ShiftInvIs
    <3>. QED BY <3>7, <3>8
  <2>9. CASE ~Movable(h, w, g)
    <3>1. Shift(acc, w) = acc
      BY <1>3, <1>5, <1>6, <1>9, <2>4, <2>9 DEF Shift, Home
    <3>2. Clear(T, h, n, w)
      BY <2>4, <2>6, <2>9 DEF Clear
    <3>3. \A s \in O : s # h /\ (s = w \/ Passed(s, h, w)) => Clear(T, h, n, s)
      BY <1>3, <1>4, <2>1, <2>2, <3>2 DEF AtSlot
    <3>4. AtSlot(T, h, n, O, a, w)
      BY <2>2, <2>7, <3>3 DEF AtSlot
    <3>5. d = FALSE
      BY <1>3, <1>9
    <3>6. ShiftInv(acc, n, O, F, a, w)
      BY <1>3, <3>4, <3>5, ShiftInvIs
    <3>. QED BY <3>1, <3>6
  <2>. QED BY <2>8, <2>9
<1>. QED BY <1>3, <1>7, <1>8, <1>9

\* When the loop has ended, the hole can be emptied.
LEMMA EmptyHole ==
  ASSUME NEW n \in Nat \ {0}, NEW O, O \subseteq 0 .. n - 1, NEW F,
         F \subseteq Nat \ {0}, \A f \in F : entries[f].key \in Keys,
         NEW a, NEW T, NEW h, Shifted(T, h, n, O, F), Ended(T, h, n, O, a),
         NEW U, U = [T EXCEPT ![h] = Empty]
  PROVE  TableOK(U, n, F, entries)
<1>1. h \in O /\ h \in 0 .. n - 1 /\ T \in [0 .. n - 1 -> Slots] /\ Full(T) = O
  BY DEF Shifted
<1>2. Empty \in Slots /\ Empty.entry = 0
  BY DEF Empty, Slots
<1>3. /\ U \in [0 .. n - 1 -> Slots] /\ U[h] = Empty
      /\ \A s \in 0 .. n - 1 : s # h => U[s] = T[s]
  BY <1>1, <1>2
<1>4. Full(U) = O \ {h}
  BY <1>1, <1>2, <1>3 DEF Full, IsEmpty
<1>5. \A s \in Full(U) : s \in O /\ s # h /\ s \in 0 .. n - 1 /\ U[s] = T[s]
  BY <1>3, <1>4
<1>6. \A s \in Full(U) : U[s].entry \in F /\ U[s] = SlotFor(entries, U[s].entry)
  BY <1>5 DEF Shifted
<1>7. \A f \in F : \E s \in Full(U) : U[s].entry = f
  BY <1>4, <1>5 DEF Shifted
<1>8. \A s, r \in Full(U) : U[s].entry = U[r].entry => s = r
  BY <1>5 DEF Shifted
<1>9. ASSUME NEW s \in Full(U), NEW x \in 0 .. n - 1,
             Passed(x, Home(entries, U[s].entry, n), s)
      PROVE  x \in Full(U)
  <2>1. PICK g : g = Home(entries, T[s].entry, n)
    OBVIOUS
  <2>2. g \in 0 .. n - 1 /\ s \in 0 .. n - 1
    <3>1. PICK f \in F : f = T[s].entry
      BY <1>5, <1>6
    <3>2. entries[f].key \in Keys
      BY <3>1
    <3>. QED BY <1>5, <2>1, <3>1, <3>2, HomeIs
  <2>3. Passed(x, g, s)
    BY <1>5, <1>9, <2>1
  <2>4. \A y \in 0 .. n - 1 : Passed(y, g, s) => y \in O
    BY <1>5, <2>1 DEF Shifted
  <2>5. ASSUME x = h PROVE FALSE
    <3>1. PICK q \in 0 .. n - 1 :
            q \notin O /\ \A r \in O : r # h /\ Passed(r, h, q) => Clear(T, h, n, r)
      BY DEF Ended
    <3>2. ~Clear(T, h, n, s)
      BY <2>1, <2>3, <2>5 DEF Clear
    <3>3. s \in O /\ s # h /\ s # q
      BY <1>5, <3>1
    <3>4. ~Passed(s, h, q)
      BY <3>1, <3>2, <3>3
    <3>5. Passed(q, h, s)
      BY <1>1, <2>2, <3>1, <3>3, <3>4, OneIsPassed
    <3>6. Passed(q, g, s)
      BY <1>1, <2>2, <2>3, <2>5, <3>1, <3>5, WaysJoin
    <3>. QED BY <2>4, <3>1, <3>6
  <2>. QED BY <1>4, <2>3, <2>4, <2>5
<1>. QED BY <1>3, <1>6, <1>7, <1>8, <1>9 DEF TableOK

LEMMA ErasedIs ==
  ASSUME NEW t, NEW n, NEW E, TableOK(t, n, E, entries), IsFiniteSet(E),
         Cardinality(E) < n, NEW e \in E
  PROVE  TableOK(Erased(t, e), n, E \ {e}, entries)
<1>1. /\ n \in Nat \ {0} /\ t \in [0 .. n - 1 -> Slots] /\ DOMAIN t = 0 .. n - 1
      /\ Cap(t) = n
  BY CapIs DEF TableOK
<1>2. PICK slot : slot = Probe(t, Hash[entries[e].key], LAMBDA s : t[s].entry = e)
  OBVIOUS
<1>3. slot \in Full(t) /\ t[slot].entry = e
  <2>1. PICK c \in Nat : c = Hash[entries[e].key]
    BY HashIs DEF TableOK
  <2>2. PICK S : S = {s \in 0 .. n - 1 : t[s].entry = e}
    OBVIOUS
  <2>3. S # {} /\ S \subseteq 0 .. n - 1
    BY <1>1, <2>2 DEF TableOK, Full
  <2>4. PICK I : I = {i \in 1 .. Len(ProbeSeq(t, c)) : t[ProbeSeq(t, c)[i]].entry = e}
    OBVIOUS
  <2>5. \A i : i \in I <=> i \in 1 .. n /\ ProbeSeq(t, c)[i] \in S
    <3>1. Len(ProbeSeq(t, c)) = n /\ \A i \in 1 .. n : ProbeSeq(t, c)[i] \in 0 .. n - 1
      BY <1>1, ProbeSeqIs
    <3>. QED BY <2>2, <2>4, <3>1
  <2>6. I # {} => slot = ProbeSeq(t, c)[Min(I)]
    BY <1>2, <2>1, <2>4 DEF Probe, SelectInSeq
  <2>7. slot \in S
    <3>1. PICK m \in Nat \ {0} : m = n
      BY <1>1
    <3>. QED BY <1>1, <2>3, <2>5, <2>6, <3>1, FirstOfSeq, Zenon
  <2>8. e # 0
    BY DEF TableOK
  <2>. QED BY <1>1, <2>2, <2>7, <2>8 DEF Full, IsEmpty
<1>. DEFINE Body(f, i) == IF i = 0 THEN [t |-> t, hole |-> slot, done |-> FALSE]
                          ELSE Shift(f[i - 1], (slot + i) % n)
<1>4. \E f : f = [i \in 0 .. n - 1 |-> Body(f, i)]
  <2>. DEFINE M == {m \in 0 .. n - 1 : \E f : f = [i \in 0 .. m |-> Body(f, i)]}
  <2>1. 0 \in M
    <3>. DEFINE f == [i \in 0 .. 0 |-> [t |-> t, hole |-> slot, done |-> FALSE]]
    <3>1. f = [i \in 0 .. 0 |-> Body(f, i)]
      OBVIOUS
    <3>2. 0 \in 0 .. n - 1
      BY <1>1
    <3>. QED BY <3>1, <3>2
  <2>2. ASSUME NEW m \in 0 .. (n - 1) - 1, m \in M PROVE m + 1 \in M
    <3>1. PICK f : f = [i \in 0 .. m |-> Body(f, i)]
      BY <2>2
    <3>2. PICK g : g = [i \in 0 .. m + 1 |-> IF i <= m THEN f[i] ELSE Body(f, i)]
      OBVIOUS
    <3>3. ASSUME NEW i \in 0 .. m + 1 PROVE g[i] = Body(g, i)
      <4>1. CASE i = 0
        BY <3>1, <3>2, <4>1
      <4>2. CASE i # 0
        <5>1. i - 1 \in 0 .. m /\ i - 1 \in 0 .. m + 1 /\ i - 1 <= m
          BY <4>2
        <5>2. g[i - 1] = f[i - 1]
          BY <3>2, <5>1
        <5>3. Body(g, i) = Body(f, i)
          BY <5>2
        <5>4. g[i] = Body(f, i)
          <6>. HIDE DEF Body
          <6>. QED BY <3>1, <3>2
        <5>. QED BY <5>3, <5>4
      <4>. QED BY <4>1, <4>2
    <3>4. g = [i \in 0 .. m + 1 |-> Body(g, i)]
      <4>. HIDE DEF Body
      <4>. QED BY <3>2, <3>3
    <3>5. m + 1 \in 0 .. n - 1
      BY <1>1
    <3>. QED BY <3>4, <3>5
  <2>3. \A m \in 0 .. n - 1 : m \in M
    <3>1. n - 1 \in Nat
      BY <1>1
    <3>. HIDE DEF M
    <3>. QED BY <2>1, <2>2, <3>1, UpTo
  <2>4. n - 1 \in 0 .. n - 1
    BY <1>1
  <2>. QED BY <2>3, <2>4
<1>5. PICK f : /\ f = [i \in 0 .. n - 1 |-> Body(f, i)]
               /\ Erased(t, e) = [f[n - 1].t EXCEPT ![f[n - 1].hole] = Empty]
  <2>1. PICK f : f = CHOOSE g : g = [i \in 0 .. n - 1 |-> Body(g, i)]
    OBVIOUS
  <2>2. f = [i \in 0 .. n - 1 |-> Body(f, i)]
    <3>. HIDE DEF Body
    <3>. QED BY <1>4, <2>1, Zenon
  <2>3. Erased(t, e) = [f[n - 1].t EXCEPT ![f[n - 1].hole] = Empty]
    BY <1>1, <1>2, <2>1 DEF Erased
  <2>. QED BY <2>2, <2>3
<1>6. \A i \in 0 .. n - 1 : f[i] = Body(f, i)
  <2>. HIDE DEF Body
  <2>. QED BY <1>5
<1>7. PICK O, F : O = Full(t) /\ F = E \ {e}
  OBVIOUS
<1>8. /\ O \subseteq 0 .. n - 1 /\ F \subseteq Nat \ {0} /\ slot \in 0 .. n - 1
      /\ \A g \in F : entries[g].key \in Keys
  BY <1>1, <1>3, <1>7 DEF TableOK, Full
<1>. DEFINE M == {i \in 0 .. n - 1 : ShiftInv(f[i], n, O, F, slot, On(n, slot, i))}
<1>9. 0 \in M
  <2>1. PICK w : w = On(n, slot, 0)
    OBVIOUS
  <2>2. w = slot
    BY <1>1, <1>8, <2>1 DEF On
  <2>3. Shifted(t, slot, n, O, F)
    BY <1>1, <1>3, <1>7 DEF TableOK, Shifted
  <2>4. AtSlot(t, slot, n, O, slot, w)
    BY <1>1, <1>3, <1>7, <1>8, <2>2 DEF AtSlot, Passed
  <2>5. 0 \in 0 .. n - 1
    BY <1>1
  <2>6. PICK z : z = f[0]
    OBVIOUS
  <2>7. z = [t |-> t, hole |-> slot, done |-> FALSE]
    BY <1>6, <2>5, <2>6
  <2>8. ShiftInv(z, n, O, F, slot, w)
    BY <1>1, <1>8, <2>3, <2>4, <2>7, ShiftInvIs
  <2>. QED BY <2>1, <2>5, <2>6, <2>8
<1>10. ASSUME NEW i \in 0 .. (n - 1) - 1, i \in M PROVE i + 1 \in M
  <2>1. i + 1 \in 0 .. n - 1 /\ i + 1 # 0 /\ (i + 1) - 1 = i /\ i \in Nat /\ i + 1 <= n - 1
    BY <1>1
  <2>2. PICK acc, w : acc = f[i] /\ w = On(n, slot, i + 1)
    OBVIOUS
  <2>3. (slot + (i + 1)) % n = w
    <3>1. slot \in Nat /\ slot % n = slot
      BY <1>1, <1>8
    <3>2. PICK j \in 0 .. n - 1 : j = i + 1
      BY <2>1
    <3>3. (slot + j) % n = On(n, slot % n, j)
      BY <1>1, <3>1, TurnIs
    <3>. QED BY <2>2, <3>1, <3>2, <3>3
  <2>4. f[i + 1] = Shift(acc, w)
    BY <1>6, <2>1, <2>2, <2>3
  <2>5. ShiftInv(Shift(acc, w), n, O, F, slot, w)
    BY <1>1, <1>8, <1>10, <2>1, <2>2, ShiftStep
  <2>. QED BY <2>1, <2>2, <2>4, <2>5
<1>11. \A i \in 0 .. n - 1 : i \in M
  <2>1. n - 1 \in Nat
    BY <1>1
  <2>. HIDE DEF M
  <2>. QED BY <1>9, <1>10, <2>1, UpTo
<1>12. PICK acc, T, h, w : /\ acc = f[n - 1] /\ T = acc.t /\ h = acc.hole
                           /\ w = On(n, slot, n - 1)
  OBVIOUS
<1>13. ShiftInv(acc, n, O, F, slot, w)
  <2>1. n - 1 \in 0 .. n - 1
    BY <1>1
  <2>. QED BY <1>11, <1>12, <2>1
<1>14. acc.done
  <2>. SUFFICES ASSUME ~acc.done PROVE FALSE
    OBVIOUS
  <2>1. AtSlot(T, h, n, O, slot, w)
    BY <1>12, <1>13 DEF ShiftInv
  <2>2. PICK q \in 0 .. n - 1 : q \notin O
    BY <1>7, FullCount
  <2>3. q = w \/ Passed(q, slot, w)
    BY <1>1, <1>8, <1>12, <2>2 DEF On, Passed
  <2>. QED BY <2>1, <2>2, <2>3 DEF AtSlot
<1>15. Shifted(T, h, n, O, F) /\ Ended(T, h, n, O, slot)
  BY <1>12, <1>13, <1>14 DEF ShiftInv
<1>16. PICK U : U = [T EXCEPT ![h] = Empty]
  OBVIOUS
<1>17. TableOK(U, n, F, entries)
  BY <1>1, <1>8, <1>15, <1>16, EmptyHole
<1>18. Erased(t, e) = U
  BY <1>5, <1>12, <1>16
<1>. QED BY <1>7, <1>17, <1>18

(***************************************************************************)
(* The pool.                                                               *)
(***************************************************************************)
EntryRecord == [key : Keys, bucket : Buckets, stamp : Nat, item : Items]

Distinct(s) == \A i, j \in 1 .. Len(s) : s[i] = s[j] => i = j

PoolOK ==
  /\ entries \in Seq(EntryRecord)
  /\ free \in Seq(1 .. Len(entries)) /\ Distinct(free)
  /\ DistinctKeys(Entries, entries)
  /\ \A e \in Entries : entries[e].key = Key[entries[e].item]

LEMMA ToSetIs ==
  ASSUME NEW S, NEW s \in Seq(S)
  PROVE  /\ ToSet(s) \subseteq S
         /\ \A x : x \in ToSet(s) <=> \E i \in 1 .. Len(s) : s[i] = x
         /\ Len(s) \in Nat /\ DOMAIN s = 1 .. Len(s)
<1>1. Len(s) \in Nat /\ DOMAIN s = 1 .. Len(s) /\ \A i \in 1 .. Len(s) : s[i] \in S
  OBVIOUS
<1>. QED BY <1>1 DEF ToSet

LEMMA PopFree ==
  ASSUME NEW S, NEW s \in Seq(S), s # <<>>, Distinct(s)
  PROVE  /\ Last(s) \in S /\ Last(s) \in ToSet(s)
         /\ Front(s) \in Seq(S) /\ Distinct(Front(s))
         /\ ToSet(Front(s)) = ToSet(s) \ {Last(s)}
<1>1. PICK n \in Nat : n = Len(s) /\ n > 0
  <2>1. Len(s) \in Nat /\ Len(s) > 0
    BY EmptySeq
  <2>. QED BY <2>1
<1>2. \A i \in 1 .. n : s[i] \in S
  BY <1>1
<1>3. Last(s) = s[n] /\ n \in 1 .. n
  BY <1>1 DEF Last
<1>4. PICK f : f = Front(s)
  OBVIOUS
<1>5. f \in Seq(S) /\ Len(f) = n - 1 /\ \A i \in 1 .. n - 1 : f[i] = s[i]
  BY <1>1, <1>4, SubSeqProperties DEF Front
<1>6. Distinct(f)
  BY <1>1, <1>5 DEF Distinct
<1>7. ToSet(f) = ToSet(s) \ {Last(s)}
  <2>1. \A x : x \in ToSet(f) <=> \E i \in 1 .. n - 1 : s[i] = x
    BY <1>5, ToSetIs
  <2>2. \A x : x \in ToSet(s) <=> \E i \in 1 .. n : s[i] = x
    BY <1>1, ToSetIs
  <2>3. \A i \in 1 .. n - 1 : i \in 1 .. n /\ s[i] # s[n]
    BY <1>1 DEF Distinct
  <2>4. \A i \in 1 .. n : i = n \/ i \in 1 .. n - 1
    BY <1>1
  <2>. QED BY <1>3, <2>1, <2>2, <2>3, <2>4
<1>. QED BY <1>2, <1>3, <1>4, <1>5, <1>6, <1>7, <1>1, ToSetIs

LEMMA PushFree ==
  ASSUME NEW S, NEW s \in Seq(S), Distinct(s), NEW e \in S, e \notin ToSet(s)
  PROVE  /\ Append(s, e) \in Seq(S) /\ Distinct(Append(s, e))
         /\ ToSet(Append(s, e)) = ToSet(s) \cup {e}
<1>1. PICK n \in Nat : n = Len(s)
  OBVIOUS
<1>2. PICK f : f = Append(s, e)
  OBVIOUS
<1>3. f \in Seq(S) /\ Len(f) = n + 1 /\ f[n + 1] = e /\ \A i \in 1 .. n : f[i] = s[i]
  BY <1>1, <1>2
<1>4. \A x : x \in ToSet(s) <=> \E i \in 1 .. n : s[i] = x
  BY <1>1, ToSetIs
<1>5. \A x : x \in ToSet(f) <=> \E i \in 1 .. n + 1 : f[i] = x
  BY <1>3, ToSetIs
<1>6. \A i \in 1 .. n + 1 : i = n + 1 \/ i \in 1 .. n
  BY <1>1
<1>7. \A i \in 1 .. n : i \in 1 .. n + 1
  BY <1>1
<1>8. n + 1 \in 1 .. n + 1
  BY <1>1
<1>9. ToSet(f) = ToSet(s) \cup {e}
  BY <1>3, <1>4, <1>5, <1>6, <1>7, <1>8
<1>10. \A i \in 1 .. n : s[i] # e
  BY <1>4
<1>11. Distinct(f)
  BY <1>1, <1>3, <1>6, <1>10 DEF Distinct
<1>. QED BY <1>2, <1>3, <1>9, <1>11

LEMMA PoolFacts ==
  ASSUME PoolOK
  PROVE  /\ DOMAIN entries = 1 .. Len(entries) /\ Len(entries) \in Nat
         /\ ToSet(free) \subseteq DOMAIN entries
         /\ Entries \subseteq DOMAIN entries /\ IsFiniteSet(Entries)
         /\ Entries \subseteq Nat \ {0}
         /\ \A e \in DOMAIN entries : entries[e] \in EntryRecord
<1>1. DOMAIN entries = 1 .. Len(entries) /\ Len(entries) \in Nat
  BY DEF PoolOK
<1>2. ToSet(free) \subseteq DOMAIN entries
  BY <1>1, ToSetIs DEF PoolOK
<1>3. Entries \subseteq DOMAIN entries
  BY DEF Entries
<1>4. IsFiniteSet(DOMAIN entries)
  BY <1>1, FS_Interval
<1>. QED BY <1>1, <1>2, <1>3, <1>4, FS_Subset DEF PoolOK

(***************************************************************************)
(* The lists, for the pool en and its entries E in use.  Within a bucket   *)
(* an entry is named by one valid reference at most.                       *)
(***************************************************************************)
Reference == [entry : Nat, stamp : Nat]
Current(en, ref) == en[ref.entry].stamp = ref.stamp
Twins(en, p, q) == Current(en, p) /\ Current(en, q) /\ p.entry = q.entry

ListsOK(ls, en, E) ==
  /\ ls \in [Buckets -> Seq(Reference)]
  /\ \A b \in Buckets : \A i \in 1 .. Len(ls[b]) :
       /\ ls[b][i].entry \in DOMAIN en /\ ls[b][i].stamp <= en[ls[b][i].entry].stamp
       /\ Current(en, ls[b][i]) => ls[b][i].entry \in E /\ en[ls[b][i].entry].bucket = b
  /\ \A b \in Buckets : \A e \in E : en[e].bucket = b =>
       \E i \in 1 .. Len(ls[b]) : ls[b][i].entry = e /\ Current(en, ls[b][i])
  /\ \A b \in Buckets : \A i, j \in 1 .. Len(ls[b]) :
       Twins(en, ls[b][i], ls[b][j]) => i = j

\* Only stamps and buckets matter.
LEMMA SameStamps ==
  ASSUME NEW ls, NEW en, NEW E, ListsOK(ls, en, E), E \subseteq DOMAIN en,
         NEW em, DOMAIN em = DOMAIN en,
         \A e \in DOMAIN en : em[e].stamp = en[e].stamp /\ em[e].bucket = en[e].bucket
  PROVE  ListsOK(ls, em, E)
<1>1. \A b \in Buckets : \A i \in 1 .. Len(ls[b]) :
        Current(em, ls[b][i]) <=> Current(en, ls[b][i])
  BY DEF ListsOK, Current
<1>. QED BY <1>1 DEF ListsOK, Twins

\* A reference with a new stamp replaces all those its entry had.
LEMMA PushRef ==
  ASSUME NEW ls, NEW en, NEW E, ListsOK(ls, en, E), E \subseteq DOMAIN en,
         \A f \in DOMAIN en : en[f].stamp \in Nat,
         NEW e \in Nat, NEW em, DOMAIN em = DOMAIN en \cup {e},
         \A f \in DOMAIN en : f # e => em[f] = en[f],
         em[e].stamp \in Nat, e \in DOMAIN en => en[e].stamp < em[e].stamp,
         NEW b \in Buckets, em[e].bucket = b,
         NEW ls2, ls2 = [ls EXCEPT ![b] = Append(@, [entry |-> e, stamp |-> em[e].stamp])]
  PROVE  ListsOK(ls2, em, E \cup {e})
<1>1. PICK r : r = [entry |-> e, stamp |-> em[e].stamp]
  OBVIOUS
<1>2. r \in Reference /\ r.entry = e /\ Current(em, r) /\ r.stamp = em[e].stamp
  BY <1>1 DEF Reference, Current
<1>3. ls \in [Buckets -> Seq(Reference)]
  BY DEF ListsOK
<1>4. PICK n \in Nat : n = Len(ls[b])
  BY <1>3
<1>5. /\ ls2 \in [Buckets -> Seq(Reference)] /\ \A c \in Buckets : c # b => ls2[c] = ls[c]
      /\ Len(ls2[b]) = n + 1 /\ ls2[b][n + 1] = r
      /\ \A i \in 1 .. n : ls2[b][i] = ls[b][i]
  BY <1>1, <1>2, <1>3, <1>4
<1>6. \A c \in Buckets : \A i \in 1 .. Len(ls[c]) :
        /\ ls[c][i].entry = e => ~Current(em, ls[c][i])
        /\ ls[c][i].entry # e => (Current(em, ls[c][i]) <=> Current(en, ls[c][i]))
  <2>. SUFFICES ASSUME NEW c \in Buckets, NEW i \in 1 .. Len(ls[c])
                PROVE  /\ ls[c][i].entry = e => ~Current(em, ls[c][i])
                       /\ ls[c][i].entry # e => (Current(em, ls[c][i]) <=> Current(en, ls[c][i]))
    OBVIOUS
  <2>1. PICK q : q = ls[c][i]
    OBVIOUS
  <2>2. q.entry \in DOMAIN en /\ q.stamp <= en[q.entry].stamp
    BY <2>1 DEF ListsOK
  <2>3. q \in Reference
    BY <1>3, <2>1
  <2>4. q.stamp \in Nat
    BY <2>3 DEF Reference
  <2>5. q.entry = e => ~Current(em, q)
    BY <2>2, <2>4 DEF Current
  <2>. QED BY <2>1, <2>2, <2>5 DEF Current
<1>7. \A c \in Buckets : \A i \in 1 .. Len(ls2[c]) :
        \/ c = b /\ i = n + 1 /\ ls2[c][i] = r
        \/ i \in 1 .. Len(ls[c]) /\ ls2[c][i] = ls[c][i]
  BY <1>4, <1>5
<1>8. \A c \in Buckets : \A i \in 1 .. Len(ls[c]) : i \in 1 .. Len(ls2[c]) /\ ls2[c][i] = ls[c][i]
  BY <1>4, <1>5
<1>9. \A c \in Buckets : \A i \in 1 .. Len(ls2[c]) :
        /\ ls2[c][i].entry \in DOMAIN em /\ ls2[c][i].stamp <= em[ls2[c][i].entry].stamp
        /\ Current(em, ls2[c][i]) =>
             ls2[c][i].entry \in E \cup {e} /\ em[ls2[c][i].entry].bucket = c
  <2>. SUFFICES ASSUME NEW c \in Buckets, NEW i \in 1 .. Len(ls2[c])
                PROVE  /\ ls2[c][i].entry \in DOMAIN em
                       /\ ls2[c][i].stamp <= em[ls2[c][i].entry].stamp
                       /\ Current(em, ls2[c][i]) =>
                            ls2[c][i].entry \in E \cup {e} /\ em[ls2[c][i].entry].bucket = c
    OBVIOUS
  <2>1. CASE c = b /\ i = n + 1 /\ ls2[c][i] = r
    BY <1>2, <2>1
  <2>2. CASE i \in 1 .. Len(ls[c]) /\ ls2[c][i] = ls[c][i]
    <3>1. PICK q \in Reference : q = ls[c][i]
      BY <1>3, <2>2
    <3>2. /\ q.entry \in DOMAIN en /\ q.stamp <= en[q.entry].stamp
          /\ Current(en, q) => q.entry \in E /\ en[q.entry].bucket = c
      BY <2>2, <3>1 DEF ListsOK
    <3>3. q.stamp \in Nat
      BY DEF Reference
    <3>4. q.stamp <= em[q.entry].stamp
      BY <3>2, <3>3
    <3>5. Current(em, q) => q.entry \in E /\ em[q.entry].bucket = c
      BY <1>6, <2>2, <3>1, <3>2
    <3>. QED BY <2>2, <3>1, <3>2, <3>4, <3>5
  <2>. QED BY <1>7, <2>1, <2>2
<1>10. \A c \in Buckets : \A f \in E \cup {e} : em[f].bucket = c =>
         \E i \in 1 .. Len(ls2[c]) : ls2[c][i].entry = f /\ Current(em, ls2[c][i])
  <2>. SUFFICES ASSUME NEW c \in Buckets, NEW f \in E \cup {e}, em[f].bucket = c
                PROVE  \E i \in 1 .. Len(ls2[c]) : ls2[c][i].entry = f /\ Current(em, ls2[c][i])
    OBVIOUS
  <2>1. CASE f = e
    <3>1. n + 1 \in 1 .. Len(ls2[b])
      BY <1>5
    <3>. QED BY <1>2, <1>5, <2>1, <3>1
  <2>2. CASE f # e
    <3>1. PICK i \in 1 .. Len(ls[c]) : ls[c][i].entry = f /\ Current(en, ls[c][i])
      BY <2>2 DEF ListsOK
    <3>. QED BY <1>6, <1>8, <2>2, <3>1
  <2>. QED BY <2>1, <2>2
<1>11. \A c \in Buckets : \A i, j \in 1 .. Len(ls2[c]) :
         Twins(em, ls2[c][i], ls2[c][j]) => i = j
  <2>1. \A c \in Buckets : \A i \in 1 .. Len(ls2[c]) :
          Current(em, ls2[c][i]) => \/ c = b /\ i = n + 1 /\ ls2[c][i].entry = e
                                    \/ /\ i \in 1 .. Len(ls[c]) /\ ls2[c][i] = ls[c][i]
                                       /\ ls[c][i].entry # e /\ Current(en, ls[c][i])
    BY <1>2, <1>6, <1>7
  <2>2. \A c \in Buckets : \A i, j \in 1 .. Len(ls[c]) :
          Twins(en, ls[c][i], ls[c][j]) => i = j
    BY DEF ListsOK
  <2>3. ASSUME NEW c \in Buckets, NEW i \in 1 .. Len(ls2[c]), NEW j \in 1 .. Len(ls2[c]),
               Twins(em, ls2[c][i], ls2[c][j])
        PROVE  i = j
    <3>1. \/ c = b /\ i = n + 1 /\ ls2[c][i].entry = e
          \/ /\ i \in 1 .. Len(ls[c]) /\ ls2[c][i] = ls[c][i]
             /\ ls[c][i].entry # e /\ Current(en, ls[c][i])
      BY <2>1, <2>3 DEF Twins
    <3>2. \/ c = b /\ j = n + 1 /\ ls2[c][j].entry = e
          \/ /\ j \in 1 .. Len(ls[c]) /\ ls2[c][j] = ls[c][j]
             /\ ls[c][j].entry # e /\ Current(en, ls[c][j])
      BY <2>1, <2>3 DEF Twins
    <3>3. CASE i = n + 1 /\ ls2[c][i].entry = e
      BY <2>3, <3>2, <3>3 DEF Twins
    <3>4. CASE j = n + 1 /\ ls2[c][j].entry = e
      BY <2>3, <3>1, <3>4 DEF Twins
    <3>5. CASE /\ i \in 1 .. Len(ls[c]) /\ ls2[c][i] = ls[c][i]
               /\ j \in 1 .. Len(ls[c]) /\ ls2[c][j] = ls[c][j]
               /\ Current(en, ls[c][i]) /\ Current(en, ls[c][j])
      <4>1. Twins(en, ls[c][i], ls[c][j])
        BY <2>3, <3>5 DEF Twins
      <4>. QED BY <2>2, <3>5, <4>1
    <3>. QED BY <3>1, <3>2, <3>3, <3>4, <3>5
  <2>. QED BY <2>3
<1>. QED BY <1>5, <1>9, <1>10, <1>11 DEF ListsOK

\* Dropping the first reference of a bucket keeps what the others say, if it
\* was not current.
LEMMA DropRef ==
  ASSUME NEW ls, NEW en, NEW E, ListsOK(ls, en, E),
         NEW b \in Buckets, ls[b] # <<>>, ~Current(en, Head(ls[b])),
         NEW ls2, ls2 = [ls EXCEPT ![b] = Tail(@)]
  PROVE  ListsOK(ls2, en, E)
<1>1. ls \in [Buckets -> Seq(Reference)]
  BY DEF ListsOK
<1>2. PICK n \in Nat : n = Len(ls[b]) /\ n > 0
  <2>1. ls[b] \in Seq(Reference)
    BY <1>1
  <2>2. Len(ls[b]) \in Nat /\ Len(ls[b]) > 0
    BY <2>1, EmptySeq
  <2>. QED BY <2>2
<1>3. /\ ls2 \in [Buckets -> Seq(Reference)] /\ \A c \in Buckets : c # b => ls2[c] = ls[c]
      /\ Len(ls2[b]) = n - 1 /\ Head(ls[b]) = ls[b][1]
      /\ \A i \in 1 .. n - 1 : ls2[b][i] = ls[b][i + 1] /\ i + 1 \in 1 .. n
  <2>1. ls[b] \in Seq(Reference) /\ ls[b] # <<>>
    BY <1>1
  <2>2. PICK l : l = ls[b]
    OBVIOUS
  <2>3. /\ Tail(l) \in Seq(Reference) /\ Len(Tail(l)) = n - 1 /\ Head(l) = l[1]
        /\ \A i \in 1 .. n - 1 : Tail(l)[i] = l[i + 1]
    BY <1>2, <2>1, <2>2
  <2>. QED BY <1>1, <1>2, <2>2, <2>3
<1>4. ASSUME NEW c \in Buckets, NEW i \in 1 .. Len(ls2[c])
      PROVE  \E j \in 1 .. Len(ls[c]) : /\ ls2[c][i] = ls[c][j]
                                        /\ j = IF c = b THEN i + 1 ELSE i
  BY <1>2, <1>3
<1>5. ASSUME NEW c \in Buckets, NEW j \in 1 .. Len(ls[c]), Current(en, ls[c][j])
      PROVE  \E i \in 1 .. Len(ls2[c]) : ls2[c][i] = ls[c][j]
  <2>1. CASE c # b
    BY <1>3, <2>1
  <2>2. CASE c = b
    <3>1. j # 1
      BY <1>3, <1>5, <2>2
    <3>2. j - 1 \in 1 .. n - 1 /\ (j - 1) + 1 = j
      BY <1>2, <2>2, <3>1
    <3>. QED BY <1>3, <2>2, <3>2
  <2>. QED BY <2>1, <2>2
<1>6. \A c \in Buckets : \A i \in 1 .. Len(ls2[c]) :
        /\ ls2[c][i].entry \in DOMAIN en /\ ls2[c][i].stamp <= en[ls2[c][i].entry].stamp
        /\ Current(en, ls2[c][i]) => ls2[c][i].entry \in E /\ en[ls2[c][i].entry].bucket = c
  BY <1>4 DEF ListsOK
<1>7. \A c \in Buckets : \A e \in E : en[e].bucket = c =>
        \E i \in 1 .. Len(ls2[c]) : ls2[c][i].entry = e /\ Current(en, ls2[c][i])
  <2>. SUFFICES ASSUME NEW c \in Buckets, NEW e \in E, en[e].bucket = c
                PROVE  \E i \in 1 .. Len(ls2[c]) : ls2[c][i].entry = e /\ Current(en, ls2[c][i])
    OBVIOUS
  <2>1. PICK j \in 1 .. Len(ls[c]) : ls[c][j].entry = e /\ Current(en, ls[c][j])
    BY DEF ListsOK
  <2>2. PICK i \in 1 .. Len(ls2[c]) : ls2[c][i] = ls[c][j]
    BY <1>5, <2>1
  <2>. QED BY <2>1, <2>2
<1>8. \A c \in Buckets : \A i, j \in 1 .. Len(ls2[c]) :
        Twins(en, ls2[c][i], ls2[c][j]) => i = j
  <2>. SUFFICES ASSUME NEW c \in Buckets, NEW i \in 1 .. Len(ls2[c]), NEW j \in 1 .. Len(ls2[c]),
                       Twins(en, ls2[c][i], ls2[c][j])
                PROVE  i = j
    OBVIOUS
  <2>1. PICK u \in 1 .. Len(ls[c]) : ls2[c][i] = ls[c][u] /\ u = IF c = b THEN i + 1 ELSE i
    BY <1>4
  <2>2. PICK v \in 1 .. Len(ls[c]) : ls2[c][j] = ls[c][v] /\ v = IF c = b THEN j + 1 ELSE j
    BY <1>4
  <2>3. Twins(en, ls[c][u], ls[c][v])
    BY <2>1, <2>2 DEF Twins
  <2>5. u = v
    BY <2>3 DEF ListsOK
  <2>4. i \in Int /\ j \in Int
    OBVIOUS
  <2>. QED BY <2>1, <2>2, <2>4, <2>5
<1>. QED BY <1>3, <1>6, <1>7, <1>8 DEF ListsOK

\* A new stamp for an entry that leaves invalidates all its references.
LEMMA Restamped ==
  ASSUME NEW ls, NEW en, NEW E, ListsOK(ls, en, E),
         NEW e \in DOMAIN en, en[e].stamp \in Nat,
         NEW em, DOMAIN em = DOMAIN en, em[e].stamp \in Nat, en[e].stamp < em[e].stamp,
         \A f \in DOMAIN en : f # e => em[f] = en[f],
         E \subseteq DOMAIN en
  PROVE  /\ ListsOK(ls, em, E \ {e})
         /\ \A b \in Buckets : \A i \in 1 .. Len(ls[b]) :
              ls[b][i].entry = e => ~Current(em, ls[b][i])
<1>1. ls \in [Buckets -> Seq(Reference)]
  BY DEF ListsOK
<1>2. ASSUME NEW b \in Buckets, NEW i \in 1 .. Len(ls[b])
      PROVE  /\ ls[b][i].entry \in DOMAIN em /\ ls[b][i].stamp <= em[ls[b][i].entry].stamp
             /\ ls[b][i].entry = e => ~Current(em, ls[b][i])
             /\ ls[b][i].entry # e => (Current(em, ls[b][i]) <=> Current(en, ls[b][i]))
  <2>1. PICK q \in Reference : q = ls[b][i]
    BY <1>1
  <2>2. q.entry \in DOMAIN en /\ q.stamp <= en[q.entry].stamp /\ q.stamp \in Nat
    BY <2>1 DEF ListsOK, Reference
  <2>3. CASE q.entry = e
    BY <2>1, <2>2, <2>3 DEF Current
  <2>4. CASE q.entry # e
    BY <2>1, <2>2, <2>4 DEF Current
  <2>. QED BY <2>3, <2>4
<1>3. \A b \in Buckets : \A i \in 1 .. Len(ls[b]) : Current(em, ls[b][i]) =>
        /\ Current(en, ls[b][i]) /\ ls[b][i].entry \in E \ {e}
        /\ em[ls[b][i].entry].bucket = b
  BY <1>2 DEF ListsOK
<1>4. \A b \in Buckets : \A f \in E \ {e} : em[f].bucket = b =>
        \E i \in 1 .. Len(ls[b]) : ls[b][i].entry = f /\ Current(em, ls[b][i])
  <2>. SUFFICES ASSUME NEW b \in Buckets, NEW f \in E \ {e}, em[f].bucket = b
                PROVE  \E i \in 1 .. Len(ls[b]) : ls[b][i].entry = f /\ Current(em, ls[b][i])
    OBVIOUS
  <2>1. PICK i \in 1 .. Len(ls[b]) : ls[b][i].entry = f /\ Current(en, ls[b][i])
    BY DEF ListsOK
  <2>. QED BY <1>2, <2>1
<1>5. \A b \in Buckets : \A i, j \in 1 .. Len(ls[b]) :
        Twins(em, ls[b][i], ls[b][j]) => i = j
  BY <1>3 DEF ListsOK, Twins
<1>6. ListsOK(ls, em, E \ {e})
  BY <1>1, <1>2, <1>3, <1>4, <1>5 DEF ListsOK
<1>. QED BY <1>2, <1>6

\* The lists of buckets without entries may be emptied.
LEMMA ClearLists ==
  ASSUME NEW ls, NEW en, NEW E, ListsOK(ls, en, E),
         NEW D, \A e \in E : en[e].bucket \notin D,
         NEW ls2, ls2 = [b \in Buckets |-> IF b \in D THEN <<>> ELSE ls[b]]
  PROVE  ListsOK(ls2, en, E)
<1>1. ls \in [Buckets -> Seq(Reference)]
  BY DEF ListsOK
<1>2. ls2 \in [Buckets -> Seq(Reference)]
  BY <1>1
<1>3. \A b \in Buckets : \A i \in 1 .. Len(ls2[b]) : b \notin D /\ ls2[b] = ls[b]
  BY <1>1
<1>4. \A b \in Buckets : b \notin D => ls2[b] = ls[b]
  BY <1>1
<1>. QED BY <1>2, <1>3, <1>4 DEF ListsOK

(***************************************************************************)
(* How many entries a bucket has.                                          *)
(***************************************************************************)
InBucket(en, E, b) == {e \in E : en[e].bucket = b}

LEMMA CountIn ==
  ASSUME NEW en, NEW E, IsFiniteSet(E), NEW b
  PROVE  /\ IsFiniteSet(InBucket(en, E, b)) /\ Cardinality(InBucket(en, E, b)) \in Nat
         /\ Cardinality(InBucket(en, E, b)) = 0 <=> \A e \in E : en[e].bucket # b
<1>1. InBucket(en, E, b) \subseteq E
  BY DEF InBucket
<1>2. IsFiniteSet(InBucket(en, E, b)) /\ Cardinality(InBucket(en, E, b)) \in Nat
  BY <1>1, FS_Subset, FS_CardinalityType
<1>3. Cardinality(InBucket(en, E, b)) = 0 <=> InBucket(en, E, b) = {}
  BY <1>2, FS_EmptySet
<1>. QED BY <1>2, <1>3 DEF InBucket

LiveCounts(lv, en, E) ==
  lv \in [Buckets -> Nat] /\ \A b \in Buckets : lv[b] = Cardinality(InBucket(en, E, b))

LEMMA CountAdd ==
  ASSUME NEW lv, NEW en, NEW E, LiveCounts(lv, en, E), IsFiniteSet(E),
         NEW e, e \notin E, NEW em, \A f \in E : em[f].bucket = en[f].bucket,
         NEW b \in Buckets, em[e].bucket = b,
         NEW lv2, lv2 = [lv EXCEPT ![b] = @ + 1]
  PROVE  LiveCounts(lv2, em, E \cup {e})
<1>1. lv \in [Buckets -> Nat]
  BY DEF LiveCounts
<1>2. ASSUME NEW c \in Buckets, c # b
      PROVE  lv2[c] = Cardinality(InBucket(em, E \cup {e}, c))
  <2>1. InBucket(em, E \cup {e}, c) = InBucket(en, E, c)
    BY <1>2 DEF InBucket
  <2>. QED BY <1>1, <1>2, <2>1 DEF LiveCounts
<1>3. lv2[b] = Cardinality(InBucket(em, E \cup {e}, b))
  <2>1. InBucket(em, E \cup {e}, b) = InBucket(en, E, b) \cup {e}
    BY DEF InBucket
  <2>2. e \notin InBucket(en, E, b)
    BY DEF InBucket
  <2>4. IsFiniteSet(InBucket(en, E, b))
    BY CountIn
  <2>3. Cardinality(InBucket(en, E, b) \cup {e}) = Cardinality(InBucket(en, E, b)) + 1
    BY <2>2, <2>4, FS_AddElement
  <2>. QED BY <1>1, <2>1, <2>3 DEF LiveCounts
<1>4. lv2 \in [Buckets -> Nat]
  BY <1>1
<1>. QED BY <1>2, <1>3, <1>4 DEF LiveCounts

SameBuckets(en, em, S) == \A f \in S : em[f].bucket = en[f].bucket

LEMMA CountRemove ==
  ASSUME NEW lv, NEW en, NEW E, LiveCounts(lv, en, E), IsFiniteSet(E),
         NEW e \in E, NEW em, SameBuckets(en, em, E \ {e}),
         NEW b \in Buckets, en[e].bucket = b,
         NEW lv2, lv2 = [lv EXCEPT ![b] = @ - 1]
  PROVE  LiveCounts(lv2, em, E \ {e})
<1>1. lv \in [Buckets -> Nat]
  BY DEF LiveCounts
<1>2. ASSUME NEW c \in Buckets, c # b
      PROVE  lv2[c] = Cardinality(InBucket(em, E \ {e}, c))
  <2>1. InBucket(em, E \ {e}, c) = InBucket(en, E, c)
    BY <1>2 DEF InBucket, SameBuckets
  <2>. QED BY <1>1, <1>2, <2>1 DEF LiveCounts
<1>3. e \in InBucket(en, E, b) /\ IsFiniteSet(InBucket(en, E, b))
  <2>1. e \in InBucket(en, E, b)
    BY DEF InBucket
  <2>. QED BY <2>1, CountIn
<1>4. PICK m \in Nat : m = lv[b] /\ m = Cardinality(InBucket(en, E, b))
  BY <1>1 DEF LiveCounts
<1>5. m - 1 \in Nat /\ Cardinality(InBucket(en, E, b) \ {e}) = m - 1
  <2>1. Cardinality(InBucket(en, E, b) \ {e}) = m - 1
    BY <1>3, <1>4, FS_RemoveElement
  <2>2. Cardinality(InBucket(en, E, b) \ {e}) \in Nat
    BY <1>3, FS_RemoveElement, FS_CardinalityType
  <2>. QED BY <2>1, <2>2
<1>6. InBucket(em, E \ {e}, b) = InBucket(en, E, b) \ {e}
  BY DEF InBucket, SameBuckets
<1>7. lv2 \in [Buckets -> Nat] /\ lv2[b] = m - 1
  BY <1>1, <1>4, <1>5
<1>. QED BY <1>2, <1>5, <1>6, <1>7 DEF LiveCounts

(***************************************************************************)
(* The inductive invariant.                                                *)
(***************************************************************************)
TableIsMap ==
  /\ TableOK(table, Cap(table), Entries, entries)
  /\ count = Cardinality(Entries) /\ 2 * count <= Cap(table) /\ Cap(table) \in Nat \ {0, 1}

Above(en, E, b) == \A e \in E : b <= en[e].bucket

\* A release has left nothing below the bucket it is in.
ReleaseOK ==
  releasing # NoRelease =>
    /\ releasing \in [at : {"bucket"}, bucket : Nat, high : 0 .. NumBuckets - 1, limit : Nat]
    /\ Above(entries, Entries, releasing.bucket)

HoldInv ==
  /\ PoolOK
  /\ TableIsMap
  /\ ListsOK(lists, entries, Entries)
  /\ LiveCounts(live, entries, Entries)
  /\ lowest \in 0 .. NumBuckets /\ Above(entries, Entries, lowest)
  /\ ReleaseOK
  /\ absorbed \subseteq Items /\ emitted \subseteq Items

LEMMA HoldInit == Init => HoldInv
<1>. SUFFICES ASSUME Init PROVE HoldInv
  OBVIOUS
<1>1. PICK n \in Nat \ {0, 1} : n = FirstSize
  BY HoldAssumption DEF HoldAssumption
<1>2. entries = <<>> /\ free = <<>> /\ DOMAIN entries = {} /\ Len(entries) = 0 /\ Len(free) = 0
  BY DEF Init
<1>3. Entries = {} /\ Cardinality(Entries) = 0
  BY <1>2, FS_EmptySet DEF Entries
<1>4. PoolOK
  BY <1>2, <1>3 DEF PoolOK, Distinct, DistinctKeys
<1>5. TableIsMap
  <2>1. PICK t : t = table
    OBVIOUS
  <2>2. t = [s \in 0 .. n - 1 |-> Empty]
    BY <1>1, <2>1 DEF Init, NewTable
  <2>3. Cap(t) = n
    BY <2>2, CapIs
  <2>4. Full(t) = {}
    BY <2>2 DEF Full, IsEmpty, Empty
  <2>5. t \in [0 .. n - 1 -> Slots]
    BY <2>2 DEF Empty, Slots
  <2>6. TableOK(t, n, {}, entries)
    BY <1>1, <2>4, <2>5 DEF TableOK
  <2>7. count = 0
    BY DEF Init
  <2>. QED BY <1>1, <1>3, <2>1, <2>3, <2>6, <2>7 DEF TableIsMap
<1>6. ListsOK(lists, entries, Entries)
  <2>1. lists = [b \in Buckets |-> <<>>]
    BY DEF Init
  <2>. QED BY <1>3, <2>1 DEF ListsOK
<1>7. LiveCounts(live, entries, Entries)
  <2>1. live = [b \in Buckets |-> 0]
    BY DEF Init
  <2>2. \A b \in Buckets : InBucket(entries, Entries, b) = {}
    BY <1>3 DEF InBucket
  <2>. QED BY <2>1, <2>2, FS_EmptySet DEF LiveCounts
<1>8. lowest \in 0 .. NumBuckets
  BY HoldAssumption DEF HoldAssumption, Init
<1>. QED BY <1>3, <1>4, <1>5, <1>6, <1>7, <1>8 DEF HoldInv, Init, Above, ReleaseOK

(***************************************************************************)
(* Inserting a key that is not held.                                       *)
(***************************************************************************)
EntryFor(x, b, e) ==
  [key |-> Key[x], bucket |-> b, item |-> x,
   stamp |-> (IF e \in DOMAIN entries THEN entries[e].stamp ELSE 0) + 1]
WithEntry(e, entry) == IF e \in DOMAIN entries THEN [entries EXCEPT ![e] = entry]
                                               ELSE Append(entries, entry)
FreeLeft == IF free = <<>> THEN free ELSE Front(free)

NewFacts(e, entry, en, fr, E) ==
  /\ e \in Nat \ {0} /\ e \notin Entries /\ E = Entries \cup {e}
  /\ DOMAIN en = DOMAIN entries \cup {e} /\ en \in Seq(EntryRecord)
  /\ \A f \in DOMAIN entries : f # e => en[f] = entries[f]
  /\ en[e] = entry /\ entry.stamp \in Nat
  /\ (e \in DOMAIN entries => entries[e].stamp < entry.stamp)
  /\ fr \in Seq(1 .. Len(en)) /\ Distinct(fr)

LEMMA NewEntryIs ==
  ASSUME PoolOK, NEW x \in Items, NEW b \in Buckets, NEW e, e = NewEntry,
         NEW entry, entry = EntryFor(x, b, e), NEW en, en = WithEntry(e, entry),
         NEW fr, fr = FreeLeft, NEW E, E = DOMAIN en \ ToSet(fr)
  PROVE  NewFacts(e, entry, en, fr, E)
<1>1. /\ entries \in Seq(EntryRecord) /\ DOMAIN entries = 1 .. Len(entries)
      /\ Len(entries) \in Nat /\ Distinct(free) /\ free \in Seq(1 .. Len(entries))
  BY DEF PoolOK
<1>2. \A f \in DOMAIN entries : entries[f].stamp \in Nat
  <2>1. \A f \in DOMAIN entries : entries[f] \in EntryRecord
    BY <1>1
  <2>. QED BY <2>1 DEF EntryRecord
<1>3. entry \in EntryRecord /\ entry.stamp \in Nat
      /\ (e \in DOMAIN entries => entries[e].stamp < entry.stamp)
  <2>1. PICK st \in Nat : st = (IF e \in DOMAIN entries THEN entries[e].stamp ELSE 0)
    BY <1>2
  <2>2. Key[x] \in Keys
    BY HoldAssumption DEF HoldAssumption
  <2>3. entry = [key |-> Key[x], bucket |-> b, item |-> x, stamp |-> st + 1]
    BY <2>1 DEF EntryFor
  <2>4. entry \in EntryRecord /\ entry.stamp = st + 1
    BY <2>2, <2>3 DEF EntryRecord
  <2>. QED BY <2>1, <2>4
<1>4. CASE free = <<>>
  <2>1. PICK m \in Nat : m = Len(entries)
    BY <1>1
  <2>0. e = Len(entries) + 1
    BY <1>4 DEF NewEntry
  <2>2. e = m + 1 /\ e \notin DOMAIN entries
    BY <1>1, <2>0, <2>1
  <2>3. en = Append(entries, entry) /\ fr = <<>>
    BY <1>4, <2>2 DEF WithEntry, FreeLeft
  <2>4. /\ en \in Seq(EntryRecord) /\ Len(en) = m + 1 /\ DOMAIN en = 1 .. m + 1
        /\ en[m + 1] = entry /\ \A f \in 1 .. m : en[f] = entries[f]
    <3>1. entries \in Seq(EntryRecord) /\ entry \in EntryRecord
      BY <1>1, <1>3
    <3>. QED BY <2>1, <2>3, <3>1
  <2>5. ToSet(fr) = {} /\ ToSet(free) = {}
    BY <1>4, <2>3 DEF ToSet
  <2>6. 1 .. m + 1 = 1 .. m \cup {m + 1}
    OBVIOUS
  <2>7. E = Entries \cup {e}
    BY <1>1, <2>1, <2>2, <2>4, <2>5, <2>6 DEF Entries
  <2>8. fr \in Seq(1 .. Len(en)) /\ Distinct(fr)
    <3>1. fr = <<>> /\ Len(fr) = 0
      BY <2>3
    <3>2. \A S : <<>> \in Seq(S)
      OBVIOUS
    <3>3. 1 .. Len(fr) = {}
      BY <3>1
    <3>4. Distinct(fr)
      BY <3>3, Zenon DEF Distinct
    <3>. QED BY <3>1, <3>2, <3>4
  <2>9. e \in Nat \ {0} /\ e \notin Entries
    BY <2>2 DEF Entries
  <2>10. /\ DOMAIN en = DOMAIN entries \cup {e} /\ en[e] = entry
         /\ \A f \in DOMAIN entries : f # e => en[f] = entries[f]
    BY <1>1, <2>1, <2>2, <2>4, <2>6
  <2>. QED BY <1>3, <2>2, <2>4, <2>7, <2>8, <2>9, <2>10 DEF NewFacts
<1>5. CASE free # <<>>
  <2>1. /\ e \in 1 .. Len(entries) /\ e \in ToSet(free) /\ ToSet(fr) = ToSet(free) \ {e}
        /\ fr \in Seq(1 .. Len(entries)) /\ Distinct(fr)
    <3>1. e = Last(free) /\ fr = Front(free)
      BY <1>5 DEF NewEntry, FreeLeft
    <3>2. PICK s \in Seq(1 .. Len(entries)) : s = free /\ s # <<>> /\ Distinct(s)
      BY <1>1, <1>5
    <3>. QED BY <3>1, <3>2, PopFree
  <2>2. en = [entries EXCEPT ![e] = entry]
    BY <1>1, <2>1 DEF WithEntry
  <2>3. /\ en \in Seq(EntryRecord) /\ Len(en) = Len(entries) /\ DOMAIN en = DOMAIN entries
        /\ en[e] = entry /\ \A f \in DOMAIN entries : f # e => en[f] = entries[f]
    <3>1. entries \in Seq(EntryRecord) /\ entry \in EntryRecord /\ e \in 1 .. Len(entries)
      BY <1>1, <1>3, <2>1
    <3>. QED BY <2>2, <3>1
  <2>4. E = Entries \cup {e}
    BY <1>1, <2>1, <2>3 DEF Entries
  <2>5. e \in Nat \ {0} /\ e \notin Entries
    BY <1>1, <2>1 DEF Entries
  <2>6. fr \in Seq(1 .. Len(en))
    BY <2>1, <2>3
  <2>7. DOMAIN en = DOMAIN entries \cup {e}
    BY <1>1, <2>1, <2>3
  <2>. QED BY <1>3, <2>1, <2>3, <2>4, <2>5, <2>6, <2>7 DEF NewFacts
<1>. QED BY <1>4, <1>5

LEMMA InsertNewStep ==
  ASSUME HoldInv, NEW x \in Items, NEW b \in Buckets, releasing = NoRelease,
         IsEmpty(table, Found(table, Key[x])),
         InsertNew(x, b, Found(table, Key[x])), UNCHANGED releasing
  PROVE  /\ HoldInv' /\ Entries' = Entries \cup {NewEntry}
         /\ entries'[NewEntry].item = x /\ entries'[NewEntry].bucket = b
         /\ \A f \in Entries : entries'[f] = entries[f] /\ entries[f].key # Key[x]
<1>1. PICK slot : slot = Found(table, Key[x])
  OBVIOUS
<1>2. PICK e : e = NewEntry
  OBVIOUS
<1>3. PICK n \in Nat \ {0, 1} : n = Cap(table)
  BY DEF HoldInv, TableIsMap
<1>4. PICK k \in Keys : k = Key[x]
  BY HoldAssumption DEF HoldAssumption
<1>5. PICK c \in Nat : c = count /\ c = Cardinality(Entries) /\ 2 * c <= n
  <2>1. count = Cardinality(Entries) /\ 2 * count <= n /\ count \in Nat
    BY <1>3, PoolFacts, FS_CardinalityType DEF HoldInv, TableIsMap
  <2>. QED BY <2>1
<1>6. IsFiniteSet(Entries) /\ Entries \subseteq DOMAIN entries
  BY PoolFacts DEF HoldInv
<1>7. /\ entries' = WithEntry(e, EntryFor(x, b, e)) /\ free' = FreeLeft
      /\ count' = count + 1 /\ live' = [live EXCEPT ![b] = @ + 1]
      /\ Refer(b, e) /\ LowerIf(b)
      /\ UNCHANGED <<absorbed, emitted>>
  BY <1>2 DEF InsertNew, client, EntryFor, WithEntry, FreeLeft
<1>8. PICK en : en = entries'
  OBVIOUS
<1>9. PICK E : E = Entries'
  OBVIOUS
<1>11. PICK entry : entry = EntryFor(x, b, e)
  OBVIOUS
<1>10. /\ e \in Nat \ {0} /\ e \notin Entries /\ E = Entries \cup {e}
       /\ DOMAIN en = DOMAIN entries \cup {e} /\ en \in Seq(EntryRecord)
       /\ \A f \in DOMAIN entries : f # e => en[f] = entries[f]
       /\ en[e] = entry /\ entry.stamp \in Nat
       /\ (e \in DOMAIN entries => entries[e].stamp < entry.stamp)
       /\ free' \in Seq(1 .. Len(en)) /\ Distinct(free')
  <2>1. PoolOK
    BY DEF HoldInv
  <2>2. PICK fr : fr = free'
    OBVIOUS
  <2>3. en = WithEntry(e, entry) /\ fr = FreeLeft /\ E = DOMAIN en \ ToSet(fr)
    BY <1>7, <1>8, <1>9, <1>11, <2>2 DEF Entries
  <2>4. NewFacts(e, entry, en, fr, E)
    BY <1>2, <1>11, <2>1, <2>3, NewEntryIs, Zenon
  <2>. QED BY <2>2, <2>4 DEF NewFacts
<1>15. en[e].key = k /\ en[e].bucket = b /\ en[e].item = x /\ en[e].stamp = entry.stamp
  BY <1>4, <1>10, <1>11 DEF EntryFor
<1>12. \A f \in Entries : en[f] = entries[f]
  BY <1>6, <1>10
\* The probe ended at an empty slot, so no entry has the key.
<1>13. /\ TableOK(table, n, Entries, entries) /\ slot \in 0 .. n - 1 /\ slot \notin Full(table)
       /\ \A x2 \in 0 .. n - 1 : Passed(x2, Hash[k] % n, slot) => x2 \in Full(table)
       /\ \A f \in Entries : entries[f].key # k
  <2>1. TableOK(table, n, Entries, entries) /\ DistinctKeys(Entries, entries)
    BY <1>3 DEF HoldInv, TableIsMap, PoolOK
  <2>2. Cardinality(Entries) < n
    BY <1>5
  <2>3. slot \notin Full(table)
    BY <1>1 DEF Full
  <2>4. slot = Found(table, k)
    BY <1>1, <1>4
  <2>5. /\ slot \in 0 .. n - 1
        /\ \A f \in Entries : entries[f].key = k => slot \in Full(table)
        /\ (\A f \in Entries : entries[f].key # k) =>
             \A x2 \in 0 .. n - 1 : Passed(x2, Hash[k] % n, slot) => x2 \in Full(table)
    BY <1>6, <2>1, <2>2, <2>4, FoundIs
  <2>. QED BY <2>1, <2>3, <2>5
<1>14. PoolOK'
  <2>1. DistinctKeys(E, en)
    BY <1>10, <1>15, <1>12, <1>13 DEF DistinctKeys, HoldInv, PoolOK
  <2>2. \A f \in E : en[f].key = Key[en[f].item]
    BY <1>4, <1>10, <1>15, <1>12 DEF HoldInv, PoolOK
  <2>. QED BY <1>8, <1>9, <1>10, <2>1, <2>2 DEF PoolOK
<1>16. ListsOK(lists', en, E)
  <2>1. lists' = [lists EXCEPT ![b] = Append(@, [entry |-> e, stamp |-> en[e].stamp])]
    BY <1>7, <1>8 DEF Refer
  <2>2. PICK ls : ls = lists'
    OBVIOUS
  <2>3. \A f \in DOMAIN entries : entries[f].stamp \in Nat
    BY PoolFacts DEF HoldInv, EntryRecord
  <2>4. ls = [lists EXCEPT ![b] = Append(@, [entry |-> e, stamp |-> en[e].stamp])]
    BY <2>1, <2>2
  <2>5. ListsOK(lists, entries, Entries)
    BY DEF HoldInv
  <2>6. e \in Nat /\ en[e].stamp \in Nat /\ (e \in DOMAIN entries => entries[e].stamp < en[e].stamp)
    BY <1>10
  <2>7. ListsOK(ls, en, Entries \cup {e})
    BY <1>6, <1>10, <1>15, <2>3, <2>4, <2>5, <2>6, PushRef
  <2>. QED BY <1>10, <2>2, <2>7
<1>17. count' = c + 1 /\ IsFiniteSet(E) /\ Cardinality(E) = c + 1
  BY <1>5, <1>6, <1>7, <1>10, FS_AddElement
<1>18. LiveCounts(live', en, E)
  <2>1. PICK lv : lv = live'
    OBVIOUS
  <2>2. lv = [live EXCEPT ![b] = @ + 1]
    BY <1>7, <2>1
  <2>3. LiveCounts(live, entries, Entries) /\ e \notin Entries
    BY <1>10 DEF HoldInv
  <2>4. \A f \in Entries : en[f].bucket = entries[f].bucket
    BY <1>12
  <2>5. LiveCounts(lv, en, Entries \cup {e})
    BY <1>6, <1>15, <2>2, <2>3, <2>4, CountAdd
  <2>. QED BY <1>10, <2>1, <2>5
<1>19. TableIsMap'
  <2>1. PICK put : put = [table EXCEPT ![slot] = SlotFor(en, e)]
    OBVIOUS
  <2>2. table' = IF TooFull(count', Cap(put)) THEN Rebuilt(put, 2 * Cap(put)) ELSE put
    BY <1>1, <1>2, <1>4, <1>15, <2>1 DEF InsertNew, SlotFor
  <2>3. TableOK(table, n, Entries, en)
    BY <1>12, <1>13, SameKeys
  <2>4. TableOK(put, n, E, en)
    <3>2. \A y \in 0 .. n - 1 : Passed(y, Home(en, e, n), slot) => y \in Full(table)
      BY <1>13, <1>15 DEF Home
    <3>3. TableOK(put, n, Entries \cup {e}, en)
      BY <1>10, <1>13, <1>15, <2>1, <2>3, <3>2, PutSlot
    <3>. QED BY <1>10, <3>3
  <2>5. Cap(put) = n /\ DOMAIN put = 0 .. n - 1
    BY <2>4, CapIs DEF TableOK
  <2>6. CASE 2 * (c + 1) > n
    <3>1. PICK cap \in Nat : cap = 2 * n
      OBVIOUS
    <3>2. cap \in Nat \ {0, 1} /\ cap \in Nat \ {0} /\ c + 1 < cap /\ 2 * (c + 1) <= cap
      BY <1>5, <3>1
    <3>3. table' = Rebuilt(put, cap)
      BY <1>17, <2>2, <2>5, <2>6, <3>1 DEF TooFull
    <3>4. PICK t : t = table'
      OBVIOUS
    <3>5. Cardinality(E) < cap
      BY <1>17, <3>2
    <3>6. TableOK(Rebuilt(put, cap), cap, E, en)
      BY <1>8, <1>17, <2>4, <3>2, <3>5, RebuiltIs
    <3>7. TableOK(t, cap, E, en)
      BY <3>3, <3>4, <3>6
    <3>8. Cap(t) = cap
      BY <3>7, CapIs DEF TableOK
    <3>. QED BY <1>8, <1>9, <1>17, <3>2, <3>4, <3>7, <3>8 DEF TableIsMap
  <2>7. CASE ~(2 * (c + 1) > n)
    <3>1. table' = put
      BY <1>17, <2>2, <2>5, <2>7 DEF TooFull
    <3>2. 2 * (c + 1) <= n
      BY <2>7
    <3>. QED BY <1>8, <1>9, <1>17, <2>4, <2>5, <3>1, <3>2 DEF TableIsMap
  <2>. QED BY <2>6, <2>7
<1>20. lowest' \in 0 .. NumBuckets /\ Above(en, E, lowest')
  <2>1. PICK l \in 0 .. NumBuckets : l = lowest
    BY DEF HoldInv
  <2>2. b \in 0 .. NumBuckets - 1 /\ NumBuckets \in Nat
    BY HoldAssumption DEF HoldAssumption, Buckets
  <2>3. PICK l2 : l2 = lowest' /\ l2 = IF b < l THEN b ELSE l
    BY <1>7, <2>1 DEF LowerIf
  <2>4. l2 \in 0 .. NumBuckets /\ l2 <= b /\ l2 <= l
    BY <2>1, <2>2, <2>3
  <2>5. \A f \in Entries : entries[f].bucket \in Int /\ l <= entries[f].bucket
    BY <2>1, PoolFacts DEF HoldInv, Above, EntryRecord, Buckets
  <2>6. \A f \in Entries : l2 <= en[f].bucket
    BY <1>12, <2>1, <2>4, <2>5
  <2>7. \A f \in E : l2 <= en[f].bucket
    BY <1>10, <1>15, <2>4, <2>6
  <2>. QED BY <2>3, <2>4, <2>7 DEF Above
<1>21. HoldInv'
  BY <1>7, <1>8, <1>9, <1>14, <1>16, <1>18, <1>19, <1>20 DEF HoldInv, ReleaseOK
<1>. QED BY <1>2, <1>4, <1>8, <1>9, <1>10, <1>12, <1>13, <1>15, <1>21

(***************************************************************************)
(* Folding into the entry of a held key.                                   *)
(***************************************************************************)
LEMMA FoundEntry ==
  ASSUME HoldInv, NEW x \in Items, NEW slot, slot = Found(table, Key[x]),
         ~IsEmpty(table, slot), NEW e, e = table[slot].entry
  PROVE  e \in Entries /\ entries[e].key = Key[x]
<1>1. PICK n \in Nat \ {0, 1} : n = Cap(table)
  BY DEF HoldInv, TableIsMap
<1>2. PICK k \in Keys : k = Key[x]
  BY HoldAssumption DEF HoldAssumption
<1>3. PICK c \in Nat : c = Cardinality(Entries) /\ 2 * c <= n
  <2>1. Cardinality(Entries) \in Nat /\ 2 * Cardinality(Entries) <= n
    BY <1>1, PoolFacts, FS_CardinalityType DEF HoldInv, TableIsMap
  <2>. QED BY <2>1
<1>4. TableOK(table, n, Entries, entries) /\ DistinctKeys(Entries, entries)
  BY <1>1 DEF HoldInv, TableIsMap, PoolOK
<1>5. Cardinality(Entries) < n /\ IsFiniteSet(Entries)
  BY <1>3, PoolFacts DEF HoldInv
<1>6. /\ slot \in 0 .. n - 1
      /\ \A f \in Entries : entries[f].key = k =>
           slot \in Full(table) /\ table[slot] = SlotFor(entries, f)
      /\ (\A f \in Entries : entries[f].key # k) => slot \notin Full(table)
  <2>1. slot = Found(table, k)
    BY <1>2
  <2>. QED BY <1>4, <1>5, <2>1, FoundIs
<1>7. slot \in Full(table)
  BY <1>4, <1>6 DEF Full, TableOK
<1>8. PICK f \in Entries : entries[f].key = k
  BY <1>6, <1>7
<1>9. e = f
  <2>1. table[slot] = SlotFor(entries, f)
    BY <1>6, <1>8
  <2>2. SlotFor(entries, f).entry = f
    BY DEF SlotFor
  <2>. QED BY <2>1, <2>2
<1>. QED BY <1>2, <1>8, <1>9

\* Folds keep the key of the entry, and with it the table.
LEMMA FoldedPool ==
  ASSUME HoldInv, NEW x \in Items, NEW e \in Entries, entries[e].key = Key[x],
         NEW en \in Seq(EntryRecord), DOMAIN en = DOMAIN entries,
         \A f \in DOMAIN entries : f # e => en[f] = entries[f],
         en[e].key = entries[e].key, en[e].item = x, en = entries',
         UNCHANGED <<free, table, count>>
  PROVE  Entries' = Entries /\ PoolOK' /\ TableIsMap'
<1>1. Entries' = Entries
  BY DEF Entries
<1>2. \A f \in Entries : en[f].key = entries[f].key
  BY DEF Entries
<1>3. DistinctKeys(Entries, en)
  BY <1>2 DEF DistinctKeys, HoldInv, PoolOK
<1>4. \A f \in Entries : en[f].key = Key[en[f].item]
  <2>1. \A f \in Entries : f # e => en[f] = entries[f] /\ entries[f].key = Key[entries[f].item]
    BY DEF HoldInv, PoolOK, Entries
  <2>. QED BY <2>1
<1>5. free' \in Seq(1 .. Len(en)) /\ Distinct(free')
  <2>1. 1 .. Len(en) = 1 .. Len(entries)
    <3>1. DOMAIN entries = 1 .. Len(entries) /\ DOMAIN en = 1 .. Len(en)
      BY DEF HoldInv, PoolOK
    <3>. QED BY <3>1
  <2>. QED BY <2>1 DEF HoldInv, PoolOK
<1>6. PoolOK'
  BY <1>1, <1>3, <1>4, <1>5 DEF PoolOK
<1>7. TableIsMap'
  <2>1. TableOK(table, Cap(table), Entries, entries)
    BY DEF HoldInv, TableIsMap
  <2>2. PICK n : n = Cap(table)
    OBVIOUS
  <2>3. TableOK(table, n, Entries, en)
    BY <1>2, <2>1, <2>2, SameKeys
  <2>4. TableOK(table', Cap(table'), Entries', entries')
    BY <1>1, <2>2, <2>3
  <2>5. count' = Cardinality(Entries') /\ 2 * count' <= Cap(table') /\ Cap(table') \in Nat \ {0, 1}
    BY <1>1 DEF HoldInv, TableIsMap
  <2>. QED BY <2>4, <2>5 DEF TableIsMap
<1>. QED BY <1>1, <1>6, <1>7

LEMMA FoldKeepStep ==
  ASSUME HoldInv, NEW x \in Items, NEW e, FoldKeep(x, e),
         UNCHANGED <<free, table, count, emitted, releasing>>
  PROVE  HoldInv' /\ Entries' = Entries
<1>1. Entries' = Entries
  BY DEF FoldKeep, Entries
<1>2. entries' = entries /\ lists' = lists /\ live' = live /\ lowest' = lowest
  BY DEF FoldKeep
<1>3. PoolOK' /\ TableIsMap'
  BY <1>1, <1>2 DEF HoldInv, PoolOK, TableIsMap
<1>4. ReleaseOK'
  BY <1>1, <1>2 DEF HoldInv, ReleaseOK
<1>5. absorbed' \subseteq Items
  BY DEF FoldKeep, HoldInv
<1>. QED BY <1>1, <1>2, <1>3, <1>4, <1>5 DEF HoldInv

LEMMA FoldTakeStep ==
  ASSUME HoldInv, NEW x \in Items, NEW b \in Buckets, releasing = NoRelease,
         NEW e \in Entries, entries[e].key = Key[x],
         FoldTake(x, b, e), UNCHANGED <<free, table, count, emitted, releasing>>
  PROVE  /\ HoldInv' /\ Entries' = Entries /\ entries'[e].item = x /\ entries'[e].bucket = b
         /\ \A f \in Entries : f # e => entries'[f] = entries[f]
<1>1. /\ entries \in Seq(EntryRecord) /\ DOMAIN entries = 1 .. Len(entries) /\ Len(entries) \in Nat
      /\ e \in DOMAIN entries /\ Entries \subseteq DOMAIN entries /\ IsFiniteSet(Entries)
      /\ e \in Nat
  BY PoolFacts DEF HoldInv, PoolOK
<1>2. PICK r \in EntryRecord : r = entries[e]
  BY <1>1
<1>3. /\ r.key \in Keys /\ r.bucket \in Buckets /\ r.stamp \in Nat /\ r.item \in Items
      /\ r = [key |-> r.key, bucket |-> r.bucket, stamp |-> r.stamp, item |-> r.item]
  BY DEF EntryRecord
<1>4. absorbed' \subseteq Items
  BY <1>2, <1>3 DEF FoldTake, HoldInv
<1>5. PICK en : en = entries'
  OBVIOUS
<1>6. \A f \in DOMAIN entries : entries[f].stamp \in Nat
  BY PoolFacts DEF HoldInv, EntryRecord
<1>7. CASE b = entries[e].bucket /\ entries' = [entries EXCEPT ![e].item = x]
           /\ UNCHANGED <<lists, live, lowest>>
  <2>1. PICK q : q = [r EXCEPT !.item = x]
    OBVIOUS
  <2>2. q = [key |-> r.key, bucket |-> r.bucket, stamp |-> r.stamp, item |-> x]
    BY <1>3, <2>1
  <2>3. q \in EntryRecord /\ q.key = r.key /\ q.bucket = r.bucket /\ q.stamp = r.stamp /\ q.item = x
    BY <1>3, <2>2 DEF EntryRecord
  <2>4. en = [entries EXCEPT ![e] = q]
    BY <1>2, <1>5, <1>7, <2>1
  <2>5. /\ en \in Seq(EntryRecord) /\ DOMAIN en = DOMAIN entries /\ en[e] = q
        /\ \A f \in DOMAIN entries : f # e => en[f] = entries[f]
    BY <1>1, <2>3, <2>4
  <2>6. \A f \in DOMAIN entries : en[f].stamp = entries[f].stamp /\ en[f].bucket = entries[f].bucket
    BY <1>2, <2>3, <2>5
  <2>7. Entries' = Entries /\ PoolOK' /\ TableIsMap'
    <3>1. en[e].key = entries[e].key /\ en[e].item = x
      BY <1>2, <2>3, <2>5
    <3>. QED BY <1>5, <2>5, <3>1, FoldedPool
  <2>8. ListsOK(lists, en, Entries)
    BY <1>1, <2>5, <2>6, SameStamps DEF HoldInv
  <2>9. LiveCounts(live, en, Entries)
    <3>1. \A c \in Buckets : InBucket(en, Entries, c) = InBucket(entries, Entries, c)
      BY <1>1, <2>6 DEF InBucket
    <3>. QED BY <3>1 DEF HoldInv, LiveCounts
  <2>10. Above(en, Entries, lowest)
    BY <1>1, <2>6 DEF HoldInv, Above
  <2>11. lists' = lists /\ live' = live /\ lowest' = lowest
    BY <1>7
  <2>12. HoldInv'
    BY <1>4, <1>5, <2>7, <2>8, <2>9, <2>10, <2>11 DEF HoldInv, ReleaseOK
  <2>. QED BY <1>1, <1>2, <1>5, <1>7, <2>3, <2>5, <2>7, <2>12
<1>8. CASE /\ b # entries[e].bucket
           /\ entries' = [entries EXCEPT ![e].item = x, ![e].bucket = b,
                                         ![e].stamp = Restamp(e)]
           /\ live' = [live EXCEPT ![entries[e].bucket] = @ - 1, ![b] = @ + 1]
           /\ Refer(b, e) /\ LowerIf(b)
  <2>1. PICK st \in Nat : st = r.stamp + 1 /\ st = Restamp(e)
    BY <1>2, <1>3 DEF Restamp
  <2>2. PICK q : q = [[[r EXCEPT !.item = x] EXCEPT !.bucket = b] EXCEPT !.stamp = st]
    OBVIOUS
  <2>3. q = [key |-> r.key, bucket |-> b, stamp |-> st, item |-> x]
    BY <1>3, <2>2
  <2>4. q \in EntryRecord /\ q.key = r.key /\ q.bucket = b /\ q.stamp = st /\ q.item = x
    BY <1>3, <2>3 DEF EntryRecord
  <2>5. en = [entries EXCEPT ![e] = q]
    BY <1>1, <1>2, <1>5, <1>8, <2>1, <2>2
  <2>6. /\ en \in Seq(EntryRecord) /\ DOMAIN en = DOMAIN entries /\ en[e] = q
        /\ \A f \in DOMAIN entries : f # e => en[f] = entries[f]
    BY <1>1, <2>4, <2>5
  <2>7. Entries' = Entries /\ PoolOK' /\ TableIsMap'
    <3>1. en[e].key = entries[e].key /\ en[e].item = x
      BY <1>2, <2>4, <2>6
    <3>. QED BY <1>5, <2>6, <3>1, FoldedPool
  <2>8. en[e].stamp = st /\ en[e].bucket = b /\ entries[e].stamp < st
    BY <1>2, <1>3, <2>1, <2>4, <2>6
  <2>9. ListsOK(lists', en, Entries)
    <3>1. PICK ls : ls = lists'
      OBVIOUS
    <3>2. ls = [lists EXCEPT ![b] = Append(@, [entry |-> e, stamp |-> en[e].stamp])]
      BY <1>5, <1>8, <3>1 DEF Refer
    <3>3. ListsOK(lists, entries, Entries) /\ en[e].stamp \in Nat /\ entries[e].stamp < en[e].stamp
      BY <2>8 DEF HoldInv
    <3>4. DOMAIN en = DOMAIN entries \cup {e} /\ Entries \cup {e} = Entries
      BY <1>1, <2>6
    <3>5. ListsOK(ls, en, Entries \cup {e})
      BY <1>1, <1>6, <2>6, <2>8, <3>2, <3>3, <3>4, PushRef
    <3>. QED BY <3>1, <3>4, <3>5
  <2>10. LiveCounts(live', en, Entries)
    <3>1. PICK a \in Buckets : a = entries[e].bucket /\ a # b
      BY <1>2, <1>3, <1>8
    <3>2. LiveCounts(live, entries, Entries) /\ live \in [Buckets -> Nat]
      BY DEF HoldInv, LiveCounts
    <3>3. PICK lv1 : lv1 = [live EXCEPT ![a] = @ - 1]
      OBVIOUS
    <3>4. SameBuckets(entries, en, Entries \ {e})
      BY <1>1, <2>6 DEF SameBuckets
    <3>5. LiveCounts(lv1, en, Entries \ {e})
      BY <1>1, <3>1, <3>2, <3>3, <3>4, CountRemove
    <3>6. PICK lv2 : lv2 = [lv1 EXCEPT ![b] = @ + 1]
      OBVIOUS
    <3>7. IsFiniteSet(Entries \ {e}) /\ e \notin Entries \ {e}
      BY <1>1, FS_Subset
    <3>8. LiveCounts(lv2, en, (Entries \ {e}) \cup {e})
      BY <2>8, <3>5, <3>6, <3>7, CountAdd
    <3>9. (Entries \ {e}) \cup {e} = Entries
      OBVIOUS
    <3>10. live' = lv2
      BY <1>8, <3>1, <3>2, <3>3, <3>6
    <3>. QED BY <3>8, <3>9, <3>10
  <2>11. lowest' \in 0 .. NumBuckets /\ Above(en, Entries, lowest')
    <3>1. PICK l \in 0 .. NumBuckets : l = lowest
      BY DEF HoldInv
    <3>2. b \in 0 .. NumBuckets - 1 /\ NumBuckets \in Nat
      BY HoldAssumption DEF HoldAssumption, Buckets
    <3>3. PICK l2 : l2 = lowest' /\ l2 = IF b < l THEN b ELSE l
      BY <1>8, <3>1 DEF LowerIf
    <3>4. l2 \in 0 .. NumBuckets /\ l2 <= b /\ l2 <= l
      BY <3>1, <3>2, <3>3
    <3>5. \A f \in Entries : entries[f].bucket \in Int /\ l <= entries[f].bucket
      BY <3>1, PoolFacts DEF HoldInv, Above, EntryRecord, Buckets
    <3>6. \A f \in Entries : f # e => en[f] = entries[f]
      BY <1>1, <2>6
    <3>7. \A f \in Entries : f # e => l2 <= en[f].bucket
      BY <3>1, <3>4, <3>5, <3>6
    <3>8. \A f \in Entries : l2 <= en[f].bucket
      BY <2>8, <3>4, <3>7
    <3>. QED BY <3>3, <3>4, <3>8 DEF Above
  <2>12. HoldInv'
    BY <1>4, <1>5, <2>7, <2>9, <2>10, <2>11 DEF HoldInv, ReleaseOK
  <2>. QED BY <1>1, <1>5, <2>4, <2>6, <2>7, <2>12
<1>. QED BY <1>7, <1>8 DEF FoldTake

LEMMA InsertStep ==
  ASSUME HoldInv, NEW x \in Items, NEW b \in Buckets, Insert(x, b)
  PROVE  HoldInv'
<1>1. PICK slot : slot = Found(table, Key[x])
  OBVIOUS
<1>2. CASE IsEmpty(table, slot) /\ InsertNew(x, b, slot)
  BY <1>1, <1>2, InsertNewStep DEF Insert
<1>3. CASE /\ ~IsEmpty(table, slot)
           /\ FoldKeep(x, table[slot].entry) \/ FoldTake(x, b, table[slot].entry)
           /\ UNCHANGED <<free, table, count, emitted>>
  <2>1. PICK e : e = table[slot].entry
    OBVIOUS
  <2>2. e \in Entries /\ entries[e].key = Key[x]
    BY <1>1, <1>3, <2>1, FoundEntry
  <2>3. releasing = NoRelease /\ UNCHANGED releasing
    BY DEF Insert
  <2>4. CASE FoldKeep(x, e)
    BY <1>3, <2>3, <2>4, FoldKeepStep
  <2>5. CASE FoldTake(x, b, e)
    BY <1>3, <2>2, <2>3, <2>5, FoldTakeStep
  <2>. QED BY <1>3, <2>1, <2>4, <2>5
<1>. QED BY <1>1, <1>2, <1>3 DEF Insert

(***************************************************************************)
(* Releases.                                                               *)
(***************************************************************************)
LEMMA ReleaseStep ==
  ASSUME HoldInv, NEW high \in Highs, NEW limit \in Limits, Release(high, limit)
  PROVE  HoldInv'
<1>1. Entries' = Entries
  BY DEF Release, Entries
<1>2. high \in Nat /\ limit \in Nat /\ NumBuckets \in Nat \ {0}
  BY HoldAssumption DEF HoldAssumption
<1>3. /\ entries' = entries /\ free' = free /\ table' = table /\ lists' = lists /\ live' = live
      /\ lowest' = lowest /\ count' = count /\ absorbed' = absorbed /\ emitted' = emitted
  BY DEF Release, client
<1>4. PICK h \in 0 .. NumBuckets - 1 : h = IF high < NumBuckets THEN high ELSE NumBuckets - 1
  <2>1. (IF high < NumBuckets THEN high ELSE NumBuckets - 1) \in 0 .. NumBuckets - 1
    BY <1>2
  <2>. QED BY <2>1
<1>5. releasing' = [at |-> "bucket", bucket |-> lowest, limit |-> limit, high |-> h]
  BY <1>4 DEF Release
<1>6. lowest \in Nat /\ Above(entries, Entries, lowest)
  BY <1>2 DEF HoldInv
<1>7. ReleaseOK'
  BY <1>1, <1>2, <1>3, <1>5, <1>6 DEF ReleaseOK
<1>8. PoolOK' /\ TableIsMap'
  BY <1>1, <1>3 DEF HoldInv, PoolOK, TableIsMap
<1>. QED BY <1>1, <1>3, <1>7, <1>8 DEF HoldInv

\* What a release that goes on is at.
LEMMA ReleasingIs ==
  ASSUME HoldInv, releasing.at = "bucket"
  PROVE  /\ releasing # NoRelease /\ releasing.bucket \in Nat
         /\ releasing.high \in 0 .. NumBuckets - 1 /\ releasing.limit \in Nat
         /\ Above(entries, Entries, releasing.bucket)
         /\ MoreToTake => releasing.bucket \in Buckets
<1>1. releasing # NoRelease
  BY DEF NoRelease
<1>2. PICK r \in [at : {"bucket"}, bucket : Nat, high : 0 .. NumBuckets - 1, limit : Nat] : r = releasing
  BY <1>1 DEF HoldInv, ReleaseOK
<1>3. r.bucket \in Nat /\ r.high \in 0 .. NumBuckets - 1 /\ r.limit \in Nat
  OBVIOUS
<1>4. MoreToTake => r.bucket \in Buckets
  <2>1. NumBuckets \in Nat
    BY HoldAssumption DEF HoldAssumption
  <2>2. r.bucket <= r.high => r.bucket \in 0 .. NumBuckets - 1
    BY <1>3, <2>1
  <2>. QED BY <1>2, <2>2 DEF MoreToTake, Buckets
<1>. QED BY <1>1, <1>2, <1>3, <1>4 DEF HoldInv, ReleaseOK

LEMMA BucketDoneStep ==
  ASSUME HoldInv, ReleaseBucketDone
  PROVE  HoldInv'
<1>1. Entries' = Entries
  BY DEF ReleaseBucketDone, Entries
<1>2. /\ entries' = entries /\ free' = free /\ table' = table /\ lists' = lists /\ live' = live
      /\ lowest' = lowest /\ count' = count /\ absorbed' = absorbed /\ emitted' = emitted
  BY DEF ReleaseBucketDone, client
<1>3. releasing.at = "bucket" /\ MoreToTake /\ lists[releasing.bucket] = <<>>
  BY DEF ReleaseBucketDone
<1>4. PICK b \in Buckets : b = releasing.bucket /\ lists[b] = <<>>
  BY <1>3, ReleasingIs
<1>5. \A e \in Entries : entries[e].bucket # b
  <2>1. 1 .. Len(lists[b]) = {}
    BY <1>4
  <2>. QED BY <2>1 DEF HoldInv, ListsOK
<1>6. \A e \in Entries : b + 1 <= entries[e].bucket
  <2>1. \A e \in Entries : entries[e].bucket \in Int /\ b <= entries[e].bucket
    BY <1>3, <1>4, ReleasingIs, PoolFacts DEF HoldInv, Above, EntryRecord, Buckets
  <2>2. b \in Int
    BY DEF Buckets
  <2>. QED BY <1>5, <2>1, <2>2
<1>7. ReleaseOK'
  <2>1. PICK r \in [at : {"bucket"}, bucket : Nat, high : 0 .. NumBuckets - 1, limit : Nat] : r = releasing
    BY <1>3, ReleasingIs DEF HoldInv, ReleaseOK
  <2>2. b + 1 \in Nat
    BY DEF Buckets
  <2>3. releasing' = [r EXCEPT !.bucket = b + 1]
    BY <1>4, <2>1 DEF ReleaseBucketDone
  <2>4. /\ releasing' \in [at : {"bucket"}, bucket : Nat, high : 0 .. NumBuckets - 1, limit : Nat]
        /\ releasing'.bucket = b + 1
    BY <2>2, <2>3
  <2>. QED BY <1>1, <1>2, <1>6, <2>4 DEF ReleaseOK, Above
<1>8. PoolOK' /\ TableIsMap'
  BY <1>1, <1>2 DEF HoldInv, PoolOK, TableIsMap
<1>. QED BY <1>1, <1>2, <1>7, <1>8 DEF HoldInv

\* A reference of the bucket names its entry, or is stale.
LEMMA HeadIs ==
  ASSUME HoldInv, NEW b \in Buckets, lists[b] # <<>>, NEW ref, ref = Head(lists[b])
  PROVE  /\ Len(lists[b]) \in Nat /\ 1 \in 1 .. Len(lists[b]) /\ lists[b][1] = ref
         /\ ref.entry \in DOMAIN entries
         /\ Valid(ref) => ref.entry \in Entries /\ entries[ref.entry].bucket = b
<1>1. lists[b] \in Seq(Reference)
  BY DEF HoldInv, ListsOK
<1>2. PICK l \in Seq(Reference) : l = lists[b] /\ l # <<>>
  BY <1>1
<1>3. Len(l) \in Nat /\ 1 \in 1 .. Len(l) /\ l[1] = Head(l)
  BY <1>2, EmptySeq
<1>. QED BY <1>2, <1>3 DEF HoldInv, ListsOK, Valid, Current

LEMMA StaleStep ==
  ASSUME HoldInv, NEW b \in Buckets, releasing.bucket = b, releasing.at = "bucket",
         lists[b] # <<>>, ~Valid(Head(lists[b])), lists' = [lists EXCEPT ![b] = Tail(@)],
         UNCHANGED <<entries, free, table, live, count, releasing, client, lowest>>
  PROVE  HoldInv' /\ Entries' = Entries
<1>1. Entries' = Entries
  BY DEF Entries
<1>2. /\ entries' = entries /\ free' = free /\ table' = table /\ live' = live /\ releasing' = releasing
      /\ lowest' = lowest /\ count' = count /\ absorbed' = absorbed /\ emitted' = emitted
  BY DEF client
<1>3. PICK ls : ls = lists' /\ ls = [lists EXCEPT ![b] = Tail(@)]
  OBVIOUS
<1>4. ListsOK(ls, entries, Entries)
  BY <1>3, DropRef DEF HoldInv, Valid, Current
<1>5. PoolOK' /\ TableIsMap' /\ ReleaseOK'
  BY <1>1, <1>2 DEF HoldInv, PoolOK, TableIsMap, ReleaseOK
<1>. QED BY <1>1, <1>2, <1>3, <1>4, <1>5 DEF HoldInv

Leaves(b, e) ==
  /\ lists' = [lists EXCEPT ![b] = Tail(@)] /\ table' = Erased(table, e)
  /\ entries' = [entries EXCEPT ![e].stamp = Restamp(e)]
  /\ free' = Append(free, e) /\ count' = count - 1 /\ live' = [live EXCEPT ![b] = @ - 1]
  /\ releasing' = [releasing EXCEPT !.limit = @ - 1]
  /\ emitted' = emitted \cup {entries[e].item} /\ UNCHANGED <<absorbed, lowest>>

LEMMA EmitStep ==
  ASSUME HoldInv, NEW b \in Buckets, releasing.bucket = b, releasing.at = "bucket",
         MoreToTake, lists[b] # <<>>, NEW ref, ref = Head(lists[b]), Valid(ref),
         NEW e, e = ref.entry, Leaves(b, e)
  PROVE  /\ HoldInv' /\ Entries' = Entries \ {e} /\ e \in Entries /\ entries[e].bucket = b
         /\ \A f \in Entries : entries'[f].item = entries[f].item
                               /\ entries'[f].bucket = entries[f].bucket
<1>1. /\ entries \in Seq(EntryRecord) /\ DOMAIN entries = 1 .. Len(entries) /\ Len(entries) \in Nat
      /\ Entries \subseteq DOMAIN entries /\ IsFiniteSet(Entries)
      /\ free \in Seq(1 .. Len(entries)) /\ Distinct(free)
  BY PoolFacts DEF HoldInv, PoolOK
<1>2. e \in Entries /\ entries[e].bucket = b /\ lists[b][1] = ref /\ 1 \in 1 .. Len(lists[b])
  BY HeadIs
<1>3. e \in DOMAIN entries /\ e \in 1 .. Len(entries) /\ e \notin ToSet(free)
  BY <1>1, <1>2 DEF Entries
<1>4. PICK r \in EntryRecord : r = entries[e]
  BY <1>1, <1>3
<1>5. /\ r.key \in Keys /\ r.bucket \in Buckets /\ r.stamp \in Nat /\ r.item \in Items
      /\ r = [key |-> r.key, bucket |-> r.bucket, stamp |-> r.stamp, item |-> r.item]
  BY DEF EntryRecord
<1>6. PICK st \in Nat : st = r.stamp + 1 /\ st = Restamp(e)
  BY <1>4, <1>5 DEF Restamp
<1>7. PICK q : q = [r EXCEPT !.stamp = st]
  OBVIOUS
<1>8. q = [key |-> r.key, bucket |-> r.bucket, stamp |-> st, item |-> r.item]
  BY <1>5, <1>7
<1>9. q \in EntryRecord /\ q.key = r.key /\ q.bucket = r.bucket /\ q.stamp = st /\ q.item = r.item
  BY <1>5, <1>8 DEF EntryRecord
<1>10. PICK en : en = entries' /\ en = [entries EXCEPT ![e] = q]
  BY <1>3, <1>4, <1>6, <1>7 DEF Leaves
<1>11. /\ en \in Seq(EntryRecord) /\ DOMAIN en = DOMAIN entries /\ en[e] = q
       /\ Len(en) = Len(entries) /\ \A f \in DOMAIN entries : f # e => en[f] = entries[f]
  BY <1>1, <1>3, <1>9, <1>10
<1>12. \A f \in DOMAIN entries : /\ en[f].key = entries[f].key /\ en[f].bucket = entries[f].bucket
                                 /\ en[f].item = entries[f].item
  BY <1>4, <1>9, <1>11
<1>13. PICK E : E = Entries \ {e}
  OBVIOUS
<1>14. /\ free' \in Seq(1 .. Len(en)) /\ Distinct(free') /\ ToSet(free') = ToSet(free) \cup {e}
  <2>1. PICK s \in Seq(1 .. Len(entries)) : s = free /\ Distinct(s) /\ e \notin ToSet(s)
    BY <1>1, <1>3
  <2>2. /\ Append(s, e) \in Seq(1 .. Len(entries)) /\ Distinct(Append(s, e))
        /\ ToSet(Append(s, e)) = ToSet(s) \cup {e}
    BY <1>3, <2>1, PushFree
  <2>. QED BY <1>11, <2>1, <2>2 DEF Leaves
<1>15. Entries' = E
  BY <1>10, <1>11, <1>13, <1>14 DEF Entries
<1>16. PoolOK'
  <2>1. DistinctKeys(E, en)
    BY <1>1, <1>12, <1>13 DEF DistinctKeys, HoldInv, PoolOK
  <2>2. \A f \in E : en[f].key = Key[en[f].item]
    BY <1>1, <1>12, <1>13 DEF HoldInv, PoolOK
  <2>. QED BY <1>10, <1>11, <1>14, <1>15, <2>1, <2>2 DEF PoolOK
<1>17. IsFiniteSet(E) /\ Cardinality(E) = Cardinality(Entries) - 1
  BY <1>1, <1>2, <1>13, FS_RemoveElement
<1>18. TableIsMap'
  <2>1. PICK n \in Nat \ {0, 1} : n = Cap(table)
    BY DEF HoldInv, TableIsMap
  <2>2. PICK c \in Nat : c = count /\ c = Cardinality(Entries) /\ 2 * c <= n
    <3>1. Cardinality(Entries) \in Nat /\ count = Cardinality(Entries) /\ 2 * Cardinality(Entries) <= n
      BY <1>1, <2>1, FS_CardinalityType DEF HoldInv, TableIsMap
    <3>. QED BY <3>1
  <2>3. Cardinality(Entries) < n /\ 2 * (c - 1) <= n
    BY <2>2
  <2>4. TableOK(table, n, Entries, entries)
    BY <2>1 DEF HoldInv, TableIsMap
  <2>5. PICK t : t = table' /\ t = Erased(table, e)
    BY DEF Leaves
  <2>6. TableOK(t, n, E, entries)
    BY <1>1, <1>2, <1>13, <2>3, <2>4, <2>5, ErasedIs
  <2>7. \A f \in E : en[f].key = entries[f].key
    BY <1>1, <1>12, <1>13
  <2>8. TableOK(t, n, E, en)
    BY <2>6, <2>7, SameKeys
  <2>9. Cap(t) = n
    BY <2>8, CapIs DEF TableOK
  <2>10. count' = c - 1 /\ c - 1 = Cardinality(E)
    BY <1>17, <2>2 DEF Leaves
  <2>. QED BY <1>10, <1>15, <2>3, <2>5, <2>8, <2>9, <2>10 DEF TableIsMap
<1>19. ListsOK(lists', en, E)
  <2>1. ListsOK(lists, entries, Entries) /\ entries[e].stamp \in Nat /\ en[e].stamp \in Nat
        /\ entries[e].stamp < en[e].stamp
    BY <1>4, <1>5, <1>6, <1>9, <1>11 DEF HoldInv
  <2>2. /\ ListsOK(lists, en, E)
        /\ \A c \in Buckets : \A i \in 1 .. Len(lists[c]) :
             lists[c][i].entry = e => ~Current(en, lists[c][i])
    BY <1>1, <1>3, <1>11, <1>13, <2>1, Restamped, ZenonT(30)
  <2>3. ~Current(en, Head(lists[b]))
    BY <1>2, <2>2
  <2>4. PICK ls : ls = lists' /\ ls = [lists EXCEPT ![b] = Tail(@)]
    BY DEF Leaves
  <2>5. ListsOK(ls, en, E)
    BY <2>2, <2>3, <2>4, DropRef
  <2>. QED BY <2>4, <2>5
<1>20. LiveCounts(live', en, E)
  <2>1. PICK l : l = live /\ LiveCounts(l, entries, Entries)
    BY DEF HoldInv
  <2>2. PICK lv : lv = [l EXCEPT ![b] = @ - 1]
    OBVIOUS
  <2>3. SameBuckets(entries, en, Entries \ {e})
    BY <1>1, <1>12 DEF SameBuckets
  <2>4. e \in Entries /\ entries[e].bucket = b /\ IsFiniteSet(Entries)
    BY <1>1, <1>2
  <2>5. LiveCounts(lv, en, Entries \ {e})
    BY <2>1, <2>2, <2>3, <2>4, CountRemove
  <2>6. live' = lv
    BY <2>1, <2>2 DEF Leaves
  <2>. QED BY <1>13, <2>5, <2>6
<1>21. \A l : Above(entries, Entries, l) => Above(en, E, l)
  BY <1>1, <1>12, <1>13 DEF Above
<1>22. ReleaseOK'
  <2>1. PICK m \in [at : {"bucket"}, bucket : Nat, high : 0 .. NumBuckets - 1, limit : Nat] : m = releasing
    BY ReleasingIs DEF HoldInv, ReleaseOK
  <2>2. m.limit - 1 \in Nat
    BY <2>1 DEF MoreToTake
  <2>3. /\ releasing' \in [at : {"bucket"}, bucket : Nat, high : 0 .. NumBuckets - 1, limit : Nat]
        /\ releasing'.bucket = m.bucket
    BY <2>1, <2>2 DEF Leaves
  <2>4. Above(entries, Entries, m.bucket)
    BY <2>1, ReleasingIs
  <2>5. Above(en, E, m.bucket)
    BY <1>21, <2>4
  <2>6. Above(entries', Entries', releasing'.bucket)
    BY <1>10, <1>15, <2>3, <2>5
  <2>. QED BY <2>3, <2>6 DEF ReleaseOK
<1>23. emitted' \subseteq Items
  BY <1>4, <1>5 DEF HoldInv, Leaves
<1>24. lowest' \in 0 .. NumBuckets /\ Above(en, E, lowest')
  BY <1>21 DEF HoldInv, Leaves
<1>25. HoldInv'
  BY <1>10, <1>15, <1>16, <1>18, <1>19, <1>20, <1>22, <1>23, <1>24 DEF HoldInv, Leaves
<1>. QED BY <1>1, <1>2, <1>10, <1>12, <1>13, <1>15, <1>25

LEMMA SkippedIs ==
  ASSUME lowest \in 0 .. NumBuckets
  PROVE  \E m \in lowest .. NumBuckets :
           /\ Skipped = lowest .. m - 1 /\ lowest + Cardinality(Skipped) = m
           /\ \A c \in lowest .. m - 1 : live[c] = 0
<1>1. NumBuckets \in Nat
  BY HoldAssumption DEF HoldAssumption
<1>2. PICK l \in 0 .. NumBuckets : l = lowest
  OBVIOUS
<1>3. PICK S : S = {c \in l .. NumBuckets : c = NumBuckets \/ live[c] # 0}
  OBVIOUS
<1>4. S \subseteq Nat /\ NumBuckets \in S
  BY <1>1, <1>3
<1>5. PICK m \in S : \A c \in S : m <= c
  BY <1>4, LeastNumber
<1>6. m \in l .. NumBuckets
  BY <1>3
<1>7. \A c \in l .. m - 1 : live[c] = 0
  <2>1. ASSUME NEW c \in l .. m - 1, live[c] # 0 PROVE FALSE
    <3>1. c \in l .. NumBuckets /\ ~(m <= c)
      BY <1>1, <1>6
    <3>. QED BY <1>3, <1>5, <2>1, <3>1
  <2>. QED BY <2>1
<1>8. Skipped = l .. m - 1
  <2>1. ASSUME NEW c \in Skipped PROVE c \in l .. m - 1
    <3>1. c \in 0 .. NumBuckets - 1 /\ l <= c /\ \A d \in l .. c : live[d] = 0
      BY <1>2 DEF Skipped, Buckets
    <3>2. ~(m <= c)
      <4>1. ASSUME m <= c PROVE FALSE
        <5>1. m # NumBuckets /\ m \in l .. c
          BY <1>1, <1>6, <3>1, <4>1
        <5>. QED BY <1>3, <3>1, <5>1
      <4>. QED BY <4>1
    <3>. QED BY <1>6, <3>1, <3>2
  <2>2. ASSUME NEW c \in l .. m - 1 PROVE c \in Skipped
    <3>1. c \in 0 .. NumBuckets - 1 /\ l <= c
      BY <1>1, <1>6
    <3>2. \A d \in l .. c : d \in l .. m - 1
      BY <1>6
    <3>. QED BY <1>2, <1>7, <3>1, <3>2 DEF Skipped, Buckets
  <2>. QED BY <2>1, <2>2
<1>9. Cardinality(l .. m - 1) = m - l
  <2>1. l \in Int /\ m - 1 \in Int
    BY <1>6
  <2>2. Cardinality(l .. m - 1) = IF l > m - 1 THEN 0 ELSE (m - 1) - l + 1
    BY <2>1, FS_Interval
  <2>. QED BY <1>6, <2>2
<1>10. l + Cardinality(Skipped) = m
  BY <1>6, <1>8, <1>9
<1>. QED BY <1>2, <1>6, <1>7, <1>8, <1>10

LEMMA DoneStep ==
  ASSUME HoldInv, ReleaseDone
  PROVE  HoldInv' /\ Entries' = Entries
<1>1. Entries' = Entries
  BY DEF ReleaseDone, Entries
<1>2. /\ entries' = entries /\ free' = free /\ table' = table /\ live' = live
      /\ count' = count /\ absorbed' = absorbed /\ emitted' = emitted /\ releasing' = NoRelease
      /\ lowest' = lowest + Cardinality(Skipped)
      /\ lists' = [b \in Buckets |-> IF b \in Skipped THEN <<>> ELSE lists[b]]
  BY DEF ReleaseDone, client
<1>3. PICK l \in 0 .. NumBuckets : l = lowest
  BY DEF HoldInv
<1>4. PICK m \in l .. NumBuckets : /\ Skipped = l .. m - 1 /\ l + Cardinality(Skipped) = m
                                   /\ \A c \in l .. m - 1 : live[c] = 0
  BY <1>3, SkippedIs
<1>5. \A e \in Entries : entries[e].bucket \in 0 .. NumBuckets - 1 /\ l <= entries[e].bucket
  BY <1>3, PoolFacts DEF HoldInv, Above, EntryRecord, Buckets
<1>6. \A e \in Entries : live[entries[e].bucket] # 0
  <2>1. ASSUME NEW e \in Entries, live[entries[e].bucket] = 0 PROVE FALSE
    <3>1. PICK b \in Buckets : b = entries[e].bucket
      BY <1>5 DEF Buckets
    <3>2. Cardinality(InBucket(entries, Entries, b)) = 0 /\ IsFiniteSet(Entries)
      BY <2>1, <3>1, PoolFacts DEF HoldInv, LiveCounts
    <3>. QED BY <3>1, <3>2, CountIn
  <2>. QED BY <2>1
<1>7. \A e \in Entries : entries[e].bucket \notin Skipped
  BY <1>4, <1>6
<1>8. \A e \in Entries : m <= entries[e].bucket
  BY <1>3, <1>4, <1>5, <1>7
<1>9. PICK ls : ls = lists'
  OBVIOUS
<1>10. ListsOK(ls, entries, Entries)
  BY <1>2, <1>7, <1>9, ClearLists DEF HoldInv
<1>11. lowest' = m /\ m \in 0 .. NumBuckets
  BY <1>2, <1>3, <1>4
<1>12. PoolOK' /\ TableIsMap' /\ ReleaseOK'
  BY <1>1, <1>2 DEF HoldInv, PoolOK, TableIsMap, ReleaseOK
<1>. QED BY <1>1, <1>2, <1>8, <1>9, <1>10, <1>11, <1>12 DEF HoldInv, Above

LEMMA ReleaseRefStep ==
  ASSUME HoldInv, ReleaseRef
  PROVE  /\ HoldInv'
         /\ \/ /\ Entries' = Entries /\ UNCHANGED <<entries, absorbed, emitted>>
            \/ \E e \in Entries :
                 /\ Entries' = Entries \ {e} /\ Above(entries, Entries, entries[e].bucket)
                 /\ emitted' = emitted \cup {entries[e].item} /\ UNCHANGED absorbed
                 /\ \A f \in Entries : /\ entries'[f].item = entries[f].item
                                       /\ entries'[f].bucket = entries[f].bucket
<1>1. releasing.at = "bucket" /\ MoreToTake
  BY DEF ReleaseRef
<1>2. PICK b \in Buckets : b = releasing.bucket /\ Above(entries, Entries, b)
  BY <1>1, ReleasingIs
<1>3. PICK ref : ref = Head(lists[b])
  OBVIOUS
<1>4. PICK e : e = ref.entry
  OBVIOUS
<1>5. lists[b] # <<>> /\ lists' = [lists EXCEPT ![b] = Tail(@)] /\ UNCHANGED lowest
  BY <1>2 DEF ReleaseRef
<1>6. CASE ~Valid(ref) /\ UNCHANGED <<entries, free, table, live, count, releasing, client>>
  <2>1. HoldInv' /\ Entries' = Entries
    BY <1>1, <1>2, <1>3, <1>5, <1>6, StaleStep
  <2>. QED BY <1>6, <2>1 DEF client
<1>7. CASE Valid(ref) /\ Leaves(b, e)
  <2>1. /\ HoldInv' /\ Entries' = Entries \ {e} /\ e \in Entries /\ entries[e].bucket = b
        /\ \A f \in Entries : entries'[f].item = entries[f].item
                              /\ entries'[f].bucket = entries[f].bucket
    BY <1>1, <1>2, <1>3, <1>4, <1>5, <1>7, EmitStep
  <2>2. emitted' = emitted \cup {entries[e].item} /\ UNCHANGED absorbed
    BY <1>7 DEF Leaves
  <2>. QED BY <1>2, <2>1, <2>2
<1>8. \/ ~Valid(ref) /\ UNCHANGED <<entries, free, table, live, count, releasing, client>>
      \/ Valid(ref) /\ Leaves(b, e)
  BY <1>2, <1>3, <1>4, <1>5 DEF ReleaseRef, Leaves
<1>. QED BY <1>6, <1>7, <1>8

LEMMA NextHoldInv == HoldInv /\ [Next]_vars => HoldInv'
<1>. SUFFICES ASSUME HoldInv, [Next]_vars PROVE HoldInv'
  OBVIOUS
<1>1. CASE UNCHANGED vars
  <2>1. /\ entries' = entries /\ free' = free /\ table' = table /\ lists' = lists /\ live' = live
        /\ lowest' = lowest /\ count' = count /\ releasing' = releasing
        /\ absorbed' = absorbed /\ emitted' = emitted
    BY <1>1 DEF vars, client
  <2>2. Entries' = Entries
    BY <2>1 DEF Entries
  <2>. QED BY <2>1, <2>2 DEF HoldInv, PoolOK, TableIsMap, ReleaseOK
<1>2. ASSUME NEW x \in Items, NEW b \in Buckets, Insert(x, b) PROVE HoldInv'
  BY <1>2, InsertStep
<1>3. ASSUME NEW high \in Highs, NEW limit \in Limits, Release(high, limit) PROVE HoldInv'
  BY <1>3, ReleaseStep
<1>4. CASE ReleaseRef
  BY <1>4, ReleaseRefStep
<1>5. CASE ReleaseBucketDone
  BY <1>5, BucketDoneStep
<1>6. CASE ReleaseDone
  BY <1>6, DoneStep
<1>. QED BY <1>1, <1>2, <1>3, <1>4, <1>5, <1>6 DEF Next

\* The pool, the table, the lists and the counters keep saying the same of
\* the same entries, whatever is inserted, folded and released, in every
\* order (CombinedDestinationHold).
THEOREM HoldInvariant == Spec => []HoldInv
<1>. QED BY HoldInit, NextHoldInv, PTL DEF Spec

(***************************************************************************)
(* What it says of the hold.                                               *)
(***************************************************************************)

\* Every variable has its type: every reference in a list is to an entry of
\* the pool, and what is free is part of the pool.
THEOREM HoldTypes == Spec => []TypeOK
<1>1. ASSUME HoldInv PROVE TypeOK
  <2>1. entries \in Seq([key : Keys, bucket : Buckets, stamp : Nat, item : Items])
    BY <1>1 DEF HoldInv, PoolOK, EntryRecord
  <2>2. ToSet(free) \subseteq DOMAIN entries
    BY <1>1, PoolFacts DEF HoldInv
  <2>3. DOMAIN table = 0 .. Cap(table) - 1
    BY <1>1 DEF HoldInv, TableIsMap, TableOK
  <2>4. lists \in [Buckets -> Seq([entry : DOMAIN entries, stamp : Nat])]
    <3>1. lists \in [Buckets -> Seq(Reference)]
      BY <1>1 DEF HoldInv, ListsOK
    <3>2. ASSUME NEW b \in Buckets
          PROVE  lists[b] \in Seq([entry : DOMAIN entries, stamp : Nat])
      <4>1. PICK l \in Seq(Reference) : l = lists[b]
        BY <3>1
      <4>2. \A i \in 1 .. Len(l) : l[i] \in Reference /\ l[i].entry \in DOMAIN entries
        BY <1>1, <4>1 DEF HoldInv, ListsOK
      <4>3. \A i \in 1 .. Len(l) : l[i] \in [entry : DOMAIN entries, stamp : Nat]
        BY <4>2 DEF Reference
      <4>4. PICK T : T = [entry : DOMAIN entries, stamp : Nat]
        OBVIOUS
      <4>5. \A i \in 1 .. Len(l) : l[i] \in T
        BY <4>3, <4>4
      <4>6. Len(l) \in Nat /\ l = [i \in 1 .. Len(l) |-> l[i]]
        OBVIOUS
      <4>7. l \in Seq(T)
        BY <4>5, <4>6
      <4>. QED BY <4>1, <4>4, <4>7
    <3>. QED BY <3>1, <3>2
  <2>5. live \in [Buckets -> Nat] /\ lowest \in 0 .. NumBuckets
    BY <1>1 DEF HoldInv, LiveCounts
  <2>6. count \in Nat
    BY <1>1, PoolFacts, FS_CardinalityType DEF HoldInv, TableIsMap
  <2>. QED BY <1>1, <2>1, <2>2, <2>3, <2>4, <2>5, <2>6 DEF TypeOK, HoldInv
<1>. QED BY <1>1, HoldInvariant, PTL

\* A lookup of a held key ends at its entry, through collisions, wrap-arounds,
\* backward shifts and rebuilds, and the table is never more than half full
\* (insert, erase and rebuild of htram_combine.h).
THEOREM LookupsAreRight == Spec => []TableFindsEveryKey
<1>1. ASSUME HoldInv PROVE TableFindsEveryKey
  <2>1. PICK n \in Nat \ {0, 1} : n = Cap(table)
    BY <1>1 DEF HoldInv, TableIsMap
  <2>2. PICK c \in Nat : c = count /\ c = Cardinality(Entries) /\ 2 * c <= n
    <3>1. Cardinality(Entries) \in Nat /\ count = Cardinality(Entries)
          /\ 2 * Cardinality(Entries) <= n
      BY <1>1, <2>1, PoolFacts, FS_CardinalityType DEF HoldInv, TableIsMap
    <3>. QED BY <3>1
  <2>3. Cardinality(Entries) < n /\ IsFiniteSet(Entries)
    BY <1>1, <2>2, PoolFacts DEF HoldInv
  <2>4. TableOK(table, n, Entries, entries) /\ DistinctKeys(Entries, entries)
    BY <1>1, <2>1 DEF HoldInv, TableIsMap, PoolOK
  <2>5. ASSUME NEW e \in Entries
        PROVE  table[Found(table, entries[e].key)]
                 = [entry |-> e, tag |-> Tag[entries[e].key]]
    <3>1. PICK k \in Keys : k = entries[e].key
      BY <2>4 DEF TableOK
    <3>2. PICK p : p = Found(table, k)
      OBVIOUS
    <3>3. table[p] = SlotFor(entries, e)
      BY <2>3, <2>4, <3>1, <3>2, FoundIs
    <3>. QED BY <3>1, <3>2, <3>3 DEF SlotFor
  <2>6. Cardinality(Full(table)) = c
    BY <2>2, <2>3, <2>4, FullCount
  <2>7. ~TooFull(count, Cap(table))
    BY <2>1, <2>2 DEF TooFull
  <2>. QED BY <2>2, <2>5, <2>6, <2>7 DEF TableFindsEveryKey, Full
<1>. QED BY <1>1, HoldInvariant, PTL

\* The references that count are to the held entries, one each, and live
\* counts them: an old reference of an entry that left, moved or was used
\* again never counts.
THEOREM ReferencesAreRight == Spec => []RefsAreExact
<1>1. ASSUME HoldInv, NEW b \in Buckets
      PROVE  /\ {lists[b][i].entry : i \in ValidRefs(b)}
                  = {e \in Entries : entries[e].bucket = b}
             /\ live[b] = Cardinality(ValidRefs(b))
  <2>1. lists[b] \in Seq(Reference)
    BY <1>1 DEF HoldInv, ListsOK
  <2>2. DOMAIN lists[b] = 1 .. Len(lists[b]) /\ Len(lists[b]) \in Nat
    BY <2>1
  <2>3. \A i : i \in ValidRefs(b) <=>
          i \in 1 .. Len(lists[b]) /\ Current(entries, lists[b][i])
    BY <2>2 DEF ValidRefs, Valid, Current
  <2>4. PICK R : R = ValidRefs(b)
    OBVIOUS
  <2>5. PICK B : B = InBucket(entries, Entries, b)
    OBVIOUS
  <2>6. PICK f : f = [i \in R |-> lists[b][i].entry]
    OBVIOUS
  <2>7. \A i \in R : f[i] \in B
    BY <1>1, <2>3, <2>4, <2>5, <2>6 DEF HoldInv, ListsOK, InBucket
  <2>8. \A e \in B : \E i \in R : f[i] = e
    <3>1. ASSUME NEW e \in B PROVE \E i \in R : f[i] = e
      <4>1. e \in Entries /\ entries[e].bucket = b
        BY <2>5 DEF InBucket
      <4>2. PICK i \in 1 .. Len(lists[b]) : lists[b][i].entry = e /\ Current(entries, lists[b][i])
        BY <1>1, <4>1 DEF HoldInv, ListsOK
      <4>. QED BY <2>3, <2>4, <2>6, <4>2
    <3>. QED BY <3>1
  <2>9. \A i, j \in R : f[i] = f[j] => i = j
    <3>1. ASSUME NEW i \in R, NEW j \in R, f[i] = f[j] PROVE i = j
      <4>1. Twins(entries, lists[b][i], lists[b][j])
        BY <2>3, <2>4, <2>6, <3>1 DEF Twins
      <4>2. i \in 1 .. Len(lists[b]) /\ j \in 1 .. Len(lists[b])
        BY <2>3, <2>4
      <4>. QED BY <1>1, <4>1, <4>2 DEF HoldInv, ListsOK
    <3>. QED BY <3>1
  <2>10. {lists[b][i].entry : i \in R} = B
    BY <2>6, <2>7, <2>8
  <2>11. f \in Bijection(R, B)
    BY <2>6, <2>7, <2>8, <2>9 DEF Bijection, Injection, Surjection, IsInjective
  <2>12. IsFiniteSet(R)
    <3>1. R \subseteq 1 .. Len(lists[b]) /\ IsFiniteSet(1 .. Len(lists[b]))
      BY <2>2, <2>3, <2>4, FS_Interval
    <3>. QED BY <3>1, FS_Subset
  <2>13. Cardinality(R) = Cardinality(B)
    BY <2>11, <2>12, FS_Bijection DEF ExistsBijection
  <2>14. live[b] = Cardinality(B)
    BY <1>1, <2>5 DEF HoldInv, LiveCounts
  <2>. QED BY <2>4, <2>5, <2>10, <2>13, <2>14 DEF InBucket
<1>2. HoldInv => RefsAreExact
  BY <1>1 DEF RefsAreExact
<1>. QED BY <1>2, HoldInvariant, PTL

\* No held entry is below lowest (htram_combine.h:249): a release looks at
\* every bucket that has one.
THEOREM LowestIsRight == Spec => []LowestIsSound
<1>1. HoldInv => LowestIsSound
  BY DEF HoldInv, Above, LowestIsSound
<1>. QED BY <1>1, HoldInvariant, PTL

\* A release that comes back below its limit has left nothing at or below
\* its threshold (release of htram_combine.h).
THEOREM ReleasesAreComplete == Spec => ReleaseComplete
<1>1. ASSUME HoldInv, [Next]_vars, releasing # NoRelease, releasing' = NoRelease
      PROVE  releasing.limit = 0 \/ \A e \in Entries : entries[e].bucket > releasing.high
  <2>1. PICK r \in [at : {"bucket"}, bucket : Nat, high : 0 .. NumBuckets - 1, limit : Nat] :
          r = releasing
    BY <1>1 DEF HoldInv, ReleaseOK
  <2>2. r.at = "bucket" /\ r.bucket \in Nat /\ r.high \in 0 .. NumBuckets - 1 /\ r.limit \in Nat
    OBVIOUS
  <2>3. ReleaseDone
    <3>1. ~(UNCHANGED vars)
      BY <1>1 DEF vars
    <3>2. \A x \in Items, b \in Buckets : ~Insert(x, b)
      BY <1>1 DEF Insert
    <3>3. \A high \in Highs, limit \in Limits : ~Release(high, limit)
      BY <1>1 DEF Release
    <3>4. ~ReleaseRef
      <4>1. ASSUME ReleaseRef PROVE FALSE
        <5>1. releasing' = releasing \/ releasing' = [releasing EXCEPT !.limit = @ - 1]
          BY <4>1 DEF ReleaseRef
        <5>2. releasing'.at = "bucket"
          BY <2>1, <2>2, <5>1
        <5>. QED BY <1>1, <5>2 DEF NoRelease
      <4>. QED BY <4>1
    <3>5. ~ReleaseBucketDone
      <4>1. ASSUME ReleaseBucketDone PROVE FALSE
        <5>1. releasing' = [releasing EXCEPT !.bucket = @ + 1]
          BY <4>1 DEF ReleaseBucketDone
        <5>2. releasing'.at = "bucket"
          BY <2>1, <2>2, <5>1
        <5>. QED BY <1>1, <5>2 DEF NoRelease
      <4>. QED BY <4>1
    <3>. QED BY <1>1, <3>1, <3>2, <3>3, <3>4, <3>5 DEF Next
  <2>4. r.bucket > r.high \/ r.limit = 0
    BY <2>1, <2>2, <2>3 DEF ReleaseDone, MoreToTake
  <2>5. \A e \in Entries : entries[e].bucket \in Int /\ r.bucket <= entries[e].bucket
    BY <1>1, <2>1, PoolFacts DEF HoldInv, ReleaseOK, Above, EntryRecord, Buckets
  <2>6. CASE r.limit = 0
    BY <2>1, <2>6
  <2>7. CASE r.bucket > r.high
    <3>1. \A e \in Entries : entries[e].bucket > r.high
      BY <2>2, <2>5, <2>7
    <3>. QED BY <2>1, <3>1
  <2>. QED BY <2>4, <2>6, <2>7
<1>2. HoldInv /\ [Next]_vars =>
        [releasing # NoRelease /\ releasing' = NoRelease =>
           releasing.limit = 0 \/ \A e \in Entries : entries[e].bucket > releasing.high]_vars
  BY <1>1
<1>. QED BY <1>2, HoldInvariant, PTL DEF Spec, ReleaseComplete

(***************************************************************************)
(* CombiningHold implements HoldService: what is held are the items of the *)
(* entries in use, with their buckets.                                     *)
(***************************************************************************)
Rec(en, e) == [item |-> en[e].item, bucket |-> en[e].bucket]
Held(en, E) == {Rec(en, e) : e \in E}

LEMMA RecIs ==
  ASSUME HoldInv
  PROVE  /\ \A e \in Entries : /\ Rec(entries, e).item = entries[e].item
                               /\ Rec(entries, e).bucket = entries[e].bucket
                               /\ Key[entries[e].item] = entries[e].key
                               /\ Rec(entries, e) \in Held(entries, Entries)
         /\ \A e, f \in Entries : Rec(entries, e) = Rec(entries, f) => e = f
         /\ \A r \in Held(entries, Entries) : \E e \in Entries : r = Rec(entries, e)
<1>1. \A e \in Entries : /\ Rec(entries, e).item = entries[e].item
                         /\ Rec(entries, e).bucket = entries[e].bucket
                         /\ Key[entries[e].item] = entries[e].key
  BY DEF Rec, HoldInv, PoolOK
<1>2. ASSUME NEW e \in Entries, NEW f \in Entries, Rec(entries, e) = Rec(entries, f)
      PROVE  e = f
  <2>1. entries[e].item = entries[f].item
    BY <1>1, <1>2
  <2>2. entries[e].key = entries[f].key
    BY <1>1, <2>1
  <2>. QED BY <2>2 DEF HoldInv, PoolOK, DistinctKeys
<1>3. /\ \A e \in Entries : Rec(entries, e) \in Held(entries, Entries)
      /\ \A r \in Held(entries, Entries) : \E e \in Entries : r = Rec(entries, e)
  BY DEF Held
<1>. QED BY <1>1, <1>2, <1>3

LEMMA SeenIs ==
  ASSUME HoldInv, NEW x \in Items, x \notin Known
  PROVE  x \in Items \ ({r.item : r \in Held(entries, Entries)} \cup absorbed \cup emitted)
<1>1. \A r \in Held(entries, Entries) : r.item \in Known
  BY RecIs DEF Known
<1>. QED BY <1>1 DEF Known

\* The steps of the service, for what is held before and after.
InsertedTo(h, x, b) ==
  /\ \A r \in Held(entries, Entries) : Key[r.item] # Key[x]
  /\ h = Held(entries, Entries) \cup {[item |-> x, bucket |-> b]}
  /\ UNCHANGED <<absorbed, emitted>>

FoldedTo(h, x, b, r) ==
  /\ Key[r.item] = Key[x]
  /\ \/ absorbed' = absorbed \cup {x} /\ h = Held(entries, Entries)
     \/ /\ absorbed' = absorbed \cup {r.item}
        /\ h = (Held(entries, Entries) \ {r}) \cup {[item |-> x, bucket |-> b]}
  /\ UNCHANGED emitted

EmittedTo(h, r) ==
  /\ \A q \in Held(entries, Entries) : r.bucket <= q.bucket
  /\ h = Held(entries, Entries) \ {r}
  /\ emitted' = emitted \cup {r.item}
  /\ UNCHANGED absorbed

LEMMA InsertMaps ==
  ASSUME HoldInv, NEW x \in Items, NEW b \in Buckets, Insert(x, b),
         NEW h, h = Held(entries', Entries')
  PROVE  \/ InsertedTo(h, x, b)
         \/ \E r \in Held(entries, Entries) : FoldedTo(h, x, b, r)
<1>1. PICK slot : slot = Found(table, Key[x])
  OBVIOUS
<1>2. releasing = NoRelease /\ UNCHANGED releasing
  BY DEF Insert
<1>3. CASE IsEmpty(table, slot) /\ InsertNew(x, b, slot)
  <2>1. PICK en : en = entries'
    OBVIOUS
  <2>2. PICK e : e = NewEntry
    OBVIOUS
  <2>3. /\ Entries' = Entries \cup {e} /\ en[e].item = x /\ en[e].bucket = b
        /\ \A f \in Entries : en[f] = entries[f] /\ entries[f].key # Key[x]
    BY <1>1, <1>2, <1>3, <2>1, <2>2, InsertNewStep
  <2>4. Rec(en, e) = [item |-> x, bucket |-> b] /\ \A f \in Entries : Rec(en, f) = Rec(entries, f)
    BY <2>3 DEF Rec
  <2>5. h = Held(en, Entries \cup {e})
    BY <2>1, <2>3
  <2>6. h = Held(entries, Entries) \cup {[item |-> x, bucket |-> b]}
    BY <2>4, <2>5 DEF Held
  <2>7. \A r \in Held(entries, Entries) : Key[r.item] # Key[x]
    <3>1. ASSUME NEW r \in Held(entries, Entries) PROVE Key[r.item] # Key[x]
      <4>1. PICK f \in Entries : r = Rec(entries, f)
        BY RecIs
      <4>2. r.item = entries[f].item /\ Key[entries[f].item] = entries[f].key
        BY <4>1, RecIs
      <4>. QED BY <2>3, <4>2
    <3>. QED BY <3>1
  <2>8. UNCHANGED <<absorbed, emitted>>
    BY <1>3 DEF InsertNew, client
  <2>. QED BY <2>6, <2>7, <2>8 DEF InsertedTo
<1>4. CASE /\ ~IsEmpty(table, slot)
           /\ FoldKeep(x, table[slot].entry) \/ FoldTake(x, b, table[slot].entry)
           /\ UNCHANGED <<free, table, count, emitted>>
  <2>1. PICK e : e = table[slot].entry
    OBVIOUS
  <2>2. e \in Entries /\ entries[e].key = Key[x]
    BY <1>1, <1>4, <2>1, FoundEntry
  <2>3. PICK r : r = Rec(entries, e)
    OBVIOUS
  <2>4. r \in Held(entries, Entries) /\ r.item = entries[e].item /\ Key[r.item] = Key[x]
    BY <2>2, <2>3, RecIs
  <2>5. CASE FoldKeep(x, e)
    <3>1. Entries' = Entries /\ entries' = entries
      BY <1>2, <1>4, <2>5, FoldKeepStep DEF FoldKeep
    <3>2. h = Held(entries, Entries) /\ absorbed' = absorbed \cup {x}
      BY <2>5, <3>1 DEF FoldKeep
    <3>3. FoldedTo(h, x, b, r)
      BY <1>4, <2>4, <3>2 DEF FoldedTo
    <3>. QED BY <2>4, <3>3
  <2>6. CASE FoldTake(x, b, e)
    <3>1. PICK en : en = entries'
      OBVIOUS
    <3>2. /\ Entries' = Entries /\ en[e].item = x /\ en[e].bucket = b
          /\ \A f \in Entries : f # e => en[f] = entries[f]
      BY <1>2, <1>4, <2>2, <2>6, <3>1, FoldTakeStep
    <3>3. /\ Rec(en, e) = [item |-> x, bucket |-> b]
          /\ \A f \in Entries : f # e => Rec(en, f) = Rec(entries, f)
      BY <3>2 DEF Rec
    <3>4. h = Held(en, Entries)
      BY <3>1, <3>2
    <3>5. \A f \in Entries : f # e => Rec(entries, f) # r
      BY <2>2, <2>3, RecIs
    <3>6. h = (Held(entries, Entries) \ {r}) \cup {[item |-> x, bucket |-> b]}
      BY <2>2, <2>3, <3>3, <3>4, <3>5 DEF Held
    <3>7. absorbed' = absorbed \cup {r.item}
      BY <2>4, <2>6 DEF FoldTake
    <3>8. FoldedTo(h, x, b, r)
      BY <1>4, <2>4, <3>6, <3>7 DEF FoldedTo
    <3>. QED BY <2>4, <3>8
  <2>. QED BY <1>4, <2>1, <2>5, <2>6
<1>. QED BY <1>1, <1>3, <1>4 DEF Insert

LEMMA ReleaseMaps ==
  ASSUME HoldInv, ReleaseRef, NEW h, h = Held(entries', Entries')
  PROVE  \/ h = Held(entries, Entries) /\ UNCHANGED <<absorbed, emitted>>
         \/ \E r \in Held(entries, Entries) : EmittedTo(h, r)
<1>1. CASE Entries' = Entries /\ UNCHANGED <<entries, absorbed, emitted>>
  BY <1>1
<1>2. ASSUME NEW e \in Entries, Entries' = Entries \ {e},
             Above(entries, Entries, entries[e].bucket),
             emitted' = emitted \cup {entries[e].item}, UNCHANGED absorbed,
             \A f \in Entries : /\ entries'[f].item = entries[f].item
                                /\ entries'[f].bucket = entries[f].bucket
      PROVE  \E r \in Held(entries, Entries) : EmittedTo(h, r)
  <2>1. PICK r : r = Rec(entries, e)
    OBVIOUS
  <2>2. r \in Held(entries, Entries) /\ r.item = entries[e].item /\ r.bucket = entries[e].bucket
    BY <2>1, RecIs
  <2>3. PICK en : en = entries'
    OBVIOUS
  <2>4. \A f \in Entries : Rec(en, f) = Rec(entries, f)
    BY <1>2, <2>3 DEF Rec
  <2>5. h = Held(en, Entries \ {e})
    BY <1>2, <2>3
  <2>6. \A f \in Entries : f # e => Rec(entries, f) # r
    BY <2>1, RecIs
  <2>7. h = Held(entries, Entries) \ {r}
    BY <2>1, <2>4, <2>5, <2>6 DEF Held
  <2>8. \A q \in Held(entries, Entries) : r.bucket <= q.bucket
    <3>1. ASSUME NEW q \in Held(entries, Entries) PROVE r.bucket <= q.bucket
      <4>1. PICK f \in Entries : q = Rec(entries, f)
        BY RecIs
      <4>2. q.bucket = entries[f].bucket
        BY <4>1, RecIs
      <4>. QED BY <1>2, <2>2, <4>2 DEF Above
    <3>. QED BY <3>1
  <2>9. EmittedTo(h, r)
    BY <1>2, <2>2, <2>7, <2>8 DEF EmittedTo
  <2>. QED BY <2>2, <2>9
<1>. QED BY <1>1, <1>2, ReleaseRefStep

\* The hold is a map from keys to items: every insert is one of the service,
\* a fold absorbs exactly one of the two items, what leaves is in the lowest
\* bucket that has one, and everything else changes nothing that a client
\* can see (CombinedDestinationHold).
THEOREM HoldServiceRefinement == Spec => ImplementsHoldService
<1>. DEFINE H == {[item |-> entries[e].item, bucket |-> entries[e].bucket] : e \in Entries}
<1>1. H = Held(entries, Entries) /\ H' = Held(entries', Entries')
  BY DEF Held, Rec
<1>2. Init => Service!Init
  <2>. SUFFICES ASSUME Init PROVE Service!Init
    OBVIOUS
  <2>1. Entries = {}
    BY DEF Init, Entries
  <2>. QED BY <2>1 DEF Init, Service!Init
<1>3. ASSUME HoldInv, [Next]_vars PROVE [Service!Next]_<<H, absorbed, emitted>>
  <2>1. PICK h : h = Held(entries', Entries')
    OBVIOUS
  <2>2. H' = h
    BY <1>1, <2>1
  <2>3. H = Held(entries, Entries)
    BY <1>1
  <2>. HIDE DEF H
  <2>4. ASSUME NEW x \in Items, NEW b \in Buckets, Insert(x, b) PROVE Service!Next
    <3>1. x \in Items \ ({r.item : r \in H} \cup absorbed \cup emitted)
      BY <1>3, <2>3, <2>4, SeenIs DEF Insert
    <3>2. CASE InsertedTo(h, x, b)
      <4>1. Service!Insert(x, b)
        BY <2>2, <2>3, <3>2 DEF InsertedTo, Service!Insert, H
      <4>. QED BY <3>1, <4>1 DEF Service!Next, Service!Seen, H
    <3>3. ASSUME NEW r \in Held(entries, Entries), FoldedTo(h, x, b, r) PROVE Service!Next
      <4>1. Service!Fold(x, b)
        BY <2>2, <2>3, <3>3 DEF FoldedTo, Service!Fold, H
      <4>. QED BY <3>1, <4>1 DEF Service!Next, Service!Seen, H
    <3>. QED BY <1>3, <2>1, <2>4, <3>2, <3>3, InsertMaps
  <2>5. CASE ReleaseRef
    <3>1. CASE h = Held(entries, Entries) /\ UNCHANGED <<absorbed, emitted>>
      BY <2>2, <2>3, <3>1
    <3>2. ASSUME NEW r \in Held(entries, Entries), EmittedTo(h, r) PROVE Service!Next
      <4>1. Service!Emit(r)
        BY <2>2, <2>3, <3>2 DEF EmittedTo, Service!Emit, H
      <4>. QED BY <2>3, <4>1 DEF Service!Next, H
    <3>. QED BY <1>3, <2>1, <2>5, <3>1, <3>2, ReleaseMaps
  <2>6. ASSUME UNCHANGED <<entries, free, absorbed, emitted>>
        PROVE  UNCHANGED <<H, absorbed, emitted>>
    BY <2>6 DEF H, Entries
  <2>7. ASSUME NEW high \in Highs, NEW limit \in Limits, Release(high, limit)
        PROVE  UNCHANGED <<H, absorbed, emitted>>
    BY <2>6, <2>7 DEF Release, client
  <2>8. CASE ReleaseBucketDone \/ ReleaseDone
    BY <2>6, <2>8 DEF ReleaseBucketDone, ReleaseDone, client
  <2>9. CASE UNCHANGED vars
    BY <2>6, <2>9 DEF vars, client
  <2>. QED BY <1>3, <2>4, <2>5, <2>7, <2>8, <2>9 DEF Next
<1>4. HoldInv /\ [Next]_vars => [Service!Next]_<<H, absorbed, emitted>>
  BY <1>3
<1>. QED BY <1>2, <1>4, HoldInvariant, PTL DEF Spec, ImplementsHoldService, Service!Spec, Service!vars
=============================================================================
