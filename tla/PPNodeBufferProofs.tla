------------------------- MODULE PPNodeBufferProofs -------------------------
(***************************************************************************)
(* The buffer the PEs of a node share, for any number of threads and every *)
(* size that is a multiple of LOCAL_BUFSIZE: one owner, no hole, and no    *)
(* item lost or sent twice.                                                *)
(*                                                                         *)
(* The argument counts reservations.  While the buffer is open, get_idx is *)
(* what has been counted plus LOCAL_BUFSIZE for each thread that copies or *)
(* has yet to count; who closes it finds the same sum in its own slot.  So *)
(* a full count and a finished wait both mean that nobody copies.          *)
(***************************************************************************)
EXTENDS PPNodeBuffer, FiniteSetTheorems, TLAPS

\* The constants of a node: claim_ppsize shows what other sizes do.
Fits ==
  /\ IsFiniteSet(Threads)
  /\ bufSize % LOCAL_BUFSIZE = 0
  /\ Hole \notin Items

L == LOCAL_BUFSIZE

LEMMA SizeTypes ==
  L \in Nat /\ 0 < L /\ bufSize \in Nat /\ 0 < bufSize /\ LOCAL_BUFSIZE = L
BY PPAssumption DEF PPAssumption, L

LEMMA Sizes ==
  ASSUME Fits
  PROVE  /\ L \in Nat /\ 0 < L /\ bufSize \in Nat /\ 0 < bufSize /\ L <= bufSize
         /\ \A n \in Nat : L * (n + 1) = L * n + L
         /\ \A n \in Nat : 0 <= L * n /\ (n > 0 => L <= L * n)
         /\ \A n \in Nat : L * n < bufSize => L * n + L <= bufSize
         /\ L * 0 = 0
<1>1. L \in Nat /\ 0 < L /\ bufSize \in Nat /\ 0 < bufSize
  BY PPAssumption DEF PPAssumption, L
<1>2. \A n \in Nat : L * (n + 1) = L * n + L /\ L * n \in Nat
  BY <1>1
<1>3. \A n \in Nat : n > 0 => L <= L * n
  BY <1>1
<1>. DEFINE q == bufSize \div L
<1>4. q \in Nat /\ bufSize = L * q
  BY <1>1 DEF Fits, L
<1>5. ASSUME NEW n \in Nat, L * n < bufSize PROVE L * n + L <= bufSize
  <2>1. n < q
    <3>1. ASSUME q <= n PROVE FALSE
      <4>1. L * q <= L * n
        BY <1>1, <1>4, <3>1
      <4>. QED BY <1>1, <1>2, <1>4, <1>5, <4>1
    <3>. QED BY <1>4, <3>1
  <2>2. n + 1 <= q /\ L * (n + 1) <= L * q
    BY <1>1, <1>4, <2>1
  <2>. QED BY <1>2, <1>4, <2>2
<1>6. q # 0 /\ L <= L * q
  <2>1. q # 0
    BY <1>1, <1>4
  <2>. QED BY <1>3, <1>4, <2>1
<1>. QED BY <1>1, <1>2, <1>3, <1>4, <1>5, <1>6

(***************************************************************************)
(* What the shared variables mean.                                         *)
(***************************************************************************)
\* The threads that copy or have yet to count, and those that ship.
CopySet(p) == {t \in Threads : p[t] \in {"copy", "count"}}
OwnerSet(p) == {t \in Threads : p[t] \in {"lastMail", "await", "collect", "ship",
                                          "clearCount", "reopen"}}
Reservations(p) == L * Cardinality(CopySet(p))

\* The slots below n are written, or reserved by a thread that will write
\* them; no two threads have the same; nothing is written above.
Writes(p, s, t, i) == p[t] = "copy" /\ s[t] <= i /\ i < s[t] + L
Written(p, s, b, n) ==
  /\ \A i \in Slots : n <= i => b[i] = Hole
  /\ \A i \in Slots : i < n => (b[i] = Hole <=> \E t \in Threads : Writes(p, s, t, i))
  /\ \A t \in Threads : p[t] = "copy" => s[t] + L <= n
  /\ \A t, u \in Threads : p[t] = "copy" /\ p[u] = "copy" /\ t # u
                             => s[t] + L <= s[u] \/ s[u] + L <= s[t]

Opened(p, s, g, d, b) ==
  /\ OwnerSet(p) = {}
  /\ g = d + Reservations(p) /\ g <= bufSize /\ d < bufSize
  /\ \E k \in Nat : g = L * k
  /\ Written(p, s, b, g)

OwnedBy(p, s, g, d, b, o) ==
  /\ OwnerSet(p) = {o} /\ bufSize <= g /\ s[o] <= bufSize
  /\ p[o] # "await" => CopySet(p) = {}
  /\ p[o] = "await" => s[o] = d + Reservations(p) /\ s[o] < bufSize
  /\ p[o] \in {"await", "lastMail", "collect", "ship"} => Written(p, s, b, s[o])
  /\ p[o] \in {"clearCount", "reopen"} => Written(p, s, b, 0)
  /\ p[o] = "reopen" => d = 0

Phase(p, s, g, d, b) ==
  \/ Opened(p, s, g, d, b)
  \/ \E o \in Threads : OwnedBy(p, s, g, d, b, o)

Places == {"idle", "reserve", "copy", "count", "mail", "lastMail", "peek",
           "claim", "await", "collect", "ship", "clearCount", "reopen"}

PPTypes ==
  /\ pc \in [Threads -> Places]
  /\ local_buf \in [Threads -> Seq(Items)]
  /\ slot \in [Threads -> Nat]
  /\ get_idx \in Nat /\ done_count \in Nat
  /\ msgBuffer \in [Slots -> Items \cup {Hole}]

\* A local buffer is full when it is copied, and empty after.
Locals ==
  \A t \in Threads :
    /\ Len(local_buf[t]) <= L
    /\ pc[t] = "idle" => Len(local_buf[t]) < L
    /\ pc[t] \in {"reserve", "copy"} => Len(local_buf[t]) = L
    /\ pc[t] \notin {"idle", "reserve", "copy"} => local_buf[t] = <<>>

\* An item is in one place.
Disjoint ==
  \A t \in Threads :
    /\ Range(local_buf[t]) \cap Range(msgBuffer) = {}
    /\ \A u \in Threads : t # u => Range(local_buf[t]) \cap Range(local_buf[u]) = {}

PPInv ==
  /\ PPTypes /\ Locals /\ Disjoint
  /\ Phase(pc, slot, get_idx, done_count, msgBuffer)

(***************************************************************************)
(* Threads that come to copy and leave.                                    *)
(***************************************************************************)
LEMMA CopyFinite ==
  ASSUME Fits, NEW p
  PROVE  /\ IsFiniteSet(CopySet(p)) /\ Cardinality(CopySet(p)) \in Nat
         /\ Reservations(p) \in Nat
         /\ CopySet(p) = {} <=> Reservations(p) = 0
<1>1. IsFiniteSet(CopySet(p)) /\ Cardinality(CopySet(p)) \in Nat
  <2>1. CopySet(p) \subseteq Threads
    BY DEF CopySet
  <2>. QED BY <2>1, FS_Subset, FS_CardinalityType DEF Fits
<1>2. Cardinality(CopySet(p)) = 0 <=> CopySet(p) = {}
  BY <1>1, FS_EmptySet
<1>3. L \in Nat /\ 0 < L
  BY SizeTypes
<1>. DEFINE n == Cardinality(CopySet(p))
<1>4. L * n \in Nat /\ (n > 0 => L <= L * n) /\ L * 0 = 0
  BY <1>1, Sizes, <1>3
<1>. QED BY <1>1, <1>2, <1>3, <1>4 DEF Reservations

LEMMA CopyStarts ==
  ASSUME Fits, NEW p, NEW p2, NEW t \in Threads,
         t \notin CopySet(p), CopySet(p2) = CopySet(p) \cup {t}
  PROVE  Reservations(p2) = Reservations(p) + L
<1>1. Cardinality(CopySet(p2)) = Cardinality(CopySet(p)) + 1
  BY CopyFinite, FS_AddElement
<1>2. \A n \in Nat : L * (n + 1) = L * n + L
  BY Sizes
<1>3. Cardinality(CopySet(p)) \in Nat
  BY CopyFinite
<1>. QED BY <1>1, <1>2, <1>3 DEF Reservations

LEMMA CopyEnds ==
  ASSUME Fits, NEW p, NEW p2, NEW t \in Threads,
         t \in CopySet(p), CopySet(p2) = CopySet(p) \ {t}
  PROVE  Reservations(p) = Reservations(p2) + L
<1>1. t \notin CopySet(p2) /\ CopySet(p) = CopySet(p2) \cup {t}
  OBVIOUS
<1>. QED BY <1>1, CopyStarts

\* Thread t moves from a to c, and may change its slot; the others stay.
Moves(p, s, t, a, c, p2, s2) ==
  /\ p[t] = a /\ p2[t] = c
  /\ \A u \in Threads \ {t} : p2[u] = p[u] /\ s2[u] = s[u]

LEMMA WrittenKept ==
  ASSUME NEW p, NEW s, NEW b, NEW p2, NEW s2,
         \A u \in Threads : p[u] = "copy" \/ p2[u] = "copy"
                              => p2[u] = p[u] /\ s2[u] = s[u],
         NEW n, Written(p, s, b, n)
  PROVE  Written(p2, s2, b, n)
<1>1. \A i \in Slots, u \in Threads : Writes(p2, s2, u, i) <=> Writes(p, s, u, i)
  BY DEF Writes
<1>. QED BY <1>1 DEF Written

Quiet == {"idle", "reserve", "mail", "peek", "claim"}

LEMMA QuietSteps ==
  ASSUME NEW p, NEW s, NEW g, NEW d, NEW b, NEW t \in Threads, NEW p2, NEW s2,
         NEW a \in Quiet, NEW c \in Quiet, Moves(p, s, t, a, c, p2, s2),
         Phase(p, s, g, d, b)
  PROVE  Phase(p2, s2, g, d, b)
<1>1. /\ \A u \in Threads : u # t => p2[u] = p[u] /\ s2[u] = s[u]
      /\ p[t] \in Quiet /\ p2[t] \in Quiet
  BY DEF Moves
<1>2. CopySet(p2) = CopySet(p) /\ OwnerSet(p2) = OwnerSet(p)
  BY <1>1 DEF CopySet, OwnerSet, Quiet
<1>3. Reservations(p2) = Reservations(p)
  BY <1>2 DEF Reservations
<1>4. \A u \in Threads : p[u] = "copy" \/ p2[u] = "copy" => p2[u] = p[u] /\ s2[u] = s[u]
  BY <1>1 DEF Quiet
<1>5. ASSUME NEW n, Written(p, s, b, n) PROVE Written(p2, s2, b, n)
  BY <1>4, <1>5, WrittenKept
<1>6. CASE Opened(p, s, g, d, b)
  BY <1>2, <1>3, <1>5, <1>6 DEF Phase, Opened
<1>7. ASSUME NEW o \in Threads, OwnedBy(p, s, g, d, b, o)
      PROVE  OwnedBy(p2, s2, g, d, b, o)
  <2>1. o \in OwnerSet(p)
    BY <1>7 DEF OwnedBy
  <2>2. p2[o] = p[o] /\ s2[o] = s[o]
    BY <1>1, <2>1 DEF OwnerSet, Quiet
  <2>. QED BY <1>2, <1>3, <1>5, <1>7, <2>2 DEF OwnedBy
<1>. QED BY <1>6, <1>7 DEF Phase

\* A thread with a full buffer reserves the slots from get_idx on.
LEMMA ReserveSlots ==
  ASSUME Fits, NEW p, NEW s, NEW g \in Nat, NEW d \in Nat, NEW b, NEW t \in Threads,
         NEW p2, NEW s2, Moves(p, s, t, "reserve", "copy", p2, s2),
         g < bufSize, s2[t] = g, Phase(p, s, g, d, b),
         b \in [Slots -> Items \cup {Hole}], s \in [Threads -> Nat]
  PROVE  Phase(p2, s2, g + L, d, b)
<1>1. /\ \A u \in Threads : u # t => p2[u] = p[u] /\ s2[u] = s[u]
      /\ p[t] = "reserve" /\ p2[t] = "copy"
  BY DEF Moves
<1>2. Opened(p, s, g, d, b)
  BY SizeTypes DEF Phase, OwnedBy
<1>3. OwnerSet(p2) = {} /\ t \notin CopySet(p) /\ CopySet(p2) = CopySet(p) \cup {t}
  BY <1>1, <1>2 DEF CopySet, OwnerSet, Opened
<1>4. g + L = d + Reservations(p2)
  <2>1. Reservations(p2) = Reservations(p) + L
    BY <1>3, CopyStarts
  <2>2. Reservations(p) \in Nat /\ L \in Nat
    BY CopyFinite, SizeTypes
  <2>. QED BY <1>2, <2>1, <2>2 DEF Opened
<1>5. PICK k \in Nat : g = L * k
  BY <1>2 DEF Opened
<1>6. g + L <= bufSize /\ g + L = L * (k + 1) /\ k + 1 \in Nat
  <2>1. /\ L * (k + 1) = L * k + L
        /\ L * k < bufSize => L * k + L <= bufSize
    BY Sizes
  <2>. QED BY <1>5, <2>1
<1>7. Written(p2, s2, b, g + L)
  <2>1. Written(p, s, b, g)
    BY <1>2 DEF Opened
  <2>2. \A u \in Threads \ {t} : p2[u] = "copy" => s2[u] + L <= g /\ s2[u] \in Nat
    BY <1>1, <2>1 DEF Written
  <2>3. \A i \in Slots : g + L <= i => b[i] = Hole
    BY <2>1, SizeTypes DEF Written, Slots
  <2>4. ASSUME NEW i \in Slots, i < g + L
        PROVE  b[i] = Hole <=> \E u \in Threads : Writes(p2, s2, u, i)
    <3>1. i \in Nat
      BY SizeTypes DEF Slots, L
    <3>2. CASE i < g
      <4>1. \A u \in Threads : Writes(p2, s2, u, i) <=> Writes(p, s, u, i)
        BY <1>1, <3>1, <3>2 DEF Writes
      <4>. QED BY <2>1, <3>2, <4>1 DEF Written
    <3>3. CASE g <= i
      <4>1. Writes(p2, s2, t, i)
        BY <1>1, <2>4, <3>3 DEF Writes
      <4>. QED BY <2>1, <3>3, <4>1 DEF Written
    <3>. QED BY <3>1, <3>2, <3>3
  <2>5. \A u \in Threads : p2[u] = "copy" => s2[u] + L <= g + L
    <3>1. L \in Nat
      BY SizeTypes
    <3>2. ASSUME NEW u \in Threads, p2[u] = "copy" PROVE s2[u] + L <= g + L
      <4>1. CASE u = t
        BY <3>1, <4>1
      <4>2. CASE u # t
        BY <2>2, <3>1, <3>2, <4>2
      <4>. QED BY <4>1, <4>2
    <3>. QED BY <3>2
  <2>6. \A u, v \in Threads : p2[u] = "copy" /\ p2[v] = "copy" /\ u # v
                               => s2[u] + L <= s2[v] \/ s2[v] + L <= s2[u]
    BY <1>1, <2>1, <2>2 DEF Written
  <2>. QED BY <2>3, <2>4, <2>5, <2>6 DEF Written
<1>. QED BY <1>2, <1>3, <1>4, <1>6, <1>7 DEF Phase, Opened

\* It writes them; the others' slots stay as they are.
LEMMA CopySlots ==
  ASSUME NEW p, NEW s, NEW g, NEW d, NEW b, NEW t \in Threads,
         NEW p2, Moves(p, s, t, "copy", "count", p2, s), s \in [Threads -> Nat],
         NEW b2, L \in Nat, Slots \subseteq Nat,
         \A i \in Slots : IF Writes(p, s, t, i) THEN b2[i] # Hole ELSE b2[i] = b[i],
         Phase(p, s, g, d, b)
  PROVE  Phase(p2, s, g, d, b2)
<1>1. /\ \A u \in Threads : u # t => p2[u] = p[u]
      /\ p[t] = "copy" /\ p2[t] = "count"
  BY DEF Moves
<1>2. CopySet(p2) = CopySet(p) /\ OwnerSet(p2) = OwnerSet(p)
  BY <1>1 DEF CopySet, OwnerSet
<1>3. Reservations(p2) = Reservations(p)
  BY <1>2 DEF Reservations
<1>4. ASSUME NEW n \in Nat, Written(p, s, b, n) PROVE Written(p2, s, b2, n)
  <2>1. s[t] + L <= n
    BY <1>1, <1>4 DEF Written
  <2>2. ASSUME NEW i \in Slots, n <= i PROVE b2[i] = Hole
    <3>1. ~Writes(p, s, t, i)
      <4>1. i \in Nat /\ s[t] \in Nat
        OBVIOUS
      <4>. QED BY <2>1, <2>2, <4>1 DEF Writes
    <3>. QED BY <1>4, <2>2, <3>1 DEF Written
  <2>3. ASSUME NEW i \in Slots, i < n
        PROVE  b2[i] = Hole <=> \E u \in Threads : Writes(p2, s, u, i)
    <3>1. CASE Writes(p, s, t, i)
      <4>1. ASSUME NEW u \in Threads PROVE ~Writes(p2, s, u, i)
        <5>1. CASE u = t
          BY <1>1, <5>1 DEF Writes
        <5>2. CASE u # t /\ p2[u] = "copy"
          <6>1. s[u] + L <= s[t] \/ s[t] + L <= s[u]
            BY <1>1, <1>4, <5>2 DEF Written
          <6>. QED BY <3>1, <6>1 DEF Writes
        <5>. QED BY <5>1, <5>2 DEF Writes
      <4>. QED BY <3>1, <4>1
    <3>2. CASE ~Writes(p, s, t, i)
      <4>1. \A u \in Threads : Writes(p2, s, u, i) <=> Writes(p, s, u, i)
        BY <1>1, <3>2 DEF Writes
      <4>. QED BY <1>4, <2>3, <3>2, <4>1 DEF Written
    <3>. QED BY <3>1, <3>2
  <2>4. /\ \A u \in Threads : p2[u] = "copy" => s[u] + L <= n
        /\ \A u, v \in Threads : p2[u] = "copy" /\ p2[v] = "copy" /\ u # v
                                  => s[u] + L <= s[v] \/ s[v] + L <= s[u]
    BY <1>1, <1>4 DEF Written
  <2>. QED BY <2>2, <2>3, <2>4 DEF Written
<1>5. CASE Opened(p, s, g, d, b) /\ g \in Nat
  BY <1>2, <1>3, <1>4, <1>5 DEF Phase, Opened
<1>6. ASSUME NEW o \in Threads, OwnedBy(p, s, g, d, b, o)
      PROVE  OwnedBy(p2, s, g, d, b2, o)
  <2>1. o \in OwnerSet(p) /\ p2[o] = p[o]
    BY <1>1, <1>6 DEF OwnedBy, OwnerSet
  <2>2. t \in CopySet(p) /\ p[o] = "await"
    BY <1>1, <1>6 DEF CopySet, OwnedBy
  <2>. QED BY <1>2, <1>3, <1>4, <1>6, <2>1, <2>2 DEF OwnedBy
<1>7. Opened(p, s, g, d, b) => g \in Nat
  <2>1. \A k \in Nat : L * k \in Nat
    OBVIOUS
  <2>. QED BY <2>1 DEF Opened
<1>. QED BY <1>5, <1>6, <1>7 DEF Phase

\* It counts them, and owns the buffer if that makes the count full.
LEMMA CountSlots ==
  ASSUME Fits, NEW p, NEW s, NEW g \in Nat, NEW d \in Nat, NEW b, NEW t \in Threads,
         NEW p2, NEW s2, NEW c, Moves(p, s, t, "count", c, p2, s2),
         IF d + L = bufSize THEN c = "lastMail" /\ s2[t] = bufSize ELSE c = "mail",
         Phase(p, s, g, d, b)
  PROVE  Phase(p2, s2, g, d + L, b)
<1>1. /\ \A u \in Threads : u # t => p2[u] = p[u] /\ s2[u] = s[u]
      /\ p[t] = "count" /\ p2[t] = c /\ c \in {"lastMail", "mail"}
  BY DEF Moves
<1>2. /\ t \in CopySet(p) /\ CopySet(p2) = CopySet(p) \ {t}
      /\ c = "mail" => OwnerSet(p2) = OwnerSet(p)
      /\ c = "lastMail" => OwnerSet(p2) = OwnerSet(p) \cup {t}
  BY <1>1 DEF CopySet, OwnerSet
<1>3. Reservations(p) = Reservations(p2) + L
  BY <1>2, CopyEnds
<1>4. /\ Reservations(p2) \in Nat /\ L \in Nat /\ bufSize \in Nat
      /\ CopySet(p2) = {} <=> Reservations(p2) = 0
  BY CopyFinite, SizeTypes
<1>5. \A n : Written(p, s, b, n) => Written(p2, s2, b, n)
  BY <1>1, WrittenKept
<1>6. CASE Opened(p, s, g, d, b)
  <2>1. /\ g = d + L + Reservations(p2) /\ g <= bufSize /\ OwnerSet(p) = {}
        /\ Written(p2, s2, b, g) /\ \E k \in Nat : g = L * k
    BY <1>3, <1>4, <1>5, <1>6 DEF Opened
  <2>2. CASE d + L = bufSize
    <3>1. g = bufSize /\ CopySet(p2) = {} /\ c = "lastMail" /\ s2[t] = bufSize
      BY <1>4, <2>1, <2>2
    <3>2. OwnedBy(p2, s2, g, d + L, b, t)
      BY <1>1, <1>2, <1>4, <2>1, <3>1 DEF OwnedBy
    <3>. QED BY <3>2 DEF Phase
  <2>3. CASE d + L # bufSize
    <3>1. d + L < bufSize /\ c = "mail"
      BY <1>4, <2>1, <2>3
    <3>. QED BY <1>2, <2>1, <3>1 DEF Phase, Opened
  <2>. QED BY <2>2, <2>3
<1>7. ASSUME NEW o \in Threads, OwnedBy(p, s, g, d, b, o)
      PROVE  OwnedBy(p2, s2, g, d + L, b, o)
  <2>1. o \in OwnerSet(p) /\ p[o] = "await"
    BY <1>2, <1>7 DEF OwnedBy
  <2>2. o # t /\ p2[o] = "await" /\ s2[o] = s[o]
    BY <1>1, <2>1
  <2>3. s[o] = d + L + Reservations(p2) /\ s[o] < bufSize
    BY <1>3, <1>4, <1>7, <2>1 DEF OwnedBy
  <2>4. c = "mail"
    BY <1>4, <2>3
  <2>. QED BY <1>2, <1>5, <1>7, <2>1, <2>2, <2>3, <2>4 DEF OwnedBy
<1>. QED BY <1>6, <1>7 DEF Phase

\* A flush closes the open buffer and owns it.
LEMMA ClaimBuffer ==
  ASSUME Fits, NEW p, NEW s, NEW g \in Nat, NEW d \in Nat, NEW b, NEW t \in Threads,
         NEW p2, NEW s2, Moves(p, s, t, "claim", "await", p2, s2),
         g < bufSize, s2[t] = g, Phase(p, s, g, d, b)
  PROVE  Phase(p2, s2, g + bufSize, d, b)
<1>1. /\ \A u \in Threads : u # t => p2[u] = p[u] /\ s2[u] = s[u]
      /\ p[t] = "claim" /\ p2[t] = "await"
  BY DEF Moves
<1>2. bufSize \in Nat
  BY SizeTypes
<1>3. Opened(p, s, g, d, b)
  BY <1>2 DEF Phase, OwnedBy
<1>4. CopySet(p2) = CopySet(p) /\ OwnerSet(p2) = {t}
  BY <1>1, <1>3 DEF CopySet, OwnerSet, Opened
<1>5. Reservations(p2) = Reservations(p)
  BY <1>4 DEF Reservations
<1>6. Written(p2, s2, b, g)
  BY <1>1, <1>3, WrittenKept DEF Opened
<1>7. OwnedBy(p2, s2, g + bufSize, d, b, t)
  BY <1>1, <1>2, <1>3, <1>4, <1>5, <1>6 DEF OwnedBy, Opened
<1>. QED BY <1>7 DEF Phase

\* Nobody else owns what t owns.
Owning == {"lastMail", "await", "collect", "ship", "clearCount", "reopen"}

LEMMA OwnerIs ==
  ASSUME NEW p, NEW s, NEW g, NEW d, NEW b, NEW t \in Threads, p[t] \in Owning,
         Phase(p, s, g, d, b)
  PROVE  OwnedBy(p, s, g, d, b, t)
<1>1. t \in OwnerSet(p)
  BY DEF OwnerSet, Owning
<1>2. ASSUME NEW o \in Threads, OwnedBy(p, s, g, d, b, o) PROVE o = t
  BY <1>1, <1>2 DEF OwnedBy
<1>. QED BY <1>1, <1>2 DEF Phase, Opened

LEMMA OwnerMoves ==
  ASSUME NEW p, NEW s, NEW g, NEW d, NEW b, NEW t \in Threads,
         NEW p2, NEW s2, NEW a \in Owning, NEW c \in Owning,
         Moves(p, s, t, a, c, p2, s2), Phase(p, s, g, d, b)
  PROVE  /\ OwnedBy(p, s, g, d, b, t)
         /\ CopySet(p2) = CopySet(p) /\ OwnerSet(p2) = {t}
         /\ \A n : Written(p, s, b, n) => Written(p2, s2, b, n)
<1>1. /\ \A u \in Threads : u # t => p2[u] = p[u] /\ s2[u] = s[u]
      /\ p[t] \in Owning /\ p2[t] \in Owning
  BY DEF Moves
<1>2. OwnedBy(p, s, g, d, b, t)
  BY <1>1, OwnerIs
<1>3. CopySet(p2) = CopySet(p) /\ OwnerSet(p2) = {t}
  BY <1>1, <1>2 DEF CopySet, OwnerSet, OwnedBy, Owning
<1>4. \A n : Written(p, s, b, n) => Written(p2, s2, b, n)
  BY <1>1, WrittenKept DEF Owning
<1>. QED BY <1>2, <1>3, <1>4

\* The owner collects the mailboxes when all that was reserved is counted.
LEMMA OwnerCollects ==
  ASSUME Fits, NEW p, NEW s, NEW g, NEW d \in Nat, NEW b, NEW t \in Threads,
         NEW p2, NEW s2, NEW a \in {"lastMail", "await", "collect"},
         NEW c \in {"collect", "ship"}, Moves(p, s, t, a, c, p2, s2),
         s2[t] = s[t], a = "await" => d = s[t], Phase(p, s, g, d, b)
  PROVE  Phase(p2, s2, g, d, b)
<1>1. p[t] = a /\ p2[t] = c
  BY DEF Moves
<1>2. /\ OwnedBy(p, s, g, d, b, t)
      /\ CopySet(p2) = CopySet(p) /\ OwnerSet(p2) = {t}
      /\ Written(p, s, b, s[t]) => Written(p2, s2, b, s[t])
  <2>1. a \in Owning /\ c \in Owning
    BY DEF Owning
  <2>2. /\ OwnedBy(p, s, g, d, b, t)
        /\ CopySet(p2) = CopySet(p) /\ OwnerSet(p2) = {t}
        /\ \A n : Written(p, s, b, n) => Written(p2, s2, b, n)
    BY <2>1, OwnerMoves
  <2>. QED BY <2>2
<1>3. CopySet(p) = {}
  <2>1. CASE a = "await"
    <3>1. d = d + Reservations(p) /\ Reservations(p) \in Nat
      BY <1>1, <1>2, <2>1, CopyFinite DEF OwnedBy
    <3>2. Reservations(p) = 0
      BY <3>1
    <3>. QED BY <3>2, CopyFinite
  <2>2. CASE a # "await"
    BY <1>1, <1>2, <2>2 DEF OwnedBy
  <2>. QED BY <2>1, <2>2
<1>4. OwnedBy(p2, s2, g, d, b, t)
  BY <1>1, <1>2, <1>3 DEF OwnedBy
<1>. QED BY <1>4 DEF Phase

\* It ships the buffer and starts a new one, ...
LEMMA OwnerShips ==
  ASSUME NEW p, NEW s, NEW g, NEW d, NEW b, NEW t \in Threads,
         NEW p2, NEW s2, Moves(p, s, t, "ship", "clearCount", p2, s2),
         s2[t] = s[t], Phase(p, s, g, d, b), Slots \subseteq Nat,
         NEW b2, \A i \in Slots : b2[i] = Hole
  PROVE  Phase(p2, s2, g, d, b2)
<1>1. p[t] = "ship" /\ p2[t] = "clearCount"
  BY DEF Moves
<1>2. /\ OwnedBy(p, s, g, d, b, t)
      /\ CopySet(p2) = CopySet(p) /\ OwnerSet(p2) = {t}
  BY OwnerMoves DEF Owning
<1>3. CopySet(p2) = {}
  BY <1>1, <1>2 DEF OwnedBy
<1>4. \A u \in Threads : p2[u] # "copy"
  BY <1>3 DEF CopySet
<1>5. Written(p2, s2, b2, 0)
  BY <1>4 DEF Written
<1>6. OwnedBy(p2, s2, g, d, b2, t)
  BY <1>1, <1>2, <1>3, <1>5 DEF OwnedBy
<1>. QED BY <1>6 DEF Phase

\* ... takes the count back, ...
LEMMA OwnerClears ==
  ASSUME NEW p, NEW s, NEW g, NEW d, NEW b, NEW t \in Threads,
         NEW p2, NEW s2, Moves(p, s, t, "clearCount", "reopen", p2, s2),
         s2[t] = s[t], Phase(p, s, g, d, b)
  PROVE  Phase(p2, s2, g, 0, b)
<1>1. p[t] = "clearCount" /\ p2[t] = "reopen"
  BY DEF Moves
<1>2. /\ OwnedBy(p, s, g, d, b, t)
      /\ CopySet(p2) = CopySet(p) /\ OwnerSet(p2) = {t}
      /\ Written(p, s, b, 0) => Written(p2, s2, b, 0)
  BY OwnerMoves DEF Owning
<1>3. OwnedBy(p2, s2, g, 0, b, t)
  BY <1>1, <1>2 DEF OwnedBy
<1>. QED BY <1>3 DEF Phase

\* ... and opens the buffer.
LEMMA OwnerReopens ==
  ASSUME Fits, NEW p, NEW s, NEW g, NEW d, NEW b, NEW t \in Threads,
         NEW p2, NEW s2, Moves(p, s, t, "reopen", "idle", p2, s2),
         Phase(p, s, g, d, b)
  PROVE  Phase(p2, s2, 0, d, b)
<1>1. /\ \A u \in Threads : u # t => p2[u] = p[u] /\ s2[u] = s[u]
      /\ p[t] = "reopen" /\ p2[t] = "idle"
  BY DEF Moves
<1>2. OwnedBy(p, s, g, d, b, t)
  BY <1>1, OwnerIs DEF Owning
<1>3. d = 0 /\ CopySet(p) = {} /\ OwnerSet(p) = {t} /\ Written(p, s, b, 0)
  BY <1>1, <1>2 DEF OwnedBy
<1>4. CopySet(p2) = {} /\ OwnerSet(p2) = {}
  BY <1>1, <1>3 DEF CopySet, OwnerSet
<1>5. Reservations(p2) = 0
  BY <1>4, CopyFinite
<1>6. Written(p2, s2, b, 0)
  BY <1>1, <1>3, WrittenKept
<1>7. 0 \in Nat /\ L * 0 = 0 /\ 0 < bufSize /\ bufSize \in Nat
  BY SizeTypes
<1>. QED BY <1>3, <1>4, <1>5, <1>6, <1>7 DEF Phase, Opened

(***************************************************************************)
(* The items in the buffers.                                               *)
(***************************************************************************)
LEMMA RangeFacts ==
  ASSUME NEW q \in Seq(Items)
  PROVE  /\ Range(q) = {q[i] : i \in 1 .. Len(q)} /\ Range(q) \subseteq Items
         /\ \A x \in Items : Range(Append(q, x)) = Range(q) \cup {x}
         /\ Range(<<>>) = {}
<1>1. Len(q) \in Nat /\ DOMAIN q = 1 .. Len(q) /\ \A i \in 1 .. Len(q) : q[i] \in Items
  OBVIOUS
<1>2. Range(q) = {q[i] : i \in 1 .. Len(q)} /\ Range(q) \subseteq Items
  BY <1>1 DEF Range
<1>3. ASSUME NEW x \in Items PROVE Range(Append(q, x)) = Range(q) \cup {x}
  <2>. DEFINE r == Append(q, x)
  <2>1. /\ DOMAIN r = 1 .. Len(q) + 1 /\ r[Len(q) + 1] = x
        /\ \A i \in 1 .. Len(q) : r[i] = q[i]
    BY <1>1
  <2>2. Range(r) \subseteq Range(q) \cup {x}
    BY <1>1, <2>1 DEF Range
  <2>3. Range(q) \subseteq Range(r) /\ x \in Range(r)
    BY <1>1, <2>1 DEF Range
  <2>. QED BY <2>2, <2>3
<1>4. Range(<<>>) = {}
  BY DEF Range
<1>. QED BY <1>2, <1>3, <1>4

LEMMA SlotFacts ==
  ASSUME Fits
  PROVE  /\ Slots \subseteq Nat /\ L = LOCAL_BUFSIZE
         /\ \A i \in Nat : i < bufSize => i \in Slots
         /\ Slots # {}
BY SizeTypes DEF Slots, L

\* What a step does that moves no item.
LEMMA LocalsKept ==
  ASSUME PPTypes, Locals, Disjoint, NEW t \in Threads, NEW c \in Places, Goto(t, c),
         UNCHANGED <<local_buf, msgBuffer>>,
         \/ pc[t] = "reserve" /\ c = "copy"
         \/ pc[t] \notin {"reserve", "copy"} /\ c = "idle"
         \/ pc[t] \notin {"idle", "reserve", "copy"} /\ c \notin {"reserve", "copy"}
  PROVE  /\ pc' \in [Threads -> Places] /\ pc'[t] = c
         /\ \A u \in Threads \ {t} : pc'[u] = pc[u]
         /\ Locals' /\ Disjoint'
<1>1. /\ pc' \in [Threads -> Places] /\ pc'[t] = c
      /\ \A u \in Threads \ {t} : pc'[u] = pc[u]
  BY DEF Goto, PPTypes
<1>2. Locals'
  <2>1. Len(<<>>) = 0 /\ 0 < L
    BY SizeTypes
  <2>. QED BY <1>1, <2>1 DEF Locals
<1>3. Disjoint'
  BY DEF Disjoint
<1>. QED BY <1>1, <1>2, <1>3

(***************************************************************************)
(* The steps that move no item.                                            *)
(***************************************************************************)
LEMMA ReserveStep ==
  ASSUME Fits, PPInv, NEW t \in Threads, Reserve(t)
  PROVE  PPInv'
<1>1. /\ pc[t] = "reserve" /\ get_idx < bufSize /\ Goto(t, "copy")
      /\ UNCHANGED <<local_buf, done_count, msgBuffer>>
  BY DEF Reserve, Open
<1>2. /\ slot' \in [Threads -> Nat] /\ slot'[t] = get_idx
      /\ \A u \in Threads \ {t} : slot'[u] = slot[u]
      /\ get_idx' = get_idx + L
  BY <1>1 DEF Reserve, Reserved, L, PPInv, PPTypes
<1>3. /\ pc' \in [Threads -> Places] /\ pc'[t] = "copy"
      /\ \A u \in Threads \ {t} : pc'[u] = pc[u]
      /\ Locals' /\ Disjoint'
  BY <1>1, LocalsKept DEF PPInv, Places
<1>4. Moves(pc, slot, t, "reserve", "copy", pc', slot')
  BY <1>1, <1>2, <1>3 DEF Moves
<1>5. Phase(pc', slot', get_idx + L, done_count, msgBuffer)
  BY <1>1, <1>2, <1>4, ReserveSlots DEF PPInv, PPTypes
<1>6. get_idx + L \in Nat
  BY SizeTypes DEF PPInv, PPTypes
<1>. QED BY <1>1, <1>2, <1>3, <1>5, <1>6 DEF PPInv, PPTypes

LEMMA CountStep ==
  ASSUME Fits, PPInv, NEW t \in Threads, Count(t)
  PROVE  PPInv'
<1>. DEFINE c == IF done_count + L = bufSize THEN "lastMail" ELSE "mail"
<1>1. /\ pc[t] = "count" /\ done_count' = done_count + L /\ Goto(t, c)
      /\ UNCHANGED <<local_buf, get_idx, msgBuffer>>
  BY DEF Count, L
<1>2. /\ slot' \in [Threads -> Nat]
      /\ done_count + L = bufSize => slot'[t] = bufSize
      /\ \A u \in Threads \ {t} : slot'[u] = slot[u]
  <2>1. slot \in [Threads -> Nat] /\ bufSize \in Nat
    BY SizeTypes DEF PPInv, PPTypes
  <2>2. \/ slot' = [slot EXCEPT ![t] = bufSize]
        \/ slot' = [slot EXCEPT ![t] = 0] /\ done_count' # bufSize
    BY DEF Count
  <2>3. CASE slot' = [slot EXCEPT ![t] = bufSize]
    BY <2>1, <2>3
  <2>4. CASE slot' = [slot EXCEPT ![t] = 0] /\ done_count' # bufSize
    BY <1>1, <2>1, <2>4
  <2>. QED BY <2>2, <2>3, <2>4
<1>3. c \in {"lastMail", "mail"}
  OBVIOUS
<1>4. /\ pc' \in [Threads -> Places] /\ pc'[t] = c
      /\ \A u \in Threads \ {t} : pc'[u] = pc[u]
      /\ Locals' /\ Disjoint'
  <2>. HIDE DEF c
  <2>. QED BY <1>1, <1>3, LocalsKept DEF PPInv, Places
<1>5. Moves(pc, slot, t, "count", c, pc', slot')
  BY <1>1, <1>2, <1>4 DEF Moves
<1>6. Phase(pc', slot', get_idx, done_count + L, msgBuffer)
  <2>1. IF done_count + L = bufSize THEN c = "lastMail" /\ slot'[t] = bufSize
                                    ELSE c = "mail"
    BY <1>2
  <2>. HIDE DEF c
  <2>. QED BY <1>5, <2>1, CountSlots DEF PPInv, PPTypes
<1>7. done_count + L \in Nat
  BY SizeTypes DEF PPInv, PPTypes
<1>. QED BY <1>1, <1>2, <1>4, <1>6, <1>7 DEF PPInv, PPTypes

LEMMA MailStep ==
  ASSUME Fits, PPInv, NEW t \in Threads, Mail(t)
  PROVE  PPInv'
<1>1. /\ pc[t] \in {"mail", "lastMail"}
      /\ Goto(t, IF pc[t] = "lastMail" THEN "collect" ELSE "idle")
      /\ UNCHANGED <<local_buf, slot, get_idx, done_count, msgBuffer>>
  BY DEF Mail
<1>2. CASE pc[t] = "lastMail"
  <2>1. /\ pc' \in [Threads -> Places] /\ pc'[t] = "collect"
        /\ \A u \in Threads \ {t} : pc'[u] = pc[u]
        /\ Locals' /\ Disjoint'
    BY <1>1, <1>2, LocalsKept DEF PPInv, Places
  <2>2. Moves(pc, slot, t, "lastMail", "collect", pc', slot)
    BY <1>2, <2>1 DEF Moves
  <2>3. Phase(pc', slot, get_idx, done_count, msgBuffer)
    BY <2>2, OwnerCollects DEF PPInv, PPTypes
  <2>. QED BY <1>1, <2>1, <2>3 DEF PPInv, PPTypes
<1>3. CASE pc[t] = "mail"
  <2>1. /\ pc' \in [Threads -> Places] /\ pc'[t] = "idle"
        /\ \A u \in Threads \ {t} : pc'[u] = pc[u]
        /\ Locals' /\ Disjoint'
    BY <1>1, <1>3, LocalsKept DEF PPInv, Places
  <2>2. Moves(pc, slot, t, "mail", "idle", pc', slot)
    BY <1>3, <2>1 DEF Moves
  <2>3. Phase(pc', slot, get_idx, done_count, msgBuffer)
    BY <2>2, QuietSteps DEF PPInv, Quiet
  <2>. QED BY <1>1, <2>1, <2>3 DEF PPInv, PPTypes
<1>. QED BY <1>1, <1>2, <1>3

LEMMA FlushPeekStep ==
  ASSUME Fits, PPInv, NEW t \in Threads, FlushPeek(t)
  PROVE  PPInv'
<1>1. PICK c \in {"claim", "idle"} :
        /\ pc[t] = "peek" /\ Goto(t, c)
        /\ UNCHANGED <<local_buf, slot, get_idx, done_count, msgBuffer>>
  BY DEF FlushPeek, shared
<1>2. /\ pc' \in [Threads -> Places] /\ pc'[t] = c
      /\ \A u \in Threads \ {t} : pc'[u] = pc[u]
      /\ Locals' /\ Disjoint'
  BY <1>1, LocalsKept DEF PPInv, Places
<1>3. Moves(pc, slot, t, "peek", c, pc', slot)
  BY <1>1, <1>2 DEF Moves
<1>4. c \in Quiet /\ "peek" \in Quiet
  BY DEF Quiet
<1>5. Phase(pc', slot, get_idx, done_count, msgBuffer)
  BY <1>3, <1>4, QuietSteps DEF PPInv
<1>. QED BY <1>1, <1>2, <1>5 DEF PPInv, PPTypes

LEMMA FlushClaimStep ==
  ASSUME Fits, PPInv, NEW t \in Threads, FlushClaim(t)
  PROVE  PPInv'
<1>1. pc[t] = "claim" /\ UNCHANGED <<local_buf, done_count, msgBuffer>>
  BY DEF FlushClaim
<1>2. CASE get_idx < bufSize
  <2>1. /\ Goto(t, "await") /\ get_idx' = get_idx + bufSize
        /\ slot' = [slot EXCEPT ![t] = get_idx]
    BY <1>2 DEF FlushClaim, Open, Reserved
  <2>2. /\ slot' \in [Threads -> Nat] /\ slot'[t] = get_idx
        /\ \A u \in Threads \ {t} : slot'[u] = slot[u]
    BY <2>1 DEF PPInv, PPTypes
  <2>3. /\ pc' \in [Threads -> Places] /\ pc'[t] = "await"
        /\ \A u \in Threads \ {t} : pc'[u] = pc[u]
        /\ Locals' /\ Disjoint'
    BY <1>1, <2>1, LocalsKept DEF PPInv, Places
  <2>4. Moves(pc, slot, t, "claim", "await", pc', slot')
    BY <1>1, <2>2, <2>3 DEF Moves
  <2>5. Phase(pc', slot', get_idx + bufSize, done_count, msgBuffer)
    BY <1>2, <2>2, <2>4, ClaimBuffer DEF PPInv, PPTypes
  <2>6. get_idx' \in Nat
    BY <2>1, SizeTypes DEF PPInv, PPTypes
  <2>. QED BY <1>1, <2>1, <2>2, <2>3, <2>5, <2>6 DEF PPInv, PPTypes
<1>3. CASE ~(get_idx < bufSize)
  <2>1. Goto(t, "idle") /\ UNCHANGED <<get_idx, slot>>
    BY <1>3 DEF FlushClaim, Open, Reserved
  <2>2. /\ pc' \in [Threads -> Places] /\ pc'[t] = "idle"
        /\ \A u \in Threads \ {t} : pc'[u] = pc[u]
        /\ Locals' /\ Disjoint'
    BY <1>1, <2>1, LocalsKept DEF PPInv, Places
  <2>3. Moves(pc, slot, t, "claim", "idle", pc', slot)
    BY <1>1, <2>2 DEF Moves
  <2>4. Phase(pc', slot, get_idx, done_count, msgBuffer)
    BY <2>3, QuietSteps DEF PPInv, Quiet
  <2>. QED BY <1>1, <2>1, <2>2, <2>4 DEF PPInv, PPTypes
<1>. QED BY <1>2, <1>3

LEMMA FlushAwaitStep ==
  ASSUME Fits, PPInv, NEW t \in Threads, FlushAwait(t)
  PROVE  PPInv'
<1>1. /\ pc[t] = "await" /\ done_count = slot[t] /\ Goto(t, "collect")
      /\ UNCHANGED <<local_buf, slot, get_idx, done_count, msgBuffer>>
  BY DEF FlushAwait, AllCounted, shared
<1>2. /\ pc' \in [Threads -> Places] /\ pc'[t] = "collect"
      /\ \A u \in Threads \ {t} : pc'[u] = pc[u]
      /\ Locals' /\ Disjoint'
  BY <1>1, LocalsKept DEF PPInv, Places
<1>3. Moves(pc, slot, t, "await", "collect", pc', slot)
  BY <1>1, <1>2 DEF Moves
<1>4. Phase(pc', slot, get_idx, done_count, msgBuffer)
  BY <1>1, <1>3, OwnerCollects DEF PPInv, PPTypes
<1>. QED BY <1>1, <1>2, <1>4 DEF PPInv, PPTypes

LEMMA CollectStep ==
  ASSUME Fits, PPInv, NEW t \in Threads, Collect(t)
  PROVE  PPInv'
<1>1. /\ pc[t] = "collect" /\ Goto(t, "ship")
      /\ UNCHANGED <<local_buf, slot, get_idx, done_count, msgBuffer>>
  BY DEF Collect
<1>2. /\ pc' \in [Threads -> Places] /\ pc'[t] = "ship"
      /\ \A u \in Threads \ {t} : pc'[u] = pc[u]
      /\ Locals' /\ Disjoint'
  BY <1>1, LocalsKept DEF PPInv, Places
<1>3. Moves(pc, slot, t, "collect", "ship", pc', slot)
  BY <1>1, <1>2 DEF Moves
<1>4. Phase(pc', slot, get_idx, done_count, msgBuffer)
  BY <1>1, <1>3, OwnerCollects DEF PPInv, PPTypes
<1>. QED BY <1>1, <1>2, <1>4 DEF PPInv, PPTypes

LEMMA ClearCountStep ==
  ASSUME Fits, PPInv, NEW t \in Threads, ClearCount(t)
  PROVE  PPInv'
<1>1. /\ pc[t] = "clearCount" /\ done_count' = 0 /\ Goto(t, "reopen")
      /\ UNCHANGED <<local_buf, slot, get_idx, msgBuffer>>
  BY DEF ClearCount
<1>2. /\ pc' \in [Threads -> Places] /\ pc'[t] = "reopen"
      /\ \A u \in Threads \ {t} : pc'[u] = pc[u]
      /\ Locals' /\ Disjoint'
  BY <1>1, LocalsKept DEF PPInv, Places
<1>3. Moves(pc, slot, t, "clearCount", "reopen", pc', slot)
  BY <1>1, <1>2 DEF Moves
<1>4. Phase(pc', slot, get_idx, 0, msgBuffer)
  BY <1>3, OwnerClears DEF PPInv
<1>. QED BY <1>1, <1>2, <1>4 DEF PPInv, PPTypes

LEMMA ReopenStep ==
  ASSUME Fits, PPInv, NEW t \in Threads, Reopen(t)
  PROVE  PPInv'
<1>1. /\ pc[t] = "reopen" /\ get_idx' = 0 /\ Goto(t, "idle")
      /\ UNCHANGED <<local_buf, done_count, msgBuffer>>
  BY DEF Reopen
<1>2. slot' \in [Threads -> Nat] /\ \A u \in Threads \ {t} : slot'[u] = slot[u]
  BY DEF Reopen, PPInv, PPTypes
<1>3. /\ pc' \in [Threads -> Places] /\ pc'[t] = "idle"
      /\ \A u \in Threads \ {t} : pc'[u] = pc[u]
      /\ Locals' /\ Disjoint'
  BY <1>1, LocalsKept DEF PPInv, Places
<1>4. Moves(pc, slot, t, "reopen", "idle", pc', slot')
  BY <1>1, <1>2, <1>3 DEF Moves
<1>5. Phase(pc', slot', 0, done_count, msgBuffer)
  BY <1>4, OwnerReopens DEF PPInv
<1>. QED BY <1>1, <1>2, <1>3, <1>5 DEF PPInv, PPTypes

(***************************************************************************)
(* The steps that move items, and what they do to Stored.                  *)
(***************************************************************************)
\* What a thread changes in its own local buffer.
LEMMA OwnBuffer ==
  ASSUME PPTypes, NEW t \in Threads, NEW q \in Seq(Items),
         local_buf' = [local_buf EXCEPT ![t] = q]
  PROVE  /\ local_buf' \in [Threads -> Seq(Items)] /\ local_buf'[t] = q
         /\ \A u \in Threads \ {t} : local_buf'[u] = local_buf[u]
BY DEF PPTypes

LEMMA StoredIs ==
  \A x : x \in Stored <=> \/ \E u \in Threads : x \in Range(local_buf[u])
                          \/ x \in Range(msgBuffer) /\ x # Hole
BY DEF Stored

LEMMA StoredIsPrime ==
  \A x : x \in Stored' <=> \/ \E u \in Threads : x \in Range(local_buf'[u])
                           \/ x \in Range(msgBuffer') /\ x # Hole
BY DEF Stored

LEMMA InsertValueStep ==
  ASSUME Fits, PPInv, NEW t \in Threads, NEW x \in Items, InsertValue(t, x)
  PROVE  PPInv' /\ Stored' = Stored \cup {x}
<1>. DEFINE q == Append(local_buf[t], x)
<1>1. /\ pc[t] = "idle" /\ x \notin Known
      /\ local_buf' = [local_buf EXCEPT ![t] = q]
      /\ Goto(t, IF Len(local_buf'[t]) = L THEN "reserve" ELSE "idle")
      /\ UNCHANGED <<slot, get_idx, done_count, msgBuffer>>
  BY SizeTypes DEF InsertValue, shared
<1>2. q \in Seq(Items) /\ local_buf[t] \in Seq(Items)
  BY DEF PPInv, PPTypes
<1>3. /\ local_buf' \in [Threads -> Seq(Items)] /\ local_buf'[t] = q
      /\ \A u \in Threads \ {t} : local_buf'[u] = local_buf[u]
  <2>. HIDE DEF q
  <2>. QED BY <1>1, <1>2, OwnBuffer DEF PPInv
<1>4. /\ pc' \in [Threads -> Places]
      /\ pc'[t] = IF Len(q) = L THEN "reserve" ELSE "idle"
      /\ \A u \in Threads \ {t} : pc'[u] = pc[u]
  BY <1>1, <1>3 DEF Goto, PPInv, PPTypes, Places
<1>5. Len(q) = Len(local_buf[t]) + 1 /\ Len(local_buf[t]) <= L
      /\ Range(q) = Range(local_buf[t]) \cup {x}
  BY <1>2, RangeFacts DEF PPInv, Locals
<1>6. Stored' = Stored \cup {x}
  <2>. HIDE DEF q
  <2>1. x \in Items /\ msgBuffer' = msgBuffer
    BY <1>1
  <2>. QED BY <1>3, <1>5, <2>1, StoredIs, StoredIsPrime
<1>7. x \notin Stored
  BY <1>1 DEF Known
<1>8. Disjoint'
  <2>. HIDE DEF q
  <2>1. /\ \A u \in Threads : x \notin Range(local_buf[u])
        /\ x \notin Range(msgBuffer) \/ x = Hole
    BY <1>7, StoredIs
  <2>2. x # Hole
    BY DEF Fits
  <2>3. \A u \in Threads : Range(local_buf'[u]) =
            IF u = t THEN Range(local_buf[u]) \cup {x} ELSE Range(local_buf[u])
    BY <1>3, <1>5
  <2>4. msgBuffer' = msgBuffer
    BY <1>1
  <2>5. x \notin Range(msgBuffer)
    BY <2>1, <2>2
  <2>. QED BY <2>1, <2>3, <2>4, <2>5 DEF PPInv, Disjoint
<1>9. PICK c \in {"reserve", "idle"} : pc'[t] = c
  BY <1>4
<1>10. Moves(pc, slot, t, "idle", c, pc', slot)
  BY <1>1, <1>4, <1>9 DEF Moves
<1>11. Phase(pc', slot, get_idx, done_count, msgBuffer)
  <2>1. c \in Quiet /\ "idle" \in Quiet
    BY DEF Quiet
  <2>. QED BY <1>10, <2>1, QuietSteps DEF PPInv
<1>12. Locals'
  <2>1. /\ Len(local_buf'[t]) <= L
        /\ pc'[t] = "reserve" => Len(local_buf'[t]) = L
        /\ pc'[t] = "idle" => Len(local_buf'[t]) < L
        /\ pc'[t] \in {"idle", "reserve"}
    <3>1. Len(local_buf[t]) < L /\ Len(local_buf[t]) \in Nat /\ L \in Nat
      BY <1>1, <1>2, SizeTypes DEF PPInv, Locals
    <3>. QED BY <1>3, <1>4, <1>5, <3>1
  <2>. QED BY <1>3, <1>4, <2>1 DEF PPInv, Locals
<1>. QED BY <1>1, <1>3, <1>4, <1>6, <1>8, <1>11, <1>12 DEF PPInv, PPTypes

LEMMA FlushLocalStep ==
  ASSUME Fits, PPInv, NEW t \in Threads, FlushLocal(t)
  PROVE  /\ PPInv' /\ Stored' = Stored \ Range(local_buf[t])
         /\ Range(local_buf[t]) \subseteq Stored
<1>1. /\ pc[t] = "idle" /\ Goto(t, "peek")
      /\ local_buf' = [local_buf EXCEPT ![t] = <<>>]
      /\ UNCHANGED <<slot, get_idx, done_count, msgBuffer>>
  BY DEF FlushLocal, shared
<1>2. <<>> \in Seq(Items) /\ Len(<<>>) = 0 /\ Range(<<>>) = {}
  BY DEF Range
<1>3. /\ local_buf' \in [Threads -> Seq(Items)] /\ local_buf'[t] = <<>>
      /\ \A u \in Threads \ {t} : local_buf'[u] = local_buf[u]
  BY <1>1, <1>2, OwnBuffer DEF PPInv
<1>4. /\ pc' \in [Threads -> Places] /\ pc'[t] = "peek"
      /\ \A u \in Threads \ {t} : pc'[u] = pc[u]
  BY <1>1 DEF Goto, PPInv, PPTypes, Places
<1>5. \A u \in Threads : Range(local_buf'[u]) =
          IF u = t THEN {} ELSE Range(local_buf[u])
  BY <1>2, <1>3
<1>6. msgBuffer' = msgBuffer
  BY <1>1
<1>7. /\ Stored' = Stored \ Range(local_buf[t])
      /\ Range(local_buf[t]) \subseteq Stored
  BY <1>5, <1>6, StoredIs, StoredIsPrime DEF PPInv, Disjoint
<1>8. Disjoint'
  BY <1>5, <1>6 DEF PPInv, Disjoint
<1>9. Locals'
  BY <1>2, <1>3, <1>4, SizeTypes DEF PPInv, Locals
<1>10. Moves(pc, slot, t, "idle", "peek", pc', slot)
  BY <1>1, <1>4 DEF Moves
<1>11. Phase(pc', slot, get_idx, done_count, msgBuffer)
  BY <1>10, QuietSteps DEF PPInv, Quiet
<1>. QED BY <1>1, <1>3, <1>4, <1>7, <1>8, <1>9, <1>11 DEF PPInv, PPTypes

\* The slots a thread copies to are below bufSize, and empty.
LEMMA CopyRoom ==
  ASSUME Fits, PPInv, NEW t \in Threads, pc[t] = "copy"
  PROVE  /\ slot[t] \in Nat /\ slot[t] + L <= bufSize
         /\ \A i \in Slots : Writes(pc, slot, t, i) => msgBuffer[i] = Hole
<1>1. t \in CopySet(pc) /\ slot[t] \in Nat
  BY DEF CopySet, PPInv, PPTypes
<1>2. PICK n \in Nat : n <= bufSize /\ Written(pc, slot, msgBuffer, n)
  <2>1. CASE Opened(pc, slot, get_idx, done_count, msgBuffer)
    BY <2>1 DEF Opened, PPInv, PPTypes
  <2>2. ASSUME NEW o \in Threads, OwnedBy(pc, slot, get_idx, done_count, msgBuffer, o)
        PROVE  \E n \in Nat : n <= bufSize /\ Written(pc, slot, msgBuffer, n)
    BY <1>1, <2>2 DEF OwnedBy, PPInv, PPTypes
  <2>. QED BY <2>1, <2>2 DEF PPInv, Phase
<1>3. slot[t] + L <= n
  BY <1>2 DEF Written
<1>4. slot[t] + L <= bufSize
  BY <1>1, <1>2, <1>3, SizeTypes
<1>5. ASSUME NEW i \in Slots, Writes(pc, slot, t, i) PROVE msgBuffer[i] = Hole
  <2>1. i < n
    BY <1>1, <1>2, <1>3, <1>5, SlotFacts, SizeTypes DEF Writes
  <2>. QED BY <1>2, <1>5, <2>1 DEF Written
<1>. QED BY <1>1, <1>4, <1>5

LEMMA CopyStep ==
  ASSUME Fits, PPInv, NEW t \in Threads, Copy(t)
  PROVE  PPInv' /\ Stored' = Stored
<1>. DEFINE q == local_buf[t]
<1>1. /\ pc[t] = "copy" /\ Goto(t, "count")
      /\ local_buf' = [local_buf EXCEPT ![t] = <<>>]
      /\ msgBuffer' = [i \in Slots |-> IF i - slot[t] \in 0 .. L - 1
                                         THEN q[i - slot[t] + 1] ELSE msgBuffer[i]]
      /\ UNCHANGED <<slot, get_idx, done_count>>
  BY SizeTypes DEF Copy
<1>2. q \in Seq(Items) /\ Len(q) = L /\ L \in Nat
  BY <1>1, SizeTypes DEF PPInv, PPTypes, Locals
<1>3. /\ slot[t] \in Nat /\ slot[t] + L <= bufSize
      /\ \A i \in Slots : Writes(pc, slot, t, i) => msgBuffer[i] = Hole
  BY <1>1, CopyRoom
<1>4. \A i \in Slots : i \in Nat
  BY SlotFacts
<1>5. \A i \in Slots :
        /\ Writes(pc, slot, t, i) => /\ i - slot[t] + 1 \in 1 .. Len(q)
                                     /\ msgBuffer'[i] = q[i - slot[t] + 1]
        /\ ~Writes(pc, slot, t, i) => msgBuffer'[i] = msgBuffer[i]
  BY <1>1, <1>2, <1>3, <1>4 DEF Writes
<1>6. \A j \in 1 .. Len(q) : /\ slot[t] + j - 1 \in Slots
                             /\ Writes(pc, slot, t, slot[t] + j - 1)
                             /\ msgBuffer'[slot[t] + j - 1] = q[j]
  <2>. SUFFICES ASSUME NEW j \in 1 .. Len(q)
                PROVE  /\ slot[t] + j - 1 \in Slots
                       /\ Writes(pc, slot, t, slot[t] + j - 1)
                       /\ msgBuffer'[slot[t] + j - 1] = q[j]
    OBVIOUS
  <2>. DEFINE i == slot[t] + j - 1
  <2>1. i \in Nat /\ i < bufSize /\ slot[t] <= i /\ i < slot[t] + L
        /\ i - slot[t] + 1 = j
    BY <1>2, <1>3, SizeTypes
  <2>2. i \in Slots
    BY <2>1, SlotFacts
  <2>3. Writes(pc, slot, t, i)
    BY <1>1, <2>1 DEF Writes
  <2>. QED BY <1>5, <2>1, <2>2, <2>3
<1>7. \A j \in 1 .. Len(q) : q[j] \in Items /\ q[j] # Hole
  BY <1>2 DEF Fits
<1>8. Range(q) = {q[j] : j \in 1 .. Len(q)} /\ Range(q) \subseteq Items
  BY <1>2, RangeFacts
<1>9. msgBuffer' \in [Slots -> Items \cup {Hole}] /\ msgBuffer \in [Slots -> Items \cup {Hole}]
  <2>1. \A i \in Slots : msgBuffer'[i] \in Items \cup {Hole}
    BY <1>5, <1>7 DEF PPInv, PPTypes
  <2>. QED BY <1>1, <2>1 DEF PPInv, PPTypes
<1>10. \A x : x \in Range(msgBuffer') /\ x # Hole
               <=> x \in Range(q) \/ (x \in Range(msgBuffer) /\ x # Hole)
  <2>. SUFFICES ASSUME NEW x
                PROVE  x \in Range(msgBuffer') /\ x # Hole
                         <=> x \in Range(q) \/ (x \in Range(msgBuffer) /\ x # Hole)
    OBVIOUS
  <2>1. ASSUME NEW i \in Slots, msgBuffer'[i] = x, x # Hole
        PROVE  x \in Range(q) \/ x \in Range(msgBuffer)
    BY <1>5, <1>8, <1>9, <2>1 DEF Range
  <2>2. ASSUME NEW j \in 1 .. Len(q), q[j] = x PROVE x \in Range(msgBuffer') /\ x # Hole
    BY <1>6, <1>7, <1>9, <2>2 DEF Range
  <2>3. ASSUME NEW i \in Slots, msgBuffer[i] = x, x # Hole
        PROVE  x \in Range(msgBuffer')
    <3>1. ~Writes(pc, slot, t, i)
      BY <1>3, <2>3
    <3>. QED BY <1>5, <1>9, <2>3, <3>1 DEF Range
  <2>. QED BY <1>8, <1>9, <2>1, <2>2, <2>3 DEF Range
<1>11. <<>> \in Seq(Items) /\ Len(<<>>) = 0 /\ Range(<<>>) = {}
  BY DEF Range
<1>12. /\ local_buf' \in [Threads -> Seq(Items)] /\ local_buf'[t] = <<>>
       /\ \A u \in Threads \ {t} : local_buf'[u] = local_buf[u]
  BY <1>1, <1>11, OwnBuffer DEF PPInv
<1>13. \A u \in Threads : Range(local_buf'[u]) =
          IF u = t THEN {} ELSE Range(local_buf[u])
  BY <1>11, <1>12
<1>14. Stored' = Stored
  <2>1. \A x : x \in Stored' <=> x \in Stored
    <3>. HIDE DEF q
    <3>1. \A x : x \in Range(q) <=> x \in Range(local_buf[t])
      BY DEF q
    <3>. QED BY <1>10, <1>13, <3>1, StoredIs, StoredIsPrime
  <2>. QED BY <2>1
<1>15. Disjoint'
  <2>1. \A u \in Threads : u # t => Range(local_buf[u]) \cap Range(q) = {}
    BY DEF PPInv, Disjoint
  <2>2. \A u \in Threads : Hole \notin Range(local_buf[u])
    BY RangeFacts DEF Fits, PPInv, PPTypes
  <2>3. \A u \in Threads : Range(local_buf'[u]) \cap Range(msgBuffer') = {}
    <3>. HIDE DEF q
    <3>. QED BY <1>10, <1>13, <2>1, <2>2 DEF PPInv, Disjoint
  <2>. QED BY <1>13, <2>3 DEF PPInv, Disjoint
<1>16. /\ pc' \in [Threads -> Places] /\ pc'[t] = "count"
       /\ \A u \in Threads \ {t} : pc'[u] = pc[u]
  BY <1>1 DEF Goto, PPInv, PPTypes, Places
<1>17. Locals'
  BY <1>11, <1>12, <1>16, SizeTypes DEF PPInv, Locals
<1>18. Moves(pc, slot, t, "copy", "count", pc', slot)
  BY <1>1, <1>16 DEF Moves
<1>19. \A i \in Slots : IF Writes(pc, slot, t, i) THEN msgBuffer'[i] # Hole
                                                 ELSE msgBuffer'[i] = msgBuffer[i]
  BY <1>5, <1>7
<1>20. Phase(pc', slot, get_idx, done_count, msgBuffer')
  BY <1>2, <1>18, <1>19, CopySlots, SlotFacts DEF PPInv, PPTypes
<1>. QED BY <1>1, <1>9, <1>12, <1>14, <1>15, <1>16, <1>17, <1>20 DEF PPInv, PPTypes

\* What leaves is all there is in the shared buffer, and has no hole.
LEMMA ShippedIsAll ==
  ASSUME Fits, PPInv, NEW t \in Threads, pc[t] = "ship"
  PROVE  /\ slot[t] \in Nat /\ slot[t] <= bufSize
         /\ Hole \notin Shipped(slot[t]) /\ Shipped(slot[t]) \subseteq Items
         /\ \A x : x \in Shipped(slot[t]) <=> x \in Range(msgBuffer) /\ x # Hole
<1>1. OwnedBy(pc, slot, get_idx, done_count, msgBuffer, t)
  BY OwnerIs DEF PPInv, Owning
<1>2. /\ slot[t] \in Nat /\ slot[t] <= bufSize /\ CopySet(pc) = {}
      /\ Written(pc, slot, msgBuffer, slot[t])
  BY <1>1 DEF OwnedBy, PPInv, PPTypes
<1>3. \A u \in Threads : pc[u] # "copy"
  BY <1>2 DEF CopySet
<1>4. /\ \A i \in Slots : i < slot[t] => msgBuffer[i] # Hole
      /\ \A i \in Slots : slot[t] <= i => msgBuffer[i] = Hole
  BY <1>2, <1>3 DEF Written, Writes
<1>5. /\ \A i \in 0 .. slot[t] - 1 : i \in Slots /\ i < slot[t]
      /\ \A i \in Slots : i \in Nat /\ (i < slot[t] => i \in 0 .. slot[t] - 1)
      /\ \A i \in Slots : i < slot[t] \/ slot[t] <= i
  BY <1>2, SlotFacts, SizeTypes
<1>6. msgBuffer \in [Slots -> Items \cup {Hole}]
  BY DEF PPInv, PPTypes
<1>7. \A x : x \in Shipped(slot[t]) <=> x \in Range(msgBuffer) /\ x # Hole
  <2>1. \A x : x \in Shipped(slot[t]) <=> \E i \in 0 .. slot[t] - 1 : x = msgBuffer[i]
    BY DEF Shipped
  <2>2. \A x : x \in Range(msgBuffer) <=> \E i \in Slots : x = msgBuffer[i]
    BY <1>6 DEF Range
  <2>. QED BY <1>4, <1>5, <2>1, <2>2
<1>8. Range(msgBuffer) \subseteq Items \cup {Hole}
  BY <1>6 DEF Range
<1>. QED BY <1>2, <1>7, <1>8

LEMMA ShipStep ==
  ASSUME Fits, PPInv, NEW t \in Threads, Ship(t)
  PROVE  /\ PPInv' /\ Stored' = Stored \ Shipped(slot[t])
         /\ Shipped(slot[t]) \subseteq Stored
<1>1. /\ pc[t] = "ship" /\ Goto(t, "clearCount")
      /\ msgBuffer' = [i \in Slots |-> Hole]
      /\ UNCHANGED <<local_buf, slot, get_idx, done_count>>
  BY DEF Ship, NewBuffer
<1>2. \A x : x \in Shipped(slot[t]) <=> x \in Range(msgBuffer) /\ x # Hole
  BY <1>1, ShippedIsAll
<1>3. \A x : ~(x \in Range(msgBuffer') /\ x # Hole)
  BY <1>1 DEF Range
<1>4. local_buf' = local_buf
  BY <1>1
<1>5. /\ Stored' = Stored \ Shipped(slot[t])
      /\ Shipped(slot[t]) \subseteq Stored
  BY <1>2, <1>3, <1>4, StoredIs, StoredIsPrime DEF PPInv, Disjoint
<1>6. Disjoint'
  <2>1. \A u \in Threads : Hole \notin Range(local_buf[u])
    BY RangeFacts DEF Fits, PPInv, PPTypes
  <2>. QED BY <1>3, <1>4, <2>1 DEF PPInv, Disjoint
<1>7. /\ pc' \in [Threads -> Places] /\ pc'[t] = "clearCount"
      /\ \A u \in Threads \ {t} : pc'[u] = pc[u]
  BY <1>1 DEF Goto, PPInv, PPTypes, Places
<1>8. Locals'
  BY <1>1, <1>4, <1>7 DEF PPInv, Locals
<1>9. Moves(pc, slot, t, "ship", "clearCount", pc', slot)
  BY <1>1, <1>7 DEF Moves
<1>10. \A i \in Slots : msgBuffer'[i] = Hole
  BY <1>1
<1>11. Phase(pc', slot, get_idx, done_count, msgBuffer')
  BY <1>9, <1>10, OwnerShips, SlotFacts DEF PPInv
<1>12. msgBuffer' \in [Slots -> Items \cup {Hole}]
  BY <1>1
<1>. QED BY <1>1, <1>4, <1>5, <1>6, <1>7, <1>8, <1>11, <1>12 DEF PPInv, PPTypes

(***************************************************************************)
(* The invariant.                                                          *)
(***************************************************************************)
LEMMA PPInit ==
  ASSUME Fits, Init
  PROVE  PPInv
<1>1. /\ pc = [t \in Threads |-> "idle"] /\ local_buf = [t \in Threads |-> <<>>]
      /\ slot = [t \in Threads |-> 0] /\ get_idx = 0 /\ done_count = 0
      /\ msgBuffer = [i \in Slots |-> Hole]
  BY DEF Init, NewBuffer
<1>2. PPTypes
  BY <1>1 DEF PPTypes, Places
<1>3. Locals
  BY <1>1, SizeTypes DEF Locals
<1>4. Disjoint
  <2>1. \A t \in Threads : Range(local_buf[t]) = {}
    BY <1>1 DEF Range
  <2>. QED BY <2>1 DEF Disjoint
<1>5. CopySet(pc) = {} /\ OwnerSet(pc) = {}
  BY <1>1 DEF CopySet, OwnerSet
<1>6. Reservations(pc) = 0 /\ L * 0 = 0 /\ 0 \in Nat /\ 0 < bufSize /\ bufSize \in Nat
  BY <1>5, CopyFinite, SizeTypes
<1>7. Written(pc, slot, msgBuffer, 0)
  BY <1>1, SlotFacts DEF Written
<1>8. Phase(pc, slot, get_idx, done_count, msgBuffer)
  BY <1>1, <1>5, <1>6, <1>7 DEF Phase, Opened
<1>. QED BY <1>2, <1>3, <1>4, <1>8 DEF PPInv

LEMMA RunKeepsPPInv ==
  ASSUME Fits, PPInv, NEW t \in Threads, Run(t)
  PROVE  PPInv'
BY ReserveStep, CopyStep, CountStep, MailStep, FlushPeekStep, FlushClaimStep,
   FlushAwaitStep, CollectStep, ShipStep, ClearCountStep, ReopenStep DEF Run

LEMMA PPNext ==
  ASSUME Fits, PPInv, [Next]_vars
  PROVE  PPInv'
<1>1. CASE UNCHANGED vars
  BY <1>1 DEF vars, shared, PPInv, PPTypes, Locals, Disjoint
<1>2. CASE Next
  BY <1>2, InsertValueStep, FlushLocalStep, RunKeepsPPInv DEF Next
<1>. QED BY <1>1, <1>2

LEMMA PPInvariance ==
  ASSUME Fits
  PROVE  Spec => []PPInv
<1>1. Init => PPInv
  BY PPInit
<1>2. PPInv /\ [Next]_vars => PPInv'
  BY PPNext
<1>. QED BY <1>1, <1>2, PTL DEF Spec

(***************************************************************************)
(* The shared buffer has one owner from the moment it is closed until it   *)
(* is opened again, and while it is closed there is a thread that will     *)
(* ship it, however copyToNodeBuf and tflush of all threads interleave.    *)
(***************************************************************************)
THEOREM OneThreadShips ==
  ASSUME Fits
  PROVE  Spec => []OneOwner
<1>1. PPInv => OneOwner
  <2>. SUFFICES ASSUME PPInv PROVE OneOwner
    OBVIOUS
  <2>1. Owners = OwnerSet(pc) /\ Copying = CopySet(pc)
    BY DEF Owners, Copying, OwnerSet, CopySet
  <2>2. CASE Opened(pc, slot, get_idx, done_count, msgBuffer)
    <3>1. OwnerSet(pc) = {} /\ Cardinality({}) = 0
      BY <2>2, FS_EmptySet DEF Opened
    <3>2. get_idx >= bufSize => Reservations(pc) # 0
      BY <2>2, CopyFinite, SizeTypes DEF Opened, PPInv, PPTypes
    <3>. QED BY <2>1, <3>1, <3>2, CopyFinite DEF OneOwner
  <2>3. ASSUME NEW o \in Threads, OwnedBy(pc, slot, get_idx, done_count, msgBuffer, o)
        PROVE  OneOwner
    <3>1. OwnerSet(pc) = {o} /\ Cardinality({o}) = 1
      BY <2>3, FS_Singleton DEF OwnedBy
    <3>. QED BY <2>1, <3>1 DEF OneOwner
  <2>. QED BY <2>2, <2>3 DEF PPInv, Phase
<1>. QED BY <1>1, PPInvariance, PTL

(***************************************************************************)
(* A message leaves only when every slot it counts has been written.       *)
(***************************************************************************)
THEOREM NoHoles ==
  ASSUME Fits
  PROVE  Spec => []NoHoleShipped
<1>1. PPInv => NoHoleShipped
  BY ShippedIsAll DEF NoHoleShipped
<1>. QED BY <1>1, PPInvariance, PTL

(***************************************************************************)
(* PPNodeBuffer implements TramService.  An item is pending while it is in *)
(* a local buffer or in the shared one, so copying is a stutter, and a     *)
(* message without items is none.                                          *)
(***************************************************************************)
pendingBar == [d \in {0} |-> Stored]
Packed(s) == {[dest |-> 0, items |-> m.items] : m \in {n \in s : n.items # {}}}

LEMMA PackedIs ==
  /\ Service!vars = <<pendingBar, Packed(sent)>>
  /\ Service!Accepted = Known
  /\ pendingBar[0] = Stored
<1>1. Service!vars = <<pendingBar, Packed(sent)>> /\ pendingBar[0] = Stored
  BY DEF Service!vars, pendingBar, Packed
<1>2. UNION {pendingBar[d] : d \in {0}} = Stored
  BY DEF pendingBar
<1>3. (UNION {m.items : m \in Packed(sent)}) = UNION {m.items : m \in sent}
  <2>1. ASSUME NEW x, NEW m \in Packed(sent), x \in m.items
        PROVE  \E n \in sent : x \in n.items
    <3>1. PICK n \in sent : m = [dest |-> 0, items |-> n.items]
      BY <2>1 DEF Packed
    <3>2. m.items = n.items
      BY <3>1
    <3>. QED BY <2>1, <3>2
  <2>2. ASSUME NEW x, NEW n \in sent, x \in n.items
        PROVE  \E m \in Packed(sent) : x \in m.items
    <3>. DEFINE m == [dest |-> 0, items |-> n.items]
    <3>1. m.items = n.items /\ n.items # {}
      BY <2>2
    <3>2. m \in Packed(sent)
      BY <3>1 DEF Packed
    <3>. QED BY <2>2, <3>1, <3>2
  <2>. QED BY <2>1, <2>2
<1>4. Service!Accepted = (UNION {pendingBar[d] : d \in {0}})
                            \cup (UNION {m.items : m \in Packed(sent)})
  BY DEF Service!Accepted, pendingBar, Packed
<1>. QED BY <1>1, <1>2, <1>3, <1>4 DEF Known

\* Nothing of what TramService sees changes.
LEMMA PPStutters ==
  ASSUME Stored' = Stored, Packed(sent') = Packed(sent)
  PROVE  UNCHANGED Service!vars
BY DEF Service!vars, Packed

LEMMA PPAccepts ==
  ASSUME NEW x \in Items, x \notin Known, Stored' = Stored \cup {x}, sent' = sent
  PROVE  Service!Next
<1>1. pendingBar' = [pendingBar EXCEPT ![0] = @ \cup {x}]
  BY DEF pendingBar
<1>2. Service!Accept(0, x)
  BY <1>1, PackedIs DEF Service!Accept, pendingBar
<1>. QED BY <1>2 DEF Service!Next

\* As many items as slots, at most.
LEMMA FewItems ==
  ASSUME NEW n \in Nat, n <= bufSize, NEW g, NEW S, S = {g[i] : i \in 1 .. n}, S # {}
  PROVE  Cardinality(S) <= bufSize
<1>. DEFINE f == [i \in 1 .. bufSize |-> IF i <= n THEN g[i] ELSE g[1]]
<1>1. bufSize \in Nat
  BY SizeTypes
<1>2. 1 \in 1 .. n /\ \A i \in 1 .. n : i \in 1 .. bufSize /\ i <= n
  BY <1>1
<1>3. \A i \in 1 .. bufSize : i <= n => i \in 1 .. n
  BY <1>1
<1>4. \A i \in 1 .. bufSize : f[i] \in S
  BY <1>2, <1>3
<1>5. \A y \in S : \E i \in 1 .. bufSize : f[i] = y
  BY <1>2
<1>6. f \in Surjection(1 .. bufSize, S)
  <2>1. f \in [1 .. bufSize -> S]
    BY <1>4
  <2>. HIDE DEF f
  <2>. QED BY <1>5, <2>1 DEF Surjection
<1>7. ExistsSurjection(1 .. bufSize, S)
  BY <1>6 DEF ExistsSurjection
<1>. QED BY <1>1, <1>7, FS_SurjCardinalityBound

\* What was stored leaves in one message.
LEMMA PPShips ==
  ASSUME NEW S, S \subseteq Items, S \subseteq Stored, Stored' = Stored \ S,
         S # {} => Cardinality(S) <= bufSize,
         sent' = sent \cup {[items |-> S]}
  PROVE  [Service!Next]_Service!vars
<1>1. CASE S = {}
  <2>1. Stored' = Stored
    BY <1>1
  <2>2. Packed(sent') = Packed(sent)
    BY <1>1 DEF Packed
  <2>. QED BY <2>1, <2>2, PPStutters
<1>2. CASE S # {}
  <2>1. pendingBar' = [pendingBar EXCEPT ![0] = @ \ S]
    BY DEF pendingBar
  <2>2. Packed(sent') = Packed(sent) \cup {[dest |-> 0, items |-> S]}
    <3>. DEFINE new == [items |-> S]
    <3>1. new.items = S
      OBVIOUS
    <3>2. \A m : m \in sent' <=> m \in sent \/ m = new
      OBVIOUS
    <3>. HIDE DEF new
    <3>3. \A r : r \in Packed(sent') <=> r \in Packed(sent) \/ r = [dest |-> 0, items |-> S]
      BY <1>2, <3>1, <3>2 DEF Packed
    <3>. QED BY <3>3
  <2>3. S \in {T \in SUBSET Items : T # {} /\ Cardinality(T) <= bufSize}
    BY <1>2
  <2>4. Service!Ship(0, S, {})
    BY <2>1, <2>2, <2>3, PackedIs DEF Service!Ship, pendingBar, Packed
  <2>. QED BY <2>3, <2>4 DEF Service!Next
<1>. QED BY <1>1, <1>2

\* The batches of the two sends.
LEMMA FlushLocalRefines ==
  ASSUME Fits, PPInv, NEW t \in Threads, FlushLocal(t)
  PROVE  [Service!Next]_Service!vars
<1>. DEFINE S == Range(local_buf[t])
<1>1. sent' = sent \cup {[items |-> S]}
  BY DEF FlushLocal
<1>2. Stored' = Stored \ S /\ S \subseteq Stored
  BY FlushLocalStep
<1>3. local_buf[t] \in Seq(Items) /\ Len(local_buf[t]) \in Nat /\ Len(local_buf[t]) <= bufSize
  <2>1. local_buf[t] \in Seq(Items) /\ Len(local_buf[t]) <= L
    BY DEF PPInv, PPTypes, Locals
  <2>2. L \in Nat /\ bufSize \in Nat /\ L <= bufSize
    BY Sizes
  <2>3. Len(local_buf[t]) \in Nat
    BY <2>1
  <2>. QED BY <2>1, <2>2, <2>3
<1>4. S = {local_buf[t][i] : i \in 1 .. Len(local_buf[t])} /\ S \subseteq Items
  BY <1>3, RangeFacts
<1>. HIDE DEF S
<1>5. S # {} => Cardinality(S) <= bufSize
  BY <1>3, <1>4, FewItems
<1>. QED BY <1>1, <1>2, <1>4, <1>5, PPShips

LEMMA ShipRefines ==
  ASSUME Fits, PPInv, NEW t \in Threads, Ship(t)
  PROVE  [Service!Next]_Service!vars
<1>. DEFINE S == Shipped(slot[t])
            g == [i \in 1 .. slot[t] |-> msgBuffer[i - 1]]
<1>1. sent' = sent \cup {[items |-> S]} /\ pc[t] = "ship"
  BY DEF Ship
<1>2. Stored' = Stored \ S /\ S \subseteq Stored
  BY ShipStep
<1>3. slot[t] \in Nat /\ slot[t] <= bufSize /\ S \subseteq Items
  BY <1>1, ShippedIsAll
<1>4. S = {g[i] : i \in 1 .. slot[t]}
  <2>1. \A i \in 1 .. slot[t] : i - 1 \in 0 .. slot[t] - 1 /\ g[i] = msgBuffer[i - 1]
    BY <1>3
  <2>2. \A i \in 0 .. slot[t] - 1 : i + 1 \in 1 .. slot[t] /\ g[i + 1] = msgBuffer[i]
    BY <1>3
  <2>. HIDE DEF g
  <2>. QED BY <2>1, <2>2 DEF Shipped
<1>. HIDE DEF S, g
<1>5. S # {} => Cardinality(S) <= bufSize
  BY <1>3, <1>4, FewItems
<1>. QED BY <1>1, <1>2, <1>3, <1>5, PPShips

\* Between the sends items stay where they are, or are copied.
LEMMA RunRefines ==
  ASSUME Fits, PPInv, NEW t \in Threads, Run(t)
  PROVE  [Service!Next]_Service!vars
<1>1. CASE Ship(t)
  BY <1>1, ShipRefines
<1>2. CASE Copy(t)
  <2>1. Stored' = Stored /\ sent' = sent
    BY <1>2, CopyStep DEF Copy
  <2>. QED BY <2>1, PPStutters
<1>3. CASE \/ Reserve(t) \/ Count(t) \/ Mail(t) \/ FlushPeek(t) \/ FlushClaim(t)
           \/ FlushAwait(t) \/ Collect(t) \/ ClearCount(t) \/ Reopen(t)
  <2>1. local_buf' = local_buf /\ msgBuffer' = msgBuffer /\ sent' = sent
    BY <1>3 DEF Reserve, Count, Mail, FlushPeek, FlushClaim, FlushAwait, Collect,
                ClearCount, Reopen, shared
  <2>2. Stored' = Stored
    BY <2>1 DEF Stored
  <2>. QED BY <2>1, <2>2, PPStutters
<1>. QED BY <1>1, <1>2, <1>3 DEF Run

LEMMA PPNextRefines ==
  ASSUME Fits, PPInv, [Next]_vars
  PROVE  [Service!Next]_Service!vars
<1>1. CASE UNCHANGED vars
  <2>1. Stored' = Stored /\ sent' = sent
    BY <1>1 DEF vars, shared, Stored
  <2>. QED BY <2>1, PPStutters
<1>2. ASSUME NEW t \in Threads, NEW x \in Items, InsertValue(t, x)
      PROVE  Service!Next
  <2>1. x \notin Known /\ sent' = sent
    BY <1>2 DEF InsertValue
  <2>2. Stored' = Stored \cup {x}
    BY <1>2, InsertValueStep
  <2>. QED BY <2>1, <2>2, PPAccepts
<1>3. ASSUME NEW t \in Threads, FlushLocal(t)
      PROVE  [Service!Next]_Service!vars
  BY <1>3, FlushLocalRefines
<1>4. ASSUME NEW t \in Threads, Run(t)
      PROVE  [Service!Next]_Service!vars
  BY <1>4, RunRefines
<1>. QED BY <1>1, <1>2, <1>3, <1>4 DEF Next

LEMMA PPInitRefines ==
  ASSUME Init
  PROVE  Service!Init
<1>1. /\ local_buf = [t \in Threads |-> <<>>]
      /\ msgBuffer = [i \in Slots |-> Hole] /\ sent = {}
  BY DEF Init, NewBuffer
<1>2. Stored = {}
  <2>1. /\ \A t \in Threads : Range(local_buf[t]) = {}
        /\ Range(msgBuffer) \subseteq {Hole}
    BY <1>1 DEF Range
  <2>. QED BY <2>1, StoredIs
<1>3. pendingBar = [d \in {0} |-> {}] /\ Packed(sent) = {}
  BY <1>1, <1>2 DEF pendingBar, Packed
<1>. QED BY <1>3 DEF Service!Init, pendingBar, Packed

(***************************************************************************)
(* No item a thread collects is lost, overwritten or sent twice, for any   *)
(* number of threads in copyToNodeBuf and tflush at once.                  *)
(***************************************************************************)
THEOREM SharedBufferServes ==
  ASSUME Fits
  PROVE  Spec => ImplementsTramService
<1>1. Init => Service!Init
  BY PPInitRefines
<1>2. PPInv /\ [Next]_vars => [Service!Next]_Service!vars
  BY PPNextRefines
<1>. QED BY <1>1, <1>2, PPInvariance, PTL
         DEF Spec, ImplementsTramService, Service!Spec
=============================================================================
