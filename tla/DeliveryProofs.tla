--------------------------- MODULE DeliveryProofs ---------------------------
(***************************************************************************)
(* Delivery for any number of nodes, PEs and items: a shared message lives *)
(* exactly as long as somebody may read it, a buffer has room for the next *)
(* item, a message has what its receiver expects of it, and an item is in  *)
(* one place until it is handed over, so that sending, receiving and       *)
(* sharing together implement the delivery service.                        *)
(*                                                                         *)
(* References are counted per message, so two things must be told apart    *)
(* that look alike: the messages (Aged: one that leaves is newer than all  *)
(* that are travelling or shared) and the deliveries of one message (a PE  *)
(* has it once in its queue, and the loop that sends it has not got to the *)
(* PEs that come).  An item is followed from place to place (Kept), and is *)
(* handed over if and only if its delivery is not to come (AllPending);    *)
(* that its PE finds it there is a fact of the counting sort of receive    *)
(* and of the scan of receive_no_sort (RangeIs).                           *)
(***************************************************************************)
EXTENDS Delivery, FiniteSetTheorems, SequenceTheorems,
        WellFoundedInduction, TLAPS

(***************************************************************************)
(* Arithmetic of PEs and nodes.                                            *)
(***************************************************************************)
LEMMA NodeFacts ==
  ASSUME NEW pe \in PEs
  PROVE  NodeOf(pe) \in Nodes
<1>1. NumNodes \in Nat /\ NodeSize \in Nat /\ NodeSize > 0 /\ pe \in Nat
      /\ pe < NumNodes * NodeSize
  BY WireAssumption DEF WireAssumption, PEs
<1>2. pe \div NodeSize \in Nat /\ (pe \div NodeSize) * NodeSize <= pe
  BY <1>1
<1>3. ASSUME pe \div NodeSize >= NumNodes PROVE FALSE
  <2>1. (pe \div NodeSize) * NodeSize >= NumNodes * NodeSize
    BY <1>1, <1>2, <1>3
  <2>. QED BY <1>1, <1>2, <2>1
<1>. QED BY <1>1, <1>2, <1>3 DEF NodeOf, Nodes

LEMMA PEFacts ==
  ASSUME NEW n \in Nodes, NEW r \in 0 .. NodeSize - 1
  PROVE  PEAt(n, r) \in PEs
<1>1. NumNodes \in Nat /\ NodeSize \in Nat /\ n \in Nat /\ r \in Nat
      /\ n + 1 <= NumNodes /\ r < NodeSize
  BY WireAssumption DEF WireAssumption, Nodes
<1>2. (n + 1) * NodeSize <= NumNodes * NodeSize
  BY <1>1
<1>3. (n + 1) * NodeSize = n * NodeSize + NodeSize
  BY <1>1
<1>4. n * NodeSize \in Nat /\ NumNodes * NodeSize \in Nat
  BY <1>1
<1>. QED BY <1>1, <1>2, <1>3, <1>4 DEF PEAt, PEs

LEMMA NodesArePEs == Nodes \subseteq PEs
<1>1. NumNodes \in Nat /\ NodeSize \in Nat /\ NodeSize > 0
  BY WireAssumption DEF WireAssumption
<1>2. NumNodes <= NumNodes * NodeSize
  BY <1>1
<1>. QED BY <1>1, <1>2 DEF Nodes, PEs

LEMMA PEsFinite == IsFiniteSet(PEs)
<1>1. 0 \in Int /\ NumNodes * NodeSize - 1 \in Int
  BY WireAssumption DEF WireAssumption
<1>. QED BY <1>1, FS_Interval DEF PEs

(***************************************************************************)
(* Queues and readers.                                                     *)
(***************************************************************************)
IsQueue(s) == /\ s \in Seq(ToSet(s))
              /\ \A i, j \in 1 .. Len(s) : s[i] = s[j] => i = j

\* The deliveries of m that are due, and the handlers that have it.
Due(q, m) == {pe \in PEs : m \in ToSet(q[pe])}
Readers(run, m) == {pe \in PEs : run[pe] # Idle /\ run[pe].msg = m}

LEMMA UserSets ==
  ASSUME NEW q, NEW run, NEW m
  PROVE  /\ IsFiniteSet(Due(q, m)) /\ Cardinality(Due(q, m)) \in Nat
         /\ IsFiniteSet(Readers(run, m)) /\ Cardinality(Readers(run, m)) \in Nat
<1>1. Due(q, m) \subseteq PEs /\ Readers(run, m) \subseteq PEs
  BY DEF Due, Readers
<1>. QED BY <1>1, PEsFinite, FS_Subset, FS_CardinalityType

LEMMA AppendQueue ==
  ASSUME NEW s, IsQueue(s), NEW m, m \notin ToSet(s)
  PROVE  IsQueue(Append(s, m)) /\ ToSet(Append(s, m)) = ToSet(s) \cup {m}
<1>1. s \in Seq(ToSet(s)) /\ Len(s) \in Nat /\ DOMAIN s = 1 .. Len(s)
  BY DEF IsQueue
<1>. DEFINE t == Append(s, m)
<1>2. /\ Len(t) = Len(s) + 1 /\ DOMAIN t = 1 .. Len(t)
      /\ \A i \in 1 .. Len(s) : t[i] = s[i]
      /\ t[Len(s) + 1] = m
  BY <1>1
<1>3. ToSet(t) = ToSet(s) \cup {m}
  <2>1. ToSet(t) \subseteq ToSet(s) \cup {m}
    BY <1>1, <1>2 DEF ToSet
  <2>2. ToSet(s) \subseteq ToSet(t)
    BY <1>1, <1>2 DEF ToSet
  <2>3. m \in ToSet(t)
    BY <1>1, <1>2 DEF ToSet
  <2>. QED BY <2>1, <2>2, <2>3
<1>4. t \in Seq(ToSet(t))
  <2>1. s \in Seq(ToSet(t)) /\ m \in ToSet(t)
    BY <1>1, <1>3
  <2>. QED BY <2>1
<1>5. \A i \in 1 .. Len(s) : s[i] \in ToSet(s)
  BY <1>1 DEF ToSet
<1>6. \A i, j \in 1 .. Len(t) : t[i] = t[j] => i = j
  BY <1>1, <1>2, <1>5 DEF IsQueue
<1>. QED BY <1>3, <1>4, <1>6 DEF IsQueue

LEMMA TailQueue ==
  ASSUME NEW s, IsQueue(s), s # <<>>
  PROVE  /\ IsQueue(Tail(s)) /\ Head(s) \in ToSet(s)
         /\ ToSet(Tail(s)) = ToSet(s) \ {Head(s)}
<1>1. s \in Seq(ToSet(s)) /\ Len(s) \in Nat /\ Len(s) > 0 /\ DOMAIN s = 1 .. Len(s)
  BY DEF IsQueue
<1>. DEFINE t == Tail(s)
<1>2. /\ Len(t) = Len(s) - 1 /\ DOMAIN t = 1 .. Len(t)
      /\ \A i \in 1 .. Len(t) : t[i] = s[i + 1]
      /\ Head(s) = s[1]
  BY <1>1
<1>3. Head(s) \in ToSet(s)
  BY <1>1, <1>2 DEF ToSet
<1>4. ToSet(t) = ToSet(s) \ {Head(s)}
  <2>1. ASSUME NEW i \in 1 .. Len(t) PROVE t[i] \in ToSet(s) \ {Head(s)}
    <3>1. i + 1 \in 1 .. Len(s) /\ i + 1 # 1 /\ 1 \in 1 .. Len(s)
      BY <1>1, <1>2
    <3>. QED BY <1>1, <1>2, <3>1 DEF ToSet, IsQueue
  <2>2. ASSUME NEW i \in 1 .. Len(s), s[i] # s[1] PROVE s[i] \in ToSet(t)
    <3>1. i - 1 \in 1 .. Len(t)
      BY <1>1, <1>2, <2>2
    <3>2. t[i - 1] = s[i]
      BY <1>1, <1>2, <3>1
    <3>. QED BY <1>2, <3>1, <3>2 DEF ToSet
  <2>3. ToSet(t) \subseteq ToSet(s) \ {Head(s)}
    BY <1>2, <2>1 DEF ToSet
  <2>4. ToSet(s) \ {Head(s)} \subseteq ToSet(t)
    BY <1>1, <1>2, <2>2 DEF ToSet
  <2>. QED BY <2>3, <2>4
<1>5. t \in Seq(ToSet(t))
  <2>1. \A i \in 1 .. Len(t) : t[i] \in ToSet(t)
    BY <1>2 DEF ToSet
  <2>2. t \in Seq(ToSet(s))
    BY <1>1, HeadTailProperties
  <2>3. t \in [1 .. Len(t) -> ToSet(s)] /\ Len(t) \in Nat
    BY <2>2, LenProperties
  <2>4. t \in [1 .. Len(t) -> ToSet(t)]
    BY <2>1, <2>3
  <2>. QED BY <2>3, <2>4, SeqDef
<1>6. \A i, j \in 1 .. Len(t) : t[i] = t[j] => i = j
  <2>. SUFFICES ASSUME NEW i \in 1 .. Len(t), NEW j \in 1 .. Len(t), t[i] = t[j]
                PROVE  i = j
    OBVIOUS
  <2>1. i + 1 \in 1 .. Len(s) /\ j + 1 \in 1 .. Len(s)
    BY <1>1, <1>2
  <2>2. s[i + 1] = s[j + 1]
    BY <1>2
  <2>. QED BY <2>1, <2>2 DEF IsQueue
<1>. QED BY <1>3, <1>4, <1>5, <1>6 DEF IsQueue

\* Sending m to e's queue changes the users of m only.
LEMMA AppendUsers ==
  ASSUME NEW q, DOMAIN q = PEs, \A pe \in PEs : IsQueue(q[pe]),
         NEW e \in PEs, NEW m, m \notin ToSet(q[e]),
         NEW q2, DOMAIN q2 = PEs, q2[e] = Append(q[e], m),
         \A pe \in PEs \ {e} : q2[pe] = q[pe]
  PROVE  /\ DOMAIN q2 = PEs /\ \A pe \in PEs : IsQueue(q2[pe])
         /\ e \notin Due(q, m) /\ Due(q2, m) = Due(q, m) \cup {e}
         /\ \A k : k # m => Due(q2, k) = Due(q, k)
<1>1. IsQueue(Append(q[e], m)) /\ ToSet(Append(q[e], m)) = ToSet(q[e]) \cup {m}
  BY AppendQueue
<1>2. \A pe \in PEs : IsQueue(q2[pe])
  BY <1>1
<1>3. \A pe \in PEs : ToSet(q2[pe]) = IF pe = e THEN ToSet(q[pe]) \cup {m} ELSE ToSet(q[pe])
  BY <1>1
<1>4. e \notin Due(q, m) /\ Due(q2, m) = Due(q, m) \cup {e}
  BY <1>3 DEF Due
<1>5. ASSUME NEW k, k # m PROVE Due(q2, k) = Due(q, k)
  BY <1>3, <1>5 DEF Due
<1>. QED BY <1>2, <1>4, <1>5

(***************************************************************************)
(* Exact reference counts.                                                 *)
(***************************************************************************)
Uses(q, run, m) == Cardinality(Due(q, m)) + Cardinality(Readers(run, m))

\* The messages with a count are those with users, and the count is theirs.
Exact(r, q, run) ==
  /\ \A m : m \in DOMAIN r <=> Due(q, m) # {} \/ Readers(run, m) # {}
  /\ \A m \in DOMAIN r : r[m] = Uses(q, run, m)

LEMMA UsesFacts ==
  ASSUME NEW q, NEW run, NEW m
  PROVE  /\ Uses(q, run, m) \in Nat
         /\ Uses(q, run, m) = 0 <=> Due(q, m) = {} /\ Readers(run, m) = {}
<1>1. Cardinality(Due(q, m)) = 0 <=> Due(q, m) = {}
  BY UserSets, FS_EmptySet
<1>2. Cardinality(Readers(run, m)) = 0 <=> Readers(run, m) = {}
  BY UserSets, FS_EmptySet
<1>. QED BY <1>1, <1>2, UserSets DEF Uses

\* The counts follow, if those of all messages but m stay, and m's becomes
\* what it is used.
LEMMA StillExact ==
  ASSUME NEW r, NEW q, NEW run, Exact(r, q, run), NEW r2, NEW q2, NEW run2, NEW m,
         \A k : k # m => Due(q2, k) = Due(q, k) /\ Readers(run2, k) = Readers(run, k),
         DOMAIN r2 \ {m} = DOMAIN r \ {m},
         \A k \in DOMAIN r \ {m} : r2[k] = r[k],
         m \in DOMAIN r2 <=> Uses(q2, run2, m) # 0,
         m \in DOMAIN r2 => r2[m] = Uses(q2, run2, m)
  PROVE  Exact(r2, q2, run2)
<1>1. \A k : k # m => Uses(q2, run2, k) = Uses(q, run, k)
  BY DEF Uses
<1>2. ASSUME NEW k PROVE k \in DOMAIN r2 <=> Due(q2, k) # {} \/ Readers(run2, k) # {}
  <2>1. CASE k = m
    BY <2>1, UsesFacts
  <2>2. CASE k # m
    BY <2>2 DEF Exact
  <2>. QED BY <2>1, <2>2
<1>3. ASSUME NEW k \in DOMAIN r2 PROVE r2[k] = Uses(q2, run2, k)
  <2>1. CASE k # m
    <3>1. k \in DOMAIN r \ {m}
      BY <1>3, <2>1
    <3>. QED BY <1>1, <2>1, <3>1 DEF Exact
  <2>. QED BY <1>3, <2>1
<1>. QED BY <1>2, <1>3 DEF Exact

(***************************************************************************)
(* The receiving side.                                                     *)
(***************************************************************************)
InLoop(v) == v.at = "fanout"

Handlers(run) ==
  /\ DOMAIN run = PEs
  /\ \A p \in PEs :
       \/ run[p] = Idle
       \/ run[p] = CallsBack(run[p].msg)
       \/ /\ run[p] = [at |-> "fanout", msg |-> run[p].msg, rank |-> run[p].rank,
                       skip |-> run[p].skip]
          /\ run[p].rank \in 0 .. NodeSize

\* The PEs that a loop has still to reach do not have its message yet.
Ahead(q, v, n) ==
  \A r \in 0 .. NodeSize - 1 : v.rank <= r => v.msg \notin ToSet(q[PEAt(n, r)])

Loops(q, run) ==
  \A p \in PEs : InLoop(run[p]) => Ahead(q, run[p], NodeOf(p))

OneLoop(run) ==
  \A p, e \in PEs : InLoop(run[p]) /\ InLoop(run[e]) /\ run[p].msg = run[e].msg
                      => p = e

Sharing ==
  /\ DOMAIN queue = PEs /\ \A pe \in PEs : IsQueue(queue[pe])
  /\ Handlers(running) /\ Loops(queue, running) /\ OneLoop(running)
  /\ Exact(refs, queue, running)
  /\ wire \cap DOMAIN refs = {}

\* A handler's message, and how it leaves the handler.
LEMMA HandlerFacts ==
  ASSUME NEW run, Handlers(run), NEW p \in PEs
  PROVE  /\ InLoop(run[p]) => run[p] # Idle /\ run[p].rank \in 0 .. NodeSize
         /\ run[p].at = "callback" => run[p] # Idle
BY DEF Handlers, InLoop, Idle, CallsBack

LEMMA ReaderHasCount ==
  ASSUME Sharing, NEW p \in PEs, running[p] # Idle
  PROVE  running[p].msg \in DOMAIN refs
<1>1. p \in Readers(running, running[p].msg)
  BY DEF Readers
<1>. QED BY <1>1 DEF Sharing, Exact

\* A message arrives: nobody uses it yet, so its count starts at 1.
LEMMA ArrivalStep ==
  ASSUME Sharing, NEW pe \in PEs, NEW m, NEW entry, Arrives(pe, m, entry),
         NEW skip, StartFanOut(pe, m, skip)
  PROVE  Sharing' /\ DOMAIN refs' \subseteq DOMAIN refs \cup {m}
<1>. DEFINE v == FansOut(m, skip)
<1>1. /\ DOMAIN running = PEs /\ running[pe] = Idle /\ m \in wire
      /\ wire' = wire \ {m} /\ queue' = queue
      /\ running' = [running EXCEPT ![pe] = v]
      /\ refs' = [k \in DOMAIN refs \cup {m} |-> IF k = m THEN 1 ELSE refs[k]]
  BY DEF Sharing, Handlers, Arrives, StartFanOut
<1>2. v # Idle /\ v.msg = m /\ InLoop(v) /\ v.rank = 0
  BY DEF FansOut, Idle, InLoop
<1>3. m \notin DOMAIN refs
  BY <1>1 DEF Sharing
<1>4. Due(queue, m) = {} /\ Readers(running, m) = {}
  BY <1>3 DEF Sharing, Exact
<1>5. /\ Readers(running', m) = {pe}
      /\ \A k : k # m => Readers(running', k) = Readers(running, k)
  <2>1. /\ running'[pe] # Idle /\ running'[pe].msg = m
        /\ \A p \in PEs \ {pe} : running'[p] = running[p]
    BY <1>1, <1>2
  <2>. QED BY <1>1, <1>4, <2>1 DEF Readers
<1>6. Uses(queue', running', m) = 1
  <2>1. Cardinality({}) = 0 /\ Cardinality({pe}) = 1
    BY FS_EmptySet, FS_Singleton
  <2>2. Due(queue', m) = {}
    BY <1>1, <1>4
  <2>. QED BY <1>5, <2>1, <2>2 DEF Uses
<1>7. Exact(refs', queue', running')
  <2>1. \A k : k # m => /\ Due(queue', k) = Due(queue, k)
                        /\ Readers(running', k) = Readers(running, k)
    BY <1>1, <1>5
  <2>2. /\ DOMAIN refs' \ {m} = DOMAIN refs \ {m}
        /\ \A k \in DOMAIN refs \ {m} : refs'[k] = refs[k]
        /\ m \in DOMAIN refs' /\ refs'[m] = 1
    BY <1>1, <1>3
  <2>. QED BY <1>6, <2>1, <2>2, StillExact DEF Sharing
<1>8. Handlers(running')
  <2>1. NodeSize \in Nat
    BY WireAssumption DEF WireAssumption
  <2>. QED BY <1>1, <2>1 DEF Handlers, Sharing, FansOut
<1>9. Loops(queue', running')
  <2>1. Ahead(queue, v, NodeOf(pe))
    BY <1>2, <1>4, PEFacts, NodeFacts DEF Ahead, Due
  <2>. QED BY <1>1, <2>1 DEF Loops, Sharing
<1>10. OneLoop(running')
  <2>1. \A p \in PEs : InLoop(running[p]) => running[p].msg # m
    BY <1>4, HandlerFacts DEF Readers, Sharing
  <2>. QED BY <1>1, <1>2, <2>1 DEF OneLoop, Sharing
<1>. QED BY <1>1, <1>3, <1>7, <1>8, <1>9, <1>10 DEF Sharing

\* A turn of the loop that skips its PE uses nothing.
LEMMA SkipStep ==
  ASSUME Sharing, NEW pe \in PEs, InLoop(running[pe]), running[pe].rank < NodeSize,
         UNCHANGED <<wire, refs, queue>>,
         running' = [running EXCEPT ![pe].rank = @ + 1]
  PROVE  Sharing'
<1>1. /\ DOMAIN running = PEs /\ running[pe].rank \in 0 .. NodeSize
      /\ running[pe] = [at |-> "fanout", msg |-> running[pe].msg,
                        rank |-> running[pe].rank, skip |-> running[pe].skip]
      /\ NodeSize \in Nat
  BY HandlerFacts, WireAssumption
     DEF Sharing, Handlers, InLoop, Idle, CallsBack, WireAssumption
<1>2. /\ DOMAIN running' = PEs
      /\ running'[pe] = [at |-> "fanout", msg |-> running[pe].msg,
                         rank |-> running[pe].rank + 1, skip |-> running[pe].skip]
      /\ \A p \in PEs \ {pe} : running'[p] = running[p]
  BY <1>1
<1>3. \A p \in PEs : /\ InLoop(running'[p]) <=> InLoop(running[p])
                     /\ running'[p] = Idle <=> running[p] = Idle
                     /\ running'[p].msg = running[p].msg \/ p # pe
  BY <1>1, <1>2 DEF InLoop, Idle
<1>4. ASSUME NEW k PROVE Readers(running', k) = Readers(running, k)
  BY <1>2, <1>3 DEF Readers
<1>5. Exact(refs', queue', running')
  BY <1>4 DEF Sharing, Exact, Uses
<1>6. Handlers(running')
  BY <1>1, <1>2 DEF Handlers, Sharing
<1>7. Loops(queue', running')
  <2>1. Ahead(queue, running[pe], NodeOf(pe))
    BY DEF Sharing, Loops
  <2>2. Ahead(queue, running'[pe], NodeOf(pe))
    BY <1>1, <1>2, <2>1 DEF Ahead
  <2>. QED BY <1>2, <2>2 DEF Loops, Sharing
<1>8. OneLoop(running')
  BY <1>2, <1>3 DEF OneLoop, Sharing
<1>. QED BY <1>5, <1>6, <1>7, <1>8 DEF Sharing

\* A turn that sends to the PE e of its rank adds one user of its message m.
SendsTo(pe, m, e) ==
  /\ InLoop(running[pe]) /\ running[pe].rank < NodeSize
  /\ m = running[pe].msg /\ e = PEAt(NodeOf(pe), running[pe].rank)
  /\ refs' = Take(m) /\ UNCHANGED wire
  /\ queue' = [queue EXCEPT ![e] = Append(@, m)]
  /\ running' = [running EXCEPT ![pe].rank = @ + 1]

LEMMA SendStep ==
  ASSUME Sharing, NEW pe \in PEs, NEW m, NEW e, SendsTo(pe, m, e)
  PROVE  Sharing' /\ DOMAIN refs' = DOMAIN refs
<1>1. /\ DOMAIN running = PEs /\ running[pe].rank \in 0 .. NodeSize
      /\ running[pe] = [at |-> "fanout", msg |-> running[pe].msg,
                        rank |-> running[pe].rank, skip |-> running[pe].skip]
      /\ running[pe].rank < NodeSize /\ NodeSize \in Nat
      /\ m = running[pe].msg /\ e = PEAt(NodeOf(pe), running[pe].rank)
      /\ InLoop(running[pe]) /\ wire' = wire
  BY HandlerFacts, WireAssumption
     DEF Sharing, Handlers, InLoop, Idle, CallsBack, WireAssumption, SendsTo
<1>2. /\ DOMAIN running' = PEs
      /\ running'[pe] = [at |-> "fanout", msg |-> m,
                         rank |-> running[pe].rank + 1, skip |-> running[pe].skip]
      /\ \A p \in PEs \ {pe} : running'[p] = running[p]
  BY <1>1 DEF SendsTo
<1>3. \A p \in PEs : /\ InLoop(running'[p]) <=> InLoop(running[p])
                     /\ running'[p] = Idle <=> running[p] = Idle
                     /\ running'[p].msg = running[p].msg
  BY <1>1, <1>2 DEF InLoop, Idle
<1>4. \A k : Readers(running', k) = Readers(running, k)
  BY <1>2, <1>3 DEF Readers
<1>5. NodeOf(pe) \in Nodes /\ e \in PEs
  BY <1>1, NodeFacts, PEFacts
<1>6. m \notin ToSet(queue[e])
  BY <1>1, <1>5 DEF Sharing, Loops, Ahead
<1>7. /\ DOMAIN queue' = PEs /\ queue'[e] = Append(queue[e], m)
      /\ \A p \in PEs \ {e} : queue'[p] = queue[p]
  BY <1>5 DEF Sharing, SendsTo
<1>8. /\ DOMAIN queue' = PEs /\ \A p \in PEs : IsQueue(queue'[p])
      /\ e \notin Due(queue, m) /\ Due(queue', m) = Due(queue, m) \cup {e}
      /\ \A k : k # m => Due(queue', k) = Due(queue, k)
  BY <1>5, <1>6, <1>7, AppendUsers DEF Sharing
<1>9. /\ m \in DOMAIN refs /\ DOMAIN refs' = DOMAIN refs
      /\ refs'[m] = refs[m] + 1
      /\ \A k \in DOMAIN refs \ {m} : refs'[k] = refs[k]
  <2>1. m \in DOMAIN refs
    BY <1>1, HandlerFacts, ReaderHasCount DEF Sharing
  <2>2. refs' = [refs EXCEPT ![m] = @ + 1]
    BY <2>1 DEF Take, SendsTo
  <2>. QED BY <2>1, <2>2
<1>10. Uses(queue', running', m) = Uses(queue, running, m) + 1
  <2>1. Cardinality(Due(queue', m)) = Cardinality(Due(queue, m)) + 1
    BY <1>8, UserSets, FS_AddElement
  <2>. QED BY <1>4, <2>1, UserSets DEF Uses
<1>11. Exact(refs', queue', running')
  <2>1. /\ DOMAIN refs' = DOMAIN refs
        /\ \A k \in DOMAIN refs \ {m} : refs'[k] = refs[k]
        /\ refs'[m] = Uses(queue', running', m)
    BY <1>9, <1>10 DEF Sharing, Exact
  <2>2. Uses(queue', running', m) # 0
    BY <1>10, UsesFacts
  <2>3. m \in DOMAIN refs' /\ DOMAIN refs' \ {m} = DOMAIN refs \ {m}
    BY <1>9
  <2>. QED BY <1>4, <1>8, <2>1, <2>2, <2>3, StillExact DEF Sharing
<1>12. Handlers(running')
  BY <1>1, <1>2 DEF Handlers, Sharing
<1>13. \A p \in PEs : InLoop(running[p]) /\ p # pe => running[p].msg # m
  BY <1>1 DEF Sharing, OneLoop
<1>14. Loops(queue', running')
  <2>1. ASSUME NEW p \in PEs, InLoop(running'[p]), NEW r \in 0 .. NodeSize - 1,
               running'[p].rank <= r
        PROVE  running'[p].msg \notin ToSet(queue'[PEAt(NodeOf(p), r)])
    <3>. DEFINE f == PEAt(NodeOf(p), r)
    <3>1. f \in PEs
      BY NodeFacts, PEFacts
    <3>2. CASE p = pe
      <4>1. running[pe].rank <= r /\ running[pe].rank # r
        BY <1>1, <1>2, <2>1, <3>2
      <4>2. m \notin ToSet(queue[f])
        BY <1>1, <3>2, <4>1 DEF Sharing, Loops, Ahead
      <4>3. f # e
        <5>1. NodeOf(pe) * NodeSize \in Int
          BY <1>1, <1>5 DEF Nodes
        <5>. QED BY <1>1, <3>2, <4>1, <5>1 DEF PEAt
      <4>. QED BY <1>2, <1>8, <3>1, <3>2, <4>2, <4>3 DEF Due
    <3>3. CASE p # pe
      <4>1. running'[p] = running[p] /\ InLoop(running[p])
        BY <1>2, <2>1, <3>3
      <4>2. running[p].msg \notin ToSet(queue[f]) /\ running[p].msg # m
        BY <1>13, <2>1, <3>3, <4>1 DEF Sharing, Loops, Ahead
      <4>. QED BY <1>8, <3>1, <4>1, <4>2 DEF Due
    <3>. QED BY <3>2, <3>3
  <2>. QED BY <2>1 DEF Loops, Ahead
<1>15. OneLoop(running')
  BY <1>2, <1>3 DEF OneLoop, Sharing
<1>. QED BY <1>1, <1>8, <1>9, <1>11, <1>12, <1>14, <1>15 DEF Sharing

\* receivePerPE: the delivery that was due becomes the callback that reads.
Reads(pe, m) ==
  /\ running[pe] = Idle /\ queue[pe] # <<>> /\ m = Head(queue[pe])
  /\ queue' = [queue EXCEPT ![pe] = Tail(@)]
  /\ running' = [running EXCEPT ![pe] = CallsBack(m)]
  /\ UNCHANGED <<wire, refs>>

LEMMA ReadStep ==
  ASSUME Sharing, NEW pe \in PEs, NEW m, Reads(pe, m)
  PROVE  Sharing'
<1>1. /\ DOMAIN running' = PEs /\ running'[pe] = CallsBack(m)
      /\ running[pe] = Idle /\ UNCHANGED <<wire, refs>>
      /\ \A p \in PEs \ {pe} : running'[p] = running[p]
  BY DEF Sharing, Handlers, Reads
<1>2. CallsBack(m) # Idle /\ CallsBack(m).msg = m /\ ~InLoop(CallsBack(m))
  BY DEF CallsBack, Idle, InLoop
<1>3. /\ pe \notin Readers(running, m)
      /\ Readers(running', m) = Readers(running, m) \cup {pe}
      /\ \A k : k # m => Readers(running', k) = Readers(running, k)
  BY <1>1, <1>2 DEF Readers
<1>4. /\ DOMAIN queue' = PEs /\ \A p \in PEs : IsQueue(queue'[p])
      /\ \A p \in PEs : ToSet(queue'[p]) \subseteq ToSet(queue[p])
      /\ pe \in Due(queue, m) /\ Due(queue', m) = Due(queue, m) \ {pe}
      /\ \A k : k # m => Due(queue', k) = Due(queue, k)
  <2>1. /\ DOMAIN queue = PEs /\ queue[pe] # <<>> /\ m = Head(queue[pe])
        /\ DOMAIN queue' = PEs /\ queue'[pe] = Tail(queue[pe])
        /\ \A p \in PEs \ {pe} : queue'[p] = queue[p]
    BY DEF Sharing, Reads
  <2>2. \A p \in PEs : IsQueue(queue[p])
    BY DEF Sharing
  <2>3. /\ IsQueue(queue'[pe]) /\ m \in ToSet(queue[pe])
        /\ ToSet(queue'[pe]) = ToSet(queue[pe]) \ {m}
    BY <2>1, <2>2, TailQueue
  <2>4. \A p \in PEs : IsQueue(queue'[p])
    BY <2>1, <2>2, <2>3
  <2>5. \A p \in PEs : ToSet(queue'[p]) = IF p = pe THEN ToSet(queue[p]) \ {m}
                                                    ELSE ToSet(queue[p])
    BY <2>1, <2>3
  <2>. QED BY <2>1, <2>3, <2>4, <2>5 DEF Due
<1>5. Uses(queue', running', m) = Uses(queue, running, m)
  <2>1. Cardinality(Readers(running', m)) = Cardinality(Readers(running, m)) + 1
    BY <1>3, UserSets, FS_AddElement
  <2>2. Cardinality(Due(queue', m)) = Cardinality(Due(queue, m)) - 1
    BY <1>4, UserSets, FS_RemoveElement
  <2>. QED BY <2>1, <2>2, UserSets DEF Uses
<1>6. Exact(refs', queue', running')
  <2>1. m \in DOMAIN refs /\ refs[m] = Uses(queue, running, m)
    BY <1>4 DEF Sharing, Exact
  <2>2. Uses(queue, running, m) # 0
    BY <1>4, UsesFacts
  <2>. QED BY <1>1, <1>3, <1>4, <1>5, <2>1, <2>2, StillExact DEF Sharing
<1>7. Handlers(running')
  BY <1>1 DEF Handlers, Sharing, CallsBack
<1>8. Loops(queue', running')
  <2>1. ASSUME NEW p \in PEs, InLoop(running'[p]) PROVE Ahead(queue', running'[p], NodeOf(p))
    <3>1. running'[p] = running[p] /\ Ahead(queue, running[p], NodeOf(p))
      BY <1>1, <1>2, <2>1 DEF Sharing, Loops
    <3>. QED BY <1>4, <3>1, NodeFacts, PEFacts DEF Ahead
  <2>. QED BY <2>1 DEF Loops
<1>9. OneLoop(running')
  BY <1>1, <1>2 DEF OneLoop, Sharing
<1>. QED BY <1>1, <1>4, <1>6, <1>7, <1>8, <1>9 DEF Sharing

\* The receiver's loop or a callback ends and drops its reference; the last
\* one frees the message.
Stops(pe, m) ==
  /\ running[pe] # Idle /\ m = running[pe].msg
  /\ running' = [running EXCEPT ![pe] = Idle]
  /\ refs' = Drop(m)
  /\ UNCHANGED <<wire, queue>>

LEMMA StopStep ==
  ASSUME Sharing, NEW pe \in PEs, NEW m, Stops(pe, m)
  PROVE  Sharing' /\ DOMAIN refs' \subseteq DOMAIN refs
<1>1. /\ DOMAIN running' = PEs /\ running'[pe] = Idle /\ ~InLoop(Idle)
      /\ running[pe] # Idle /\ UNCHANGED <<wire, queue>>
      /\ \A p \in PEs \ {pe} : running'[p] = running[p]
  BY DEF Sharing, Handlers, Idle, InLoop, Stops
<1>2. /\ pe \in Readers(running, m)
      /\ Readers(running', m) = Readers(running, m) \ {pe}
      /\ \A k : k # m => Readers(running', k) = Readers(running, k)
  BY <1>1 DEF Readers, Stops
<1>3. Uses(queue', running', m) = Uses(queue, running, m) - 1
  <2>1. Cardinality(Readers(running', m)) = Cardinality(Readers(running, m)) - 1
    BY <1>2, UserSets, FS_RemoveElement
  <2>. QED BY <1>1, <2>1, UserSets DEF Uses
<1>4. m \in DOMAIN refs /\ refs[m] = Uses(queue, running, m)
  BY ReaderHasCount DEF Sharing, Exact, Stops
<1>5. /\ DOMAIN refs' \ {m} = DOMAIN refs \ {m}
      /\ \A k \in DOMAIN refs \ {m} : refs'[k] = refs[k]
      /\ m \in DOMAIN refs' <=> Uses(queue', running', m) # 0
      /\ m \in DOMAIN refs' => refs'[m] = Uses(queue', running', m)
      /\ DOMAIN refs' \subseteq DOMAIN refs
  <2>1. CASE refs[m] = 1
    BY <1>3, <1>4, <2>1 DEF Drop, Stops
  <2>2. CASE refs[m] # 1
    <3>1. refs' = [refs EXCEPT ![m] = @ - 1]
      BY <1>4, <2>2 DEF Drop, Stops
    <3>2. Uses(queue', running', m) # 0
      BY <1>3, <1>4, <2>2, UsesFacts
    <3>. QED BY <1>3, <1>4, <3>1, <3>2
  <2>. QED BY <2>1, <2>2
<1>6. Exact(refs', queue', running')
  BY <1>1, <1>2, <1>5, StillExact DEF Sharing
<1>7. Handlers(running')
  BY <1>1 DEF Handlers, Sharing
<1>8. Loops(queue', running')
  BY <1>1 DEF Loops, Sharing
<1>9. OneLoop(running')
  BY <1>1 DEF OneLoop, Sharing
<1>. QED BY <1>1, <1>5, <1>6, <1>7, <1>8, <1>9 DEF Sharing

\* A message that goes straight to a callback is not shared.
LEMMA AloneStep ==
  ASSUME Sharing, NEW m, wire' = wire \ {m}, UNCHANGED <<refs, queue, running>>
  PROVE  Sharing'
BY DEF Sharing

(***************************************************************************)
(* The sending side.                                                       *)
(***************************************************************************)
Buffers ==
  /\ agg \in {"WsP", "WPs", "WW"} /\ bufSize \in BufSizes
  /\ msgBuffers \in [PEs -> [slots : Seq(ItemSlots), cap : Nat]]
  /\ RoomForNext

Waiting == {d \in PEs : NextOf(d) # 0}

\* Two messages to one destination differ, since an item came in between: a
\* message is older than the items that wait for its destination.
Aged ==
  /\ IsFiniteSet(inserted)
  /\ \A m \in wire \cup DOMAIN refs :
       /\ m.serial \in Nat /\ m.serial <= Cardinality(inserted)
       /\ m.dest \in Waiting => m.serial < Cardinality(inserted)

LEMMA DestsArePEs == Dests(agg) \subseteq PEs
BY NodesArePEs DEF Dests

LEMMA DestOfPE ==
  ASSUME NEW pe \in Targets
  PROVE  DestOf(pe) \in PEs /\ DestOf(pe) \in Dests(agg)
BY NodeFacts, NodesArePEs, DeliveryAssumption DEF DestOf, Dests, DeliveryAssumption

LEMMA NewMessageType ==
  ASSUME NEW n \in BufSizes
  PROVE  /\ NewMessage(n) \in [slots : Seq(ItemSlots), cap : Nat]
         /\ Len(NewMessage(n).slots) = 0 /\ NewMessage(n).cap = n /\ 0 < n
BY PlainAssumption DEF NewMessage, PlainAssumption

\* An item is stored for d: either it waits, or it fills the buffer, and one
\* message to d leaves.
Stores(d, slot, r) ==
  \E slots : \E m :
    /\ slots = Append(msgBuffers[d].slots, slot)
    /\ inserted' = inserted \cup {r} /\ r \notin inserted
    /\ \/ /\ Len(slots) # bufSize /\ wire' = wire
          /\ msgBuffers' = [msgBuffers EXCEPT ![d].slots = slots]
       \/ /\ Len(slots) = bufSize /\ wire' = wire \cup {m}
          /\ m.serial = Cardinality(inserted') /\ m.dest = d
          /\ msgBuffers' = [msgBuffers EXCEPT ![d] = NewMessage(bufSize)]
    /\ UNCHANGED <<agg, bufSize>>

LEMMA InsertValueStores ==
  ASSUME NEW x \in Items, NEW pe \in Targets, InsertValue(x, pe)
  PROVE  \E slot \in ItemSlots : \E r : Stores(DestOf(pe), slot, r)
<1>. DEFINE d == DestOf(pe)
            slot == IF agg = "WsP" THEN Unwritten ELSE Slot(x, pe)
            r == [item |-> x, place |-> OnPE(pe)]
<1>1. slot \in ItemSlots
  BY DeliveryAssumption DEF ItemSlots, Unwritten, Slot, DeliveryAssumption
<1>2. r \notin inserted
  BY DEF InsertValue, Fresh
<1>3. Stores(d, slot, r)
  BY <1>2 DEF InsertValue, Stores, Store, With, Message
<1>. QED BY <1>1, <1>3

LEMMA InsertToProcessStores ==
  ASSUME NEW x \in Items, NEW n \in Procs, InsertToProcess(x, n)
  PROVE  \E slot \in ItemSlots : \E r : Stores(n, slot, r)
<1>. DEFINE slot == Slot(x, AnyPE)
            r == [item |-> x, place |-> OnProc(n)]
<1>1. slot \in ItemSlots
  BY DEF ItemSlots, Slot
<1>2. r \notin inserted
  BY DEF InsertToProcess, Fresh
<1>. DEFINE slots == Append(msgBuffers[n].slots, slot)
            m == Message("receiveOnProc", n, slots, Cardinality(inserted'))
<1>3. /\ inserted' = inserted \cup {r}
      /\ \/ /\ Len(slots) # bufSize /\ wire' = wire
            /\ msgBuffers' = [msgBuffers EXCEPT ![n].slots = slots]
         \/ /\ Len(slots) = bufSize /\ wire' = wire \cup {m}
            /\ msgBuffers' = [msgBuffers EXCEPT ![n] = NewMessage(bufSize)]
      /\ UNCHANGED <<agg, bufSize>>
  BY DEF InsertToProcess, Store, With
<1>4. m.serial = Cardinality(inserted') /\ m.dest = n
  BY DEF Message
<1>5. Stores(n, slot, r)
  <2>. HIDE DEF m, slot, r
  <2>. QED BY <1>2, <1>3, <1>4 DEF Stores
<1>. QED BY <1>1, <1>5

LEMMA StoresStep ==
  ASSUME Buffers, Aged, NEW d \in Dests(agg), NEW slot \in ItemSlots, NEW r,
         Stores(d, slot, r), refs' = refs
  PROVE  Buffers' /\ Aged' /\ wire' \cap DOMAIN refs \subseteq wire
<1>1. PICK slots, m :
        /\ slots = Append(msgBuffers[d].slots, slot)
        /\ inserted' = inserted \cup {r} /\ r \notin inserted
        /\ \/ /\ Len(slots) # bufSize /\ wire' = wire
              /\ msgBuffers' = [msgBuffers EXCEPT ![d].slots = slots]
           \/ /\ Len(slots) = bufSize /\ wire' = wire \cup {m}
              /\ m.serial = Cardinality(inserted') /\ m.dest = d
              /\ msgBuffers' = [msgBuffers EXCEPT ![d] = NewMessage(bufSize)]
        /\ agg' = agg /\ bufSize' = bufSize
  BY DEF Stores
<1>2. /\ IsFiniteSet(inserted') /\ Cardinality(inserted) \in Nat
      /\ Cardinality(inserted') = Cardinality(inserted) + 1
  BY <1>1, FS_AddElement, FS_CardinalityType DEF Aged
<1>3. d \in PEs /\ bufSize \in Nat /\ bufSize > 0
  BY DestsArePEs, PlainAssumption DEF Buffers, PlainAssumption
<1>4. /\ msgBuffers[d].slots \in Seq(ItemSlots) /\ slots \in Seq(ItemSlots)
      /\ Len(slots) = NextOf(d) + 1 /\ msgBuffers[d].cap = bufSize
      /\ NextOf(d) < bufSize /\ NextOf(d) \in Nat
  BY <1>1, <1>3 DEF Buffers, RoomForNext, NextOf
<1>5. /\ DOMAIN msgBuffers' = PEs
      /\ \A p \in PEs \ {d} : msgBuffers'[p] = msgBuffers[p]
      /\ msgBuffers'[d] \in [slots : Seq(ItemSlots), cap : Nat]
      /\ msgBuffers'[d].cap = bufSize /\ Len(msgBuffers'[d].slots) < bufSize
      /\ wire' # wire => Len(msgBuffers'[d].slots) = 0
      /\ wire' = wire \/ wire' = wire \cup {m}
  <2>1. CASE Len(slots) # bufSize
    <3>1. wire' = wire /\ msgBuffers' = [msgBuffers EXCEPT ![d].slots = slots]
      BY <1>1, <2>1
    <3>2. msgBuffers[d] \in [slots : Seq(ItemSlots), cap : Nat]
      BY <1>3 DEF Buffers
    <3>3. msgBuffers'[d] = [slots |-> slots, cap |-> msgBuffers[d].cap]
      BY <1>3, <3>1, <3>2 DEF Buffers
    <3>4. DOMAIN msgBuffers' = PEs /\ \A p \in PEs \ {d} : msgBuffers'[p] = msgBuffers[p]
      BY <1>3, <3>1 DEF Buffers
    <3>5. msgBuffers[d].cap \in Nat /\ Len(slots) < bufSize
      BY <1>3, <1>4, <2>1
    <3>. QED BY <1>4, <3>1, <3>3, <3>4, <3>5
  <2>2. CASE Len(slots) = bufSize
    <3>1. /\ wire' = wire \cup {m}
          /\ msgBuffers' = [msgBuffers EXCEPT ![d] = NewMessage(bufSize)]
      BY <1>1, <2>2
    <3>2. /\ DOMAIN msgBuffers' = PEs /\ msgBuffers'[d] = NewMessage(bufSize)
          /\ \A p \in PEs \ {d} : msgBuffers'[p] = msgBuffers[p]
      BY <1>3, <3>1 DEF Buffers
    <3>. QED BY <1>3, <3>1, <3>2, NewMessageType DEF Buffers
  <2>. QED BY <2>1, <2>2
<1>6. Buffers'
  <2>1. \A p \in PEs : msgBuffers'[p] \in [slots : Seq(ItemSlots), cap : Nat]
    BY <1>5 DEF Buffers
  <2>2. msgBuffers' \in [PEs -> [slots : Seq(ItemSlots), cap : Nat]]
    <3>1. msgBuffers' = [p \in PEs |-> msgBuffers'[p]]
      BY <1>1, <1>3 DEF Buffers
    <3>. QED BY <2>1, <3>1
  <2>3. \A p \in Dests(agg') :
          msgBuffers'[p].cap = bufSize /\ Len(msgBuffers'[p].slots) < bufSize
    BY <1>1, <1>5, DestsArePEs DEF Buffers, RoomForNext, NextOf
  <2>. QED BY <1>1, <2>2, <2>3 DEF Buffers, RoomForNext, NextOf, Dests
<1>7. Waiting' \subseteq Waiting \cup {d} /\ (wire' # wire => d \notin Waiting')
  BY <1>5 DEF Waiting, NextOf
<1>8. wire' = wire \/ (wire' = wire \cup {m} /\ m.serial = Cardinality(inserted'))
  BY <1>1
<1>9. Aged'
  <2>1. ASSUME NEW k \in wire \cup DOMAIN refs
        PROVE  k.serial \in Nat /\ k.serial < Cardinality(inserted')
    BY <1>2 DEF Aged
  <2>2. \A k \in wire' \ wire : /\ k.serial = Cardinality(inserted')
                               /\ k.dest \notin Waiting'
    BY <1>1, <1>7, <1>8
  <2>3. Cardinality(inserted') \in Nat
    BY <1>2
  <2>. QED BY <1>2, <2>1, <2>2, <2>3 DEF Aged
<1>10. wire' \cap DOMAIN refs \subseteq wire
  <2>1. \A k \in DOMAIN refs : k.serial # Cardinality(inserted')
    BY <1>2 DEF Aged
  <2>. QED BY <1>8, <2>1
<1>. QED BY <1>6, <1>9, <1>10

LEMMA FlushStep ==
  ASSUME Buffers, Aged, TFlush, refs' = refs
  PROVE  Buffers' /\ Aged' /\ wire' \cap DOMAIN refs \subseteq wire
<1>1. /\ agg' = agg /\ bufSize' = bufSize /\ inserted' = inserted
      /\ msgBuffers' = [d \in PEs |-> IF d \in Partial THEN NewMessage(bufSize)
                                                       ELSE msgBuffers[d]]
  BY DEF TFlush
<1>2. \A k \in wire' \ wire : k.serial = Cardinality(inserted) /\ k.dest \in Partial
  BY DEF TFlush, Message
<1>3. Partial \subseteq Waiting /\ Dests(agg) \subseteq PEs
  BY DestsArePEs DEF Partial, Waiting
<1>4. \A d \in PEs : /\ msgBuffers'[d] \in [slots : Seq(ItemSlots), cap : Nat]
                     /\ d \in Partial => /\ msgBuffers'[d].cap = bufSize
                                         /\ Len(msgBuffers'[d].slots) = 0
                     /\ d \notin Partial => msgBuffers'[d] = msgBuffers[d]
  BY <1>1, NewMessageType DEF Buffers
<1>5. Waiting' \subseteq Waiting \ Partial
  BY <1>3, <1>4 DEF Waiting, NextOf
<1>6. bufSize \in Nat /\ 0 < bufSize
  BY PlainAssumption DEF Buffers, PlainAssumption
<1>7. Buffers'
  BY <1>1, <1>3, <1>4, <1>6 DEF Buffers, RoomForNext, NextOf, Dests
<1>8. Cardinality(inserted) \in Nat
  BY FS_CardinalityType DEF Aged
<1>9. Aged'
  BY <1>1, <1>2, <1>3, <1>5, <1>8 DEF Aged
<1>10. wire' \cap DOMAIN refs \subseteq wire
  <2>1. \A k \in DOMAIN refs : k.dest \in Partial => k.serial # Cardinality(inserted)
    BY <1>3, <1>8 DEF Aged
  <2>. QED BY <1>2, <2>1
<1>. QED BY <1>7, <1>9, <1>10

LEMMA KnobStep ==
  ASSUME Buffers, Aged, refs' = refs,
         \/ \E n \in BufSizes : SetBufferSize(n)
         \/ \E mode \in Modes : ResetStats(mode)
  PROVE  Buffers' /\ Aged' /\ wire' = wire
<1>1. UNCHANGED <<wire, inserted>>
  BY DEF SetBufferSize, ResetStats
<1>2. \A d \in Dests(agg) : Len(msgBuffers[d].slots) < bufSize /\ msgBuffers[d].cap = bufSize
                             /\ msgBuffers[d] # NoMessage
  BY PlainAssumption DEF Buffers, RoomForNext, NextOf, NoMessage, PlainAssumption
<1>3. /\ agg' \in {"WsP", "WPs", "WW"} /\ bufSize' \in BufSizes
      /\ msgBuffers' = [d \in PEs |-> msgBuffers'[d]]
      /\ \A d \in PEs : \/ msgBuffers'[d] = msgBuffers[d] /\ d \notin Dests(agg')
                        \/ msgBuffers'[d] = NewMessage(bufSize')
  <2>1. CASE \E n \in BufSizes : SetBufferSize(n)
    <3>1. PICK n \in BufSizes : SetBufferSize(n)
      BY <2>1
    <3>2. /\ agg' = agg /\ bufSize' = n
          /\ msgBuffers' = [d \in PEs |-> IF d \in Dests(agg) /\ msgBuffers[d] # NoMessage
                                            THEN NewMessage(n) ELSE msgBuffers[d]]
      BY <3>1 DEF SetBufferSize
    <3>. QED BY <1>2, <3>2 DEF Buffers
  <2>2. CASE \E mode \in Modes : ResetStats(mode)
    <3>1. PICK mode \in Modes : ResetStats(mode)
      BY <2>2
    <3>2. /\ agg' = mode /\ bufSize' = bufSize
          /\ msgBuffers' = [d \in PEs |-> IF d \in Dests(mode) THEN NewMessage(bufSize)
                                                               ELSE msgBuffers[d]]
      BY <3>1 DEF ResetStats, Refresh
    <3>3. mode \in {"WsP", "WPs", "WW"}
      BY PlainAssumption DEF PlainAssumption
    <3>. QED BY <3>2, <3>3 DEF Buffers
  <2>. QED BY <2>1, <2>2
<1>4. /\ NewMessage(bufSize') \in [slots : Seq(ItemSlots), cap : Nat]
      /\ Len(NewMessage(bufSize').slots) = 0 /\ NewMessage(bufSize').cap = bufSize'
      /\ 0 < bufSize'
  BY <1>3, NewMessageType
<1>5. \A d \in PEs : msgBuffers'[d] \in [slots : Seq(ItemSlots), cap : Nat]
  BY <1>3, <1>4 DEF Buffers
<1>6. Dests(agg') \subseteq PEs
  BY NodesArePEs DEF Dests
<1>7. RoomForNext'
  BY <1>3, <1>4, <1>6 DEF RoomForNext, NextOf, Dests
<1>8. msgBuffers' \in [PEs -> [slots : Seq(ItemSlots), cap : Nat]]
  BY <1>3, <1>5
<1>9. Waiting' \subseteq Waiting
  BY <1>3, <1>4 DEF Waiting, NextOf
<1>. QED BY <1>1, <1>3, <1>7, <1>8, <1>9 DEF Buffers, Aged

(***************************************************************************)
(* Both sides together.                                                    *)
(***************************************************************************)
DeliveryInv == Sharing /\ Buffers /\ Aged

LEMMA DeliveryInit ==
  ASSUME Init
  PROVE  DeliveryInv
<1>1. /\ wire = {} /\ refs = <<>> /\ inserted = {}
      /\ queue = [pe \in PEs |-> <<>>] /\ running = [pe \in PEs |-> Idle]
      /\ agg = "WsP" /\ bufSize \in BufSizes
      /\ msgBuffers = [d \in PEs |-> IF d \in Dests(agg) THEN NewMessage(bufSize)
                                                         ELSE NoMessage]
  BY DEF Init, SenderInit, ReceiverInit
<1>2. DOMAIN refs = {}
  BY <1>1
<1>3. Exact(refs, queue, running)
  BY <1>1, <1>2 DEF Exact, Due, Readers, ToSet
<1>4. /\ DOMAIN queue = PEs /\ \A pe \in PEs : IsQueue(queue[pe])
      /\ Handlers(running) /\ Loops(queue, running) /\ OneLoop(running)
  BY <1>1 DEF IsQueue, Handlers, Loops, OneLoop, InLoop, Idle
<1>5. Buffers
  BY <1>1, NodesArePEs, NewMessageType, DestsArePEs
     DEF Buffers, RoomForNext, NextOf, NoMessage
<1>6. Aged
  BY <1>1, <1>2, FS_EmptySet DEF Aged
<1>. QED BY <1>1, <1>3, <1>4, <1>5, <1>6 DEF DeliveryInv, Sharing

LEMMA SenderNext ==
  ASSUME DeliveryInv, Sends(Client) \/ Sends(TFlush)
  PROVE  DeliveryInv'
<1>1. UNCHANGED <<refs, queue, running>>
  BY DEF Sends, receiver
<1>2. Buffers' /\ Aged' /\ wire' \cap DOMAIN refs \subseteq wire
  <2>1. CASE TFlush
    BY <1>1, <2>1, FlushStep DEF DeliveryInv
  <2>2. CASE \E x \in Items, pe \in Targets : InsertValue(x, pe)
    BY <1>1, <2>2, InsertValueStores, DestOfPE, StoresStep DEF DeliveryInv
  <2>3. CASE \E x \in Items, n \in Procs : agg = "WsP" /\ InsertToProcess(x, n)
    <3>1. PICK x \in Items : \E n \in Procs : agg = "WsP" /\ InsertToProcess(x, n)
      BY <2>3
    <3>2. PICK n \in Procs : agg = "WsP" /\ InsertToProcess(x, n)
      BY <3>1
    <3>3. n \in Dests(agg)
      BY <3>2, DeliveryAssumption DEF Dests, DeliveryAssumption
    <3>. QED BY <1>1, <3>2, <3>3, InsertToProcessStores, StoresStep DEF DeliveryInv
  <2>4. CASE \/ \E n \in BufSizes : SetBufferSize(n)
             \/ \E mode \in Modes : ResetStats(mode)
    BY <1>1, <2>4, KnobStep DEF DeliveryInv
  <2>. QED BY <2>1, <2>2, <2>3, <2>4 DEF Sends, Client
<1>. QED BY <1>1, <1>2 DEF DeliveryInv, Sharing

LEMMA ReceiverNext ==
  ASSUME DeliveryInv, NEW pe \in PEs, Receives(pe)
  PROVE  DeliveryInv'
<1>1. UNCHANGED <<agg, bufSize, msgBuffers, inserted>>
  BY DEF Receives, sender
<1>2. Sharing' /\ wire' \cup DOMAIN refs' \subseteq wire \cup DOMAIN refs
  <2>1. ASSUME NEW m, NEW skip,
               ReceiveNoSort(pe, m) \/ Receive(pe, m, skip)
        PROVE  Sharing' /\ wire' \cup DOMAIN refs' \subseteq wire \cup DOMAIN refs
    <3>1. m \in wire /\ wire' \subseteq wire
      BY <2>1 DEF ReceiveNoSort, Receive, Arrives
    <3>. QED BY <2>1, <3>1, ArrivalStep DEF ReceiveNoSort, Receive, DeliveryInv
  <2>2. ASSUME NEW m, ReceiveOnPE(pe, m) \/ ReceiveOnProc(pe, m)
        PROVE  Sharing' /\ wire' \cup DOMAIN refs' \subseteq wire \cup DOMAIN refs
    <3>1. wire' = wire \ {m} /\ UNCHANGED <<refs, queue, running>>
      BY <2>2 DEF ReceiveOnPE, ReceiveOnProc, Arrives
    <3>. QED BY <3>1, AloneStep DEF DeliveryInv
  <2>3. CASE FanOut(pe)
    <3>. DEFINE m == running[pe].msg
                r == running[pe].rank
    <3>1. CASE SendsTo(pe, m, PEAt(NodeOf(pe), r))
      <4>1. Sharing' /\ DOMAIN refs' = DOMAIN refs
        BY <3>1, SendStep DEF DeliveryInv
      <4>. QED BY <2>3, <4>1 DEF FanOut
    <3>2. CASE UNCHANGED <<refs, queue>>
      BY <2>3, <3>2, SkipStep DEF FanOut, InLoop, DeliveryInv
    <3>. QED BY <2>3, <3>1, <3>2 DEF FanOut, SendsTo, InLoop
  <2>4. CASE FanOutDone(pe) \/ CallbackReturns(pe)
    <3>1. Stops(pe, running[pe].msg)
      BY <2>4, HandlerFacts
         DEF FanOutDone, CallbackReturns, Stops, InLoop, DeliveryInv, Sharing
    <3>. QED BY <3>1, StopStep DEF DeliveryInv, Stops
  <2>5. CASE ReceivePerPE(pe)
    <3>1. Reads(pe, Head(queue[pe]))
      BY <2>5 DEF ReceivePerPE, Reads
    <3>. QED BY <3>1, ReadStep DEF DeliveryInv, Reads
  <2>. QED BY <2>1, <2>2, <2>3, <2>4, <2>5 DEF Receives, ReceiverStep
<1>3. Buffers'
  BY <1>1 DEF DeliveryInv, Buffers, RoomForNext, NextOf
<1>4. Aged'
  BY <1>1, <1>2 DEF DeliveryInv, Aged, Waiting, NextOf
<1>. QED BY <1>2, <1>3, <1>4 DEF DeliveryInv

LEMMA DeliveryInvariance == Spec => []DeliveryInv
<1>1. Init => DeliveryInv
  BY DeliveryInit
<1>2. DeliveryInv /\ [Next]_vars => DeliveryInv'
  <2>. SUFFICES ASSUME DeliveryInv, [Next]_vars PROVE DeliveryInv'
    OBVIOUS
  <2>1. CASE Next
    BY <2>1, SenderNext, ReceiverNext DEF Next
  <2>2. CASE UNCHANGED vars
    BY <2>2 DEF vars, sender, receiver, DeliveryInv, Sharing, Buffers, Aged,
                RoomForNext, NextOf, Waiting
  <2>. QED BY <2>1, <2>2
<1>. QED BY <1>1, <1>2, PTL DEF Spec

(***************************************************************************)
(* A shared message has as many references as handlers that use or will    *)
(* use it, and is freed by the last, whatever the interleaving of the      *)
(* receiver's loop with the deliveries it starts.                          *)
(***************************************************************************)
THEOREM MessagesSharedSafely == Spec => []RefsExact
<1>1. DeliveryInv => RefsExact
  <2>. SUFFICES ASSUME DeliveryInv PROVE RefsExact
    OBVIOUS
  <2>1. Exact(refs, queue, running)
    BY DEF DeliveryInv, Sharing
  <2>2. \A m : m \in InUse <=> Due(queue, m) # {} \/ Readers(running, m) # {}
    <3>1. ASSUME NEW m
          PROVE  m \in UNION {ToSet(queue[pe]) : pe \in PEs} <=> Due(queue, m) # {}
      BY DEF Due
    <3>2. ASSUME NEW m
          PROVE  m \in {running[pe].msg : pe \in {p \in PEs : running[p] # Idle}}
                   <=> Readers(running, m) # {}
      BY DEF Readers
    <3>. DEFINE A == UNION {ToSet(queue[pe]) : pe \in PEs}
                B == {running[pe].msg : pe \in {p \in PEs : running[p] # Idle}}
    <3>3. InUse = A \cup B
      BY DEF InUse
    <3>. HIDE DEF A, B
    <3>4. \A m : m \in InUse <=> m \in A \/ m \in B
      BY <3>3
    <3>. QED BY <3>1, <3>2, <3>4 DEF A, B
  <2>3. DOMAIN refs = InUse
    BY <2>1, <2>2 DEF Exact
  <2>4. \A m : DueAt(m) = Due(queue, m) /\ HeldBy(m) = Readers(running, m)
    BY DEF DueAt, HeldBy, Due, Readers
  <2>. QED BY <2>1, <2>3, <2>4 DEF RefsExact, Exact, Uses
<1>. QED BY <1>1, DeliveryInvariance, PTL

(***************************************************************************)
(* Between handlers a buffer in use has the capacity of bufSize and room   *)
(* for the next item, for every sequence of inserts, flushes, sizes and    *)
(* modes.                                                                  *)
(***************************************************************************)
THEOREM BuffersHaveRoom == Spec => []RoomForNext
<1>1. DeliveryInv => RoomForNext
  BY DEF DeliveryInv, Buffers
<1>. QED BY <1>1, DeliveryInvariance, PTL

(***************************************************************************)
(* What a message contains.  In WsP it is filled from the local buffers of *)
(* its node when it leaves, so the count of its slots has to be the number *)
(* of items there, and the order is that in which the local buffers of the *)
(* node follow each other.                                                 *)
(*                                                                         *)
(* Facts about sequences of any length come from the least counterexample. *)
(***************************************************************************)

\* A set of natural numbers has a least element.
LEMMA LeastNumber ==
  ASSUME NEW S, S \subseteq Nat, S # {}
  PROVE  \E x \in S : \A y \in S : x <= y
<1>1. IsWellFoundedOn(OpToRel(<, Nat), Nat)
  BY NatLessThanWellFounded, Zenon
<1>2. PICK x \in S : \A y \in S : <<y, x>> \notin OpToRel(<, Nat)
  BY <1>1, WFMin, Zenon
<1>3. ASSUME NEW y \in S PROVE x <= y
  <2>1. x \in Nat /\ y \in Nat
    BY <1>2
  <2>2. ~(y < x)
    BY <1>2, <2>1, Zenon DEF OpToRel
  <2>. QED BY <2>1, <2>2
<1>. QED BY <1>2, <1>3

\* A set that has 0, and i + 1 for every i it has below n, has 0 .. n.
LEMMA UpTo ==
  ASSUME NEW n \in Nat, NEW S, 0 \in S,
         \A i \in 0 .. n - 1 : i \in S => i + 1 \in S
  PROVE  \A i \in 0 .. n : i \in S
<1>. SUFFICES ASSUME NEW j \in 0 .. n, j \notin S PROVE FALSE
  OBVIOUS
<1>. DEFINE T == {i \in 0 .. n : i \notin S}
<1>1. T \subseteq Nat /\ T # {}
  OBVIOUS
<1>2. PICK i \in T : \A k \in T : i <= k
  BY <1>1, LeastNumber
<1>3. i \in 0 .. n /\ i \notin S /\ i # 0
  BY <1>2
<1>4. i - 1 \in 0 .. n - 1 /\ i - 1 \in 0 .. n /\ (i - 1) + 1 = i /\ ~(i <= i - 1)
  BY <1>3
<1>5. i - 1 \in S
  BY <1>2, <1>4
<1>. QED BY <1>3, <1>4, <1>5

\* F is the n sequences of ss one after the other; number r ends at off[r].
Parts(F, ss, n, off) ==
  /\ off \in [0 .. n -> Nat] /\ off[0] = 0 /\ off[n] = Len(F)
  /\ \A r \in 1 .. n : off[r] = off[r - 1] + Len(ss[r])
  /\ \A r \in 1 .. n : \A k \in 1 .. Len(ss[r]) : F[off[r - 1] + k] = ss[r][k]

LEMMA ConcatIs ==
  ASSUME NEW S, NEW s \in Seq(S), NEW t \in Seq(S)
  PROVE  /\ s \o t \in Seq(S) /\ Len(s \o t) = Len(s) + Len(t)
         /\ \A i \in 1 .. Len(s) : (s \o t)[i] = s[i]
         /\ \A i \in 1 .. Len(t) : (s \o t)[Len(s) + i] = t[i]
OBVIOUS

LEMMA FlattenIs ==
  ASSUME NEW S, NEW n \in Nat \ {0}, NEW ss \in [1 .. n -> Seq(S)]
  PROVE  FlattenSeq(ss) \in Seq(S) /\ \E off : Parts(FlattenSeq(ss), ss, n, off)
<1>1. ss \in Seq(Seq(S)) /\ Len(ss) = n
  BY SeqDef, LenProperties
<1>. DEFINE Body(f, i) == IF i = 1 THEN ss[i] ELSE f[i - 1] \o ss[i]
<1>2. \E f : f = [i \in 1 .. n |-> Body(f, i)]
  <2>. DEFINE M == {m \in 0 .. n : \E f : f = [i \in 1 .. m |-> Body(f, i)]}
  <2>1. 0 \in M
    <3>1. PICK f : f = [i \in 1 .. 0 |-> ss[i]]
      OBVIOUS
    <3>2. 1 .. 0 = {}
      OBVIOUS
    <3>3. f = [i \in 1 .. 0 |-> Body(f, i)]
      <4>. HIDE DEF Body
      <4>. QED BY <3>1, <3>2
    <3>4. 0 \in 0 .. n
      OBVIOUS
    <3>. HIDE DEF Body
    <3>. QED BY <3>3, <3>4
  <2>2. ASSUME NEW m \in 0 .. n - 1, m \in M PROVE m + 1 \in M
    <3>1. PICK f : f = [i \in 1 .. m |-> Body(f, i)]
      BY <2>2
    <3>2. PICK g : g = [i \in 1 .. m + 1 |-> IF i <= m THEN f[i] ELSE Body(f, i)]
      OBVIOUS
    <3>3. ASSUME NEW i \in 1 .. m + 1 PROVE g[i] = Body(g, i)
      <4>1. CASE i = 1
        BY <3>1, <3>2, <4>1
      <4>2. CASE i # 1
        <5>1. i - 1 \in 1 .. m /\ i - 1 \in 1 .. m + 1 /\ i - 1 <= m
          BY <4>2
        <5>2. g[i - 1] = f[i - 1]
          BY <3>2, <5>1
        <5>3. Body(g, i) = Body(f, i)
          BY <5>2
        <5>4. g[i] = Body(f, i)
          <6>1. i \in 1 .. m => f[i] = Body(f, i)
            <7>. HIDE DEF Body
            <7>. QED BY <3>1
          <6>2. g[i] = IF i <= m THEN f[i] ELSE Body(f, i)
            <7>. HIDE DEF Body
            <7>. QED BY <3>2
          <6>3. i <= m => i \in 1 .. m
            OBVIOUS
          <6>. HIDE DEF Body
          <6>. QED BY <6>1, <6>2, <6>3
        <5>. QED BY <5>3, <5>4
      <4>. QED BY <4>1, <4>2
    <3>4. g = [i \in 1 .. m + 1 |-> Body(g, i)]
      <4>. HIDE DEF Body
      <4>. QED BY <3>2, <3>3
    <3>5. m + 1 \in 0 .. n
      OBVIOUS
    <3>. HIDE DEF Body
    <3>. QED BY <3>4, <3>5
  <2>3. \A m \in 0 .. n : m \in M
    <3>. HIDE DEF M
    <3>. QED BY <2>1, <2>2, UpTo
  <2>4. n \in 0 .. n
    OBVIOUS
  <2>. HIDE DEF Body
  <2>. QED BY <2>3, <2>4
<1>3. PICK f : f = [i \in 1 .. n |-> Body(f, i)] /\ FlattenSeq(ss) = f[n]
  <2>1. PICK f : f = CHOOSE g : g = [i \in 1 .. n |-> Body(g, i)]
    OBVIOUS
  <2>2. f = [i \in 1 .. n |-> Body(f, i)]
    <3>. HIDE DEF Body
    <3>. QED BY <1>2, <2>1, Zenon
  <2>3. FlattenSeq(ss) = f[n]
    BY <1>1, <2>1 DEF FlattenSeq
  <2>. QED BY <2>2, <2>3
<1>4. /\ f[1] = ss[1]
      /\ \A i \in 1 .. n : i # 1 => f[i] = f[i - 1] \o ss[i]
  <2>1. \A i \in 1 .. n : f[i] = Body(f, i)
    <3>. HIDE DEF Body
    <3>. QED BY <1>3
  <2>2. 1 \in 1 .. n
    OBVIOUS
  <2>. QED BY <2>1, <2>2
<1>5. \A i \in 1 .. n : f[i] \in Seq(S)
  <2>. DEFINE M == {m \in 0 .. n : m = 0 \/ f[m] \in Seq(S)}
  <2>1. ASSUME NEW m \in 0 .. n - 1, m \in M PROVE m + 1 \in M
    <3>1. m + 1 \in 1 .. n /\ (m + 1) - 1 = m /\ m + 1 # 0 /\ m + 1 \in 0 .. n
          /\ ss[m + 1] \in Seq(S) /\ ss[1] \in Seq(S)
      OBVIOUS
    <3>2. CASE m = 0
      BY <1>4, <3>1, <3>2
    <3>3. CASE m # 0
      <4>1. f[m] \in Seq(S) /\ f[m + 1] = f[m] \o ss[m + 1]
        <5>1. PICK k : k = m + 1
          OBVIOUS
        <5>2. k \in 1 .. n /\ k # 1 /\ k - 1 = m
          BY <3>1, <3>3, <5>1
        <5>3. f[k] = f[k - 1] \o ss[k]
          BY <1>4, <5>2, Zenon
        <5>4. f[m] \in Seq(S)
          BY <2>1, <3>3, Zenon
        <5>. QED BY <5>1, <5>2, <5>3, <5>4, Zenon
      <4>2. f[m] \o ss[m + 1] \in Seq(S)
        BY <3>1, <4>1, ConcatIs, Zenon
      <4>3. f[m + 1] \in Seq(S)
        BY <4>1, <4>2, Zenon
      <4>. QED BY <3>1, <4>3, Zenon
    <3>. QED BY <3>2, <3>3
  <2>2. \A m \in 0 .. n : m \in M
    <3>1. 0 \in M
      OBVIOUS
    <3>. HIDE DEF M
    <3>. QED BY <2>1, <3>1, UpTo
  <2>. QED BY <2>2
<1>6. PICK off : off = [r \in 0 .. n |-> IF r = 0 THEN 0 ELSE Len(f[r])]
  OBVIOUS
<1>7. off \in [0 .. n -> Nat] /\ off[0] = 0 /\ off[n] = Len(f[n])
  BY <1>5, <1>6
<1>8. \A r \in 1 .. n : off[r] = off[r - 1] + Len(ss[r])
  <2>. SUFFICES ASSUME NEW r \in 1 .. n PROVE off[r] = off[r - 1] + Len(ss[r])
    OBVIOUS
  <2>1. off[r] = Len(f[r]) /\ r - 1 \in 0 .. n /\ ss[r] \in Seq(S)
    BY <1>6
  <2>2. CASE r = 1
    BY <1>4, <1>6, <2>1, <2>2
  <2>3. CASE r # 1
    <3>1. r - 1 \in 1 .. n /\ f[r] = f[r - 1] \o ss[r] /\ off[r - 1] = Len(f[r - 1])
      BY <1>4, <1>6, <2>3
    <3>. QED BY <1>5, <2>1, <3>1
  <2>. QED BY <2>2, <2>3
<1>9. \A m \in 1 .. n : \A r \in 1 .. m : \A k \in 1 .. Len(ss[r]) :
        /\ off[r - 1] + k \in 1 .. Len(f[m])
        /\ f[m][off[r - 1] + k] = ss[r][k]
  <2>. DEFINE P(m) == \A r \in 1 .. m : \A k \in 1 .. Len(ss[r]) :
                        /\ off[r - 1] + k \in 1 .. Len(f[m])
                        /\ f[m][off[r - 1] + k] = ss[r][k]
              M == {m \in 0 .. n : P(m)}
  <2>1. ASSUME NEW m \in 0 .. n - 1, m \in M PROVE m + 1 \in M
    <3>. SUFFICES ASSUME NEW r \in 1 .. m + 1, NEW k \in 1 .. Len(ss[r])
                  PROVE  /\ off[r - 1] + k \in 1 .. Len(f[m + 1])
                         /\ f[m + 1][off[r - 1] + k] = ss[r][k]
      OBVIOUS
    <3>1. /\ m + 1 \in 1 .. n /\ (m + 1) - 1 = m /\ m \in 0 .. n /\ m \in Nat
          /\ ss[m + 1] \in Seq(S) /\ f[m + 1] \in Seq(S) /\ off[m] \in Nat
          /\ off[m + 1] = off[m] + Len(ss[m + 1])
      BY <1>5, <1>7, <1>8
    <3>2. CASE m = 0
      BY <1>4, <1>7, <3>1, <3>2
    <3>3. CASE m # 0
      <4>1. m \in 1 .. n /\ f[m] \in Seq(S) /\ off[m] = Len(f[m])
            /\ f[m + 1] = f[m] \o ss[m + 1]
        <5>1. PICK j : j = m + 1
          OBVIOUS
        <5>2. m \in 1 .. n /\ m \in 0 .. n /\ j \in 1 .. n /\ j # 1 /\ j - 1 = m
          BY <3>1, <3>3, <5>1
        <5>3. f[j] = f[j - 1] \o ss[j]
          BY <1>4, <5>2, Zenon
        <5>4. f[m] \in Seq(S)
          BY <1>5, <5>2, Zenon
        <5>5. off[m] = Len(f[m])
          BY <1>6, <3>3, <5>2
        <5>. QED BY <5>1, <5>2, <5>3, <5>4, <5>5, Zenon
      <4>5. /\ Len(f[m + 1]) = Len(f[m]) + Len(ss[m + 1])
            /\ \A i \in 1 .. Len(f[m]) : f[m + 1][i] = f[m][i]
            /\ \A i \in 1 .. Len(ss[m + 1]) : f[m + 1][Len(f[m]) + i] = ss[m + 1][i]
        <5>1. PICK a, b, c : a = f[m] /\ b = ss[m + 1] /\ c = f[m + 1]
          OBVIOUS
        <5>2. a \in Seq(S) /\ b \in Seq(S) /\ c = a \o b
          BY <3>1, <4>1, <5>1, Zenon
        <5>4. /\ Len(a \o b) = Len(a) + Len(b)
              /\ \A i \in 1 .. Len(a) : (a \o b)[i] = a[i]
              /\ \A i \in 1 .. Len(b) : (a \o b)[Len(a) + i] = b[i]
          BY <5>2, ConcatIs
        <5>3. /\ Len(c) = Len(a) + Len(b)
              /\ \A i \in 1 .. Len(a) : c[i] = a[i]
              /\ \A i \in 1 .. Len(b) : c[Len(a) + i] = b[i]
          BY <5>2, <5>4, Zenon
        <5>. QED BY <5>1, <5>3, Zenon
      <4>2. CASE r = m + 1
        <5>1. r - 1 = m /\ k \in 1 .. Len(ss[m + 1])
          BY <3>1, <4>2
        <5>2. Len(ss[m + 1]) \in Nat /\ Len(f[m]) \in Nat
          BY <3>1, <4>1
        <5>3. PICK q : q = off[r - 1] + k
          OBVIOUS
        <5>4. q = Len(f[m]) + k
          BY <4>1, <5>1, <5>3, Zenon
        <5>5. f[m + 1][q] = ss[r][k]
          BY <4>2, <4>5, <5>1, <5>4, Zenon
        <5>6. q \in 1 .. Len(f[m + 1])
          <6>1. PICK a, b, c : a = Len(f[m]) /\ b = Len(ss[m + 1]) /\ c = Len(f[m + 1])
            OBVIOUS
          <6>2. c = a + b /\ q = a + k /\ k \in 1 .. b /\ a \in Nat /\ b \in Nat
            BY <4>5, <5>1, <5>2, <5>4, <6>1, Zenon
          <6>3. q \in 1 .. c
            BY <6>2
          <6>. QED BY <6>1, <6>3, Zenon
        <5>. QED BY <5>3, <5>5, <5>6, Zenon
      <4>3. CASE r # m + 1
        <5>1. r \in 1 .. m
          BY <3>1, <4>3
        <5>2. off[r - 1] + k \in 1 .. Len(f[m]) /\ f[m][off[r - 1] + k] = ss[r][k]
          BY <2>1, <5>1
        <5>3. Len(ss[m + 1]) \in Nat /\ Len(f[m]) \in Nat
          BY <3>1, <4>1
        <5>4. PICK q : q = off[r - 1] + k
          OBVIOUS
        <5>5. f[m + 1][q] = ss[r][k]
          BY <4>5, <5>2, <5>4, Zenon
        <5>6. q \in 1 .. Len(f[m + 1])
          <6>1. PICK a, b, c : a = Len(f[m]) /\ b = Len(ss[m + 1]) /\ c = Len(f[m + 1])
            OBVIOUS
          <6>2. c = a + b /\ q \in 1 .. a /\ a \in Nat /\ b \in Nat
            BY <4>5, <5>2, <5>3, <5>4, <6>1, Zenon
          <6>3. q \in 1 .. c
            BY <6>2
          <6>. QED BY <6>1, <6>3, Zenon
        <5>. QED BY <5>4, <5>5, <5>6, Zenon
      <4>. QED BY <4>2, <4>3
    <3>. QED BY <3>2, <3>3
  <2>2. \A m \in 0 .. n : m \in M
    <3>1. 0 \in M
      OBVIOUS
    <3>. HIDE DEF M
    <3>. QED BY <2>1, <3>1, UpTo
  <2>. QED BY <2>2
<1>10. n \in 1 .. n
  OBVIOUS
<1>11. Parts(f[n], ss, n, off)
  BY <1>7, <1>8, <1>9, <1>10 DEF Parts
<1>. QED BY <1>3, <1>5, <1>10, <1>11

LEMMA PartsMonotone ==
  ASSUME NEW n \in Nat, NEW F, NEW ss, NEW off, Parts(F, ss, n, off),
         \A r \in 1 .. n : Len(ss[r]) \in Nat
  PROVE  \A q \in 0 .. n : \A r \in 0 .. q : off[r] <= off[q]
<1>. DEFINE M == {q \in 0 .. n : \A r \in 0 .. q : off[r] <= off[q]}
<1>1. 0 \in M
  <2>1. \A r \in 0 .. 0 : r = 0
    OBVIOUS
  <2>2. off[0] \in Nat /\ 0 \in 0 .. n
    BY DEF Parts
  <2>. QED BY <2>1, <2>2
<1>2. ASSUME NEW q \in 0 .. n - 1, q \in M PROVE q + 1 \in M
  <2>1. q + 1 \in 1 .. n /\ q + 1 \in 0 .. n /\ (q + 1) - 1 = q /\ q \in 0 .. n
    OBVIOUS
  <2>2. off[q + 1] = off[q] + Len(ss[q + 1]) /\ Len(ss[q + 1]) \in Nat
    BY <2>1 DEF Parts
  <2>3. off[q] \in Nat /\ off[q + 1] \in Nat
    BY <2>1 DEF Parts
  <2>4. off[q] <= off[q + 1]
    BY <2>2, <2>3
  <2>5. ASSUME NEW r \in 0 .. q + 1 PROVE off[r] <= off[q + 1]
    <3>1. r \in 0 .. q \/ r = q + 1
      OBVIOUS
    <3>2. r \in 0 .. n
      BY <2>1
    <3>3. off[r] \in Nat
      BY <3>2 DEF Parts
    <3>4. r \in 0 .. q => off[r] <= off[q]
      BY <1>2
    <3>. QED BY <2>3, <2>4, <3>1, <3>3, <3>4
  <2>. QED BY <2>1, <2>5
<1>. HIDE DEF M
<1>3. \A q \in 0 .. n : q \in M
  BY <1>1, <1>2, UpTo
<1>. QED BY <1>3 DEF M

\* Every place of F is in one of the parts, and later places are in the same
\* or in later parts.
InAPart(i, ss, n, off) ==
  \E r \in 1 .. n : \E k \in 1 .. Len(ss[r]) : i = off[r - 1] + k

LEMMA PartOf ==
  ASSUME NEW n \in Nat, NEW F, NEW ss, NEW off, Parts(F, ss, n, off),
         \A r \in 1 .. n : Len(ss[r]) \in Nat, NEW i \in 1 .. Len(F)
  PROVE  InAPart(i, ss, n, off)
<1>1. i \in Nat /\ off[n] = Len(F) /\ n \in 0 .. n /\ off[n] \in Nat /\ off[0] = 0
  BY DEF Parts
<1>. DEFINE T == {r \in 0 .. n : i <= off[r]}
<1>2. T \subseteq Nat /\ T # {}
  BY <1>1
<1>3. PICK r \in T : \A q \in T : r <= q
  BY <1>2, LeastNumber
<1>4. r \in 0 .. n /\ i <= off[r] /\ r # 0
  BY <1>1, <1>3
<1>5. r \in 1 .. n /\ r - 1 \in 0 .. n /\ ~(r <= r - 1)
  BY <1>4
<1>6. ~(i <= off[r - 1])
  BY <1>3, <1>5
<1>7. PICK a, b, l : a = off[r - 1] /\ b = off[r] /\ l = Len(ss[r])
  OBVIOUS
<1>8. a \in Nat /\ b = a + l /\ l \in Nat
  BY <1>5, <1>7 DEF Parts
<1>9. i - a \in 1 .. l /\ i = a + (i - a)
  BY <1>1, <1>4, <1>6, <1>7, <1>8
<1>. QED BY <1>5, <1>7, <1>9 DEF InAPart

LEMMA PartsOrdered ==
  ASSUME NEW n \in Nat, NEW F, NEW ss, NEW off, Parts(F, ss, n, off),
         \A r \in 1 .. n : Len(ss[r]) \in Nat,
         NEW r \in 1 .. n, NEW k \in 1 .. Len(ss[r]),
         NEW q \in 1 .. n, NEW l \in 1 .. Len(ss[q]),
         off[r - 1] + k < off[q - 1] + l
  PROVE  r <= q
<1>. SUFFICES ASSUME q < r PROVE FALSE
  OBVIOUS
<1>1. r - 1 \in 0 .. n /\ q \in 0 .. r - 1 /\ q - 1 \in 0 .. n
  OBVIOUS
<1>2. off[q] <= off[r - 1]
  BY <1>1, PartsMonotone
<1>3. PICK a, b, c, g, h : /\ a = off[q - 1] /\ b = off[q] /\ c = off[r - 1]
                           /\ g = Len(ss[q]) /\ h = Len(ss[r])
  OBVIOUS
<1>4. a \in Nat /\ b \in Nat /\ c \in Nat /\ b = a + g /\ g \in Nat /\ h \in Nat
  BY <1>1, <1>3 DEF Parts
<1>5. b <= c /\ c + k < a + l /\ k \in 1 .. h /\ l \in 1 .. g
  BY <1>2, <1>3, Zenon
<1>. QED BY <1>4, <1>5

\* If one part is longer by one, so is the whole.
LEMMA PartsGrow ==
  ASSUME NEW n \in Nat, NEW F, NEW ss, NEW off, Parts(F, ss, n, off),
         NEW G, NEW tt, NEW end, Parts(G, tt, n, end),
         \A r \in 1 .. n : Len(ss[r]) \in Nat,
         NEW p \in 1 .. n, Len(tt[p]) = Len(ss[p]) + 1,
         \A r \in 1 .. n : r # p => Len(tt[r]) = Len(ss[r])
  PROVE  Len(G) = Len(F) + 1
<1>. DEFINE M == {r \in 0 .. n : end[r] = IF r < p THEN off[r] ELSE off[r] + 1}
<1>1. 0 \in M
  BY DEF Parts
<1>2. ASSUME NEW r \in 0 .. n - 1, r \in M PROVE r + 1 \in M
  <2>1. r + 1 \in 1 .. n /\ r + 1 \in 0 .. n /\ (r + 1) - 1 = r /\ r \in 0 .. n
    OBVIOUS
  <2>2. PICK a, b, c, e, l, h :
          /\ a = off[r] /\ b = off[r + 1] /\ c = end[r] /\ e = end[r + 1]
          /\ l = Len(ss[r + 1]) /\ h = Len(tt[r + 1])
    OBVIOUS
  <2>3. b = a + l /\ e = c + h
    BY <2>1, <2>2 DEF Parts
  <2>4. a \in Nat /\ b \in Nat /\ l \in Nat
    BY <2>1, <2>2 DEF Parts
  <2>5. h = IF r + 1 = p THEN l + 1 ELSE l
    BY <2>1, <2>2
  <2>6. c = IF r < p THEN a ELSE a + 1
    BY <1>2, <2>2
  <2>7. e = IF r + 1 < p THEN b ELSE b + 1
    BY <2>3, <2>4, <2>5, <2>6
  <2>. QED BY <2>1, <2>2, <2>7
<1>. HIDE DEF M
<1>3. \A r \in 0 .. n : r \in M
  BY <1>1, <1>2, UpTo
<1>4. n \in M /\ ~(n < p)
  BY <1>3
<1>. QED BY <1>4 DEF M, Parts

LEMMA PartsEmpty ==
  ASSUME NEW n \in Nat, NEW F, NEW ss, NEW off, Parts(F, ss, n, off),
         \A r \in 1 .. n : Len(ss[r]) = 0
  PROVE  Len(F) = 0
<1>. DEFINE M == {r \in 0 .. n : off[r] = 0}
<1>1. 0 \in M
  BY DEF Parts
<1>2. ASSUME NEW r \in 0 .. n - 1, r \in M PROVE r + 1 \in M
  <2>1. r + 1 \in 1 .. n /\ r + 1 \in 0 .. n /\ (r + 1) - 1 = r
    OBVIOUS
  <2>2. off[r + 1] = off[r] + Len(ss[r + 1])
    BY <2>1 DEF Parts
  <2>. QED BY <1>2, <2>1, <2>2
<1>. HIDE DEF M
<1>3. \A r \in 0 .. n : r \in M
  BY <1>1, <1>2, UpTo
<1>4. n \in M
  BY <1>3
<1>. QED BY <1>4 DEF M, Parts

(***************************************************************************)
(* The local buffers of a node, as a message gets them.                    *)
(***************************************************************************)
LEMMA NodeOfPEAt ==
  ASSUME NEW d \in Nodes, NEW r \in 0 .. NodeSize - 1
  PROVE  PEAt(d, r) \in PEs /\ NodeOf(PEAt(d, r)) = d
<1>1. PICK n : n = NodeSize
  OBVIOUS
<1>2. n \in Nat /\ n > 0 /\ d \in Nat /\ r \in 0 .. n - 1
  BY <1>1, WireAssumption DEF WireAssumption, Nodes
<1>3. (d * n + r) \div n = d
  BY <1>2
<1>. QED BY <1>1, <1>3, PEFacts DEF PEAt, NodeOf

LEMMA RankFacts ==
  ASSUME NEW pe \in PEs
  PROVE  Rank(pe) \in 0 .. NodeSize - 1 /\ pe = PEAt(NodeOf(pe), Rank(pe))
<1>1. PICK n : n = NodeSize
  OBVIOUS
<1>2. n \in Nat \ {0} /\ pe \in Nat
  BY <1>1, WireAssumption DEF WireAssumption, PEs
<1>3. PICK q, m : q = pe \div n /\ m = pe % n
  OBVIOUS
<1>4. m \in 0 .. n - 1 /\ pe = q * n + m
  BY <1>2, <1>3
<1>. QED BY <1>1, <1>3, <1>4 DEF Rank, PEAt, NodeOf

LocalsTyped(local) ==
  /\ local = [pe \in PEs |-> local[pe]]
  /\ \A pe \in PEs : local[pe] \in Seq([item : Items, pe : {pe}])

\* What the slots of a message are filled from.
LocalParts(local, d) == [r \in 1 .. NodeSize |-> local[PEsOf(d)[r]]]

LEMMA SeqGrows ==
  ASSUME NEW A, NEW B, A \subseteq B, NEW s \in Seq(A)
  PROVE  s \in Seq(B) /\ Len(s) \in Nat
OBVIOUS

LEMMA LocalPartsAre ==
  ASSUME NEW local, LocalsTyped(local), NEW d \in Nodes
  PROVE  /\ NodeSize \in Nat \ {0}
         /\ LocalParts(local, d) \in [1 .. NodeSize -> Seq([item : Items, pe : PEs])]
         /\ \A r \in 1 .. NodeSize :
              /\ PEAt(d, r - 1) \in PEs
              /\ LocalParts(local, d)[r] = local[PEAt(d, r - 1)]
              /\ LocalParts(local, d)[r] \in Seq([item : Items, pe : {PEAt(d, r - 1)}])
              /\ Len(LocalParts(local, d)[r]) \in Nat
         /\ Locals(local, d) = FlattenSeq(LocalParts(local, d))
<1>1. NodeSize \in Nat \ {0}
  BY WireAssumption DEF WireAssumption
<1>2. ASSUME NEW r \in 1 .. NodeSize
      PROVE  /\ PEAt(d, r - 1) \in PEs
             /\ LocalParts(local, d)[r] = local[PEAt(d, r - 1)]
  <2>1. r - 1 \in 0 .. NodeSize - 1
    BY <1>1
  <2>2. PEsOf(d)[r] = PEAt(d, r - 1)
    BY DEF PEsOf
  <2>. QED BY <2>1, <2>2, PEFacts DEF LocalParts
<1>3. ASSUME NEW r \in 1 .. NodeSize
      PROVE  /\ LocalParts(local, d)[r] \in Seq([item : Items, pe : {PEAt(d, r - 1)}])
             /\ LocalParts(local, d)[r] \in Seq([item : Items, pe : PEs])
             /\ Len(LocalParts(local, d)[r]) \in Nat
  <2>1. PICK pe \in PEs : pe = PEAt(d, r - 1)
    BY <1>2
  <2>2. local[pe] \in Seq([item : Items, pe : {pe}])
    BY DEF LocalsTyped
  <2>3. [item : Items, pe : {pe}] \subseteq [item : Items, pe : PEs]
    OBVIOUS
  <2>4. local[pe] \in Seq([item : Items, pe : PEs]) /\ Len(local[pe]) \in Nat
    BY <2>2, <2>3, SeqGrows, Zenon
  <2>. QED BY <1>2, <2>1, <2>2, <2>4
<1>4. LocalParts(local, d) \in [1 .. NodeSize -> Seq([item : Items, pe : PEs])]
  BY <1>3 DEF LocalParts
<1>5. Locals(local, d) = FlattenSeq(LocalParts(local, d))
  BY DEF Locals, LocalParts
<1>. QED BY <1>1, <1>2, <1>3, <1>4, <1>5

\* The copied items are for PEs of the node, in the order of the PEs.
InOrder(F, d) ==
  /\ F \in Seq([item : Items, pe : PEs])
  /\ \A i \in 1 .. Len(F) : NodeOf(F[i].pe) = d
  /\ \A i, j \in 1 .. Len(F) : i < j => F[i].pe <= F[j].pe

LEMMA LocalsInOrder ==
  ASSUME NEW local, LocalsTyped(local), NEW d \in Nodes,
         NEW F, F = Locals(local, d)
  PROVE  InOrder(F, d)
<1>1. PICK n, ss : n = NodeSize /\ ss = LocalParts(local, d)
  OBVIOUS
<1>2. /\ n \in Nat \ {0} /\ ss \in [1 .. n -> Seq([item : Items, pe : PEs])]
      /\ F = FlattenSeq(ss)
      /\ \A r \in 1 .. n : /\ ss[r] \in Seq([item : Items, pe : {PEAt(d, r - 1)}])
                           /\ Len(ss[r]) \in Nat
  BY <1>1, LocalPartsAre
<1>3. F \in Seq([item : Items, pe : PEs]) /\ \E off : Parts(F, ss, n, off)
  BY <1>2, FlattenIs
<1>4. PICK off : Parts(F, ss, n, off)
  BY <1>3
<1>5. \A i \in 1 .. Len(F) : \E r \in 1 .. n : \E k \in 1 .. Len(ss[r]) :
        i = off[r - 1] + k
  <2>1. n \in Nat /\ \A r \in 1 .. n : Len(ss[r]) \in Nat
    BY <1>2
  <2>2. \A i \in 1 .. Len(F) : InAPart(i, ss, n, off)
    BY <1>4, <2>1, PartOf
  <2>. QED BY <2>2 DEF InAPart
<1>6. ASSUME NEW r \in 1 .. n, NEW k \in 1 .. Len(ss[r])
      PROVE  F[off[r - 1] + k].pe = PEAt(d, r - 1)
  <2>1. F[off[r - 1] + k] = ss[r][k]
    BY <1>4, <1>6 DEF Parts
  <2>2. ss[r][k] \in [item : Items, pe : {PEAt(d, r - 1)}]
    <3>1. PICK t, A : t = ss[r] /\ A = [item : Items, pe : {PEAt(d, r - 1)}]
      OBVIOUS
    <3>2. t \in Seq(A) /\ k \in 1 .. Len(t)
      BY <1>2, <3>1
    <3>3. t[k] \in A
      BY <3>2
    <3>. QED BY <3>1, <3>3
  <2>. QED BY <2>1, <2>2
<1>7. ASSUME NEW i \in 1 .. Len(F) PROVE NodeOf(F[i].pe) = d
  <2>1. PICK r \in 1 .. n : \E k \in 1 .. Len(ss[r]) : i = off[r - 1] + k
    BY <1>5
  <2>2. F[i].pe = PEAt(d, r - 1)
    BY <1>6, <2>1
  <2>3. r - 1 \in 0 .. NodeSize - 1
    BY <1>1, <1>2
  <2>. QED BY <2>2, <2>3, NodeOfPEAt
<1>8. ASSUME NEW i \in 1 .. Len(F), NEW j \in 1 .. Len(F), i < j
      PROVE  F[i].pe <= F[j].pe
  <2>1. PICK r \in 1 .. n : \E k \in 1 .. Len(ss[r]) : i = off[r - 1] + k
    BY <1>5
  <2>2. PICK k \in 1 .. Len(ss[r]) : i = off[r - 1] + k
    BY <2>1
  <2>3. PICK q \in 1 .. n : \E l \in 1 .. Len(ss[q]) : j = off[q - 1] + l
    BY <1>5
  <2>4. PICK l \in 1 .. Len(ss[q]) : j = off[q - 1] + l
    BY <2>3
  <2>5. off[r - 1] + k < off[q - 1] + l
    BY <1>8, <2>2, <2>4
  <2>6. \A p \in 1 .. n : Len(ss[p]) \in Nat
    BY <1>2
  <2>7. n \in Nat
    BY <1>2
  <2>8. r <= q
    BY <1>4, <2>5, <2>6, <2>7, PartsOrdered
  <2>9. F[i].pe = PEAt(d, r - 1) /\ F[j].pe = PEAt(d, q - 1)
    BY <1>6, <2>2, <2>4
  <2>10. d \in Nat /\ NodeSize \in Nat
    BY <1>1, <1>2 DEF Nodes
  <2>11. d * NodeSize \in Nat
    BY <2>10
  <2>. QED BY <2>8, <2>9, <2>11 DEF PEAt
<1>. QED BY <1>3, <1>7, <1>8 DEF InOrder

LEMMA AppendIs ==
  ASSUME NEW S, NEW s \in Seq(S), NEW x \in S, NEW t, t = Append(s, x)
  PROVE  /\ t \in Seq(S) /\ Len(t) = Len(s) + 1 /\ Len(s) \in Nat
         /\ \A i \in 1 .. Len(t) : t[i] = IF i = Len(t) THEN x ELSE s[i]
         /\ \A i \in 1 .. Len(t) : i # Len(t) => i \in 1 .. Len(s)
OBVIOUS

Grown(local, x, pe) == [local EXCEPT ![pe] = Append(@, Slot(x, pe))]

LEMMA LocalsGrow ==
  ASSUME NEW local, LocalsTyped(local), NEW pe \in PEs, NEW x \in Items,
         NEW now, now = Grown(local, x, pe)
  PROVE  /\ LocalsTyped(now)
         /\ \A d \in Nodes :
              Len(Locals(now, d)) = IF d = NodeOf(pe) THEN Len(Locals(local, d)) + 1
                                                      ELSE Len(Locals(local, d))
<1>1. /\ now = [p \in PEs |-> now[p]]
      /\ \A p \in PEs \ {pe} : now[p] = local[p]
      /\ now[pe] = Append(local[pe], Slot(x, pe))
  BY DEF LocalsTyped, Grown
<1>2. Slot(x, pe) \in [item : Items, pe : {pe}]
  BY DEF Slot
<1>3. /\ now[pe] \in Seq([item : Items, pe : {pe}])
      /\ Len(now[pe]) = Len(local[pe]) + 1
  <2>1. local[pe] \in Seq([item : Items, pe : {pe}])
    BY DEF LocalsTyped
  <2>2. PICK s, t, A : /\ s = local[pe] /\ t = now[pe]
                       /\ A = [item : Items, pe : {pe}]
    OBVIOUS
  <2>3. s \in Seq(A) /\ Slot(x, pe) \in A /\ t = Append(s, Slot(x, pe))
    BY <1>1, <1>2, <2>1, <2>2, Zenon
  <2>4. t \in Seq(A) /\ Len(t) = Len(s) + 1
    BY <2>3, AppendIs
  <2>. QED BY <2>2, <2>4, Zenon
<1>4. LocalsTyped(now)
  BY <1>1, <1>3 DEF LocalsTyped
<1>5. ASSUME NEW d \in Nodes, d # NodeOf(pe)
      PROVE  Locals(now, d) = Locals(local, d)
  <2>1. ASSUME NEW r \in 1 .. NodeSize PROVE now[PEsOf(d)[r]] = local[PEsOf(d)[r]]
    <3>1. r - 1 \in 0 .. NodeSize - 1
      BY WireAssumption DEF WireAssumption
    <3>2. PEsOf(d)[r] = PEAt(d, r - 1)
      BY DEF PEsOf
    <3>3. PEAt(d, r - 1) \in PEs /\ PEAt(d, r - 1) # pe
      BY <1>5, <3>1, NodeOfPEAt
    <3>. QED BY <1>1, <3>2, <3>3
  <2>2. LocalParts(now, d) = LocalParts(local, d)
    BY <2>1 DEF LocalParts
  <2>. QED BY <1>4, <2>2, LocalPartsAre
<1>6. ASSUME NEW d \in Nodes, d = NodeOf(pe)
      PROVE  Len(Locals(now, d)) = Len(Locals(local, d)) + 1
  <2>1. PICK n, ss, tt, F, G :
          /\ n = NodeSize /\ ss = LocalParts(local, d) /\ tt = LocalParts(now, d)
          /\ F = Locals(local, d) /\ G = Locals(now, d)
    OBVIOUS
  <2>2. /\ n \in Nat \ {0} /\ ss \in [1 .. n -> Seq([item : Items, pe : PEs])]
        /\ F = FlattenSeq(ss)
        /\ \A r \in 1 .. n : ss[r] = local[PEAt(d, r - 1)] /\ Len(ss[r]) \in Nat
                             /\ PEAt(d, r - 1) \in PEs
    BY <2>1, LocalPartsAre
  <2>3. /\ tt \in [1 .. n -> Seq([item : Items, pe : PEs])]
        /\ G = FlattenSeq(tt)
        /\ \A r \in 1 .. n : tt[r] = now[PEAt(d, r - 1)]
    <3>1. /\ LocalParts(now, d) \in [1 .. NodeSize -> Seq([item : Items, pe : PEs])]
          /\ \A r \in 1 .. NodeSize : LocalParts(now, d)[r] = now[PEAt(d, r - 1)]
          /\ Locals(now, d) = FlattenSeq(LocalParts(now, d))
      BY <1>4, LocalPartsAre
    <3>. QED BY <2>1, <3>1
  <2>4. PICK off : Parts(F, ss, n, off)
    BY <2>2, FlattenIs
  <2>5. PICK end : Parts(G, tt, n, end)
    BY <2>2, <2>3, FlattenIs
  <2>6. PICK p : p = Rank(pe) + 1
    OBVIOUS
  <2>7. p \in 1 .. n /\ p - 1 = Rank(pe) /\ PEAt(d, p - 1) = pe
    <3>1. PICK a : a = Rank(pe)
      OBVIOUS
    <3>2. a \in 0 .. n - 1 /\ pe = PEAt(d, a)
      BY <1>6, <2>1, <3>1, RankFacts
    <3>3. p = a + 1
      BY <2>6, <3>1
    <3>4. p \in 1 .. n /\ p - 1 = a
      BY <2>2, <3>2, <3>3
    <3>. QED BY <3>1, <3>2, <3>4
  <2>8. Len(tt[p]) = Len(ss[p]) + 1
    BY <1>3, <2>2, <2>3, <2>7
  <2>9. ASSUME NEW r \in 1 .. n, r # p PROVE Len(tt[r]) = Len(ss[r])
    <3>1. r - 1 # p - 1 /\ r - 1 \in Nat /\ p - 1 \in Nat
      BY <2>7, <2>9
    <3>2. d * n \in Nat
      BY <2>2 DEF Nodes
    <3>3. PEAt(d, r - 1) # PEAt(d, p - 1)
      BY <2>1, <3>1, <3>2 DEF PEAt
    <3>. QED BY <1>1, <2>2, <2>3, <2>7, <3>3
  <2>10. n \in Nat /\ \A r \in 1 .. n : Len(ss[r]) \in Nat
    BY <2>2
  <2>11. Len(G) = Len(F) + 1
    BY <2>4, <2>5, <2>7, <2>8, <2>9, <2>10, PartsGrow
  <2>. QED BY <2>1, <2>11
<1>. QED BY <1>4, <1>5, <1>6

\* What a message leaves behind in the local buffers.
Cleared(local, S) == [pe \in PEs |-> IF NodeOf(pe) \in S THEN <<>> ELSE local[pe]]

LEMMA LocalsCleared ==
  ASSUME NEW local, LocalsTyped(local), NEW S, NEW now, now = Cleared(local, S)
  PROVE  /\ LocalsTyped(now)
         /\ \A d \in Nodes : /\ d \in S => Len(Locals(now, d)) = 0
                             /\ d \notin S => Locals(now, d) = Locals(local, d)
<1>1. LocalsTyped(now)
  <2>1. \A pe \in PEs : <<>> \in Seq([item : Items, pe : {pe}])
    OBVIOUS
  <2>. QED BY <2>1 DEF LocalsTyped, Cleared
<1>2. ASSUME NEW d \in Nodes
      PROVE  \A r \in 1 .. NodeSize :
               LocalParts(now, d)[r] = IF d \in S THEN <<>> ELSE LocalParts(local, d)[r]
  <2>. SUFFICES ASSUME NEW r \in 1 .. NodeSize
                PROVE  LocalParts(now, d)[r] = IF d \in S THEN <<>>
                                               ELSE LocalParts(local, d)[r]
    OBVIOUS
  <2>1. r - 1 \in 0 .. NodeSize - 1
    BY WireAssumption DEF WireAssumption
  <2>2. PEAt(d, r - 1) \in PEs /\ NodeOf(PEAt(d, r - 1)) = d
    BY <2>1, NodeOfPEAt
  <2>3. /\ LocalParts(now, d)[r] = now[PEAt(d, r - 1)]
        /\ LocalParts(local, d)[r] = local[PEAt(d, r - 1)]
    BY <1>1, LocalPartsAre, ZenonT(30)
  <2>. QED BY <2>2, <2>3 DEF Cleared
<1>3. ASSUME NEW d \in Nodes, d \in S PROVE Len(Locals(now, d)) = 0
  <2>1. PICK n, ss, F : /\ n = NodeSize /\ ss = LocalParts(now, d)
                        /\ F = Locals(now, d)
    OBVIOUS
  <2>2. /\ n \in Nat \ {0} /\ ss \in [1 .. n -> Seq([item : Items, pe : PEs])]
        /\ F = FlattenSeq(ss)
    BY <1>1, <2>1, LocalPartsAre
  <2>3. PICK off : Parts(F, ss, n, off)
    BY <2>2, FlattenIs
  <2>4. \A r \in 1 .. n : Len(ss[r]) = 0
    BY <1>2, <1>3, <2>1
  <2>5. n \in Nat
    BY <2>2
  <2>6. Len(F) = 0
    BY <2>3, <2>4, <2>5, PartsEmpty
  <2>. QED BY <2>1, <2>6
<1>4. ASSUME NEW d \in Nodes, d \notin S PROVE Locals(now, d) = Locals(local, d)
  <2>1. \A r \in 1 .. NodeSize : LocalParts(now, d)[r] = LocalParts(local, d)[r]
    BY <1>2, <1>4
  <2>2. LocalParts(now, d) = LocalParts(local, d)
    BY <2>1 DEF LocalParts
  <2>. QED BY <1>1, <2>2, LocalPartsAre
<1>. QED BY <1>1, <1>3, <1>4

(***************************************************************************)
(* What the slots of a message to d are in a mode.  In WsP they are counts *)
(* of what the local buffers of d hold, or items for the node as a whole;  *)
(* never both, since a client that uses both waits in between.             *)
(***************************************************************************)
CountedBy(local, d, slots) ==
  /\ Len(slots) = Len(Locals(local, d))
  /\ \A i \in 1 .. Len(slots) : slots[i] = Unwritten

ForNodeBy(local, d, slots) ==
  /\ Len(Locals(local, d)) = 0 /\ Len(slots) # 0
  /\ \A i \in 1 .. Len(slots) : slots[i] \in [item : Items, pe : {AnyPE}]

WrittenFor(mode, d, slots) ==
  \A i \in 1 .. Len(slots) :
    /\ slots[i] \in [item : Items, pe : PEs]
    /\ mode = "WPs" => NodeOf(slots[i].pe) = d

Fills(mode, local, d, slots) ==
  IF mode = "WsP" THEN CountedBy(local, d, slots) \/ ForNodeBy(local, d, slots)
                  ELSE WrittenFor(mode, d, slots)

LocalsFor(mode, local) ==
  /\ LocalsTyped(local)
  /\ mode # "WsP" => \A d \in Nodes : Len(Locals(local, d)) = 0

ContainedBy(mode, local, buffers) ==
  /\ LocalsFor(mode, local)
  /\ \A d \in Dests(mode) : Fills(mode, local, d, buffers[d].slots)

WellFormed(m) ==
  /\ \A i \in DOMAIN m.items : m.items[i].item # Garbage
  /\ m.entry \in {"receive", "receive_no_sort"} =>
       \A i \in DOMAIN m.items :
         m.items[i].pe # AnyPE => NodeOf(m.items[i].pe) = m.dest
  /\ m.entry = "receive_no_sort" =>
       \A i, j \in DOMAIN m.items : i < j => m.items[i].pe <= m.items[j].pe

LEMMA MessagesAre == MessagesWellFormed <=> \A m \in wire : WellFormed(m)
BY DEF MessagesWellFormed, WellFormed

Contained == /\ ContainedBy(agg, localBuffers, msgBuffers)
             /\ MessagesWellFormed

LEMMA ContainedNext ==
  ASSUME ContainedBy(agg', localBuffers', msgBuffers'),
         \A m \in wire' : WellFormed(m)
  PROVE  Contained'
<1>1. MessagesWellFormed'
  BY DEF MessagesWellFormed, WellFormed
<1>. QED BY <1>1 DEF Contained

\* The message that leaves is as its receiver expects it.
LEMMA ShipsWellFormed ==
  ASSUME agg \in {"WsP", "WPs", "WW"}, NEW local, LocalsTyped(local),
         NEW d \in Dests(agg), NEW slots \in Seq(ItemSlots),
         Fills(agg, local, d, slots), NEW c
  PROVE  WellFormed(Message(EntryPoint, d, Contents(local, d, slots), c))
<1>1. PICK m, items : /\ items = Contents(local, d, slots)
                      /\ m = Message(EntryPoint, d, Contents(local, d, slots), c)
  OBVIOUS
<1>2. m.entry = EntryPoint /\ m.dest = d /\ m.items = items
  BY <1>1 DEF Message
<1>3. DOMAIN slots = 1 .. Len(slots) /\ Garbage \notin Items
  BY PlainAssumption DEF PlainAssumption
<1>4. CASE agg = "WsP"
  <2>1. d \in Nodes /\ m.entry = "receive_no_sort"
    BY <1>2, <1>4 DEF Dests, EntryPoint
  <2>2. PICK F : F = Locals(local, d)
    OBVIOUS
  <2>3. /\ F \in Seq([item : Items, pe : PEs])
        /\ \A i \in 1 .. Len(F) : NodeOf(F[i].pe) = d
        /\ \A i, j \in 1 .. Len(F) : i < j => F[i].pe <= F[j].pe
    <3>1. InOrder(F, d)
      BY <2>1, <2>2, LocalsInOrder
    <3>. QED BY <3>1 DEF InOrder
  <2>4. DOMAIN F = 1 .. Len(F) /\ \A i \in 1 .. Len(F) : F[i] \in [item : Items, pe : PEs]
    <3>1. PICK A : A = [item : Items, pe : PEs]
      OBVIOUS
    <3>2. F \in Seq(A)
      BY <2>3, <3>1
    <3>3. DOMAIN F = 1 .. Len(F) /\ \A i \in 1 .. Len(F) : F[i] \in A
      BY <3>2
    <3>. QED BY <3>1, <3>3
  <2>5. items = [i \in DOMAIN slots |-> IF i \in DOMAIN F THEN F[i] ELSE slots[i]]
    BY <1>1, <1>4, <2>2 DEF Contents
  <2>6. CASE CountedBy(local, d, slots)
    <3>1. DOMAIN slots = DOMAIN F
      BY <1>3, <2>2, <2>4, <2>6 DEF CountedBy
    <3>2. DOMAIN items = 1 .. Len(F) /\ \A i \in 1 .. Len(F) : items[i] = F[i]
      <4>1. DOMAIN items = DOMAIN F /\ \A i \in DOMAIN F : items[i] = F[i]
        BY <2>5, <3>1
      <4>. QED BY <2>4, <4>1
    <3>3. \A i \in 1 .. Len(F) : F[i].item # Garbage
      <4>. SUFFICES ASSUME NEW i \in 1 .. Len(F) PROVE F[i].item # Garbage
        OBVIOUS
      <4>1. F[i] \in [item : Items, pe : PEs]
        BY <2>4
      <4>. QED BY <1>3, <4>1
    <3>4. WellFormed(m)
      BY <1>2, <2>1, <2>3, <3>2, <3>3 DEF WellFormed
    <3>. QED BY <1>1, <3>4
  <2>7. CASE ForNodeBy(local, d, slots)
    <3>1. Len(F) = 0 /\ DOMAIN F = {}
      BY <2>2, <2>4, <2>7 DEF ForNodeBy
    <3>2. DOMAIN items = 1 .. Len(slots) /\ \A i \in 1 .. Len(slots) : items[i] = slots[i]
      BY <1>3, <2>5, <3>1
    <3>3. \A i \in 1 .. Len(slots) : slots[i].item # Garbage /\ slots[i].pe = AnyPE
      BY <1>3, <2>7 DEF ForNodeBy
    <3>4. AnyPE <= AnyPE
      BY DEF AnyPE
    <3>5. WellFormed(m)
      BY <1>2, <3>2, <3>3, <3>4 DEF WellFormed
    <3>. QED BY <1>1, <3>5
  <2>. QED BY <1>4, <2>6, <2>7 DEF Fills
<1>5. CASE agg # "WsP"
  <2>1. items = slots /\ m.entry # "receive_no_sort"
    BY <1>1, <1>2, <1>5 DEF Contents, EntryPoint
  <2>2. m.entry = "receive" => agg = "WPs"
    BY <1>2, <1>5 DEF EntryPoint
  <2>3. \A i \in 1 .. Len(slots) : /\ slots[i].item # Garbage
                                   /\ agg = "WPs" => NodeOf(slots[i].pe) = d
    BY <1>3, <1>5 DEF Fills, WrittenFor
  <2>4. WellFormed(m)
    BY <1>2, <1>3, <2>1, <2>2, <2>3 DEF WellFormed
  <2>. QED BY <1>1, <2>4
<1>. QED BY <1>4, <1>5

\* Nothing waits in a buffer that is empty.
LEMMA FillsEmpty ==
  ASSUME NEW mode, NEW local, NEW d, mode = "WsP" => Len(Locals(local, d)) = 0
  PROVE  Fills(mode, local, d, <<>>)
<1>1. Len(<<>>) = 0 /\ 1 .. 0 = {}
  OBVIOUS
<1>. QED BY <1>1 DEF Fills, CountedBy, WrittenFor

LEMMA FillsLocals ==
  ASSUME NEW mode, NEW local, NEW now, NEW d, NEW slots, Fills(mode, local, d, slots),
         mode = "WsP" => Len(Locals(now, d)) = Len(Locals(local, d))
  PROVE  Fills(mode, now, d, slots)
BY Zenon DEF Fills, CountedBy, ForNodeBy

LEMMA LocalsLeftAre ==
  ASSUME NEW local, LocalsFor(agg, local), NEW S
  PROVE  LocalsLeft(local, S) = IF agg = "WsP" THEN Cleared(local, S) ELSE local
<1>1. local = [pe \in PEs |-> local[pe]]
  BY DEF LocalsFor, LocalsTyped
<1>. QED BY <1>1 DEF LocalsLeft, Cleared

\* The messages to S have left.
LEMMA ShippedContained ==
  ASSUME NEW local, LocalsFor(agg, local), NEW S,
         NEW now, now = LocalsLeft(local, S), NEW buffers,
         \A d \in Dests(agg) : IF d \in S THEN buffers[d].slots = <<>>
                               ELSE Fills(agg, local, d, buffers[d].slots)
  PROVE  ContainedBy(agg, now, buffers)
<1>1. CASE agg = "WsP"
  <2>1. now = Cleared(local, S)
    BY <1>1, LocalsLeftAre
  <2>2. /\ LocalsTyped(now)
        /\ \A d \in Nodes : /\ d \in S => Len(Locals(now, d)) = 0
                            /\ d \notin S => Locals(now, d) = Locals(local, d)
    BY <2>1, LocalsCleared DEF LocalsFor
  <2>3. ASSUME NEW d \in Dests(agg) PROVE Fills(agg, now, d, buffers[d].slots)
    <3>1. d \in Nodes
      BY <1>1 DEF Dests
    <3>2. CASE d \in S
      BY <2>2, <3>1, <3>2, FillsEmpty
    <3>3. CASE d \notin S
      <4>1. Fills(agg, local, d, buffers[d].slots) /\ Len(Locals(now, d)) = Len(Locals(local, d))
        BY <2>2, <3>1, <3>3
      <4>. QED BY <4>1, FillsLocals
    <3>. QED BY <3>2, <3>3
  <2>. QED BY <1>1, <2>2, <2>3 DEF ContainedBy, LocalsFor
<1>2. CASE agg # "WsP"
  <2>1. now = local
    BY <1>2, LocalsLeftAre
  <2>2. ASSUME NEW d \in Dests(agg) PROVE Fills(agg, now, d, buffers[d].slots)
    BY <1>2, <2>1, FillsEmpty
  <2>. QED BY <2>1, <2>2 DEF ContainedBy
<1>. QED BY <1>1, <1>2

\* The item x for pe is stored: in d's slots, and in WsP in the local buffers.
ValueLocals(x, pe) ==
  IF agg = "WsP" THEN Grown(localBuffers, x, pe) ELSE localBuffers
ValueSlot(x, pe) == IF agg = "WsP" THEN Unwritten ELSE Slot(x, pe)

StoredFor(d, now, slots) ==
  /\ d \in Dests(agg) /\ slots \in Seq(ItemSlots)
  /\ LocalsFor(agg, now) /\ Fills(agg, now, d, slots)
  /\ \A e \in Nodes : e # d /\ agg = "WsP" =>
       Len(Locals(now, e)) = Len(Locals(localBuffers, e))

\* One slot of d is written, or counted.
LEMMA FilledContained ==
  ASSUME NEW d, NEW slots, NEW now, NEW buffers,
         Contained, Buffers, StoredFor(d, now, slots),
         buffers = [msgBuffers EXCEPT ![d].slots = slots]
  PROVE  ContainedBy(agg, now, buffers)
<1>. USE DEF StoredFor
<1>1. ASSUME NEW e \in Dests(agg), e # d PROVE Fills(agg, now, e, msgBuffers[e].slots)
  <2>1. Fills(agg, localBuffers, e, msgBuffers[e].slots)
    BY <1>1 DEF Contained, ContainedBy
  <2>2. agg = "WsP" => Len(Locals(now, e)) = Len(Locals(localBuffers, e))
    BY <1>1 DEF Dests
  <2>. QED BY <2>1, <2>2, FillsLocals
<1>2. msgBuffers \in [PEs -> [slots : Seq(ItemSlots), cap : Nat]] /\ Dests(agg) \subseteq PEs
  BY DestsArePEs DEF Buffers
<1>3. /\ buffers[d].slots = slots
      /\ \A e \in Dests(agg) : e # d => buffers[e] = msgBuffers[e]
  BY <1>2
<1>4. ASSUME NEW e \in Dests(agg) PROVE Fills(agg, now, e, buffers[e].slots)
  BY <1>1, <1>3
<1>. QED BY <1>4 DEF ContainedBy

\* The items of insertToProcess are told from slots nobody wrote.
LEMMA ForNodeShows ==
  ASSUME Buffers, NEW d \in PEs, NEW local,
         ForNodeBy(local, d, msgBuffers[d].slots)
  PROVE  ForProcess(d)
<1>1. PICK old : old = msgBuffers[d].slots
  OBVIOUS
<1>2. old \in Seq(ItemSlots)
  <2>1. msgBuffers[d] \in [slots : Seq(ItemSlots), cap : Nat]
    BY DEF Buffers
  <2>. QED BY <1>1, <2>1
<1>3. 1 \in 1 .. Len(old) /\ 1 \in DOMAIN old
  BY <1>1, <1>2 DEF ForNodeBy
<1>4. old[1] \in [item : Items, pe : {AnyPE}]
  BY <1>1, <1>3 DEF ForNodeBy
<1>5. old[1].pe = AnyPE /\ old[1] # Unwritten
  BY <1>4, PlainAssumption DEF PlainAssumption, Unwritten, Slot
<1>6. old[1] \in ToSet(old)
  BY <1>3 DEF ToSet
<1>. QED BY <1>1, <1>5, <1>6 DEF ForProcess

\* insertValue stores in d's message, and in WsP in the local buffer.
LEMMA ValueFills ==
  ASSUME Contained, Buffers, NEW x \in Items, NEW pe \in PEs,
         NEW d, d = DestOf(pe), ~ForProcess(d),
         NEW local, local = ValueLocals(x, pe),
         NEW slots, slots = Store(d, ValueSlot(x, pe))
  PROVE  StoredFor(d, local, slots)
<1>1. d \in Dests(agg) /\ d \in PEs
  BY NodeFacts, NodesArePEs DEF DestOf, Dests
<1>2. PICK old, slot : /\ old = msgBuffers[d].slots
                       /\ slot = ValueSlot(x, pe)
  OBVIOUS
<1>3. old \in Seq(ItemSlots) /\ slot \in ItemSlots /\ slots = Append(old, slot)
  <2>1. msgBuffers[d] \in [slots : Seq(ItemSlots), cap : Nat]
    BY <1>1 DEF Buffers
  <2>2. slot \in ItemSlots
    BY <1>2 DEF ItemSlots, Unwritten, Slot, ValueSlot
  <2>. QED BY <1>2, <2>1, <2>2 DEF Store
<1>4. /\ slots \in Seq(ItemSlots) /\ Len(slots) = Len(old) + 1 /\ Len(old) \in Nat
      /\ \A i \in 1 .. Len(slots) : slots[i] = IF i = Len(slots) THEN slot ELSE old[i]
      /\ \A i \in 1 .. Len(slots) : i # Len(slots) => i \in 1 .. Len(old)
  BY <1>3, AppendIs
<1>5. Fills(agg, localBuffers, d, old)
  BY <1>1, <1>2 DEF Contained, ContainedBy
<1>6. CASE agg = "WsP"
  <2>1. d \in Nodes /\ d = NodeOf(pe)
    BY <1>1, <1>6 DEF Dests, DestOf
  <2>2. LocalsTyped(localBuffers)
    BY DEF Contained, ContainedBy, LocalsFor
  <2>3. local = Grown(localBuffers, x, pe)
    BY <1>6 DEF ValueLocals
  <2>4. /\ LocalsTyped(local)
        /\ \A e \in Nodes :
             Len(Locals(local, e)) = IF e = NodeOf(pe) THEN Len(Locals(localBuffers, e)) + 1
                                                       ELSE Len(Locals(localBuffers, e))
    BY <2>2, <2>3, LocalsGrow
  <2>5. CountedBy(localBuffers, d, old)
    <3>1. ~ForNodeBy(localBuffers, d, old)
      BY <1>1, <1>2, ForNodeShows
    <3>. QED BY <1>5, <1>6, <3>1 DEF Fills
  <2>6. Len(slots) = Len(Locals(local, d))
    BY <1>4, <2>1, <2>4, <2>5 DEF CountedBy
  <2>7. \A i \in 1 .. Len(slots) : slots[i] = Unwritten
    BY <1>2, <1>4, <1>6, <2>5 DEF CountedBy, ValueSlot
  <2>8. Fills(agg, local, d, slots)
    BY <1>6, <2>6, <2>7 DEF Fills, CountedBy
  <2>9. LocalsFor(agg, local)
    BY <1>6, <2>4 DEF LocalsFor
  <2>. QED BY <1>1, <1>4, <2>1, <2>4, <2>8, <2>9 DEF StoredFor
<1>7. CASE agg # "WsP"
  <2>1. local = localBuffers /\ slot = Slot(x, pe)
    BY <1>2, <1>7 DEF ValueLocals, ValueSlot
  <2>2. slot \in [item : Items, pe : PEs] /\ slot.pe = pe
    BY <2>1 DEF Slot
  <2>3. agg = "WPs" => d = NodeOf(pe)
    BY DEF DestOf
  <2>4. WrittenFor(agg, d, old)
    BY <1>5, <1>7 DEF Fills
  <2>5. WrittenFor(agg, d, slots)
    BY <1>4, <2>2, <2>3, <2>4 DEF WrittenFor
  <2>6. LocalsFor(agg, local)
    BY <2>1 DEF Contained, ContainedBy
  <2>. QED BY <1>1, <1>4, <1>7, <2>5, <2>6 DEF Fills, StoredFor
<1>. QED BY <1>6, <1>7

LEMMA ValueStep ==
  ASSUME Contained, Buffers, NEW x \in Items, NEW pe \in PEs, InsertValue(x, pe)
  PROVE  Contained'
<1>1. PICK d, local, slots :
        /\ d = DestOf(pe)
        /\ local = ValueLocals(x, pe)
        /\ slots = Store(d, ValueSlot(x, pe))
  OBVIOUS
<1>2. /\ ~ForProcess(d) /\ agg' = agg
      /\ \/ /\ msgBuffers' = [msgBuffers EXCEPT ![d].slots = slots]
            /\ localBuffers' = local
            /\ wire' = wire
         \/ \E c : /\ wire' = wire \cup
                          {Message(EntryPoint, d, Contents(local, d, slots), c)}
                   /\ msgBuffers' = [msgBuffers EXCEPT ![d] = NewMessage(bufSize)]
                   /\ localBuffers' = LocalsLeft(local, {d})
  BY <1>1 DEF InsertValue, ValueLocals, ValueSlot, Grown
<1>8. StoredFor(d, local, slots)
  BY <1>1, <1>2, ValueFills
<1>3. /\ d \in Dests(agg) /\ slots \in Seq(ItemSlots)
      /\ LocalsFor(agg, local) /\ Fills(agg, local, d, slots)
  BY <1>8 DEF StoredFor
<1>4. PICK full : full = [msgBuffers EXCEPT ![d].slots = slots]
  OBVIOUS
<1>5. ContainedBy(agg, local, full)
  BY <1>8, <1>4, FilledContained
<1>6. CASE /\ msgBuffers' = full /\ localBuffers' = local /\ wire' = wire
  <2>1. ContainedBy(agg', localBuffers', msgBuffers')
    BY <1>2, <1>5, <1>6
  <2>2. \A m \in wire' : WellFormed(m)
    BY <1>6, MessagesAre DEF Contained
  <2>. QED BY <2>1, <2>2, ContainedNext
<1>7. ASSUME NEW c,
             /\ wire' = wire \cup {Message(EntryPoint, d, Contents(local, d, slots), c)}
             /\ msgBuffers' = [msgBuffers EXCEPT ![d] = NewMessage(bufSize)]
             /\ localBuffers' = LocalsLeft(local, {d})
      PROVE  Contained'
  <2>1. msgBuffers \in [PEs -> [slots : Seq(ItemSlots), cap : Nat]] /\ d \in PEs
    BY <1>3, DestsArePEs DEF Buffers
  <2>2. PICK buffers : buffers = msgBuffers'
    OBVIOUS
  <2>3. /\ buffers[d].slots = <<>>
        /\ \A e \in Dests(agg) : e # d => buffers[e].slots = full[e].slots
    BY <1>4, <1>7, <2>1, <2>2, DestsArePEs DEF NewMessage
  <2>4. \A e \in Dests(agg) : IF e \in {d} THEN buffers[e].slots = <<>>
                              ELSE Fills(agg, local, e, buffers[e].slots)
    BY <1>5, <2>3 DEF ContainedBy
  <2>5. PICK now : now = LocalsLeft(local, {d})
    OBVIOUS
  <2>6. ContainedBy(agg, now, buffers)
    BY <1>3, <2>4, <2>5, ShippedContained
  <2>7. ContainedBy(agg', localBuffers', msgBuffers')
    BY <1>2, <1>7, <2>2, <2>5, <2>6
  <2>8. WellFormed(Message(EntryPoint, d, Contents(local, d, slots), c))
    <3>1. agg \in {"WsP", "WPs", "WW"} /\ LocalsTyped(local)
      BY <1>3 DEF Buffers, LocalsFor
    <3>. QED BY <1>3, <3>1, ShipsWellFormed
  <2>9. \A m \in wire' : WellFormed(m)
    BY <1>7, <2>8, MessagesAre DEF Contained
  <2>. QED BY <2>7, <2>9, ContainedNext
<1>. QED BY <1>2, <1>4, <1>6, <1>7

\* insertToProcess writes its slots, where insertValue has nothing.
LEMMA ProcessStored ==
  ASSUME Contained, Buffers, agg = "WsP", NEW x \in Items, NEW n \in Nodes,
         ~ForPEs(n), NEW slots, slots = Store(n, Slot(x, AnyPE))
  PROVE  /\ StoredFor(n, localBuffers, slots)
         /\ \A i \in 1 .. Len(slots) : slots[i].item # Garbage
<1>1. n \in Dests(agg) /\ n \in PEs
  BY NodesArePEs DEF Dests
<1>2. PICK old, slot : old = msgBuffers[n].slots /\ slot = Slot(x, AnyPE)
  OBVIOUS
<1>3. /\ old \in Seq(ItemSlots) /\ slot \in ItemSlots /\ slots = Append(old, slot)
      /\ slot \in [item : Items, pe : {AnyPE}]
  <2>1. msgBuffers[n] \in [slots : Seq(ItemSlots), cap : Nat]
    BY <1>1 DEF Buffers
  <2>2. slot \in ItemSlots /\ slot \in [item : Items, pe : {AnyPE}]
    BY <1>2 DEF ItemSlots, Slot
  <2>. QED BY <1>2, <2>1, <2>2 DEF Store
<1>4. /\ slots \in Seq(ItemSlots) /\ Len(slots) = Len(old) + 1 /\ Len(old) \in Nat
      /\ \A i \in 1 .. Len(slots) : slots[i] = IF i = Len(slots) THEN slot ELSE old[i]
      /\ \A i \in 1 .. Len(slots) : i # Len(slots) => i \in 1 .. Len(old)
  BY <1>3, AppendIs
<1>5. CountedBy(localBuffers, n, old) \/ ForNodeBy(localBuffers, n, old)
  BY <1>1, <1>2 DEF Contained, ContainedBy, Fills
<1>6. /\ Len(Locals(localBuffers, n)) = 0
      /\ \A i \in 1 .. Len(old) : old[i] \in [item : Items, pe : {AnyPE}]
  <2>1. CASE Len(old) = 0
    BY <1>5, <2>1 DEF CountedBy, ForNodeBy
  <2>2. CASE Len(old) # 0
    <3>1. ForProcess(n)
      BY <1>2, <2>2 DEF ForPEs, NextOf
    <3>2. PICK s \in ToSet(old) : s # Unwritten
      BY <1>2, <3>1 DEF ForProcess
    <3>3. PICK i \in 1 .. Len(old) : old[i] # Unwritten
      BY <1>3, <3>2 DEF ToSet
    <3>. QED BY <1>5, <3>3 DEF CountedBy, ForNodeBy
  <2>. QED BY <2>1, <2>2
<1>7. \A i \in 1 .. Len(slots) : slots[i] \in [item : Items, pe : {AnyPE}]
  BY <1>3, <1>4, <1>6
<1>8. Len(slots) # 0
  BY <1>4
<1>9. Fills(agg, localBuffers, n, slots)
  BY <1>6, <1>7, <1>8 DEF Fills, ForNodeBy
<1>10. LocalsFor(agg, localBuffers)
  BY DEF Contained, ContainedBy
<1>11. \A i \in 1 .. Len(slots) : slots[i].item # Garbage
  BY <1>7, PlainAssumption DEF PlainAssumption
<1>. QED BY <1>1, <1>4, <1>9, <1>10, <1>11 DEF StoredFor

LEMMA ProcessStep ==
  ASSUME Contained, Buffers, agg = "WsP", NEW x \in Items, NEW n \in Nodes,
         InsertToProcess(x, n)
  PROVE  Contained'
<1>1. PICK slots : slots = Store(n, Slot(x, AnyPE))
  OBVIOUS
<1>2. /\ ~ForPEs(n) /\ agg' = agg /\ localBuffers' = localBuffers
      /\ \/ /\ msgBuffers' = [msgBuffers EXCEPT ![n].slots = slots]
            /\ wire' = wire
         \/ \E c : /\ wire' = wire \cup {Message("receiveOnProc", n, slots, c)}
                   /\ msgBuffers' = [msgBuffers EXCEPT ![n] = NewMessage(bufSize)]
  BY <1>1 DEF InsertToProcess
<1>3. /\ StoredFor(n, localBuffers, slots)
      /\ \A i \in 1 .. Len(slots) : slots[i].item # Garbage
  BY <1>1, <1>2, ProcessStored
<1>4. PICK local, full : /\ local = localBuffers
                         /\ full = [msgBuffers EXCEPT ![n].slots = slots]
  OBVIOUS
<1>5. ContainedBy(agg, local, full)
  BY <1>3, <1>4, FilledContained
<1>6. CASE msgBuffers' = full /\ wire' = wire
  <2>1. ContainedBy(agg', localBuffers', msgBuffers')
    BY <1>2, <1>4, <1>5, <1>6
  <2>2. \A m \in wire' : WellFormed(m)
    BY <1>6, MessagesAre DEF Contained
  <2>. QED BY <2>1, <2>2, ContainedNext
<1>7. ASSUME NEW c,
             /\ wire' = wire \cup {Message("receiveOnProc", n, slots, c)}
             /\ msgBuffers' = [msgBuffers EXCEPT ![n] = NewMessage(bufSize)]
      PROVE  Contained'
  <2>1. /\ msgBuffers \in [PEs -> [slots : Seq(ItemSlots), cap : Nat]] /\ n \in PEs
        /\ Dests(agg) \subseteq PEs
    BY <1>3, DestsArePEs DEF Buffers, StoredFor
  <2>2. PICK buffers : buffers = msgBuffers'
    OBVIOUS
  <2>3. /\ buffers[n].slots = <<>>
        /\ \A e \in Dests(agg) : e # n => buffers[e].slots = full[e].slots
    BY <1>4, <1>7, <2>1, <2>2 DEF NewMessage
  <2>4. Len(Locals(local, n)) = 0
    <3>1. Len(slots) # 0 /\ slots[1] # Unwritten
      <4>1. n \in Nodes /\ slots \in Seq(ItemSlots)
        BY <1>3 DEF StoredFor
      <4>2. slots = Append(msgBuffers[n].slots, Slot(x, AnyPE))
        BY <1>1 DEF Store
      <4>3. Len(slots) # 0
        <5>1. PICK old : old = msgBuffers[n].slots
          OBVIOUS
        <5>2. old \in Seq(ItemSlots)
          BY <2>1, <5>1
        <5>3. Slot(x, AnyPE) \in ItemSlots
          BY DEF Slot, ItemSlots
        <5>4. Len(slots) = Len(old) + 1 /\ Len(old) \in Nat
          BY <4>2, <5>1, <5>2, <5>3, AppendIs
        <5>. QED BY <5>4
      <4>4. 1 \in 1 .. Len(slots)
        BY <4>1, <4>3
      <4>. QED BY <1>3, <4>3, <4>4 DEF Unwritten, Slot
    <3>2. CountedBy(local, n, slots) \/ ForNodeBy(local, n, slots)
      BY <1>3, <1>4 DEF StoredFor, Fills
    <3>3. CountedBy(local, n, slots) => slots[1] = Unwritten
      <4>1. Len(slots) \in Nat
        BY <1>3 DEF StoredFor
      <4>. QED BY <3>1, <4>1 DEF CountedBy
    <3>. QED BY <3>1, <3>2, <3>3 DEF ForNodeBy
  <2>5. Fills(agg, local, n, buffers[n].slots)
    BY <2>3, <2>4, FillsEmpty
  <2>6. ASSUME NEW e \in Dests(agg) PROVE Fills(agg, local, e, buffers[e].slots)
    <3>1. CASE e = n
      BY <2>5, <3>1
    <3>2. CASE e # n
      BY <1>5, <2>3, <3>2 DEF ContainedBy
    <3>. QED BY <3>1, <3>2
  <2>7. ContainedBy(agg, local, buffers)
    BY <1>5, <2>6 DEF ContainedBy
  <2>8. ContainedBy(agg', localBuffers', msgBuffers')
    BY <1>2, <1>4, <2>2, <2>7
  <2>9. WellFormed(Message("receiveOnProc", n, slots, c))
    <3>1. DOMAIN slots = 1 .. Len(slots)
      BY <1>3 DEF StoredFor
    <3>. QED BY <1>3, <3>1 DEF WellFormed, Message
  <2>10. \A m \in wire' : WellFormed(m)
    BY <1>7, <2>9, MessagesAre DEF Contained
  <2>. QED BY <2>8, <2>10, ContainedNext
<1>. QED BY <1>2, <1>4, <1>6, <1>7

LEMMA TFlushContained ==
  ASSUME Contained, Buffers, TFlush
  PROVE  Contained'
<1>1. /\ agg' = agg /\ localBuffers' = LocalsLeft(localBuffers, Partial)
      /\ msgBuffers' = [d \in PEs |-> IF d \in Partial THEN NewMessage(bufSize)
                                                       ELSE msgBuffers[d]]
      /\ wire' = wire \cup
           {Message(EntryPoint, d, Contents(localBuffers, d, msgBuffers[d].slots),
                    Cardinality(inserted)) : d \in Partial}
  BY DEF TFlush
<1>2. PICK local, now, buffers, S :
        /\ local = localBuffers /\ now = LocalsLeft(localBuffers, Partial)
        /\ buffers = msgBuffers' /\ S = Partial
  OBVIOUS
<1>3. LocalsFor(agg, local) /\ S \subseteq Dests(agg)
  BY <1>2 DEF Contained, ContainedBy, Partial
<1>4. \A d \in Dests(agg) : Fills(agg, local, d, msgBuffers[d].slots)
  BY <1>2 DEF Contained, ContainedBy
<1>5. \A d \in Dests(agg) : IF d \in S THEN buffers[d].slots = <<>>
                            ELSE Fills(agg, local, d, buffers[d].slots)
  BY <1>1, <1>2, <1>4, DestsArePEs DEF NewMessage
<1>6. ContainedBy(agg, now, buffers)
  BY <1>2, <1>3, <1>5, ShippedContained
<1>7. ContainedBy(agg', localBuffers', msgBuffers')
  BY <1>1, <1>2, <1>6
<1>8. ASSUME NEW d \in Partial
      PROVE  WellFormed(Message(EntryPoint, d,
                                Contents(localBuffers, d, msgBuffers[d].slots),
                                Cardinality(inserted)))
  <2>1. d \in Dests(agg) /\ agg \in {"WsP", "WPs", "WW"} /\ LocalsTyped(localBuffers)
    BY <1>2, <1>3 DEF Buffers, LocalsFor
  <2>2. PICK slots : slots = msgBuffers[d].slots
    OBVIOUS
  <2>3. slots \in Seq(ItemSlots) /\ Fills(agg, localBuffers, d, slots)
    <3>1. msgBuffers[d] \in [slots : Seq(ItemSlots), cap : Nat]
      BY <2>1, DestsArePEs DEF Buffers
    <3>. QED BY <1>2, <1>4, <2>1, <2>2, <3>1
  <2>4. WellFormed(Message(EntryPoint, d, Contents(localBuffers, d, slots),
                           Cardinality(inserted)))
    BY <2>1, <2>3, ShipsWellFormed
  <2>. QED BY <2>2, <2>4
<1>9. \A m \in wire' : WellFormed(m)
  BY <1>1, <1>8, MessagesAre DEF Contained
<1>. QED BY <1>7, <1>9, ContainedNext

\* With nothing buffered no local buffer of a mode has anything left.
LEMMA NothingLeft ==
  ASSUME Contained, Partial = {}
  PROVE  \A d \in Nodes : Len(Locals(localBuffers, d)) = 0
<1>1. CASE agg = "WsP"
  <2>. SUFFICES ASSUME NEW d \in Nodes PROVE Len(Locals(localBuffers, d)) = 0
    OBVIOUS
  <2>1. d \in Dests(agg)
    BY <1>1 DEF Dests
  <2>2. Len(msgBuffers[d].slots) = 0
    BY <2>1 DEF Partial, NextOf
  <2>3. Fills(agg, localBuffers, d, msgBuffers[d].slots)
    BY <2>1 DEF Contained, ContainedBy
  <2>. QED BY <1>1, <2>2, <2>3 DEF Fills, CountedBy, ForNodeBy
<1>2. CASE agg # "WsP"
  BY <1>2 DEF Contained, ContainedBy, LocalsFor
<1>. QED BY <1>1, <1>2

LEMMA KnobContained ==
  ASSUME Contained, Buffers,
         \/ \E n \in BufSizes : SetBufferSize(n)
         \/ \E mode \in Modes : ResetStats(mode)
  PROVE  Contained'
<1>1. Partial = {} /\ wire' = wire /\ localBuffers' = localBuffers
  BY DEF SetBufferSize, ResetStats
<1>2. PICK local, mode, buffers :
        local = localBuffers /\ mode = agg' /\ buffers = msgBuffers'
  OBVIOUS
<1>3. \A d \in Nodes : Len(Locals(local, d)) = 0
  BY <1>1, <1>2, NothingLeft
<1>4. LocalsFor(mode, local)
  BY <1>2, <1>3 DEF LocalsFor, Contained, ContainedBy
<1>5. ASSUME NEW d \in Dests(mode) PROVE buffers[d].slots = <<>>
  <2>1. CASE \E n \in BufSizes : SetBufferSize(n)
    <3>1. PICK n \in BufSizes : SetBufferSize(n)
      BY <2>1
    <3>2. agg' = agg /\ msgBuffers[d] # NoMessage
      <4>1. agg' = agg
        BY <3>1 DEF SetBufferSize
      <4>. QED BY <1>2, <1>5, <4>1, PlainAssumption
              DEF Buffers, RoomForNext, NextOf, NoMessage, PlainAssumption
    <3>3. d \in PEs /\ d \in Dests(agg)
      BY <1>2, <1>5, <3>2, DestsArePEs
    <3>4. msgBuffers'[d] = NewMessage(n)
      BY <3>1, <3>2, <3>3 DEF SetBufferSize
    <3>. QED BY <1>2, <3>4 DEF NewMessage
  <2>2. CASE \E k \in Modes : ResetStats(k)
    <3>1. PICK k \in Modes : ResetStats(k)
      BY <2>2
    <3>2. agg' = k /\ d \in Dests(k) /\ d \in PEs
      BY <1>2, <1>5, <3>1, NodesArePEs DEF ResetStats, Dests
    <3>3. msgBuffers'[d] = NewMessage(bufSize)
      BY <3>1, <3>2 DEF ResetStats, Refresh
    <3>. QED BY <1>2, <3>3 DEF NewMessage
  <2>. QED BY <2>1, <2>2
<1>6. ASSUME NEW d \in Dests(mode) PROVE Fills(mode, local, d, buffers[d].slots)
  <2>1. mode = "WsP" => Len(Locals(local, d)) = 0
    BY <1>3, <1>6 DEF Dests
  <2>. QED BY <1>5, <2>1, FillsEmpty
<1>7. ContainedBy(mode, local, buffers)
  BY <1>4, <1>6 DEF ContainedBy
<1>8. ContainedBy(agg', localBuffers', msgBuffers')
  BY <1>1, <1>2, <1>7
<1>9. \A m \in wire' : WellFormed(m)
  BY <1>1, MessagesAre DEF Contained
<1>. QED BY <1>8, <1>9, ContainedNext

\* Receivers take messages away.
LEMMA ReceiverContained ==
  ASSUME Contained, NEW pe \in PEs, Receives(pe)
  PROVE  Contained'
<1>1. UNCHANGED <<agg, localBuffers, msgBuffers>> /\ wire' \subseteq wire
  BY DEF Receives, ReceiverStep, sender, ReceiveNoSort, Receive, ReceiveOnPE,
         ReceiveOnProc, Arrives, FanOut, FanOutDone, ReceivePerPE, CallbackReturns
<1>2. ContainedBy(agg', localBuffers', msgBuffers')
  BY <1>1 DEF Contained
<1>3. \A m \in wire' : WellFormed(m)
  BY <1>1, MessagesAre DEF Contained
<1>. QED BY <1>2, <1>3, ContainedNext

LEMMA ContainedInit ==
  ASSUME Init
  PROVE  Contained
<1>1. /\ agg = "WsP" /\ wire = {} /\ localBuffers = [pe \in PEs |-> <<>>]
      /\ bufSize \in BufSizes
      /\ msgBuffers = [d \in PEs |-> IF d \in Dests(agg) THEN NewMessage(bufSize)
                                                         ELSE NoMessage]
  BY DEF Init, SenderInit, ReceiverInit
<1>2. LocalsTyped(localBuffers)
  <2>1. \A pe \in PEs : <<>> \in Seq([item : Items, pe : {pe}])
    OBVIOUS
  <2>. QED BY <1>1, <2>1 DEF LocalsTyped
<1>3. PICK local, now : local = localBuffers /\ now = Cleared(localBuffers, Nodes)
  OBVIOUS
<1>4. now = local
  BY <1>1, <1>3 DEF Cleared
<1>5. \A d \in Nodes : Len(Locals(local, d)) = 0
  BY <1>2, <1>3, <1>4, LocalsCleared
<1>6. ASSUME NEW d \in Dests(agg) PROVE Fills(agg, localBuffers, d, msgBuffers[d].slots)
  <2>1. msgBuffers[d].slots = <<>>
    BY <1>1, DestsArePEs DEF NewMessage
  <2>2. Len(Locals(localBuffers, d)) = 0
    BY <1>1, <1>3, <1>5 DEF Dests
  <2>. QED BY <2>1, <2>2, FillsEmpty
<1>7. ContainedBy(agg, localBuffers, msgBuffers)
  BY <1>1, <1>2, <1>6 DEF ContainedBy, LocalsFor
<1>. QED BY <1>1, <1>7, MessagesAre DEF Contained

LEMMA ContainedNextStep ==
  ASSUME Contained, DeliveryInv, Next
  PROVE  Contained'
<1>1. Buffers
  BY DEF DeliveryInv
<1>2. CASE Sends(TFlush)
  BY <1>1, <1>2, TFlushContained DEF Sends
<1>3. CASE Sends(Client)
  <2>1. CASE \E x \in Items, pe \in Targets : InsertValue(x, pe)
    BY <1>1, <2>1, ValueStep, DeliveryAssumption DEF DeliveryAssumption
  <2>2. CASE \E x \in Items, n \in Procs : agg = "WsP" /\ InsertToProcess(x, n)
    BY <1>1, <2>2, ProcessStep, DeliveryAssumption DEF DeliveryAssumption
  <2>3. CASE \/ \E n \in BufSizes : SetBufferSize(n)
             \/ \E mode \in Modes : ResetStats(mode)
    BY <1>1, <2>3, KnobContained
  <2>. QED BY <1>3, <2>1, <2>2, <2>3 DEF Sends, Client
<1>4. CASE \E pe \in PEs : Receives(pe)
  BY <1>4, ReceiverContained
<1>. QED BY <1>2, <1>3, <1>4 DEF Next

LEMMA ContainedInvariance == Spec => []Contained
<1>1. Init => Contained
  BY ContainedInit
<1>2. Contained /\ DeliveryInv /\ [Next]_vars => Contained'
  <2>. SUFFICES ASSUME Contained, DeliveryInv, [Next]_vars PROVE Contained'
    OBVIOUS
  <2>1. CASE Next
    BY <2>1, ContainedNextStep
  <2>2. CASE UNCHANGED vars
    BY <2>2 DEF vars, sender, receiver, Contained, MessagesWellFormed
  <2>. QED BY <2>1, <2>2
<1>. QED BY <1>1, <1>2, DeliveryInvariance, PTL DEF Spec

(***************************************************************************)
(* In WsP the count of a message is the number of items that wait in the   *)
(* local buffers of its node, whatever was inserted, flushed or changed in *)
(* size or mode before.                                                    *)
(***************************************************************************)
THEOREM CountsMatchLocals == Spec => []LocalsAgree
<1>1. Contained /\ DeliveryInv => LocalsAgree
  <2>. SUFFICES ASSUME Contained, Buffers, agg = "WsP", NEW d \in Nodes, ~ForProcess(d)
                PROVE  NextOf(d) = Len(Locals(localBuffers, d))
    BY DEF LocalsAgree, DeliveryInv
  <2>1. d \in Dests(agg) /\ d \in PEs
    BY NodesArePEs DEF Dests
  <2>2. CountedBy(localBuffers, d, msgBuffers[d].slots)
    BY <2>1, ForNodeShows DEF Contained, ContainedBy, Fills
  <2>. QED BY <2>2 DEF CountedBy, NextOf
<1>. QED BY <1>1, ContainedInvariance, DeliveryInvariance, PTL

(***************************************************************************)
(* A message that travels has no slot that nobody wrote, only items for    *)
(* its node, and in receive_no_sort's the items of a PE are one range,     *)
(* PE after PE, so that receivePerPE may scan for its own.                 *)
(***************************************************************************)
THEOREM ReceiversGetOrder == Spec => []MessagesWellFormed
<1>1. Contained => MessagesWellFormed
  BY DEF Contained
<1>. QED BY <1>1, ContainedInvariance, PTL

(***************************************************************************)
(* The node message.  The counting sort sends an item to the place after   *)
(* those of lower ranks and those of its own rank that come before it.     *)
(***************************************************************************)
RankOf(s) == Rank(s.pe)
Ranked(items, n) ==
  /\ n \in Nat /\ DOMAIN items = 1 .. n /\ Len(items) = n
  /\ \A i \in 1 .. n : RankOf(items[i]) \in 0 .. NodeSize - 1

Below(items, r) == {i \in DOMAIN items : RankOf(items[i]) < r}
SameUpTo(items, k, r) == {i \in 1 .. k : RankOf(items[i]) = r}
Lower(items, r) == Cardinality(Below(items, r))
UpToNow(items, k, r) == Cardinality(SameUpTo(items, k, r))
Goes(items, i) ==
  Lower(items, RankOf(items[i])) + UpToNow(items, i, RankOf(items[i]))

LEMMA CountsAreNumbers ==
  ASSUME NEW items, NEW n, Ranked(items, n), NEW r
  PROVE  /\ IsFiniteSet(Below(items, r)) /\ Lower(items, r) \in Nat
         /\ Lower(items, r) <= n
         /\ \A k \in 0 .. n : /\ IsFiniteSet(SameUpTo(items, k, r))
                              /\ UpToNow(items, k, r) \in Nat
         /\ Sizes(items) = [q \in 0 .. NodeSize - 1 |-> UpToNow(items, n, q)]
<1>1. n \in Nat /\ IsFiniteSet(1 .. n) /\ Cardinality(1 .. n) = n
  BY FS_Interval DEF Ranked
<1>2. Below(items, r) \in SUBSET (1 .. n)
  BY DEF Below, Ranked
<1>3. ASSUME NEW k \in 0 .. n
      PROVE  IsFiniteSet(SameUpTo(items, k, r)) /\ UpToNow(items, k, r) \in Nat
  <2>1. SameUpTo(items, k, r) \in SUBSET (1 .. n)
    BY <1>1 DEF SameUpTo
  <2>. QED BY <1>1, <2>1, FS_Subset, FS_CardinalityType DEF UpToNow
<1>4. Sizes(items) = [q \in 0 .. NodeSize - 1 |-> UpToNow(items, n, q)]
  BY DEF Sizes, UpToNow, SameUpTo, Ranked, RankOf
<1>. QED BY <1>1, <1>2, <1>3, <1>4, FS_Subset, FS_CardinalityType DEF Lower

LEMMA LowerGrows ==
  ASSUME NEW items, NEW n, Ranked(items, n), NEW r \in Nat
  PROVE  /\ Lower(items, 0) = 0
         /\ Lower(items, r + 1) = Lower(items, r) + UpToNow(items, n, r)
<1>1. Below(items, 0) = {}
  BY WireAssumption DEF Below, Ranked, WireAssumption
<1>2. Lower(items, 0) = 0
  BY <1>1, FS_EmptySet DEF Lower
<1>. DEFINE A == Below(items, r)
            B == SameUpTo(items, n, r)
<1>3. Below(items, r + 1) = A \cup B /\ A \cap B = {}
  BY WireAssumption DEF Below, SameUpTo, Ranked, WireAssumption
<1>4. IsFiniteSet(A) /\ IsFiniteSet(B)
  <2>1. n \in 0 .. n
    BY DEF Ranked
  <2>. QED BY <2>1, CountsAreNumbers
<1>. HIDE DEF A, B
<1>5. Cardinality(A) \in Nat /\ Cardinality(B) \in Nat /\ Cardinality({}) = 0
  BY <1>4, FS_CardinalityType, FS_EmptySet
<1>6. Cardinality(A \cup B) = Cardinality(A) + Cardinality(B) - Cardinality(A \cap B)
  BY <1>4, FS_Union
<1>7. Cardinality(A \cup B) = Cardinality(A) + Cardinality(B)
  <2>1. PICK a, b, u : a = Cardinality(A) /\ b = Cardinality(B)
                       /\ u = Cardinality(A \cup B)
    OBVIOUS
  <2>2. u = a + b - 0 /\ a \in Nat /\ b \in Nat
    BY <1>3, <1>5, <1>6, <2>1
  <2>. QED BY <2>1, <2>2
<1>. QED BY <1>2, <1>3, <1>7 DEF Lower, UpToNow, A, B

LEMMA LowerMonotone ==
  ASSUME NEW items, NEW n, Ranked(items, n), NEW r \in Nat, NEW q \in Nat, r <= q
  PROVE  Lower(items, r) <= Lower(items, q)
<1>1. Below(items, r) \in SUBSET Below(items, q)
  BY WireAssumption DEF Below, Ranked, WireAssumption
<1>2. IsFiniteSet(Below(items, q))
  BY CountsAreNumbers
<1>. QED BY <1>1, <1>2, FS_Subset DEF Lower

LEMMA UpToGrows ==
  ASSUME NEW items, NEW n, Ranked(items, n), NEW r, NEW k \in 1 .. n
  PROVE  /\ UpToNow(items, 0, r) = 0
         /\ UpToNow(items, k, r) = UpToNow(items, k - 1, r)
                                     + (IF RankOf(items[k]) = r THEN 1 ELSE 0)
         /\ UpToNow(items, k, r) <= UpToNow(items, n, r)
<1>1. SameUpTo(items, 0, r) = {}
  BY DEF SameUpTo
<1>2. n \in Nat /\ k - 1 \in 0 .. n /\ k \in 0 .. n /\ n \in 0 .. n
  BY DEF Ranked
<1>3. ASSUME RankOf(items[k]) = r
      PROVE  UpToNow(items, k, r) = UpToNow(items, k - 1, r)
                                      + (IF RankOf(items[k]) = r THEN 1 ELSE 0)
  <2>1. SameUpTo(items, k, r) = SameUpTo(items, k - 1, r) \cup {k}
        /\ k \notin SameUpTo(items, k - 1, r)
    BY <1>2, <1>3 DEF SameUpTo
  <2>2. IsFiniteSet(SameUpTo(items, k - 1, r))
    BY <1>2, CountsAreNumbers
  <2>3. UpToNow(items, k, r) = UpToNow(items, k - 1, r) + 1
    BY <2>1, <2>2, FS_AddElement DEF UpToNow
  <2>4. (IF RankOf(items[k]) = r THEN 1 ELSE 0) = 1
    BY <1>3
  <2>. QED BY <2>3, <2>4
<1>4. ASSUME RankOf(items[k]) # r
      PROVE  UpToNow(items, k, r) = UpToNow(items, k - 1, r)
                                      + (IF RankOf(items[k]) = r THEN 1 ELSE 0)
  <2>1. SameUpTo(items, k, r) = SameUpTo(items, k - 1, r)
    BY <1>2, <1>4 DEF SameUpTo
  <2>2. UpToNow(items, k - 1, r) \in Nat
    BY <1>2, CountsAreNumbers
  <2>3. UpToNow(items, k, r) = UpToNow(items, k - 1, r)
    BY <2>1 DEF UpToNow
  <2>4. (IF RankOf(items[k]) = r THEN 1 ELSE 0) = 0
    BY <1>4
  <2>. QED BY <2>2, <2>3, <2>4
<1>5. UpToNow(items, k, r) = UpToNow(items, k - 1, r)
                               + (IF RankOf(items[k]) = r THEN 1 ELSE 0)
  BY <1>3, <1>4
<1>6. UpToNow(items, k, r) <= UpToNow(items, n, r)
  <2>1. SameUpTo(items, k, r) \in SUBSET SameUpTo(items, n, r)
    BY <1>2 DEF SameUpTo
  <2>2. IsFiniteSet(SameUpTo(items, n, r))
    BY <1>2, CountsAreNumbers
  <2>. QED BY <2>1, <2>2, FS_Subset DEF UpToNow
<1>7. UpToNow(items, 0, r) = 0
  BY <1>1, FS_EmptySet DEF UpToNow
<1>. QED BY <1>5, <1>6, <1>7

LEMMA UpToMonotone ==
  ASSUME NEW items, NEW n, Ranked(items, n), NEW r, NEW k \in 0 .. n,
         NEW j \in 0 .. n, k <= j
  PROVE  UpToNow(items, k, r) <= UpToNow(items, j, r)
<1>1. SameUpTo(items, k, r) \in SUBSET SameUpTo(items, j, r)
  BY DEF SameUpTo
<1>2. IsFiniteSet(SameUpTo(items, j, r))
  BY CountsAreNumbers
<1>. QED BY <1>1, <1>2, FS_Subset DEF UpToNow

\* The places of a rank are those between the items of lower ranks and those
\* of higher ones, and no two items go to the same.
LEMMA GoesWithinRank ==
  ASSUME NEW items, NEW n, Ranked(items, n), NEW i \in 1 .. n,
         NEW r, r = RankOf(items[i])
  PROVE  /\ r \in 0 .. NodeSize - 1 /\ Goes(items, i) \in 1 .. n
         /\ Lower(items, r) < Goes(items, i)
         /\ Goes(items, i) <= Lower(items, r + 1)
         /\ Goes(items, i) = Lower(items, r) + UpToNow(items, i - 1, r) + 1
<1>1. r \in 0 .. NodeSize - 1 /\ r \in Nat
  BY WireAssumption DEF Ranked, WireAssumption
<1>2. PICK a, b, c, d, e : /\ a = Lower(items, r) /\ b = UpToNow(items, i, r)
                           /\ c = UpToNow(items, n, r) /\ d = Lower(items, r + 1)
                           /\ e = UpToNow(items, i - 1, r)
  OBVIOUS
<1>3. i - 1 \in 0 .. n /\ i \in 0 .. n /\ n \in 0 .. n /\ n \in Nat
  BY DEF Ranked
<1>4. a \in Nat /\ b \in Nat /\ c \in Nat /\ d \in Nat /\ e \in Nat /\ d <= n
  BY <1>2, <1>3, CountsAreNumbers
<1>5. d = a + c /\ b = e + 1 /\ b <= c
  BY <1>1, <1>2, LowerGrows, UpToGrows
<1>6. Goes(items, i) = a + b
  BY <1>2 DEF Goes
<1>7. a + b \in 1 .. n /\ a < a + b /\ a + b <= d /\ a + b = a + e + 1
  BY <1>3, <1>4, <1>5
<1>. QED BY <1>1, <1>2, <1>6, <1>7

LEMMA GoesApart ==
  ASSUME NEW items, NEW n, Ranked(items, n), NEW i \in 1 .. n, NEW j \in 1 .. n,
         Goes(items, i) = Goes(items, j)
  PROVE  i = j
<1>1. ASSUME NEW k \in 1 .. n, NEW l \in 1 .. n, Goes(items, k) = Goes(items, l),
             RankOf(items[k]) < RankOf(items[l])
      PROVE  FALSE
  <2>1. PICK r, q : r = RankOf(items[k]) /\ q = RankOf(items[l])
    OBVIOUS
  <2>2. r \in 0 .. NodeSize - 1 /\ q \in 0 .. NodeSize - 1 /\ r \in Nat /\ q \in Nat
    BY <2>1, WireAssumption DEF Ranked, WireAssumption
  <2>3. Goes(items, k) <= Lower(items, r + 1) /\ Lower(items, q) < Goes(items, l)
        /\ Goes(items, k) \in 1 .. n
    BY <2>1, GoesWithinRank
  <2>4. Lower(items, r + 1) <= Lower(items, q)
    BY <1>1, <2>1, <2>2, LowerMonotone
  <2>5. Lower(items, r + 1) \in Nat /\ Lower(items, q) \in Nat
    BY CountsAreNumbers
  <2>. QED BY <1>1, <2>3, <2>4, <2>5
<1>2. ASSUME NEW k \in 1 .. n, NEW l \in 1 .. n, Goes(items, k) = Goes(items, l),
             RankOf(items[k]) = RankOf(items[l]), k < l
      PROVE  FALSE
  <2>1. PICK r : r = RankOf(items[k]) /\ r = RankOf(items[l])
    BY <1>2
  <2>2. k \in 0 .. n /\ l \in 0 .. n /\ l - 1 \in 0 .. n /\ k <= l - 1
    BY <1>2 DEF Ranked
  <2>3. PICK a, b, c : /\ a = Lower(items, r) /\ b = UpToNow(items, k, r)
                       /\ c = UpToNow(items, l - 1, r)
    OBVIOUS
  <2>4. a \in Nat /\ b \in Nat /\ c \in Nat /\ b <= c
    BY <2>2, <2>3, CountsAreNumbers, UpToMonotone
  <2>5. Goes(items, k) = a + b
    BY <2>1, <2>3 DEF Goes
  <2>6. Goes(items, l) = a + c + 1
    BY <2>1, <2>3, GoesWithinRank
  <2>7. a + b = a + c + 1
    BY <1>2, <2>5, <2>6, Zenon
  <2>. QED BY <2>4, <2>7
<1>3. \A k \in 1 .. n : RankOf(items[k]) \in Int
  BY WireAssumption DEF Ranked, WireAssumption
<1>4. RankOf(items[i]) = RankOf(items[j])
  BY <1>1, <1>3
<1>5. n \in Nat
  BY DEF Ranked
<1>. QED BY <1>2, <1>4, <1>5

(***************************************************************************)
(* The offsets.                                                            *)
(***************************************************************************)
LEMMA StartsAre ==
  ASSUME NEW items, NEW n, Ranked(items, n)
  PROVE  Starts(Sizes(items)) = [r \in 0 .. NodeSize - 1 |-> Lower(items, r)]
<1>1. PICK m, z, low : /\ m = NodeSize /\ z = Sizes(items)
                       /\ low = [r \in 0 .. m - 1 |-> Lower(items, r)]
  OBVIOUS
<1>2. m \in Nat \ {0}
  BY <1>1, WireAssumption DEF WireAssumption
<1>. DEFINE Body(f, r) == IF r = 0 THEN 0 ELSE f[r - 1] + z[r - 1]
            Is(f) == f = [r \in 0 .. m - 1 |-> Body(f, r)]
<1>3. \A r \in 0 .. m - 1 : r # 0 => Lower(items, r) = Lower(items, r - 1) + z[r - 1]
  <2>. SUFFICES ASSUME NEW r \in 0 .. m - 1, r # 0
                PROVE  Lower(items, r) = Lower(items, r - 1) + z[r - 1]
    OBVIOUS
  <2>1. PICK k : k = r - 1
    OBVIOUS
  <2>2. k \in Nat /\ k \in 0 .. m - 1 /\ k + 1 = r
    BY <1>2, <2>1
  <2>3. z[k] = UpToNow(items, n, k)
    BY <1>1, <2>2, CountsAreNumbers
  <2>4. Lower(items, k + 1) = Lower(items, k) + UpToNow(items, n, k)
    BY <2>2, LowerGrows
  <2>. QED BY <2>1, <2>2, <2>3, <2>4
<1>4. Lower(items, 0) = 0
  BY LowerGrows
<1>5. \A r \in 0 .. m - 1 : low[r] = Body(low, r)
  <2>. SUFFICES ASSUME NEW r \in 0 .. m - 1 PROVE low[r] = Body(low, r)
    OBVIOUS
  <2>1. low[r] = Lower(items, r)
    BY <1>1
  <2>2. r # 0 => r - 1 \in 0 .. m - 1
    BY <1>2
  <2>3. r # 0 => low[r - 1] = Lower(items, r - 1)
    BY <1>1, <2>2
  <2>. QED BY <1>3, <1>4, <2>1, <2>3
<1>6. Is(low)
  <2>. HIDE DEF Body
  <2>. QED BY <1>1, <1>5
<1>7. PICK f : f = CHOOSE g : Is(g)
  OBVIOUS
<1>8. Is(f)
  <2>. HIDE DEF Is
  <2>. QED BY <1>6, <1>7, Zenon
<1>9. Starts(z) = f
  BY <1>1, <1>7 DEF Starts
<1>10. \A r \in 0 .. m - 1 : f[r] = Body(f, r)
  <2>. HIDE DEF Body
  <2>. QED BY <1>8
<1>11. \A r \in 0 .. m - 1 : f[r] = low[r]
  <2>. DEFINE M == {r \in 0 .. m - 1 : f[r] = low[r]}
  <2>1. 0 \in M
    BY <1>2, <1>5, <1>10
  <2>2. ASSUME NEW r \in 0 .. (m - 1) - 1, r \in M PROVE r + 1 \in M
    <3>1. PICK k : k = r + 1
      OBVIOUS
    <3>2. k \in 0 .. m - 1 /\ k # 0 /\ k - 1 = r
      BY <1>2, <3>1
    <3>3. f[k] = f[k - 1] + z[k - 1] /\ low[k] = low[k - 1] + z[k - 1]
      BY <1>5, <1>10, <3>2
    <3>4. f[k - 1] = low[k - 1]
      BY <2>2, <3>2
    <3>. QED BY <3>1, <3>2, <3>3, <3>4
  <2>3. \A r \in 0 .. m - 1 : r \in M
    <3>1. m - 1 \in Nat
      BY <1>2
    <3>. HIDE DEF M
    <3>. QED BY <2>1, <2>2, <3>1, UpTo
  <2>. QED BY <2>3
<1>12. f = low
  <2>1. f = [r \in 0 .. m - 1 |-> f[r]]
    <3>. HIDE DEF Body
    <3>. QED BY <1>8, <1>10
  <2>2. low = [r \in 0 .. m - 1 |-> low[r]]
    BY <1>1
  <2>. QED BY <1>11, <2>1, <2>2
<1>. QED BY <1>1, <1>9, <1>12
LEMMA EndsAre ==
  ASSUME NEW items, NEW n, Ranked(items, n)
  PROVE  Ends(Sizes(items)) = [r \in 0 .. NodeSize - 1 |-> Lower(items, r + 1)]
<1>1. PICK m, z, low : /\ m = NodeSize /\ z = Sizes(items)
                       /\ low = [r \in 0 .. m - 1 |-> Lower(items, r + 1)]
  OBVIOUS
<1>2. m \in Nat \ {0}
  BY <1>1, WireAssumption DEF WireAssumption
<1>. DEFINE Body(f, r) == IF r = 0 THEN z[0] ELSE f[r - 1] + z[r]
            Is(f) == f = [r \in 0 .. m - 1 |-> Body(f, r)]
<1>3. \A r \in 0 .. m - 1 : Lower(items, r + 1) = Lower(items, r) + z[r]
  <2>. SUFFICES ASSUME NEW r \in 0 .. m - 1
                PROVE  Lower(items, r + 1) = Lower(items, r) + z[r]
    OBVIOUS
  <2>1. z[r] = UpToNow(items, n, r)
    BY <1>1, CountsAreNumbers
  <2>. QED BY <2>1, LowerGrows
<1>4. Lower(items, 0) = 0 /\ Lower(items, 0 + 1) = z[0]
  <2>1. Lower(items, 0) = 0
    BY LowerGrows
  <2>2. z[0] = UpToNow(items, n, 0) /\ n \in 0 .. n
    <3>1. 0 \in 0 .. NodeSize - 1
      BY <1>1, <1>2
    <3>2. z = [q \in 0 .. NodeSize - 1 |-> UpToNow(items, n, q)]
      BY <1>1, CountsAreNumbers
    <3>3. n \in 0 .. n
      BY DEF Ranked
    <3>. QED BY <3>1, <3>2, <3>3
  <2>3. z[0] \in Nat
    BY <2>2, CountsAreNumbers
  <2>. QED BY <1>2, <1>3, <2>1, <2>3
<1>5. \A r \in 0 .. m - 1 : low[r] = Body(low, r)
  <2>. SUFFICES ASSUME NEW r \in 0 .. m - 1 PROVE low[r] = Body(low, r)
    OBVIOUS
  <2>1. low[r] = Lower(items, r + 1)
    BY <1>1
  <2>2. r # 0 => r - 1 \in 0 .. m - 1 /\ (r - 1) + 1 = r
    BY <1>2
  <2>3. r # 0 => low[r - 1] = Lower(items, r)
    BY <1>1, <2>2
  <2>. QED BY <1>3, <1>4, <2>1, <2>3
<1>6. Is(low)
  <2>. HIDE DEF Body
  <2>. QED BY <1>1, <1>5
<1>7. PICK f : f = CHOOSE g : Is(g)
  OBVIOUS
<1>8. Is(f)
  <2>. HIDE DEF Is
  <2>. QED BY <1>6, <1>7, Zenon
<1>9. Ends(z) = f
  BY <1>1, <1>7 DEF Ends
<1>10. \A r \in 0 .. m - 1 : f[r] = Body(f, r)
  <2>. HIDE DEF Body
  <2>. QED BY <1>8
<1>11. \A r \in 0 .. m - 1 : f[r] = low[r]
  <2>. DEFINE M == {r \in 0 .. m - 1 : f[r] = low[r]}
  <2>1. 0 \in M
    BY <1>2, <1>5, <1>10
  <2>2. ASSUME NEW r \in 0 .. (m - 1) - 1, r \in M PROVE r + 1 \in M
    <3>1. PICK k : k = r + 1
      OBVIOUS
    <3>2. k \in 0 .. m - 1 /\ k # 0 /\ k - 1 = r
      BY <1>2, <3>1
    <3>3. f[k] = f[k - 1] + z[k] /\ low[k] = low[k - 1] + z[k]
      BY <1>5, <1>10, <3>2
    <3>4. f[k - 1] = low[k - 1]
      BY <2>2, <3>2
    <3>. QED BY <3>1, <3>2, <3>3, <3>4
  <2>3. \A r \in 0 .. m - 1 : r \in M
    <3>1. m - 1 \in Nat
      BY <1>2
    <3>. HIDE DEF M
    <3>. QED BY <2>1, <2>2, <3>1, UpTo
  <2>. QED BY <2>3
<1>12. f = low
  <2>1. f = [r \in 0 .. m - 1 |-> f[r]]
    <3>. HIDE DEF Body
    <3>. QED BY <1>8, <1>10
  <2>2. low = [r \in 0 .. m - 1 |-> low[r]]
    BY <1>1
  <2>. QED BY <1>11, <2>1, <2>2
<1>. QED BY <1>1, <1>9, <1>12

(***************************************************************************)
(* The sort.                                                               *)
(***************************************************************************)
SortedAfter(items, n, k) ==
  [items |-> [p \in 1 .. n |->
                IF \E i \in 1 .. k : Goes(items, i) = p
                  THEN items[CHOOSE i \in 1 .. k : Goes(items, i) = p].item ELSE 0],
   offset |-> [r \in 0 .. NodeSize - 1 |-> Lower(items, r) + UpToNow(items, k, r)]]

LEMMA SortedSoFar ==
  ASSUME NEW items, NEW n, Ranked(items, n), NEW k \in 0 .. n,
         NEW t, t = SortedAfter(items, n, k).items
  PROVE  /\ t = [p \in 1 .. n |-> t[p]]
         /\ \A i \in 1 .. k : t[Goes(items, i)] = items[i].item
         /\ \A p \in 1 .. n : (\A i \in 1 .. k : Goes(items, i) # p) => t[p] = 0
<1>1. t = [p \in 1 .. n |->
                IF \E i \in 1 .. k : Goes(items, i) = p
                  THEN items[CHOOSE i \in 1 .. k : Goes(items, i) = p].item ELSE 0]
  BY DEF SortedAfter
<1>2. \A i \in 1 .. k : i \in 1 .. n
  BY DEF Ranked
<1>3. ASSUME NEW i \in 1 .. k PROVE t[Goes(items, i)] = items[i].item
  <2>1. PICK g, j : g = Goes(items, i) /\ j = CHOOSE l \in 1 .. k : Goes(items, l) = g
    OBVIOUS
  <2>2. g \in 1 .. n
    BY <1>2, <2>1, GoesWithinRank
  <2>3. j \in 1 .. k /\ Goes(items, j) = g
    BY <2>1
  <2>4. i = j
    BY <1>2, <2>1, <2>3, GoesApart
  <2>5. t[g] = items[j].item
    BY <1>1, <2>1, <2>2
  <2>. QED BY <2>1, <2>4, <2>5
<1>4. ASSUME NEW p \in 1 .. n, \A i \in 1 .. k : Goes(items, i) # p PROVE t[p] = 0
  BY <1>1, <1>4
<1>5. t = [p \in 1 .. n |-> t[p]]
  BY <1>1
<1>. QED BY <1>3, <1>4, <1>5

LEMMA SortStep ==
  ASSUME NEW items, NEW n, Ranked(items, n), NEW k \in 1 .. n
  PROVE  SortedAfter(items, n, k) = Place(SortedAfter(items, n, k - 1), items[k])
<1>1. PICK r, g, s, t, old, new :
        /\ r = RankOf(items[k]) /\ g = Goes(items, k)
        /\ s = SortedAfter(items, n, k - 1).items
        /\ t = SortedAfter(items, n, k).items
        /\ old = SortedAfter(items, n, k - 1).offset
        /\ new = SortedAfter(items, n, k).offset
  OBVIOUS
<1>2. k - 1 \in 0 .. n /\ k \in 0 .. n /\ n \in Nat
  BY DEF Ranked
<1>3. /\ old = [q \in 0 .. NodeSize - 1 |-> Lower(items, q) + UpToNow(items, k - 1, q)]
      /\ new = [q \in 0 .. NodeSize - 1 |-> Lower(items, q) + UpToNow(items, k, q)]
  BY <1>1 DEF SortedAfter
<1>4. r \in 0 .. NodeSize - 1 /\ g \in 1 .. n /\ old[r] + 1 = g
  <2>1. /\ r \in 0 .. NodeSize - 1 /\ g \in 1 .. n
        /\ g = Lower(items, r) + UpToNow(items, k - 1, r) + 1
    BY <1>1, GoesWithinRank
  <2>. QED BY <1>3, <2>1
<1>5. new = [old EXCEPT ![r] = @ + 1]
  <2>1. ASSUME NEW q \in 0 .. NodeSize - 1
        PROVE  new[q] = IF q = r THEN old[q] + 1 ELSE old[q]
    <3>1. PICK a, b, c : /\ a = Lower(items, q) /\ b = UpToNow(items, k - 1, q)
                         /\ c = UpToNow(items, k, q)
      OBVIOUS
    <3>2. a \in Nat /\ b \in Nat
      BY <1>2, <3>1, CountsAreNumbers
    <3>3. c = b + (IF r = q THEN 1 ELSE 0)
      BY <1>1, <3>1, UpToGrows
    <3>4. old[q] = a + b /\ new[q] = a + c
      BY <1>3, <3>1
    <3>5. q = r => c = b + 1
      BY <3>3
    <3>6. q # r => c = b
      BY <3>2, <3>3
    <3>. QED BY <3>2, <3>4, <3>5, <3>6
  <2>. QED BY <1>3, <2>1
<1>6. t = [s EXCEPT ![g] = items[k].item]
  <2>1. s = [p \in 1 .. n |-> s[p]] /\ t = [p \in 1 .. n |-> t[p]]
    BY <1>1 DEF SortedAfter
  <2>2. /\ \A i \in 1 .. k - 1 : s[Goes(items, i)] = items[i].item
        /\ \A p \in 1 .. n : (\A i \in 1 .. k - 1 : Goes(items, i) # p) => s[p] = 0
    BY <1>1, <1>2, SortedSoFar
  <2>3. /\ \A i \in 1 .. k : t[Goes(items, i)] = items[i].item
        /\ \A p \in 1 .. n : (\A i \in 1 .. k : Goes(items, i) # p) => t[p] = 0
    BY <1>1, <1>2, SortedSoFar
  <2>4. t[g] = items[k].item
    BY <1>1, <1>2, <2>3
  <2>5. ASSUME NEW p \in 1 .. n, p # g PROVE t[p] = s[p]
    <3>1. CASE \E i \in 1 .. k - 1 : Goes(items, i) = p
      <4>1. PICK i \in 1 .. k - 1 : Goes(items, i) = p
        BY <3>1
      <4>2. i \in 1 .. k
        BY <1>2
      <4>. QED BY <2>2, <2>3, <4>1, <4>2
    <3>2. CASE \A i \in 1 .. k - 1 : Goes(items, i) # p
      <4>1. \A i \in 1 .. k : i \in 1 .. k - 1 \/ i = k
        BY <1>2
      <4>2. \A i \in 1 .. k : Goes(items, i) # p
        BY <1>1, <2>5, <3>2, <4>1
      <4>. QED BY <2>2, <2>3, <3>2, <4>2
    <3>. QED BY <3>1, <3>2
  <2>. QED BY <1>4, <2>1, <2>4, <2>5
<1>7. SortedAfter(items, n, k) = [items |-> t, offset |-> new]
  BY <1>1 DEF SortedAfter
<1>8. Place(SortedAfter(items, n, k - 1), items[k])
        = [items |-> [s EXCEPT ![old[r] + 1] = items[k].item],
           offset |-> [old EXCEPT ![r] = @ + 1]]
  BY <1>1 DEF Place, RankOf
<1>. QED BY <1>4, <1>5, <1>6, <1>7, <1>8

LEMMA SortedIs ==
  ASSUME NEW items, NEW n, Ranked(items, n)
  PROVE  Sorted(items) = SortedAfter(items, n, n).items
<1>1. PICK start : start = [items |-> [i \in DOMAIN items |-> 0],
                            offset |-> Starts(Sizes(items))]
  OBVIOUS
<1>. DEFINE Body(f, k) == IF k = 0 THEN start ELSE Place(f[k - 1], items[k])
            Is(f) == f = [k \in 0 .. n |-> Body(f, k)]
<1>2. n \in Nat /\ n \in 0 .. n /\ Len(items) = n /\ DOMAIN items = 1 .. n
  BY DEF Ranked
<1>3. SortedAfter(items, n, 0) = start
  <2>1. start.offset = [r \in 0 .. NodeSize - 1 |-> Lower(items, r)]
    BY <1>1, StartsAre
  <2>2. ASSUME NEW r \in 0 .. NodeSize - 1
        PROVE  Lower(items, r) + UpToNow(items, 0, r) = Lower(items, r)
    <3>1. SameUpTo(items, 0, r) = {}
      BY DEF SameUpTo
    <3>2. UpToNow(items, 0, r) = 0 /\ Lower(items, r) \in Nat
      BY <3>1, CountsAreNumbers, FS_EmptySet DEF UpToNow
    <3>. QED BY <3>2
  <2>3. \A p : ~ \E i \in 1 .. 0 : Goes(items, i) = p
    OBVIOUS
  <2>4. start = [items |-> [i \in 1 .. n |-> 0], offset |-> start.offset]
    BY <1>1, <1>2
  <2>5. SortedAfter(items, n, 0).items = [i \in 1 .. n |-> 0]
    BY <2>3 DEF SortedAfter
  <2>6. SortedAfter(items, n, 0).offset = start.offset
    BY <2>1, <2>2 DEF SortedAfter
  <2>7. SortedAfter(items, n, 0) = [items |-> SortedAfter(items, n, 0).items,
                                    offset |-> SortedAfter(items, n, 0).offset]
    BY DEF SortedAfter
  <2>. QED BY <2>4, <2>5, <2>6, <2>7
<1>4. PICK w : w = [k \in 0 .. n |-> SortedAfter(items, n, k)]
  OBVIOUS
<1>5. ASSUME NEW k \in 0 .. n PROVE w[k] = Body(w, k)
  <2>1. w[k] = SortedAfter(items, n, k)
    BY <1>4
  <2>2. CASE k = 0
    BY <1>3, <2>1, <2>2
  <2>3. CASE k # 0
    <3>1. k \in 1 .. n /\ k - 1 \in 0 .. n
      BY <1>2, <2>3
    <3>2. w[k - 1] = SortedAfter(items, n, k - 1)
      BY <1>4, <3>1
    <3>. QED BY <2>1, <2>3, <3>1, <3>2, SortStep
  <2>. QED BY <2>2, <2>3
<1>6. Is(w)
  <2>. HIDE DEF Body
  <2>. QED BY <1>4, <1>5
<1>7. PICK f : f = CHOOSE h : Is(h)
  OBVIOUS
<1>8. Is(f)
  <2>. HIDE DEF Is
  <2>. QED BY <1>6, <1>7, Zenon
<1>9. Sorted(items) = f[n].items
  BY <1>1, <1>2, <1>7 DEF Sorted
<1>10. \A k \in 0 .. n : f[k] = Body(f, k)
  <2>. HIDE DEF Body
  <2>. QED BY <1>8
<1>11. \A k \in 0 .. n : f[k] = w[k]
  <2>. DEFINE M == {k \in 0 .. n : f[k] = w[k]}
  <2>1. 0 \in M
    BY <1>2, <1>5, <1>10
  <2>2. ASSUME NEW k \in 0 .. n - 1, k \in M PROVE k + 1 \in M
    <3>1. PICK l : l = k + 1
      OBVIOUS
    <3>2. l \in 0 .. n /\ l # 0 /\ l - 1 = k
      BY <1>2, <3>1
    <3>3. f[l] = Place(f[l - 1], items[l]) /\ w[l] = Place(w[l - 1], items[l])
      BY <1>5, <1>10, <3>2
    <3>4. f[l - 1] = w[l - 1]
      BY <2>2, <3>2
    <3>. QED BY <3>1, <3>2, <3>3, <3>4
  <2>3. \A k \in 0 .. n : k \in M
    <3>. HIDE DEF M
    <3>. QED BY <1>2, <2>1, <2>2, UpTo
  <2>. QED BY <2>3
<1>. QED BY <1>2, <1>4, <1>9, <1>11

\* Every place has its item.
LEMMA GoesOnto ==
  ASSUME NEW items, NEW n, Ranked(items, n), NEW p \in 1 .. n
  PROVE  \E i \in 1 .. n : Goes(items, i) = p
<1>1. PICK f : f = [i \in 1 .. n |-> Goes(items, i)]
  OBVIOUS
<1>2. \A i \in 1 .. n : Goes(items, i) \in 1 .. n
  BY GoesWithinRank
<1>3. \A i, j \in 1 .. n : Goes(items, i) = Goes(items, j) => i = j
  BY GoesApart
<1>4. f \in Injection(1 .. n, 1 .. n)
  BY <1>1, <1>2, <1>3 DEF Injection, IsInjective
<1>5. IsFiniteSet(1 .. n)
  BY FS_Interval DEF Ranked
<1>6. f \in Surjection(1 .. n, 1 .. n)
  BY <1>4, <1>5, FS_Injection
<1>7. \E i \in 1 .. n : f[i] = p
  BY <1>6 DEF Surjection
<1>. QED BY <1>1, <1>7

(***************************************************************************)
(* What a PE gets of a message: the items for it, each as often as it is   *)
(* there.                                                                  *)
(***************************************************************************)
Once(items) ==
  \A i, j \in DOMAIN items : items[i].item = items[j].item => i = j

PartFor(R, items, pe) ==
  /\ \A k \in DOMAIN R : \E i \in DOMAIN items :
       items[i].pe = pe /\ R[k] = items[i].item
  /\ \A i \in DOMAIN items : items[i].pe = pe =>
       \E k \in DOMAIN R : R[k] = items[i].item
  /\ Once(items) => \A k, l \in DOMAIN R : R[k] = R[l] => k = l

\* A place between the lower ranks and the higher ones is of that rank.
LEMMA PlaceOfRank ==
  ASSUME NEW items, NEW n, Ranked(items, n), NEW r \in 0 .. NodeSize - 1,
         NEW i \in 1 .. n, Lower(items, r) < Goes(items, i),
         Goes(items, i) <= Lower(items, r + 1)
  PROVE  RankOf(items[i]) = r
<1>1. PICK q, g : q = RankOf(items[i]) /\ g = Goes(items, i)
  OBVIOUS
<1>2. /\ q \in 0 .. NodeSize - 1 /\ g \in 1 .. n
      /\ Lower(items, q) < g /\ g <= Lower(items, q + 1)
  BY <1>1, GoesWithinRank
<1>3. q \in Nat /\ r \in Nat /\ q + 1 \in Nat /\ r + 1 \in Nat
  BY <1>2, WireAssumption DEF WireAssumption
<1>4. PICK a, b, c, d : /\ a = Lower(items, r) /\ b = Lower(items, r + 1)
                        /\ c = Lower(items, q) /\ d = Lower(items, q + 1)
  OBVIOUS
<1>5. a \in Nat /\ b \in Nat /\ c \in Nat /\ d \in Nat
  BY <1>4, CountsAreNumbers
<1>6. a < g /\ g <= b /\ c < g /\ g <= d
  BY <1>1, <1>2, <1>4, Zenon
<1>7. ASSUME q < r PROVE FALSE
  <2>1. d <= a
    BY <1>3, <1>4, <1>7, LowerMonotone
  <2>. QED BY <1>2, <1>5, <1>6, <2>1
<1>8. ASSUME r < q PROVE FALSE
  <2>1. b <= c
    BY <1>3, <1>4, <1>8, LowerMonotone
  <2>. QED BY <1>2, <1>5, <1>6, <2>1
<1>. QED BY <1>1, <1>3, <1>7, <1>8

\* The range of a rank in the node message has the items of that rank.
LEMMA OffsetRange ==
  ASSUME NEW items, NEW n, Ranked(items, n), NEW pe \in PEs,
         \A i \in 1 .. n : RankOf(items[i]) = Rank(pe) <=> items[i].pe = pe,
         NEW R,
         R = Slice(Sorted(items), Lower(items, Rank(pe)), Lower(items, Rank(pe) + 1))
  PROVE  PartFor(R, items, pe)
<1>1. PICK r, s, a, b : /\ r = Rank(pe) /\ s = Sorted(items)
                        /\ a = Lower(items, r) /\ b = Lower(items, r + 1)
  OBVIOUS
<1>2. r \in 0 .. NodeSize - 1 /\ r \in Nat
  BY <1>1, RankFacts, WireAssumption DEF WireAssumption
<1>3. a \in Nat /\ b \in Nat /\ b <= n /\ n \in Nat /\ DOMAIN items = 1 .. n
  BY <1>1, CountsAreNumbers DEF Ranked
<1>4. R = [k \in 1 .. b - a |-> s[a + k]]
  BY <1>1 DEF Slice
<1>5. \A i \in 1 .. n : s[Goes(items, i)] = items[i].item
  <2>1. n \in 0 .. n
    BY <1>3
  <2>2. s = SortedAfter(items, n, n).items
    BY <1>1, SortedIs
  <2>. QED BY <2>1, <2>2, SortedSoFar
<1>6. ASSUME NEW k \in 1 .. b - a
      PROVE  \E i \in 1 .. n : items[i].pe = pe /\ Goes(items, i) = a + k
                               /\ R[k] = items[i].item
  <2>1. a + k \in 1 .. n /\ a < a + k /\ a + k <= b
    BY <1>3
  <2>2. PICK i \in 1 .. n : Goes(items, i) = a + k
    BY <2>1, GoesOnto
  <2>3. RankOf(items[i]) = r
    BY <1>1, <1>2, <2>1, <2>2, PlaceOfRank
  <2>4. R[k] = items[i].item
    BY <1>4, <1>5, <2>2
  <2>. QED BY <1>1, <2>2, <2>3, <2>4
<1>7. ASSUME NEW i \in 1 .. n, items[i].pe = pe
      PROVE  \E k \in 1 .. b - a : R[k] = items[i].item
  <2>1. PICK g : g = Goes(items, i)
    OBVIOUS
  <2>2. g \in 1 .. n /\ a < g /\ g <= b
    BY <1>1, <1>7, <2>1, GoesWithinRank
  <2>3. g - a \in 1 .. b - a /\ a + (g - a) = g
    BY <1>3, <2>2
  <2>4. R[g - a] = items[i].item
    BY <1>4, <1>5, <2>1, <2>3
  <2>. QED BY <2>3, <2>4
<1>8. ASSUME Once(items), NEW k \in 1 .. b - a, NEW l \in 1 .. b - a, R[k] = R[l]
      PROVE  k = l
  <2>1. PICK i \in 1 .. n : Goes(items, i) = a + k /\ R[k] = items[i].item
    BY <1>6
  <2>2. PICK j \in 1 .. n : Goes(items, j) = a + l /\ R[l] = items[j].item
    BY <1>6
  <2>3. i = j
    BY <1>3, <1>8, <2>1, <2>2 DEF Once
  <2>4. a + k = a + l
    BY <2>1, <2>2, <2>3, Zenon
  <2>. QED BY <1>3, <2>4
<1>9. DOMAIN R = 1 .. b - a
  BY <1>4
<1>10. \A k \in DOMAIN R : \E i \in DOMAIN items :
         items[i].pe = pe /\ R[k] = items[i].item
  BY <1>3, <1>6, <1>9
<1>11. \A i \in DOMAIN items : items[i].pe = pe =>
         \E k \in DOMAIN R : R[k] = items[i].item
  BY <1>3, <1>7, <1>9
<1>12. Once(items) => \A k, l \in DOMAIN R : R[k] = R[l] => k = l
  BY <1>8, <1>9
<1>. QED BY <1>10, <1>11, <1>12 DEF PartFor

\* A scan that begins behind l stops before the first of S.
StopsBefore(S, l, n, h) ==
  /\ h \in l .. n /\ \A i \in l + 1 .. h : i \notin S
  /\ h # n => h + 1 \in S

LEMMA ScanStops ==
  ASSUME NEW n \in Nat, NEW l, l \in 0 .. n, NEW S, S \subseteq l + 1 .. n
  PROVE  StopsBefore(S, l, n, ScanFrom(S, n))
<1>. PICK h : h = ScanFrom(S, n)
  OBVIOUS
<1>. SUFFICES StopsBefore(S, l, n, h)
  OBVIOUS
<1>. USE DEF StopsBefore
<1>1. CASE S = {}
  BY <1>1 DEF ScanFrom
<1>2. CASE S # {}
  <2>1. S \subseteq Nat
    OBVIOUS
  <2>2. PICK x \in S : \A y \in S : x <= y
    BY <1>2, <2>1, LeastNumber
  <2>3. PICK z : z = Min(S)
    OBVIOUS
  <2>4. z \in S /\ \A y \in S : z <= y
    BY <2>2, <2>3 DEF Min
  <2>5. h = z - 1
    BY <1>2, <2>3 DEF ScanFrom
  <2>. QED BY <2>1, <2>4, <2>5
<1>. QED BY <1>1, <1>2

\* What the scan of a sender's message finds.
LEMMA ScanRange ==
  ASSUME NEW m, NEW n \in Nat, DOMAIN m.items = 1 .. n, Len(m.items) = n,
         \A i \in 1 .. n : m.items[i].pe \in Int,
         \A i, j \in 1 .. n : i < j => m.items[i].pe <= m.items[j].pe,
         NEW pe \in PEs, NEW R, R = RangeByScan(m, pe)
  PROVE  PartFor(R, m.items, pe)
<1>1. PICK items, low, high :
        /\ items = m.items
        /\ low = ScanFrom({i \in 1 .. n : items[i].pe >= pe}, n)
        /\ high = ScanFrom({i \in low + 1 .. n : items[i].pe # pe}, n)
  OBVIOUS
<1>2. R = Slice(ItemsOf(m), low, high)
  BY <1>1 DEF RangeByScan
<1>3. pe \in Int
  BY DEF PEs
<1>4. /\ low \in 0 .. n /\ \A i \in 1 .. low : ~(items[i].pe >= pe)
      /\ low # n => items[low + 1].pe >= pe
  <2>1. PICK S : S = {i \in 1 .. n : items[i].pe >= pe}
    OBVIOUS
  <2>2. 0 \in 0 .. n /\ S \subseteq 0 + 1 .. n
    BY <2>1
  <2>3. StopsBefore(S, 0, n, low)
    <3>1. low = ScanFrom(S, n)
      BY <1>1, <2>1
    <3>. QED BY <2>2, <3>1, ScanStops
  <2>. QED BY <2>1, <2>3 DEF StopsBefore
<1>5. /\ high \in low .. n /\ \A i \in low + 1 .. high : items[i].pe = pe
      /\ high # n => items[high + 1].pe # pe
  <2>1. PICK S : S = {i \in low + 1 .. n : items[i].pe # pe}
    OBVIOUS
  <2>2. S \subseteq low + 1 .. n
    BY <2>1
  <2>3. StopsBefore(S, low, n, high)
    <3>1. high = ScanFrom(S, n) /\ low \in 0 .. n
      BY <1>1, <1>4, <2>1
    <3>. QED BY <2>2, <3>1, ScanStops
  <2>. QED BY <1>4, <2>1, <2>3 DEF StopsBefore
<1>6. /\ R = [k \in 1 .. high - low |-> items[low + k].item]
      /\ DOMAIN R = 1 .. high - low
  <2>1. \A k \in 1 .. high - low : low + k \in 1 .. n
    BY <1>4, <1>5
  <2>2. \A i \in 1 .. n : ItemsOf(m)[i] = items[i].item
    BY <1>1 DEF ItemsOf
  <2>. QED BY <1>2, <2>1, <2>2 DEF Slice
<1>7. ASSUME NEW k \in 1 .. high - low
      PROVE  low + k \in 1 .. n /\ items[low + k].pe = pe
  BY <1>4, <1>5
<1>8. ASSUME NEW i \in 1 .. n, items[i].pe = pe
      PROVE  i - low \in 1 .. high - low
  <2>1. i > low
    BY <1>3, <1>4, <1>8
  <2>2. ASSUME i > high PROVE FALSE
    <3>1. high # n /\ high + 1 \in 1 .. n /\ low # n /\ low + 1 \in 1 .. n
      BY <1>4, <1>5, <2>1, <2>2
    <3>2. PICK c, d, e : c = items[low + 1].pe /\ d = items[high + 1].pe /\ e = items[i].pe
      OBVIOUS
    <3>3. c \in Int /\ d \in Int /\ e = pe /\ c >= pe /\ d # pe
      BY <1>1, <1>4, <1>5, <1>8, <3>1, <3>2
    <3>4. low + 1 < high + 1 => c <= d
      BY <1>1, <3>1, <3>2
    <3>5. low + 1 = high + 1 => c = d
      BY <3>2
    <3>6. d >= c
      BY <1>4, <1>5, <3>3, <3>4, <3>5
    <3>7. high + 1 # i /\ high + 1 < i
      BY <1>4, <1>5, <1>8, <2>2, <3>2, <3>3
    <3>8. d <= e
      BY <1>1, <3>1, <3>2, <3>7
    <3>. QED BY <1>3, <3>3, <3>6, <3>8
  <2>. QED BY <1>4, <1>5, <2>1, <2>2
<1>9. \A k \in DOMAIN R : \E i \in DOMAIN items :
        items[i].pe = pe /\ R[k] = items[i].item
  <2>. SUFFICES ASSUME NEW k \in DOMAIN R
                PROVE  \E i \in DOMAIN items : items[i].pe = pe /\ R[k] = items[i].item
    OBVIOUS
  <2>1. low + k \in DOMAIN items /\ items[low + k].pe = pe /\ R[k] = items[low + k].item
    BY <1>1, <1>6, <1>7
  <2>. QED BY <2>1
<1>10. \A i \in DOMAIN items : items[i].pe = pe =>
         \E k \in DOMAIN R : R[k] = items[i].item
  <2>. SUFFICES ASSUME NEW i \in DOMAIN items, items[i].pe = pe
                PROVE  \E k \in DOMAIN R : R[k] = items[i].item
    OBVIOUS
  <2>1. i \in 1 .. n /\ i - low \in 1 .. high - low
    BY <1>1, <1>8
  <2>2. low + (i - low) = i
    BY <1>4, <2>1
  <2>3. R[i - low] = items[i].item
    BY <1>6, <2>1, <2>2
  <2>. QED BY <1>6, <2>1, <2>3
<1>11. ASSUME Once(items), NEW k \in DOMAIN R, NEW l \in DOMAIN R, R[k] = R[l]
       PROVE  k = l
  <2>1. /\ low + k \in DOMAIN items /\ low + l \in DOMAIN items
        /\ items[low + k].item = items[low + l].item
    BY <1>1, <1>6, <1>7, <1>11
  <2>2. low + k = low + l
    BY <1>11, <2>1 DEF Once
  <2>. QED BY <1>4, <1>6, <2>2
<1>. QED BY <1>1, <1>9, <1>10, <1>11 DEF PartFor

(***************************************************************************)
(* The messages of each entry point, as their handlers find them.          *)
(***************************************************************************)
Payload == [item : Items, pe : PEs \cup {AnyPE}]

Shaped(m) ==
  /\ m.items \in Seq(Payload)
  /\ m.entry \in {"receive", "receive_no_sort", "receiveOnPE", "receiveOnProc"}
  /\ m.entry \in {"receive", "receive_no_sort"} =>
       /\ m.dest \in Nodes
       /\ \A i \in DOMAIN m.items : m.items[i].pe # AnyPE => NodeOf(m.items[i].pe) = m.dest
  /\ m.entry = "receive" => \A i \in DOMAIN m.items : m.items[i].pe # AnyPE
  /\ m.entry = "receive_no_sort" =>
       \A i, j \in DOMAIN m.items : i < j => m.items[i].pe <= m.items[j].pe
  /\ m.entry = "receiveOnPE" =>
       m.dest \in PEs /\ \A i \in DOMAIN m.items : m.items[i].pe = m.dest
  /\ m.entry = "receiveOnProc" =>
       m.dest \in Nodes /\ \A i \in DOMAIN m.items : m.items[i].pe = AnyPE

ForThePEs(m) == m.entry \in {"receive", "receive_no_sort"}

LEMMA PayloadIs ==
  ASSUME NEW items \in Seq(Payload)
  PROVE  /\ Len(items) \in Nat /\ DOMAIN items = 1 .. Len(items)
         /\ \A i \in DOMAIN items :
              /\ items[i] \in Payload /\ items[i].item \in Items
              /\ items[i].pe \in PEs \cup {AnyPE} /\ items[i].pe \in Int
              /\ items[i].pe # AnyPE => items[i].pe \in PEs
<1>1. PICK S : S = Payload
  OBVIOUS
<1>2. \A i \in DOMAIN items : items[i] \in S
  BY <1>1
<1>3. \A s \in S : s.item \in Items /\ s.pe \in PEs \cup {AnyPE}
  BY <1>1 DEF Payload
<1>4. \A pe \in PEs \cup {AnyPE} : pe \in Int
  BY DEF PEs, AnyPE
<1>5. Len(items) \in Nat /\ DOMAIN items = 1 .. Len(items)
  OBVIOUS
<1>. QED BY <1>1, <1>2, <1>3, <1>4, <1>5

LEMMA SamePE ==
  ASSUME NEW p \in PEs, NEW q \in PEs, NodeOf(p) = NodeOf(q), Rank(p) = Rank(q)
  PROVE  p = q
BY RankFacts

LEMMA RangeIs ==
  ASSUME NEW m, Shaped(m), ForThePEs(m), NEW pe \in PEs, NodeOf(pe) = m.dest
  PROVE  PartFor(RangeOf(m, pe), m.items, pe)
<1>1. PICK items, n : items = m.items /\ n = Len(items)
  OBVIOUS
<1>2. /\ n \in Nat /\ DOMAIN items = 1 .. n
      /\ \A i \in 1 .. n : items[i].pe \in Int /\ (items[i].pe # AnyPE => items[i].pe \in PEs)
  <2>1. items \in Seq(Payload)
    BY <1>1 DEF Shaped
  <2>. QED BY <1>1, <2>1, PayloadIs
<1>3. CASE m.entry = "receive"
  <2>1. \A i \in 1 .. n : items[i].pe \in PEs /\ NodeOf(items[i].pe) = NodeOf(pe)
    BY <1>1, <1>2, <1>3 DEF Shaped
  <2>2. \A i \in 1 .. n : Rank(items[i].pe) \in 0 .. NodeSize - 1
    BY <2>1, RankFacts
  <2>3. Ranked(items, n)
    BY <1>1, <1>2, <2>2 DEF Ranked, RankOf
  <2>4. \A i \in 1 .. n : RankOf(items[i]) = Rank(pe) <=> items[i].pe = pe
    BY <2>1, SamePE DEF RankOf
  <2>5. PICK r, k : r = Rank(pe) /\ k = NodeSize
    OBVIOUS
  <2>6. r \in 0 .. k - 1 /\ k \in Nat
    BY <2>5, RankFacts, WireAssumption DEF WireAssumption
  <2>7. PICK e : e = Ends(Sizes(items))
    OBVIOUS
  <2>8. e = [q \in 0 .. k - 1 |-> Lower(items, q + 1)]
    BY <2>3, <2>5, <2>7, EndsAre
  <2>9. (IF r = 0 THEN 0 ELSE e[r - 1]) = Lower(items, r)
    <3>1. CASE r = 0
      BY <2>3, <3>1, LowerGrows
    <3>2. CASE r # 0
      <4>1. r - 1 \in 0 .. k - 1 /\ (r - 1) + 1 = r
        BY <2>6, <3>2
      <4>. QED BY <2>8, <3>2, <4>1
    <3>. QED BY <3>1, <3>2
  <2>10. e[r] = Lower(items, r + 1)
    BY <2>6, <2>8
  <2>11. PICK node : node = NodeMessage(m)
    OBVIOUS
  <2>12. node.items = Sorted(items) /\ node.offset = e
    BY <1>1, <2>7, <2>11 DEF NodeMessage
  <2>13. RangeOf(m, pe) = Slice(node.items, IF r = 0 THEN 0 ELSE node.offset[r - 1],
                                node.offset[r])
    BY <1>3, <2>5, <2>11 DEF RangeOf, RangeByOffset
  <2>14. RangeOf(m, pe) = Slice(Sorted(items), Lower(items, r), Lower(items, r + 1))
    BY <2>9, <2>10, <2>12, <2>13, Zenon
  <2>15. PartFor(RangeOf(m, pe), items, pe)
    BY <2>3, <2>4, <2>5, <2>14, OffsetRange
  <2>. QED BY <1>1, <2>15
<1>4. CASE m.entry = "receive_no_sort"
  <2>1. \A i, j \in 1 .. n : i < j => m.items[i].pe <= m.items[j].pe
    BY <1>1, <1>2, <1>4 DEF Shaped
  <2>2. RangeOf(m, pe) = RangeByScan(m, pe)
    BY <1>4 DEF RangeOf
  <2>. QED BY <1>1, <1>2, <2>1, <2>2, ScanRange
<1>. QED BY <1>3, <1>4 DEF ForThePEs

\* The callback gets every item of a batch once.
LEMMA HandedIs ==
  ASSUME NEW R, \A k, l \in DOMAIN R : R[k] = R[l] => k = l, NEW at, HandTo(R, at)
  PROVE  /\ delivered' = [x \in Items |-> delivered'[x]]
         /\ \A x \in Items : \A k \in DOMAIN R :
              R[k] = x /\ delivered[x] = <<>> => delivered'[x] = <<at>>
         /\ \A x \in Items : (\A k \in DOMAIN R : R[k] # x) =>
              delivered'[x] = delivered[x] \o <<>>
<1>1. delivered' = [x \in Items |-> delivered[x] \o [i \in 1 .. Times(R, x) |-> at]]
  BY DEF HandTo
<1>2. ASSUME NEW x \in Items, NEW k \in DOMAIN R, R[k] = x PROVE Times(R, x) = 1
  <2>1. {i \in DOMAIN R : R[i] = x} = {k}
    BY <1>2
  <2>. QED BY <2>1, FS_Singleton DEF Times
<1>3. ASSUME NEW x \in Items, \A k \in DOMAIN R : R[k] # x PROVE Times(R, x) = 0
  <2>1. {i \in DOMAIN R : R[i] = x} = {}
    BY <1>3
  <2>. QED BY <2>1, FS_EmptySet DEF Times
<1>4. [i \in 1 .. 1 |-> at] = <<at>> /\ [i \in 1 .. 0 |-> at] = <<>>
  OBVIOUS
<1>5. <<>> \o <<at>> = <<at>>
  OBVIOUS
<1>6. ASSUME NEW x \in Items, NEW k \in DOMAIN R, R[k] = x, delivered[x] = <<>>
      PROVE  delivered'[x] = <<at>>
  <2>1. delivered'[x] = delivered[x] \o [i \in 1 .. 1 |-> at]
    BY <1>1, <1>2, <1>6
  <2>. QED BY <1>4, <1>5, <1>6, <2>1
<1>7. ASSUME NEW x \in Items, \A k \in DOMAIN R : R[k] # x
      PROVE  delivered'[x] = delivered[x] \o <<>>
  <2>1. delivered'[x] = delivered[x] \o [i \in 1 .. 0 |-> at]
    BY <1>1, <1>3, <1>7
  <2>. QED BY <1>4, <2>1
<1>. QED BY <1>1, <1>6, <1>7

(***************************************************************************)
(* A message of WsP has what the local buffers of its node had, place by   *)
(* place.                                                                  *)
(***************************************************************************)
Copies(F, local, d, g) ==
  /\ \A p \in PEs : NodeOf(p) = d => \A k \in DOMAIN local[p] :
       g[p][k] \in DOMAIN F /\ F[g[p][k]] = local[p][k]
  /\ \A i \in DOMAIN F : \E p \in PEs : \E k \in DOMAIN local[p] :
       NodeOf(p) = d /\ i = g[p][k]

LEMMA LocalsCopied ==
  ASSUME NEW local, LocalsTyped(local), NEW d \in Nodes, NEW F, F = Locals(local, d)
  PROVE  /\ \E g : Copies(F, local, d, g)
         /\ F \in Seq([item : Items, pe : PEs])
<1>1. PICK n, ss : n = NodeSize /\ ss = LocalParts(local, d)
  OBVIOUS
<1>2. /\ n \in Nat \ {0} /\ ss \in [1 .. n -> Seq([item : Items, pe : PEs])]
      /\ F = FlattenSeq(ss)
      /\ \A r \in 1 .. n : /\ PEAt(d, r - 1) \in PEs
                           /\ ss[r] = local[PEAt(d, r - 1)] /\ Len(ss[r]) \in Nat
  BY <1>1, LocalPartsAre
<1>3. F \in Seq([item : Items, pe : PEs]) /\ \E off : Parts(F, ss, n, off)
  BY <1>2, FlattenIs
<1>4. PICK off : Parts(F, ss, n, off)
  BY <1>3
<1>5. PICK g : g = [p \in PEs |-> [k \in DOMAIN local[p] |-> off[Rank(p)] + k]]
  OBVIOUS
<1>6. DOMAIN F = 1 .. Len(F) /\ Len(F) \in Nat
  BY <1>3
<1>7. \A p \in PEs : DOMAIN local[p] = 1 .. Len(local[p])
  BY DEF LocalsTyped
<1>8. ASSUME NEW p \in PEs, NodeOf(p) = d, NEW k \in DOMAIN local[p]
      PROVE  g[p][k] \in DOMAIN F /\ F[g[p][k]] = local[p][k]
  <2>1. PICK c, r : c = Rank(p) /\ r = c + 1
    OBVIOUS
  <2>2. r \in 1 .. n /\ r - 1 = Rank(p) /\ p = PEAt(d, r - 1)
    <3>1. Rank(p) \in 0 .. n - 1 /\ p = PEAt(d, Rank(p))
      BY <1>1, <1>8, RankFacts
    <3>2. c \in 0 .. n - 1 /\ r = c + 1 /\ n \in Nat
      BY <1>2, <2>1, <3>1
    <3>3. r - 1 = c /\ r \in 1 .. n
      BY <3>2
    <3>. QED BY <2>1, <3>1, <3>3
  <2>3. ss[r] = local[p] /\ k \in 1 .. Len(ss[r]) /\ Len(ss[r]) \in Nat
    BY <1>2, <1>7, <1>8, <2>2
  <2>4. g[p][k] = off[r - 1] + k
    BY <1>5, <1>8, <2>2
  <2>5. F[off[r - 1] + k] = ss[r][k]
    BY <1>4, <2>2, <2>3 DEF Parts
  <2>6. r - 1 \in 0 .. n /\ r \in 0 .. n /\ r \in 0 .. n /\ n \in 0 .. n
    BY <1>2, <2>2
  <2>7. off[r - 1] \in Nat /\ off[r] = off[r - 1] + Len(ss[r]) /\ off[n] = Len(F)
    BY <1>4, <2>2, <2>6 DEF Parts
  <2>8. off[r] <= off[n]
    <3>1. n \in Nat /\ \A q \in 1 .. n : Len(ss[q]) \in Nat
      BY <1>2
    <3>2. r <= n
      BY <1>2, <2>2
    <3>. QED BY <1>4, <2>6, <3>1, <3>2, PartsMonotone, SMTT(30)
  <2>9. off[r - 1] + k \in 1 .. Len(F)
    <3>1. PICK o, l, f : o = off[r - 1] /\ l = Len(ss[r]) /\ f = Len(F)
      OBVIOUS
    <3>2. o \in Nat /\ l \in Nat /\ f \in Nat /\ k \in 1 .. l /\ o + l <= f
      BY <1>6, <2>3, <2>7, <2>8, <3>1
    <3>3. o + k \in 1 .. f
      BY <3>2
    <3>. QED BY <3>1, <3>3
  <2>. QED BY <1>6, <2>3, <2>4, <2>5, <2>9
<1>9. ASSUME NEW i \in DOMAIN F
      PROVE  \E p \in PEs : \E k \in DOMAIN local[p] : NodeOf(p) = d /\ i = g[p][k]
  <2>1. n \in Nat /\ \A q \in 1 .. n : Len(ss[q]) \in Nat
    BY <1>2
  <2>2. InAPart(i, ss, n, off)
    <3>1. i \in 1 .. Len(F)
      BY <1>6
    <3>. QED BY <1>4, <2>1, <3>1, PartOf
  <2>3. PICK r \in 1 .. n : \E k \in 1 .. Len(ss[r]) : i = off[r - 1] + k
    BY <2>2 DEF InAPart
  <2>4. PICK k \in 1 .. Len(ss[r]) : i = off[r - 1] + k
    BY <2>3
  <2>5. PICK p : p = PEAt(d, r - 1)
    OBVIOUS
  <2>6. r - 1 \in 0 .. NodeSize - 1
    BY <1>1, <1>2
  <2>7. p \in PEs /\ NodeOf(p) = d /\ ss[r] = local[p]
    BY <1>2, <2>5, <2>6, NodeOfPEAt
  <2>8. Rank(p) = r - 1
    <3>1. PICK s, a : s = NodeSize /\ a = r - 1
      OBVIOUS
    <3>2. s \in Nat \ {0} /\ a \in 0 .. s - 1 /\ d \in Nat
      BY <1>1, <1>2, <2>6, <3>1 DEF Nodes
    <3>3. (d * s + a) % s = a
      BY <3>2
    <3>. QED BY <2>5, <3>1, <3>3 DEF Rank, PEAt
  <2>9. k \in DOMAIN local[p] /\ i = g[p][k]
    BY <1>5, <1>7, <2>4, <2>7, <2>8
  <2>. QED BY <2>7, <2>9
<1>. QED BY <1>3, <1>8, <1>9 DEF Copies

(***************************************************************************)
(* Where an item is: a place a in a local buffer, in a message buffer or   *)
(* in a message, bound for d, with what is written there.                  *)
(***************************************************************************)
InLocal(L, a, d, s) ==
  \E p \in PEs : \E i \in DOMAIN L[p] :
    a = <<"local", p, i>> /\ d = NodeOf(p) /\ s = L[p][i]
InSlots(B, a, d, s) ==
  d \in PEs /\ \E i \in DOMAIN B[d].slots : a = <<"slot", d, i>> /\ s = B[d].slots[i]
InMessage(M, a, d, s) ==
  \E m \in M : \E i \in DOMAIN m.items :
    a = <<"msg", m, i>> /\ d = m.dest /\ s = m.items[i]

Has(L, B, M, a, d, s) ==
  /\ s.item \in Items
  /\ InLocal(L, a, d, s) \/ InSlots(B, a, d, s) \/ InMessage(M, a, d, s)

\* No item is in two places, ...
Apart(L, B, M) ==
  \A a, b, c, d, s, t :
    Has(L, B, M, a, c, s) /\ Has(L, B, M, b, d, t) /\ s.item = t.item => a = b

\* ... every one was asked for, and goes where it was asked to, ...
Asked(ins, d, s) ==
  [item |-> s.item, place |-> IF s.pe = AnyPE THEN OnProc(d) ELSE OnPE(s.pe)] \in ins
AllAsked(L, B, M, ins) == \A a, d, s : Has(L, B, M, a, d, s) => Asked(ins, d, s)

\* ... none was handed over before, ...
NoneDone(L, B, W, del) == \A a, d, s : Has(L, B, W, a, d, s) => del[s.item] = <<>>

\* ... and what was asked for a PE and not handed over is somewhere.
NoneLost(L, B, M, ins, del) ==
  \A r \in ins : \A pe \in PEs :
    r.place = OnPE(pe) /\ del[r.item] = <<>> =>
      \E a, d, s : Has(L, B, M, a, d, s) /\ s.item = r.item

Stored(L, B, W, R, ins, del) ==
  /\ Apart(L, B, W \cup R)
  /\ AllAsked(L, B, W \cup R, ins)
  /\ NoneDone(L, B, W, del)
  /\ NoneLost(L, B, W \cup R, ins, del)
  /\ \A m \in W : Shaped(m)

LEMMA HasUnion ==
  ASSUME NEW L, NEW B, NEW W, NEW R, NEW a, NEW d, NEW s
  PROVE  Has(L, B, W \cup R, a, d, s) <=>
           Has(L, B, W, a, d, s) \/ (s.item \in Items /\ InMessage(R, a, d, s))
<1>1. InMessage(W \cup R, a, d, s) <=> InMessage(W, a, d, s) \/ InMessage(R, a, d, s)
  BY DEF InMessage
<1>. QED BY <1>1 DEF Has

\* A place tells what is there.
LEMMA PlaceTells ==
  ASSUME NEW L, NEW B, NEW M, NEW a, NEW c, NEW d, NEW s, NEW t,
         Has(L, B, M, a, c, s), Has(L, B, M, a, d, t)
  PROVE  c = d /\ s = t
<1>1. CASE InLocal(L, a, c, s)
  <2>1. ~InSlots(B, a, d, t) /\ ~InMessage(M, a, d, t)
    BY <1>1 DEF InLocal, InSlots, InMessage
  <2>. QED BY <1>1, <2>1 DEF Has, InLocal
<1>2. CASE InSlots(B, a, c, s)
  <2>1. ~InLocal(L, a, d, t) /\ ~InMessage(M, a, d, t)
    BY <1>2 DEF InLocal, InSlots, InMessage
  <2>. QED BY <1>2, <2>1 DEF Has, InSlots
<1>3. CASE InMessage(M, a, c, s)
  <2>1. ~InLocal(L, a, d, t) /\ ~InSlots(B, a, d, t)
    BY <1>3 DEF InLocal, InSlots, InMessage
  <2>. QED BY <1>3, <2>1 DEF Has, InMessage
<1>. QED BY <1>1, <1>2, <1>3 DEF Has

\* Item s, for d, is now at place a, and nothing else changed.
Adds(L, B, W, L2, B2, a, d, s) ==
  \A b, e, t : Has(L2, B2, W, b, e, t) <=>
    Has(L, B, W, b, e, t) \/ (b = a /\ e = d /\ t = s)

IsFresh(ins, del, x) == del[x] = <<>> /\ \A r \in ins : r.item # x
RequestFor(d, s) ==
  [item |-> s.item, place |-> IF s.pe = AnyPE THEN OnProc(d) ELSE OnPE(s.pe)]

\* A fresh item is stored.
LEMMA StorePhase ==
  ASSUME NEW L, NEW B, NEW W, NEW R, NEW ins, NEW del, Stored(L, B, W, R, ins, del), NEW L2, NEW B2,
         NEW a0, NEW d0, NEW s0, s0.item \in Items, IsFresh(ins, del, s0.item),
         Adds(L, B, W, L2, B2, a0, d0, s0),
         NEW now, now = ins \cup {RequestFor(d0, s0)}
  PROVE  Stored(L2, B2, W, R, now, del)
<1>1. PICK x \in Items : x = s0.item
  OBVIOUS
<1>2. /\ \A r \in ins : r.item # x
      /\ del[x] = <<>>
      /\ now = ins \cup
           {[item |-> x, place |-> IF s0.pe = AnyPE THEN OnProc(d0) ELSE OnPE(s0.pe)]}
      /\ \A a, d, s : Has(L2, B2, W, a, d, s) <=>
           Has(L, B, W, a, d, s) \/ (a = a0 /\ d = d0 /\ s = s0)
  BY <1>1 DEF IsFresh, Adds, RequestFor
<1>3. PICK M : M = W \cup R
  OBVIOUS
<1>4. \A a, d, s : Has(L2, B2, M, a, d, s) <=>
        Has(L, B, M, a, d, s) \/ (a = a0 /\ d = d0 /\ s = s0)
  BY <1>2, <1>3, HasUnion, Zenon
<1>5. /\ Apart(L, B, M) /\ AllAsked(L, B, M, ins) /\ NoneDone(L, B, W, del)
      /\ NoneLost(L, B, M, ins, del) /\ \A m \in W : Shaped(m)
  BY <1>3 DEF Stored
<1>6. ASSUME NEW a, NEW d, NEW s, Has(L, B, M, a, d, s) PROVE s.item # x
  <2>1. Asked(ins, d, s)
    BY <1>5, <1>6 DEF AllAsked
  <2>2. PICK r \in ins : r.item = s.item
    BY <2>1 DEF Asked
  <2>. QED BY <1>2, <2>2
<1>7. Apart(L2, B2, M)
  BY <1>4, <1>5, <1>6, <1>1 DEF Apart
<1>8. AllAsked(L2, B2, M, now)
  BY <1>2, <1>4, <1>5, <1>1 DEF AllAsked, Asked
<1>9. NoneDone(L2, B2, W, del)
  BY <1>2, <1>5, <1>1 DEF NoneDone
<1>10. NoneLost(L2, B2, M, now, del)
  <2>. SUFFICES ASSUME NEW r \in now, NEW pe \in PEs, r.place = OnPE(pe),
                       del[r.item] = <<>>
                PROVE  \E a, d, s : Has(L2, B2, M, a, d, s) /\ s.item = r.item
    BY DEF NoneLost
  <2>1. CASE r \in ins
    BY <1>4, <1>5, <2>1 DEF NoneLost
  <2>2. CASE r \notin ins
    <3>1. r.item = x
      BY <1>2, <2>2
    <3>. QED BY <1>4, <1>1, <3>1
  <2>. QED BY <2>1, <2>2
<1>. QED BY <1>3, <1>5, <1>7, <1>8, <1>9, <1>10 DEF Stored

\* The messages to S leave: those of C with what their local buffers have,
\* the others with what was written in their slots.
Ships(L, B, W, L2, B2, W2, S, C, sent, g) ==
  /\ S \subseteq PEs /\ C \subseteq S
  /\ \A p \in PEs : L2[p] = IF NodeOf(p) \in C THEN <<>> ELSE L[p]
  /\ \A d \in PEs : B2[d].slots = IF d \in S THEN <<>> ELSE B[d].slots
  /\ W2 = W \cup {sent[d] : d \in S}
  /\ \A d \in S : sent[d].dest = d
  /\ \A d \in C : /\ \A i \in DOMAIN B[d].slots : B[d].slots[i].item \notin Items
                  /\ Copies(sent[d].items, L, d, g[d])
  /\ \A d \in S \ C : sent[d].items = B[d].slots

\* Where a place goes when messages leave.
GoesTo(S, C, sent, g, a) ==
  IF a[1] = "local" /\ NodeOf(a[2]) \in C
    THEN <<"msg", sent[NodeOf(a[2])], g[NodeOf(a[2])][a[2]][a[3]]>>
  ELSE IF a[1] = "slot" /\ a[2] \in S THEN <<"msg", sent[a[2]], a[3]>>
  ELSE a

LEMMA ShipFrom ==
  ASSUME NEW L, NEW B, NEW W, NEW L2, NEW B2, NEW W2, NEW S, NEW C, NEW sent, NEW g,
         Ships(L, B, W, L2, B2, W2, S, C, sent, g),
         NEW b, NEW d, NEW s, Has(L2, B2, W2, b, d, s)
  PROVE  \E a : Has(L, B, W, a, d, s) /\ b = GoesTo(S, C, sent, g, a)
<1>1. CASE InLocal(L2, b, d, s)
  <2>1. PICK p \in PEs : \E i \in DOMAIN L2[p] :
               b = <<"local", p, i>> /\ d = NodeOf(p) /\ s = L2[p][i]
    BY <1>1 DEF InLocal
  <2>2. PICK i \in DOMAIN L2[p] : b = <<"local", p, i>> /\ d = NodeOf(p) /\ s = L2[p][i]
    BY <2>1
  <2>3. NodeOf(p) \notin C /\ L2[p] = L[p]
    BY <2>2 DEF Ships
  <2>4. InLocal(L, b, d, s)
    BY <2>2, <2>3 DEF InLocal
  <2>5. b = GoesTo(S, C, sent, g, b)
    <3>1. GoesTo(S, C, sent, g, <<"local", p, i>>) = <<"local", p, i>>
      BY <2>3 DEF GoesTo
    <3>. QED BY <2>2, <3>1
  <2>. QED BY <2>4, <2>5 DEF Has
<1>2. CASE InSlots(B2, b, d, s)
  <2>1. PICK i \in DOMAIN B2[d].slots : b = <<"slot", d, i>> /\ s = B2[d].slots[i]
    BY <1>2 DEF InSlots
  <2>2. d \in PEs /\ d \notin S /\ B2[d].slots = B[d].slots
    BY <1>2, <2>1 DEF InSlots, Ships
  <2>3. InSlots(B, b, d, s)
    BY <2>1, <2>2 DEF InSlots
  <2>4. b = GoesTo(S, C, sent, g, b)
    <3>1. GoesTo(S, C, sent, g, <<"slot", d, i>>) = <<"slot", d, i>>
      BY <2>2 DEF GoesTo
    <3>. QED BY <2>1, <3>1
  <2>. QED BY <2>3, <2>4 DEF Has
<1>3. CASE InMessage(W2, b, d, s)
  <2>1. PICK m \in W2 : \E i \in DOMAIN m.items :
               b = <<"msg", m, i>> /\ d = m.dest /\ s = m.items[i]
    BY <1>3 DEF InMessage
  <2>2. PICK i \in DOMAIN m.items : b = <<"msg", m, i>> /\ d = m.dest /\ s = m.items[i]
    BY <2>1
  <2>3. CASE m \in W
    <3>1. InMessage(W, b, d, s)
      BY <2>2, <2>3 DEF InMessage
    <3>2. b = GoesTo(S, C, sent, g, b)
      <4>1. GoesTo(S, C, sent, g, <<"msg", m, i>>) = <<"msg", m, i>>
        BY DEF GoesTo
      <4>. QED BY <2>2, <4>1
    <3>. QED BY <3>1, <3>2 DEF Has
  <2>4. CASE m \notin W
    <3>1. d \in S /\ m = sent[d]
      BY <2>2, <2>4 DEF Ships
    <3>2. CASE d \in C
      <4>1. Copies(m.items, L, d, g[d])
        BY <3>1, <3>2 DEF Ships
      <4>2. PICK p \in PEs : \E k \in DOMAIN L[p] : NodeOf(p) = d /\ i = g[d][p][k]
        BY <4>1 DEF Copies
      <4>3. PICK k \in DOMAIN L[p] : NodeOf(p) = d /\ i = g[d][p][k]
        BY <4>2
      <4>4. s = L[p][k]
        BY <2>2, <4>1, <4>3 DEF Copies
      <4>5. InLocal(L, <<"local", p, k>>, d, s)
        BY <4>3, <4>4 DEF InLocal
      <4>6. b = GoesTo(S, C, sent, g, <<"local", p, k>>)
        <5>1. GoesTo(S, C, sent, g, <<"local", p, k>>)
                = <<"msg", sent[NodeOf(p)], g[NodeOf(p)][p][k]>>
          BY <3>2, <4>3 DEF GoesTo
        <5>. QED BY <2>2, <3>1, <4>3, <5>1
      <4>. QED BY <4>5, <4>6 DEF Has
    <3>3. CASE d \notin C
      <4>1. m.items = B[d].slots /\ d \in PEs
        BY <3>1, <3>3 DEF Ships
      <4>2. InSlots(B, <<"slot", d, i>>, d, s)
        BY <2>2, <4>1 DEF InSlots
      <4>3. b = GoesTo(S, C, sent, g, <<"slot", d, i>>)
        <5>1. GoesTo(S, C, sent, g, <<"slot", d, i>>) = <<"msg", sent[d], i>>
          BY <3>1 DEF GoesTo
        <5>. QED BY <2>2, <3>1, <5>1
      <4>. QED BY <4>2, <4>3 DEF Has
    <3>. QED BY <3>2, <3>3
  <2>. QED BY <2>3, <2>4
<1>. QED BY <1>1, <1>2, <1>3 DEF Has

LEMMA ShipTo ==
  ASSUME NEW L, NEW B, NEW W, NEW L2, NEW B2, NEW W2, NEW S, NEW C, NEW sent, NEW g,
         Ships(L, B, W, L2, B2, W2, S, C, sent, g),
         NEW a, NEW d, NEW s, Has(L, B, W, a, d, s)
  PROVE  \E b : Has(L2, B2, W2, b, d, s)
<1>1. CASE InLocal(L, a, d, s)
  <2>1. PICK p \in PEs : \E i \in DOMAIN L[p] :
               a = <<"local", p, i>> /\ d = NodeOf(p) /\ s = L[p][i]
    BY <1>1 DEF InLocal
  <2>2. PICK i \in DOMAIN L[p] : a = <<"local", p, i>> /\ d = NodeOf(p) /\ s = L[p][i]
    BY <2>1
  <2>3. CASE d \in C
    <3>1. /\ Copies(sent[d].items, L, d, g[d]) /\ sent[d] \in W2 /\ sent[d].dest = d
      BY <2>3 DEF Ships
    <3>2. g[d][p][i] \in DOMAIN sent[d].items /\ sent[d].items[g[d][p][i]] = s
      BY <2>2, <3>1 DEF Copies
    <3>3. InMessage(W2, <<"msg", sent[d], g[d][p][i]>>, d, s)
      BY <3>1, <3>2 DEF InMessage
    <3>. QED BY <3>3 DEF Has
  <2>4. CASE d \notin C
    <3>1. L2[p] = L[p]
      BY <2>2, <2>4 DEF Ships
    <3>2. InLocal(L2, a, d, s)
      BY <2>2, <3>1 DEF InLocal
    <3>. QED BY <3>2 DEF Has
  <2>. QED BY <2>3, <2>4
<1>2. CASE InSlots(B, a, d, s)
  <2>1. PICK i \in DOMAIN B[d].slots : a = <<"slot", d, i>> /\ s = B[d].slots[i]
    BY <1>2 DEF InSlots
  <2>2. d \in PEs /\ d \notin C
    BY <1>2, <2>1 DEF InSlots, Has, Ships
  <2>3. CASE d \in S
    <3>1. sent[d].items = B[d].slots /\ sent[d] \in W2 /\ sent[d].dest = d
      BY <2>2, <2>3 DEF Ships
    <3>2. InMessage(W2, <<"msg", sent[d], i>>, d, s)
      BY <2>1, <3>1 DEF InMessage
    <3>. QED BY <3>2 DEF Has
  <2>4. CASE d \notin S
    <3>1. B2[d].slots = B[d].slots
      BY <2>2, <2>4 DEF Ships
    <3>2. InSlots(B2, a, d, s)
      BY <2>1, <2>2, <3>1 DEF InSlots
    <3>. QED BY <3>2 DEF Has
  <2>. QED BY <2>3, <2>4
<1>3. CASE InMessage(W, a, d, s)
  <2>1. W \subseteq W2
    BY DEF Ships
  <2>2. InMessage(W2, a, d, s)
    BY <1>3, <2>1 DEF InMessage
  <2>. QED BY <2>2 DEF Has
<1>. QED BY <1>1, <1>2, <1>3 DEF Has

LEMMA ShipPhase ==
  ASSUME NEW L, NEW B, NEW W, NEW L2, NEW B2, NEW W2, NEW S, NEW C, NEW sent, NEW g,
         Ships(L, B, W, L2, B2, W2, S, C, sent, g),
         \A d \in S : Shaped(sent[d]),
         NEW R, NEW ins, NEW del, Stored(L, B, W, R, ins, del)
  PROVE  Stored(L2, B2, W2, R, ins, del)
<1>1. PICK M, M2 : M = W \cup R /\ M2 = W2 \cup R
  OBVIOUS
<1>2. /\ Apart(L, B, M) /\ AllAsked(L, B, M, ins) /\ NoneDone(L, B, W, del)
      /\ NoneLost(L, B, M, ins, del) /\ \A m \in W : Shaped(m)
  BY <1>1 DEF Stored
<1>3. ASSUME NEW b, NEW d, NEW s, Has(L2, B2, M2, b, d, s)
      PROVE  \E a : Has(L, B, M, a, d, s) /\ b = GoesTo(S, C, sent, g, a)
  <2>1. CASE Has(L2, B2, W2, b, d, s)
    <3>1. PICK a : Has(L, B, W, a, d, s) /\ b = GoesTo(S, C, sent, g, a)
      BY <2>1, ShipFrom
    <3>. QED BY <1>1, <3>1, HasUnion
  <2>2. CASE s.item \in Items /\ InMessage(R, b, d, s)
    <3>1. b = GoesTo(S, C, sent, g, b)
      <4>1. PICK m \in R : \E i \in DOMAIN m.items : b = <<"msg", m, i>>
        BY <2>2 DEF InMessage
      <4>2. PICK i \in DOMAIN m.items : b = <<"msg", m, i>>
        BY <4>1
      <4>3. GoesTo(S, C, sent, g, <<"msg", m, i>>) = <<"msg", m, i>>
        BY DEF GoesTo
      <4>. QED BY <4>2, <4>3
    <3>. QED BY <1>1, <2>2, <3>1, HasUnion
  <2>. QED BY <1>1, <1>3, <2>1, <2>2, HasUnion
<1>4. Apart(L2, B2, M2)
  <2>. SUFFICES ASSUME NEW a, NEW b, NEW c, NEW d, NEW s, NEW t,
                       Has(L2, B2, M2, a, c, s), Has(L2, B2, M2, b, d, t),
                       s.item = t.item
                PROVE  a = b
    BY DEF Apart
  <2>1. PICK u : Has(L, B, M, u, c, s) /\ a = GoesTo(S, C, sent, g, u)
    BY <1>3
  <2>2. PICK v : Has(L, B, M, v, d, t) /\ b = GoesTo(S, C, sent, g, v)
    BY <1>3
  <2>3. u = v
    BY <1>2, <2>1, <2>2 DEF Apart
  <2>. QED BY <2>1, <2>2, <2>3
<1>5. AllAsked(L2, B2, M2, ins)
  BY <1>2, <1>3 DEF AllAsked
<1>6. NoneDone(L2, B2, W2, del)
  BY <1>2, ShipFrom DEF NoneDone
<1>7. NoneLost(L2, B2, M2, ins, del)
  <2>. SUFFICES ASSUME NEW r \in ins, NEW pe \in PEs, r.place = OnPE(pe),
                       del[r.item] = <<>>
                PROVE  \E a, d, s : Has(L2, B2, M2, a, d, s) /\ s.item = r.item
    BY DEF NoneLost
  <2>1. PICK a, d, s : Has(L, B, M, a, d, s) /\ s.item = r.item
    BY <1>2 DEF NoneLost
  <2>2. CASE Has(L, B, W, a, d, s)
    <3>1. PICK b : Has(L2, B2, W2, b, d, s)
      BY <2>2, ShipTo
    <3>. QED BY <1>1, <2>1, <3>1, HasUnion
  <2>3. CASE s.item \in Items /\ InMessage(R, a, d, s)
    BY <1>1, <2>1, <2>3, HasUnion
  <2>. QED BY <1>1, <2>1, <2>2, <2>3, HasUnion
<1>8. \A m \in W2 : Shaped(m)
  BY <1>2 DEF Ships
<1>. QED BY <1>1, <1>4, <1>5, <1>6, <1>7, <1>8 DEF Stored

(***************************************************************************)
(* The sending side: what is inserted is stored, and what is stored leaves.*)
(***************************************************************************)
ForDests(mode, B) ==
  \A d \in PEs :
    /\ d \notin Dests(mode) => B[d].slots = <<>>
    /\ mode = "WW" => \A i \in DOMAIN B[d].slots : B[d].slots[i].pe = d

Asks(ins) ==
  /\ ins \subseteq [item : Items, place : Places]
  /\ \A r, q \in ins : r.item = q.item => r = q

Handed(ins, del) ==
  /\ del = [x \in Items |-> del[x]]
  /\ \A x \in Items : /\ del[x] = <<>> \/ \E at \in Places : del[x] = <<at>>
                      /\ del[x] # <<>> => \E r \in ins : r.item = x

Kept ==
  /\ Stored(localBuffers, msgBuffers, wire, DOMAIN refs, inserted, delivered)
  /\ ForDests(agg, msgBuffers)
  /\ Asks(inserted) /\ Handed(inserted, delivered)

LEMMA LocalAppended ==
  ASSUME NEW L, LocalsTyped(L), NEW pe \in PEs, NEW x \in Items,
         NEW now, now = Grown(L, x, pe), NEW a, NEW d, NEW s
  PROVE  InLocal(now, a, d, s) <=>
           \/ InLocal(L, a, d, s)
           \/ a = <<"local", pe, Len(L[pe]) + 1>> /\ d = NodeOf(pe) /\ s = Slot(x, pe)
<1>1. PICK old, t, S : old = L[pe] /\ t = Slot(x, pe) /\ S = [item : Items, pe : {pe}]
  OBVIOUS
<1>2. old \in Seq(S) /\ t \in S
  BY <1>1 DEF LocalsTyped, Slot
<1>3. /\ DOMAIN Append(old, t) = DOMAIN old \cup {Len(old) + 1}
      /\ Append(old, t)[Len(old) + 1] = t
      /\ \A i \in DOMAIN old : Append(old, t)[i] = old[i]
  BY <1>2
<1>4. now[pe] = Append(old, t) /\ \A p \in PEs : p # pe => now[p] = L[p]
  BY <1>1 DEF LocalsTyped, Grown
<1>5. ASSUME InLocal(now, a, d, s)
      PROVE  \/ InLocal(L, a, d, s)
             \/ a = <<"local", pe, Len(old) + 1>> /\ d = NodeOf(pe) /\ s = t
  <2>1. PICK p \in PEs : \E i \in DOMAIN now[p] :
               a = <<"local", p, i>> /\ d = NodeOf(p) /\ s = now[p][i]
    BY <1>5 DEF InLocal
  <2>2. PICK i \in DOMAIN now[p] : a = <<"local", p, i>> /\ d = NodeOf(p) /\ s = now[p][i]
    BY <2>1
  <2>3. CASE p = pe /\ i = Len(old) + 1
    BY <1>3, <1>4, <2>2, <2>3
  <2>4. CASE p # pe \/ i # Len(old) + 1
    <3>1. i \in DOMAIN L[p] /\ now[p][i] = L[p][i]
      BY <1>1, <1>3, <1>4, <2>2, <2>4
    <3>2. InLocal(L, a, d, s)
      BY <2>2, <3>1 DEF InLocal
    <3>. QED BY <3>2
  <2>. QED BY <2>3, <2>4
<1>6. ASSUME InLocal(L, a, d, s) PROVE InLocal(now, a, d, s)
  <2>1. PICK p \in PEs : \E i \in DOMAIN L[p] :
               a = <<"local", p, i>> /\ d = NodeOf(p) /\ s = L[p][i]
    BY <1>6 DEF InLocal
  <2>2. PICK i \in DOMAIN L[p] : a = <<"local", p, i>> /\ d = NodeOf(p) /\ s = L[p][i]
    BY <2>1
  <2>3. i \in DOMAIN now[p] /\ now[p][i] = L[p][i]
    BY <1>1, <1>3, <1>4, <2>2
  <2>. QED BY <2>2, <2>3 DEF InLocal
<1>7. ASSUME a = <<"local", pe, Len(old) + 1>> /\ d = NodeOf(pe) /\ s = t
      PROVE  InLocal(now, a, d, s)
  <2>1. Len(old) + 1 \in DOMAIN now[pe] /\ now[pe][Len(old) + 1] = t
    BY <1>3, <1>4
  <2>. QED BY <1>7, <2>1 DEF InLocal
<1>. QED BY <1>1, <1>5, <1>6, <1>7

LEMMA SlotAppended ==
  ASSUME NEW B, NEW d \in PEs, NEW slot \in ItemSlots,
         NEW old, old = B[d].slots, old \in Seq(ItemSlots), NEW now,
         now[d].slots = Append(old, slot), \A e \in PEs : e # d => now[e] = B[e],
         NEW a, NEW e, NEW s
  PROVE  InSlots(now, a, e, s) <=>
           InSlots(B, a, e, s) \/ (a = <<"slot", d, Len(old) + 1>> /\ e = d /\ s = slot)
<1>1. /\ DOMAIN Append(old, slot) = DOMAIN old \cup {Len(old) + 1}
      /\ Append(old, slot)[Len(old) + 1] = slot
      /\ \A i \in DOMAIN old : Append(old, slot)[i] = old[i]
  OBVIOUS
<1>2. CASE e # d
  BY <1>2 DEF InSlots
<1>3. CASE e = d
  <2>1. ASSUME NEW i \in DOMAIN old \cup {Len(old) + 1},
               a = <<"slot", d, i>>, s = Append(old, slot)[i]
        PROVE  InSlots(B, a, e, s) \/ (a = <<"slot", d, Len(old) + 1>> /\ s = slot)
    BY <1>1, <1>3, <2>1 DEF InSlots
  <2>2. InSlots(now, a, e, s) =>
          InSlots(B, a, e, s) \/ (a = <<"slot", d, Len(old) + 1>> /\ s = slot)
    BY <1>1, <1>3, <2>1 DEF InSlots
  <2>3. InSlots(B, a, e, s) => InSlots(now, a, e, s)
    BY <1>1, <1>3 DEF InSlots
  <2>4. a = <<"slot", d, Len(old) + 1>> /\ s = slot => InSlots(now, a, e, s)
    BY <1>1, <1>3 DEF InSlots
  <2>. QED BY <1>3, <2>2, <2>3, <2>4
<1>. QED BY <1>2, <1>3

\* The buffers of S leave for the entry point of the mode.
Sent(L, B, S, c) == [d \in S |-> Message(EntryPoint, d, Contents(L, d, B[d].slots), c)]

LEMMA ContentsAre ==
  ASSUME NEW L, LocalsFor(agg, L), NEW d \in Dests(agg), NEW slots \in Seq(ItemSlots),
         Fills(agg, L, d, slots), NEW items, items = Contents(L, d, slots)
  PROVE  IF agg = "WsP" /\ CountedBy(L, d, slots)
           THEN items = Locals(L, d) /\ \E g : Copies(items, L, d, g)
           ELSE /\ items = slots
                /\ agg = "WsP" => \A p \in PEs : NodeOf(p) = d => L[p] = <<>>
<1>1. CASE agg # "WsP"
  BY <1>1 DEF Contents
<1>2. CASE agg = "WsP"
  <2>1. d \in Nodes /\ LocalsTyped(L)
    BY <1>2 DEF Dests, LocalsFor
  <2>2. PICK F : F = Locals(L, d)
    OBVIOUS
  <2>3. (\E g : Copies(F, L, d, g)) /\ F \in Seq([item : Items, pe : PEs])
    BY <2>1, <2>2, LocalsCopied
  <2>4. /\ DOMAIN F = 1 .. Len(F) /\ F = [i \in DOMAIN F |-> F[i]]
        /\ DOMAIN slots = 1 .. Len(slots) /\ slots = [i \in DOMAIN slots |-> slots[i]]
    BY <2>3
  <2>5. items = [i \in DOMAIN slots |-> IF i \in DOMAIN F THEN F[i] ELSE slots[i]]
    BY <1>2, <2>2 DEF Contents
  <2>6. CASE CountedBy(L, d, slots)
    <3>1. DOMAIN slots = DOMAIN F
      BY <2>2, <2>4, <2>6 DEF CountedBy
    <3>2. items = [i \in DOMAIN F |-> F[i]]
      BY <2>5, <3>1
    <3>3. items = F
      BY <2>4, <3>2
    <3>. QED BY <1>2, <2>2, <2>3, <2>6, <3>3
  <2>7. CASE ~CountedBy(L, d, slots)
    <3>1. Len(F) = 0
      BY <1>2, <2>2, <2>7 DEF Fills, ForNodeBy
    <3>2. DOMAIN F = {}
      BY <2>4, <3>1
    <3>3. items = [i \in DOMAIN slots |-> slots[i]]
      BY <2>5, <3>2
    <3>4. items = slots
      BY <2>4, <3>3
    <3>5. ASSUME NEW p \in PEs, NodeOf(p) = d PROVE L[p] = <<>>
      <4>1. DOMAIN L[p] = {}
        BY <2>3, <3>2, <3>5 DEF Copies
      <4>2. L[p] \in Seq([item : Items, pe : {p}])
        BY <2>1 DEF LocalsTyped
      <4>3. PICK t, A : t = L[p] /\ A = [item : Items, pe : {p}]
        OBVIOUS
      <4>4. t \in Seq(A) /\ DOMAIN t = {}
        BY <4>1, <4>2, <4>3
      <4>5. DOMAIN t = 1 .. Len(t) /\ Len(t) \in Nat
        BY <4>4
      <4>6. Len(t) = 0
        BY <4>4, <4>5
      <4>7. t = <<>>
        BY <4>4, <4>6
      <4>. QED BY <4>3, <4>7
    <3>. QED BY <1>2, <2>7, <3>4, <3>5
  <2>. QED BY <2>6, <2>7
<1>. QED BY <1>1, <1>2

LEMMA LeavesShips ==
  ASSUME NEW L, LocalsFor(agg, L), NEW S, S \subseteq Dests(agg), NEW B,
         \A d \in S : B[d].slots \in Seq(ItemSlots) /\ Fills(agg, L, d, B[d].slots),
         NEW B2, \A d \in PEs : B2[d].slots = IF d \in S THEN <<>> ELSE B[d].slots,
         NEW L2, L2 = LocalsLeft(L, S), NEW c, NEW sent, sent = Sent(L, B, S, c),
         NEW W, NEW W2, W2 = W \cup {sent[d] : d \in S}
  PROVE  \E C, g : Ships(L, B, W, L2, B2, W2, S, C, sent, g)
<1>1. PICK C : C = {d \in S : agg = "WsP" /\ CountedBy(L, d, B[d].slots)}
  OBVIOUS
<1>2. PICK g : g = [d \in C |-> CHOOSE h : Copies(sent[d].items, L, d, h)]
  OBVIOUS
<1>3. \A d \in S : sent[d].dest = d /\ sent[d].items = Contents(L, d, B[d].slots)
  BY DEF Sent, Message
<1>4. ASSUME NEW d \in C
      PROVE  /\ \A i \in DOMAIN B[d].slots : B[d].slots[i].item \notin Items
             /\ Copies(sent[d].items, L, d, g[d])
  <2>1. d \in Dests(agg) /\ d \in S /\ agg = "WsP" /\ CountedBy(L, d, B[d].slots)
    BY <1>1
  <2>2. \E h : Copies(sent[d].items, L, d, h)
    BY <1>3, <2>1, ContentsAre
  <2>3. Copies(sent[d].items, L, d, CHOOSE h : Copies(sent[d].items, L, d, h))
    BY <2>2
  <2>4. B[d].slots \in Seq(ItemSlots)
    BY <2>1
  <2>5. \A i \in DOMAIN B[d].slots : B[d].slots[i] = Unwritten
    BY <2>1, <2>4 DEF CountedBy
  <2>. QED BY <1>2, <2>3, <2>5, PlainAssumption DEF Unwritten, Slot, PlainAssumption
<1>5. ASSUME NEW d \in S \ C
      PROVE  /\ sent[d].items = B[d].slots
             /\ agg = "WsP" => \A p \in PEs : NodeOf(p) = d => L[p] = <<>>
  <2>1. d \in Dests(agg) /\ d \in S /\ ~(agg = "WsP" /\ CountedBy(L, d, B[d].slots))
    BY <1>1, <1>5
  <2>. QED BY <1>3, <2>1, ContentsAre
<1>6. ASSUME NEW p \in PEs PROVE L2[p] = IF NodeOf(p) \in C THEN <<>> ELSE L[p]
  <2>1. CASE agg = "WsP"
    <3>1. L2[p] = IF NodeOf(p) \in S THEN <<>> ELSE L[p]
      BY <2>1 DEF LocalsLeft
    <3>. QED BY <1>1, <1>5, <2>1, <3>1
  <2>2. CASE agg # "WsP"
    <3>1. L2[p] = L[p]
      BY <2>2 DEF LocalsLeft
    <3>. QED BY <1>1, <2>2, <3>1
  <2>. QED BY <2>1, <2>2
<1>7. S \subseteq PEs /\ C \subseteq S
  BY <1>1, DestsArePEs
<1>8. Ships(L, B, W, L2, B2, W2, S, C, sent, g)
  BY <1>3, <1>4, <1>5, <1>6, <1>7 DEF Ships
<1>. QED BY <1>8

LEMMA ShipsShaped ==
  ASSUME agg \in {"WsP", "WPs", "WW"}, NEW L, LocalsFor(agg, L), NEW d \in Dests(agg),
         NEW slots \in Seq(ItemSlots), Fills(agg, L, d, slots),
         agg = "WW" => \A i \in DOMAIN slots : slots[i].pe = d, NEW c
  PROVE  Shaped(Message(EntryPoint, d, Contents(L, d, slots), c))
<1>1. PICK items, m : /\ items = Contents(L, d, slots)
                      /\ m = Message(EntryPoint, d, Contents(L, d, slots), c)
  OBVIOUS
<1>2. m.entry = EntryPoint /\ m.dest = d /\ m.items = items
  BY <1>1 DEF Message
<1>3. WellFormed(m)
  BY <1>1, ShipsWellFormed DEF LocalsFor
<1>4. DOMAIN slots = 1 .. Len(slots) /\ Len(slots) \in Nat
  OBVIOUS
<1>5. CASE agg = "WsP"
  <2>1. m.entry = "receive_no_sort" /\ d \in Nodes
    BY <1>2, <1>5 DEF EntryPoint, Dests
  <2>2. items \in Seq(Payload)
    <3>1. CASE CountedBy(L, d, slots)
      <4>1. items = Locals(L, d) /\ LocalsTyped(L)
        BY <1>1, <1>5, <3>1, ContentsAre DEF LocalsFor
      <4>2. items \in Seq([item : Items, pe : PEs])
        BY <2>1, <4>1, LocalsCopied
      <4>3. [item : Items, pe : PEs] \subseteq Payload
        BY DEF Payload
      <4>. QED BY <4>2, <4>3, SeqGrows
    <3>2. CASE ~CountedBy(L, d, slots)
      <4>1. items = slots
        BY <1>1, <1>5, <3>2, ContentsAre
      <4>2. \A i \in DOMAIN slots : slots[i] \in Payload
        BY <1>4, <1>5, <3>2 DEF Fills, ForNodeBy, Payload
      <4>. QED BY <1>4, <4>1, <4>2
    <3>. QED BY <3>1, <3>2
  <2>. QED BY <1>1, <1>2, <1>3, <2>1, <2>2 DEF Shaped, WellFormed
<1>6. CASE agg # "WsP"
  <2>1. items = slots
    BY <1>1, <1>6 DEF Contents
  <2>2. /\ WrittenFor(agg, d, slots)
        /\ \A i \in DOMAIN slots : slots[i] \in [item : Items, pe : PEs]
    BY <1>4, <1>6 DEF Fills, WrittenFor
  <2>3. \A i \in DOMAIN slots : slots[i] \in Payload /\ slots[i].pe # AnyPE
    <3>1. \A pe \in PEs : pe # AnyPE
      BY DEF PEs, AnyPE
    <3>. QED BY <2>2, <3>1 DEF Payload
  <2>4. items \in Seq(Payload)
    BY <1>4, <2>1, <2>3
  <2>5. CASE agg = "WPs"
    <3>1. m.entry = "receive" /\ d \in Nodes
      BY <1>2, <2>5 DEF EntryPoint, Dests
    <3>. QED BY <1>1, <1>2, <1>3, <2>1, <2>3, <2>4, <3>1 DEF Shaped, WellFormed
  <2>6. CASE agg = "WW"
    <3>1. m.entry = "receiveOnPE" /\ d \in PEs
      BY <1>2, <2>6 DEF EntryPoint, Dests
    <3>. QED BY <1>1, <1>2, <2>1, <2>4, <2>6, <3>1 DEF Shaped
  <2>. QED BY <1>6, <2>5, <2>6
<1>. QED BY <1>5, <1>6

Leaving(L, B, S, c) == {Message(EntryPoint, d, Contents(L, d, B[d].slots), c) : d \in S}

Leavable(L, B, S) ==
  /\ agg \in {"WsP", "WPs", "WW"} /\ LocalsFor(agg, L) /\ S \subseteq Dests(agg)
  /\ \A d \in S : B[d].slots \in Seq(ItemSlots) /\ Fills(agg, L, d, B[d].slots)
Emptied(B, B2, S) == \A d \in PEs : B2[d].slots = IF d \in S THEN <<>> ELSE B[d].slots

\* The step of every shipment.
LEMMA LeavesStored ==
  ASSUME NEW L, NEW S, NEW B, Leavable(L, B, S), ForDests(agg, B),
         NEW B2, Emptied(B, B2, S), NEW L2, L2 = LocalsLeft(L, S), NEW c, NEW W, NEW W2,
         W2 = W \cup Leaving(L, B, S, c),
         NEW R, NEW ins, NEW del, Stored(L, B, W, R, ins, del)
  PROVE  Stored(L2, B2, W2, R, ins, del) /\ ForDests(agg, B2)
<1>1. /\ agg \in {"WsP", "WPs", "WW"} /\ LocalsFor(agg, L) /\ S \subseteq Dests(agg)
      /\ \A d \in S : B[d].slots \in Seq(ItemSlots) /\ Fills(agg, L, d, B[d].slots)
      /\ \A d \in PEs : B2[d].slots = IF d \in S THEN <<>> ELSE B[d].slots
  BY DEF Leavable, Emptied
<1>2. PICK sent : sent = Sent(L, B, S, c)
  OBVIOUS
<1>3. \A d \in S : sent[d] = Message(EntryPoint, d, Contents(L, d, B[d].slots), c)
  BY <1>2 DEF Sent
<1>4. W2 = W \cup {sent[d] : d \in S}
  BY <1>3 DEF Leaving
<1>5. PICK C, g : Ships(L, B, W, L2, B2, W2, S, C, sent, g)
  BY <1>1, <1>2, <1>4, LeavesShips
<1>6. ASSUME NEW d \in S PROVE Shaped(sent[d])
  <2>1. d \in Dests(agg) /\ d \in PEs
    BY <1>1, DestsArePEs
  <2>2. agg = "WW" => \A i \in DOMAIN B[d].slots : B[d].slots[i].pe = d
    BY <2>1 DEF ForDests
  <2>. QED BY <1>1, <1>3, <2>1, <2>2, ShipsShaped
<1>7. Stored(L2, B2, W2, R, ins, del)
  BY <1>5, <1>6, ShipPhase
<1>8. ForDests(agg, B2)
  <2>1. DOMAIN <<>> = {}
    OBVIOUS
  <2>. QED BY <1>1, <2>1 DEF ForDests
<1>. QED BY <1>7, <1>8

\* An item that is inserted is new, and for a place.
LEMMA FreshAsked ==
  ASSUME NEW ins, Asks(ins), NEW del, Handed(ins, del), NEW x \in Items,
         \A r \in ins : r.item # x, NEW at \in Places,
         NEW now, now = ins \cup {[item |-> x, place |-> at]}
  PROVE  Asks(now) /\ Handed(now, del) /\ del[x] = <<>>
<1>1. del[x] = <<>>
  BY DEF Handed
<1>2. Asks(now)
  BY DEF Asks
<1>3. Handed(now, del)
  BY DEF Handed
<1>. QED BY <1>1, <1>2, <1>3

LEMMA PlaceOfItem ==
  /\ \A pe \in PEs : OnPE(pe) \in Places /\ pe # AnyPE
  /\ \A n \in Nodes : OnProc(n) \in Places
BY DEF Places, PEs, AnyPE

LEMMA ValueKept ==
  ASSUME Kept, Contained, Buffers, NEW x \in Items, NEW pe \in PEs, InsertValue(x, pe),
         UNCHANGED <<refs, delivered>>
  PROVE  Kept'
<1>1. PICK d, L, slots, slot, now, L0, B0, W, R, del, ins, old :
        /\ d = DestOf(pe) /\ L = ValueLocals(x, pe) /\ slot = ValueSlot(x, pe)
        /\ slots = Store(d, ValueSlot(x, pe)) /\ now = inserted'
        /\ L0 = localBuffers /\ B0 = msgBuffers /\ W = wire /\ R = DOMAIN refs
        /\ del = delivered /\ ins = inserted /\ old = msgBuffers[d].slots
  OBVIOUS
<1>2. /\ \A r \in ins : r.item # x
      /\ ~ForProcess(d) /\ agg' = agg /\ bufSize' = bufSize
      /\ now = ins \cup {[item |-> x, place |-> OnPE(pe)]}
      /\ \/ /\ msgBuffers' = [msgBuffers EXCEPT ![d].slots = slots]
            /\ localBuffers' = L
            /\ wire' = wire
         \/ \E c : /\ wire' = wire \cup
                          {Message(EntryPoint, d, Contents(L, d, slots), c)}
                   /\ msgBuffers' = [msgBuffers EXCEPT ![d] = NewMessage(bufSize)]
                   /\ localBuffers' = LocalsLeft(L, {d})
  BY <1>1 DEF InsertValue, ValueLocals, ValueSlot, Grown, Fresh, With
<1>3. StoredFor(d, L, slots)
  BY <1>1, <1>2, ValueFills
<1>4. /\ d \in Dests(agg) /\ d \in PEs /\ slots \in Seq(ItemSlots)
      /\ LocalsFor(agg, L) /\ Fills(agg, L, d, slots)
  BY <1>3, DestsArePEs DEF StoredFor
<1>5. /\ Stored(L0, B0, W, R, ins, del) /\ ForDests(agg, B0)
      /\ Asks(ins) /\ Handed(ins, del)
  BY <1>1 DEF Kept
<1>6. OnPE(pe) \in Places /\ pe # AnyPE
  BY PlaceOfItem
<1>7. Asks(now) /\ Handed(now, del) /\ del[x] = <<>>
  BY <1>2, <1>5, <1>6, FreshAsked
<1>8. PICK B : B = [msgBuffers EXCEPT ![d].slots = slots]
  OBVIOUS
<1>9. /\ B[d].slots = slots /\ \A e \in PEs : e # d => B[e] = B0[e]
      /\ old \in Seq(ItemSlots) /\ slots = Append(old, slot) /\ slot \in ItemSlots
  <2>1. msgBuffers \in [PEs -> [slots : Seq(ItemSlots), cap : Nat]]
    BY DEF Buffers
  <2>2. msgBuffers[d] \in [slots : Seq(ItemSlots), cap : Nat]
    BY <1>4, <2>1
  <2>3. B[d].slots = slots /\ \A e \in PEs : e # d => B[e] = B0[e]
    BY <1>1, <1>4, <1>8, <2>1
  <2>4. slot \in ItemSlots
    BY <1>1 DEF ItemSlots, Unwritten, Slot, ValueSlot
  <2>. QED BY <1>1, <2>2, <2>3, <2>4 DEF Store
<1>10. Stored(L, B, W, R, now, del)
  <2>1. PICK s : s = Slot(x, pe)
    OBVIOUS
  <2>2. s.item = x /\ s.pe = pe
    BY <2>1 DEF Slot
  <2>3. now = ins \cup {[item |-> x, place |-> IF s.pe = AnyPE THEN OnProc(d) ELSE OnPE(s.pe)]}
    BY <1>2, <1>6, <2>2
  <2>4. \A a, e, t : InSlots(B, a, e, t) <=>
          InSlots(B0, a, e, t) \/ (a = <<"slot", d, Len(old) + 1>> /\ e = d /\ t = slot)
    <3>1. old = B0[d].slots /\ B[d].slots = Append(old, slot)
      BY <1>1, <1>9
    <3>. QED BY <1>4, <1>9, <3>1, SlotAppended
  <2>5. IsFresh(ins, del, s.item) /\ s.item \in Items /\ now = ins \cup {RequestFor(d, s)}
    BY <1>2, <1>7, <2>2, <2>3 DEF IsFresh, RequestFor
  <2>6. CASE agg = "WsP"
    <3>1. LocalsTyped(L0) /\ L = Grown(L0, x, pe) /\ d = NodeOf(pe) /\ slot = Unwritten
      BY <1>1, <2>6 DEF Contained, ContainedBy, LocalsFor, ValueLocals, DestOf, ValueSlot
    <3>2. \A a, e, t : InLocal(L, a, e, t) <=>
            \/ InLocal(L0, a, e, t)
            \/ a = <<"local", pe, Len(L0[pe]) + 1>> /\ e = d /\ t = s
      BY <2>1, <3>1, LocalAppended
    <3>3. slot.item \notin Items
      BY <3>1, PlainAssumption DEF Unwritten, Slot, PlainAssumption
    <3>4. PICK b : b = <<"local", pe, Len(L0[pe]) + 1>>
      OBVIOUS
    <3>5. Adds(L0, B0, W, L, B, b, d, s)
      BY <2>2, <2>4, <3>2, <3>3, <3>4 DEF Has, Adds
    <3>. QED BY <1>5, <2>5, <3>5, StorePhase
  <2>7. CASE agg # "WsP"
    <3>1. L = L0 /\ slot = s
      BY <1>1, <2>1, <2>7 DEF ValueLocals, ValueSlot
    <3>2. PICK b : b = <<"slot", d, Len(old) + 1>>
      OBVIOUS
    <3>3. Adds(L0, B0, W, L, B, b, d, s)
      BY <2>2, <2>4, <3>1, <3>2 DEF Has, Adds
    <3>. QED BY <1>5, <2>5, <3>3, StorePhase
  <2>. QED BY <2>6, <2>7
<1>11. ForDests(agg, B)
  <2>1. ASSUME agg = "WW", NEW i \in DOMAIN slots PROVE slots[i].pe = d
    <3>1. \A j \in DOMAIN old : old[j].pe = d
      BY <1>1, <1>4, <1>5, <2>1 DEF ForDests
    <3>2. slot.pe = d
      BY <1>1, <2>1 DEF ValueSlot, Slot, DestOf
    <3>3. i = Len(old) + 1 \/ (i \in DOMAIN old /\ slots[i] = old[i])
      BY <1>9, <2>1
    <3>4. slots[Len(old) + 1] = slot
      BY <1>9
    <3>. QED BY <3>1, <3>2, <3>3, <3>4
  <2>. QED BY <1>4, <1>5, <1>9, <2>1 DEF ForDests
<1>12. DOMAIN refs' = R /\ delivered' = del /\ inserted' = now
  BY <1>1
<1>13. CASE msgBuffers' = B /\ localBuffers' = L /\ wire' = W
  BY <1>2, <1>7, <1>10, <1>11, <1>12, <1>13 DEF Kept
<1>14. ASSUME NEW c,
              /\ wire' = W \cup {Message(EntryPoint, d, Contents(L, d, slots), c)}
              /\ msgBuffers' = [msgBuffers EXCEPT ![d] = NewMessage(bufSize)]
              /\ localBuffers' = LocalsLeft(L, {d})
       PROVE  Kept'
  <2>1. PICK B2, L2, W2 : B2 = msgBuffers' /\ L2 = localBuffers' /\ W2 = wire'
    OBVIOUS
  <2>2. Emptied(B, B2, {d})
    <3>1. msgBuffers \in [PEs -> [slots : Seq(ItemSlots), cap : Nat]]
      BY DEF Buffers
    <3>. QED BY <1>1, <1>4, <1>9, <1>14, <2>1, <3>1 DEF NewMessage, Emptied
  <2>3. W2 = W \cup Leaving(L, B, {d}, c)
    BY <1>9, <1>14, <2>1 DEF Leaving
  <2>4. Leavable(L, B, {d})
    BY <1>4, <1>9 DEF Buffers, Leavable
  <2>5. L2 = LocalsLeft(L, {d})
    BY <1>14, <2>1
  <2>6. Stored(L2, B2, W2, R, now, del) /\ ForDests(agg, B2)
    BY <1>10, <1>11, <2>2, <2>3, <2>4, <2>5, LeavesStored
  <2>. QED BY <1>2, <1>7, <1>12, <2>1, <2>6 DEF Kept
<1>. QED BY <1>1, <1>2, <1>8, <1>13, <1>14

LEMMA ProcessKept ==
  ASSUME Kept, Contained, Buffers, agg = "WsP", NEW x \in Items, NEW n \in Nodes,
         InsertToProcess(x, n), UNCHANGED <<refs, delivered>>
  PROVE  Kept'
<1>1. PICK slots, slot, now, L, B0, W, R, del, ins, old :
        /\ slot = Slot(x, AnyPE) /\ slots = Store(n, Slot(x, AnyPE)) /\ now = inserted'
        /\ L = localBuffers /\ B0 = msgBuffers /\ W = wire /\ R = DOMAIN refs
        /\ del = delivered /\ ins = inserted /\ old = msgBuffers[n].slots
  OBVIOUS
<1>2. /\ \A r \in ins : r.item # x
      /\ ~ForPEs(n) /\ agg' = agg /\ bufSize' = bufSize /\ localBuffers' = L
      /\ now = ins \cup {[item |-> x, place |-> OnProc(n)]}
      /\ \/ /\ msgBuffers' = [msgBuffers EXCEPT ![n].slots = slots]
            /\ wire' = wire
         \/ \E c : /\ wire' = wire \cup {Message("receiveOnProc", n, slots, c)}
                   /\ msgBuffers' = [msgBuffers EXCEPT ![n] = NewMessage(bufSize)]
  BY <1>1 DEF InsertToProcess, Fresh, With
<1>3. StoredFor(n, L, slots)
  BY <1>1, <1>2, ProcessStored
<1>4. n \in Dests(agg) /\ n \in PEs /\ slots \in Seq(ItemSlots)
  BY <1>3, DestsArePEs DEF StoredFor
<1>5. /\ Stored(L, B0, W, R, ins, del) /\ ForDests(agg, B0)
      /\ Asks(ins) /\ Handed(ins, del)
  BY <1>1 DEF Kept
<1>6. Asks(now) /\ Handed(now, del) /\ del[x] = <<>>
  BY <1>2, <1>5, PlaceOfItem, FreshAsked
<1>7. PICK B : B = [msgBuffers EXCEPT ![n].slots = slots]
  OBVIOUS
<1>8. /\ B[n].slots = slots /\ \A e \in PEs : e # n => B[e] = B0[e]
      /\ old \in Seq(ItemSlots) /\ slots = Append(old, slot) /\ slot \in ItemSlots
  <2>1. msgBuffers \in [PEs -> [slots : Seq(ItemSlots), cap : Nat]]
    BY DEF Buffers
  <2>2. msgBuffers[n] \in [slots : Seq(ItemSlots), cap : Nat]
    BY <1>4, <2>1
  <2>3. B[n].slots = slots /\ \A e \in PEs : e # n => B[e] = B0[e]
    BY <1>1, <1>4, <1>7, <2>1
  <2>4. slot \in ItemSlots
    BY <1>1 DEF ItemSlots, Slot
  <2>. QED BY <1>1, <2>2, <2>3, <2>4 DEF Store
<1>9. slot.item = x /\ slot.pe = AnyPE
  BY <1>1 DEF Slot
<1>10. Stored(L, B, W, R, now, del)
  <2>1. \A a, e, t : InSlots(B, a, e, t) <=>
          InSlots(B0, a, e, t) \/ (a = <<"slot", n, Len(old) + 1>> /\ e = n /\ t = slot)
    BY <1>1, <1>4, <1>8, SlotAppended
  <2>2. PICK b : b = <<"slot", n, Len(old) + 1>>
    OBVIOUS
  <2>3. Adds(L, B0, W, L, B, b, n, slot)
    BY <1>9, <2>1, <2>2 DEF Has, Adds
  <2>4. /\ IsFresh(ins, del, slot.item) /\ slot.item \in Items
        /\ now = ins \cup {RequestFor(n, slot)}
    BY <1>2, <1>6, <1>9 DEF IsFresh, RequestFor
  <2>. QED BY <1>5, <2>3, <2>4, StorePhase
<1>11. ForDests(agg, B)
  BY <1>4, <1>5, <1>8 DEF ForDests
<1>12. DOMAIN refs' = R /\ delivered' = del /\ inserted' = now
  BY <1>1
<1>13. CASE msgBuffers' = B /\ wire' = W
  BY <1>2, <1>6, <1>10, <1>11, <1>12, <1>13 DEF Kept
<1>14. ASSUME NEW c, /\ wire' = W \cup {Message("receiveOnProc", n, slots, c)}
                     /\ msgBuffers' = [msgBuffers EXCEPT ![n] = NewMessage(bufSize)]
       PROVE  Kept'
  <2>1. PICK m, B2, W2, sent, g :
          /\ m = Message("receiveOnProc", n, slots, c) /\ B2 = msgBuffers' /\ W2 = wire'
          /\ sent = [e \in {n} |-> Message("receiveOnProc", n, slots, c)] /\ g = {}
    OBVIOUS
  <2>2. m.entry = "receiveOnProc" /\ m.dest = n /\ m.items = slots
    BY <2>1 DEF Message
  <2>3. \A e \in PEs : B2[e].slots = IF e \in {n} THEN <<>> ELSE B[e].slots
    <3>1. msgBuffers \in [PEs -> [slots : Seq(ItemSlots), cap : Nat]]
      BY DEF Buffers
    <3>. QED BY <1>1, <1>4, <1>8, <1>14, <2>1, <3>1 DEF NewMessage
  <2>4. Ships(L, B, W, L, B2, W2, {n}, {}, sent, g)
    <3>1. W2 = W \cup {sent[e] : e \in {n}}
      BY <1>14, <2>1
    <3>2. \A e \in {n} : sent[e].dest = e /\ sent[e].items = B[e].slots
      BY <1>8, <2>1, <2>2
    <3>. QED BY <1>4, <2>3, <3>1, <3>2 DEF Ships
  <2>5. \A i \in DOMAIN slots : slots[i] \in Payload /\ slots[i].pe = AnyPE
    <3>1. /\ LocalsFor(agg, L)
          /\ CountedBy(L, n, slots) \/ ForNodeBy(L, n, slots)
      BY <1>3 DEF StoredFor, Fills
    <3>2. Len(slots) = Len(old) + 1 /\ slots[Len(slots)] = slot /\ Len(slots) \in Nat
          /\ Len(slots) \in 1 .. Len(slots) /\ DOMAIN slots = 1 .. Len(slots)
      BY <1>8
    <3>3. ~CountedBy(L, n, slots)
      BY <1>9, <3>2, PlainAssumption DEF CountedBy, Unwritten, Slot, PlainAssumption
    <3>4. \A i \in DOMAIN slots : slots[i] \in [item : Items, pe : {AnyPE}]
      BY <3>1, <3>2, <3>3 DEF ForNodeBy
    <3>. QED BY <3>4 DEF Payload
  <2>6. Shaped(m)
    <3>1. slots \in Seq(Payload)
      BY <1>4, <2>5
    <3>. QED BY <2>2, <2>5, <3>1 DEF Shaped
  <2>7. \A e \in {n} : Shaped(sent[e])
    BY <2>1, <2>6
  <2>8. Stored(L, B2, W2, R, now, del)
    BY <1>10, <2>4, <2>7, ShipPhase
  <2>9. ForDests(agg, B2)
    <3>1. DOMAIN <<>> = {}
      OBVIOUS
    <3>. QED BY <1>11, <2>3, <3>1 DEF ForDests
  <2>. QED BY <1>2, <1>6, <1>12, <2>1, <2>8, <2>9 DEF Kept
<1>. QED BY <1>1, <1>2, <1>7, <1>13, <1>14

LEMMA FlushKept ==
  ASSUME Kept, Contained, Buffers, TFlush, UNCHANGED <<refs, delivered>>
  PROVE  Kept'
<1>1. PICK L, B, W, R, del, ins, S, c, L2, B2, W2 :
        /\ L = localBuffers /\ B = msgBuffers /\ W = wire /\ R = DOMAIN refs
        /\ del = delivered /\ ins = inserted /\ S = Partial /\ c = Cardinality(inserted)
        /\ L2 = localBuffers' /\ B2 = msgBuffers' /\ W2 = wire'
  OBVIOUS
<1>2. /\ L2 = LocalsLeft(L, S) /\ S \subseteq Dests(agg)
      /\ B2 = [d \in PEs |-> IF d \in S THEN NewMessage(bufSize) ELSE B[d]]
      /\ W2 = W \cup Leaving(L, B, S, c)
      /\ agg' = agg /\ inserted' = ins /\ DOMAIN refs' = R /\ delivered' = del
  BY <1>1 DEF TFlush, Partial, Leaving
<1>3. /\ Stored(L, B, W, R, ins, del) /\ ForDests(agg, B)
      /\ Asks(ins) /\ Handed(ins, del)
  BY <1>1 DEF Kept
<1>4. Leavable(L, B, S)
  <2>1. \A d \in Dests(agg) : B[d].slots \in Seq(ItemSlots)
    BY <1>1, DestsArePEs DEF Buffers
  <2>. QED BY <1>1, <1>2, <2>1 DEF Contained, ContainedBy, Buffers, Leavable
<1>5. Emptied(B, B2, S)
  BY <1>2 DEF NewMessage, Emptied
<1>6. Stored(L2, B2, W2, R, ins, del) /\ ForDests(agg, B2)
  BY <1>2, <1>3, <1>4, <1>5, LeavesStored
<1>. QED BY <1>1, <1>2, <1>3, <1>6 DEF Kept

\* With nothing buffered the sizes and modes find nothing to lose.
LEMMA KnobKept ==
  ASSUME Kept, Buffers,
         \/ \E n \in BufSizes : SetBufferSize(n)
         \/ \E mode \in Modes : ResetStats(mode),
         UNCHANGED <<refs, delivered>>
  PROVE  Kept'
<1>1. PICK L, B, W, R, del, ins, B2 :
        /\ L = localBuffers /\ B = msgBuffers /\ W = wire /\ R = DOMAIN refs
        /\ del = delivered /\ ins = inserted /\ B2 = msgBuffers'
  OBVIOUS
<1>2. /\ Partial = {} /\ wire' = W /\ localBuffers' = L /\ inserted' = ins
      /\ DOMAIN refs' = R /\ delivered' = del
  BY <1>1 DEF SetBufferSize, ResetStats
<1>3. /\ Stored(L, B, W, R, ins, del) /\ ForDests(agg, B)
      /\ Asks(ins) /\ Handed(ins, del)
  BY <1>1 DEF Kept
<1>4. ASSUME NEW d \in PEs PROVE B[d].slots = <<>>
  <2>1. CASE d \in Dests(agg)
    <3>1. Len(B[d].slots) = 0
      BY <1>1, <1>2, <2>1 DEF Partial, NextOf
    <3>2. B[d].slots \in Seq(ItemSlots)
      BY <1>1 DEF Buffers
    <3>. QED BY <3>1, <3>2
  <2>2. CASE d \notin Dests(agg)
    BY <1>3, <2>2 DEF ForDests
  <2>. QED BY <2>1, <2>2
<1>5. ASSUME NEW d \in PEs PROVE B2[d].slots = <<>>
  <2>1. B2[d].slots = <<>> \/ B2[d] = B[d]
    BY <1>1 DEF SetBufferSize, ResetStats, Refresh, NewMessage
  <2>. QED BY <1>4, <2>1
<1>6. \A a, d, s : InSlots(B2, a, d, s) <=> InSlots(B, a, d, s)
  BY <1>4, <1>5 DEF InSlots
<1>7. \A M, a, d, s : Has(L, B2, M, a, d, s) <=> Has(L, B, M, a, d, s)
  BY <1>6 DEF Has
<1>8. Stored(L, B2, W, R, ins, del)
  <2>1. PICK M : M = W \cup R
    OBVIOUS
  <2>2. /\ Apart(L, B, M) /\ AllAsked(L, B, M, ins) /\ NoneDone(L, B, W, del)
        /\ NoneLost(L, B, M, ins, del) /\ \A m \in W : Shaped(m)
    BY <1>3, <2>1 DEF Stored
  <2>3. Apart(L, B2, M) /\ AllAsked(L, B2, M, ins) /\ NoneDone(L, B2, W, del)
    BY <1>7, <2>2 DEF Apart, AllAsked, NoneDone
  <2>4. NoneLost(L, B2, M, ins, del)
    BY <1>7, <2>2 DEF NoneLost
  <2>. QED BY <2>1, <2>2, <2>3, <2>4 DEF Stored
<1>9. \A mode : ForDests(mode, B2)
  <2>1. DOMAIN <<>> = {}
    OBVIOUS
  <2>. QED BY <1>5, <2>1 DEF ForDests
<1>. QED BY <1>1, <1>2, <1>3, <1>8, <1>9 DEF Kept

(***************************************************************************)
(* The receiving side: an item of a shared message is handed over if and   *)
(* only if the delivery to its PE is not to come any more.                 *)
(***************************************************************************)
Pending(q, run, m, pe) ==
  \/ m \in ToSet(q[pe])
  \/ \E p \in PEs : /\ InLoop(run[p]) /\ run[p].msg = m
                    /\ NodeOf(p) = NodeOf(pe) /\ run[p].rank <= Rank(pe)

PendingIn(m, q, run, del) ==
  /\ Shaped(m) /\ ForThePEs(m)
  /\ \A i \in DOMAIN m.items : m.items[i].pe # AnyPE =>
       (del[m.items[i].item] = <<>> <=> Pending(q, run, m, m.items[i].pe))

AllPending(R, q, run, del) == \A m \in R : PendingIn(m, q, run, del)

Homes(q, run) ==
  \A p \in PEs : /\ \A m \in ToSet(q[p]) : m.dest = NodeOf(p)
                 /\ InLoop(run[p]) => run[p].msg.dest = NodeOf(p)

Whole == Kept /\ AllPending(DOMAIN refs, queue, running, delivered) /\ Homes(queue, running)

\* The callback at a place gets the items of S, all asked for there, at once.
Delivers(ins, del, del2, S, at) ==
  /\ S \subseteq Items /\ at \in Places
  /\ \A x \in S : del[x] = <<>> /\ [item |-> x, place |-> at] \in ins
  /\ del2 = [x \in Items |-> IF x \in S THEN <<at>> ELSE del[x]]

LEMMA HandsOver ==
  ASSUME NEW R, \A k, l \in DOMAIN R : R[k] = R[l] => k = l, NEW at \in Places,
         HandTo(R, at), NEW ins, Handed(ins, delivered),
         NEW S, S = {R[k] : k \in DOMAIN R}, S \subseteq Items,
         \A x \in S : delivered[x] = <<>> /\ [item |-> x, place |-> at] \in ins
  PROVE  Delivers(ins, delivered, delivered', S, at)
<1>1. /\ delivered' = [x \in Items |-> delivered'[x]]
      /\ \A x \in Items : \A k \in DOMAIN R :
           R[k] = x /\ delivered[x] = <<>> => delivered'[x] = <<at>>
      /\ \A x \in Items : (\A k \in DOMAIN R : R[k] # x) =>
           delivered'[x] = delivered[x] \o <<>>
  BY HandedIs
<1>2. ASSUME NEW x \in Items PROVE delivered'[x] = IF x \in S THEN <<at>> ELSE delivered[x]
  <2>1. CASE x \in S
    BY <1>1, <2>1
  <2>2. CASE x \notin S
    <3>1. delivered'[x] = delivered[x] \o <<>>
      BY <1>1, <2>2
    <3>2. delivered[x] = <<>> \/ \E p \in Places : delivered[x] = <<p>>
      BY DEF Handed
    <3>3. <<>> \o <<>> = <<>> /\ \A p : <<p>> \o <<>> = <<p>>
      OBVIOUS
    <3>. QED BY <2>2, <3>1, <3>2, <3>3
  <2>. QED BY <2>1, <2>2
<1>3. delivered' = [x \in Items |-> IF x \in S THEN <<at>> ELSE delivered[x]]
  BY <1>1, <1>2
<1>. QED BY <1>3 DEF Delivers

LEMMA InMessages ==
  ASSUME NEW L, NEW B, NEW M, NEW m \in M, Shaped(m), NEW i \in DOMAIN m.items
  PROVE  /\ Has(L, B, M, <<"msg", m, i>>, m.dest, m.items[i])
         /\ m.items[i].item \in Items
<1>1. m.items \in Seq(Payload)
  BY DEF Shaped
<1>2. m.items[i].item \in Items
  BY <1>1, PayloadIs
<1>. QED BY <1>2 DEF Has, InMessage

LEMMA OneMessage ==
  ASSUME NEW L, NEW B, NEW M, Apart(L, B, M), NEW m \in M, Shaped(m),
         NEW i \in DOMAIN m.items, NEW a, NEW d, NEW s, Has(L, B, M, a, d, s),
         s.item = m.items[i].item
  PROVE  a = <<"msg", m, i>>
<1>1. Has(L, B, M, <<"msg", m, i>>, m.dest, m.items[i])
  BY InMessages
<1>. QED BY <1>1 DEF Apart

LEMMA OnceIn ==
  ASSUME NEW L, NEW B, NEW M, Apart(L, B, M), NEW m \in M, Shaped(m)
  PROVE  Once(m.items)
<1>1. ASSUME NEW i \in DOMAIN m.items, NEW j \in DOMAIN m.items,
             m.items[i].item = m.items[j].item
      PROVE  i = j
  <2>1. Has(L, B, M, <<"msg", m, j>>, m.dest, m.items[j])
    BY InMessages
  <2>2. <<"msg", m, j>> = <<"msg", m, i>>
    BY <1>1, <2>1, OneMessage
  <2>. QED BY <2>2
<1>. QED BY <1>1 DEF Once

LEMMA HasMore ==
  ASSUME NEW L, NEW B, NEW M, NEW M2, M \subseteq M2, NEW a, NEW d, NEW s,
         Has(L, B, M, a, d, s)
  PROVE  Has(L, B, M2, a, d, s)
BY DEF Has, InMessage

\* When W becomes W2, all that goes with it are items of S, and all of those.
Takes(L, B, W, R, W2, S) ==
  /\ W2 \subseteq W
  /\ \A a, d, s : Has(L, B, W2, a, d, s) => s.item \notin S
  /\ \A a, d, s : Has(L, B, W \cup R, a, d, s) =>
       s.item \in S \/ Has(L, B, W2 \cup R, a, d, s)

\* Items of messages are handed over, and the messages may go.
LEMMA HandsStored ==
  ASSUME NEW L, NEW B, NEW W, NEW R, NEW ins, NEW del, Stored(L, B, W, R, ins, del),
         Handed(ins, del), Asks(ins), NEW del2, NEW S, NEW at, Delivers(ins, del, del2, S, at),
         NEW W2, Takes(L, B, W, R, W2, S)
  PROVE  Stored(L, B, W2, R, ins, del2) /\ Handed(ins, del2)
<1>1. PICK M, M2 : M = W \cup R /\ M2 = W2 \cup R
  OBVIOUS
<1>2. M2 \subseteq M /\ W2 \subseteq W
  BY <1>1 DEF Takes
<1>3. /\ Apart(L, B, M) /\ AllAsked(L, B, M, ins) /\ NoneDone(L, B, W, del)
      /\ NoneLost(L, B, M, ins, del) /\ \A m \in W : Shaped(m)
  BY <1>1 DEF Stored
<1>4. \A a, d, s : Has(L, B, M2, a, d, s) => Has(L, B, M, a, d, s)
  BY <1>2, HasMore
<1>5. Apart(L, B, M2) /\ AllAsked(L, B, M2, ins)
  BY <1>3, <1>4 DEF Apart, AllAsked
<1>6. \A x \in Items : /\ x \in S => del2[x] = <<at>>
                       /\ x \notin S => del2[x] = del[x]
  BY DEF Delivers
<1>7. NoneDone(L, B, W2, del2)
  <2>. SUFFICES ASSUME NEW a, NEW d, NEW s, Has(L, B, W2, a, d, s)
                PROVE  del2[s.item] = <<>>
    BY DEF NoneDone
  <2>1. Has(L, B, W, a, d, s) /\ s.item \notin S /\ s.item \in Items
    BY <1>2, HasMore DEF Has, Takes
  <2>. QED BY <1>3, <1>6, <2>1 DEF NoneDone
<1>8. <<at>> # <<>>
  OBVIOUS
<1>9. NoneLost(L, B, M2, ins, del2)
  <2>. SUFFICES ASSUME NEW r \in ins, NEW pe \in PEs, r.place = OnPE(pe),
                       del2[r.item] = <<>>, r.item \in Items
                PROVE  \E a, d, s : Has(L, B, M2, a, d, s) /\ s.item = r.item
    <3>1. \A r \in ins : r.item \in Items
      BY DEF Asks
    <3>. QED BY <3>1 DEF NoneLost
  <2>1. r.item \notin S /\ del[r.item] = <<>>
    BY <1>6, <1>8
  <2>2. PICK a, d, s : Has(L, B, M, a, d, s) /\ s.item = r.item
    BY <1>3, <2>1 DEF NoneLost
  <2>3. Has(L, B, M2, a, d, s)
    BY <1>1, <2>1, <2>2 DEF Takes
  <2>. QED BY <2>2, <2>3
<1>10. Handed(ins, del2)
  <2>1. del2 = [x \in Items |-> del2[x]]
    BY DEF Delivers
  <2>2. ASSUME NEW x \in Items
        PROVE  /\ del2[x] = <<>> \/ \E p \in Places : del2[x] = <<p>>
               /\ del2[x] # <<>> => \E r \in ins : r.item = x
    <3>1. CASE x \in S
      <4>1. del2[x] = <<at>> /\ at \in Places /\ [item |-> x, place |-> at] \in ins
        BY <1>6, <3>1 DEF Delivers
      <4>. QED BY <4>1
    <3>2. CASE x \notin S
      BY <1>6, <3>2 DEF Handed
    <3>. QED BY <3>1, <3>2
  <2>. QED BY <2>1, <2>2 DEF Handed
<1>. QED BY <1>1, <1>2, <1>3, <1>5, <1>7, <1>9, <1>10 DEF Stored

\* A message arrives: what it has is to be delivered to all PEs of the node.
LEMMA ArrivalWhole ==
  ASSUME DeliveryInv, Whole, NEW pe \in PEs, NEW m, NEW entry,
         entry \in {"receive", "receive_no_sort"}, Arrives(pe, m, entry),
         NEW skip, StartFanOut(pe, m, skip), UNCHANGED sender
  PROVE  Whole'
<1>. DEFINE v == FansOut(m, skip)
<1>1. PICK L, B, W, R, ins, del, q, run, run2 :
        /\ L = localBuffers /\ B = msgBuffers /\ W = wire /\ R = DOMAIN refs
        /\ ins = inserted /\ del = delivered /\ q = queue /\ run = running
        /\ run2 = running'
  OBVIOUS
<1>2. /\ DOMAIN run = PEs /\ run[pe] = Idle /\ m \in W /\ m.entry = entry
      /\ m.dest = NodeOf(pe) /\ run2 = [run EXCEPT ![pe] = v]
      /\ W \cap R = {} /\ \A k : k \in R <=> Due(q, k) # {} \/ Readers(run, k) # {}
  BY <1>1 DEF DeliveryInv, Sharing, Handlers, Arrives, StartFanOut, Exact
<1>3. /\ localBuffers' = L /\ msgBuffers' = B /\ inserted' = ins /\ delivered' = del
      /\ queue' = q /\ wire' = W \ {m} /\ DOMAIN refs' = R \cup {m} /\ agg' = agg
  BY <1>1 DEF sender, Arrives, StartFanOut
<1>4. /\ Stored(L, B, W, R, ins, del) /\ ForDests(agg, B)
      /\ Asks(ins) /\ Handed(ins, del) /\ AllPending(R, q, run, del) /\ Homes(q, run)
  BY <1>1 DEF Whole, Kept
<1>5. v # Idle /\ v.msg = m /\ InLoop(v) /\ v.rank = 0 /\ ~InLoop(Idle)
  BY DEF FansOut, Idle, InLoop
<1>6. Stored(L, B, W \ {m}, R \cup {m}, ins, del)
  <2>1. PICK M : M = W \cup R
    OBVIOUS
  <2>2. (W \ {m}) \cup (R \cup {m}) = M
    BY <1>2, <2>1
  <2>3. \A a, d, s : Has(L, B, W \ {m}, a, d, s) => Has(L, B, W, a, d, s)
    BY HasMore
  <2>4. /\ Apart(L, B, M) /\ AllAsked(L, B, M, ins) /\ NoneDone(L, B, W, del)
        /\ NoneLost(L, B, M, ins, del) /\ \A k \in W : Shaped(k)
    BY <1>4, <2>1 DEF Stored
  <2>5. NoneDone(L, B, W \ {m}, del)
    BY <2>3, <2>4 DEF NoneDone
  <2>. QED BY <2>2, <2>4, <2>5 DEF Stored
<1>7. \A p \in PEs : run2[p] = IF p = pe THEN v ELSE run[p]
  BY <1>2
<1>8. ASSUME NEW k \in R, NEW e PROVE Pending(q, run2, k, e) <=> Pending(q, run, k, e)
  <2>1. k # m
    BY <1>2
  <2>. QED BY <1>2, <1>5, <1>7, <2>1 DEF Pending
<1>9. PendingIn(m, q, run2, del)
  <2>1. Shaped(m) /\ ForThePEs(m) /\ NoneDone(L, B, W, del)
    BY <1>2, <1>4 DEF Stored, ForThePEs
  <2>2. ASSUME NEW i \in DOMAIN m.items, m.items[i].pe # AnyPE
        PROVE  del[m.items[i].item] = <<>> /\ Pending(q, run2, m, m.items[i].pe)
    <3>1. del[m.items[i].item] = <<>>
      BY <1>2, <2>1, InMessages DEF NoneDone
    <3>2. m.items[i].pe \in PEs /\ NodeOf(m.items[i].pe) = NodeOf(pe)
      <4>1. m.items \in Seq(Payload)
        BY <2>1 DEF Shaped
      <4>. QED BY <1>2, <2>1, <2>2, <4>1, PayloadIs DEF Shaped, ForThePEs
    <3>3. 0 <= Rank(m.items[i].pe)
      BY <3>2, RankFacts
    <3>. QED BY <1>5, <1>7, <3>1, <3>2, <3>3 DEF Pending
  <2>. QED BY <2>1, <2>2 DEF PendingIn
<1>10. AllPending(R \cup {m}, q, run2, del)
  <2>1. ASSUME NEW k \in R PROVE PendingIn(k, q, run2, del)
    BY <1>4, <1>8, <2>1 DEF AllPending, PendingIn
  <2>. QED BY <1>9, <2>1 DEF AllPending
<1>11. Homes(q, run2)
  BY <1>2, <1>4, <1>5, <1>7 DEF Homes
<1>. QED BY <1>1, <1>3, <1>4, <1>6, <1>10, <1>11 DEF Whole, Kept

\* What receivers leave alone.
LEMMA SenderSame ==
  ASSUME UNCHANGED sender
  PROVE  UNCHANGED <<localBuffers, msgBuffers, inserted, agg>>
BY DEF sender

\* A turn of the loop that skips its PE: no item was for that PE.
LEMMA SkipWhole ==
  ASSUME DeliveryInv, Whole, NEW pe \in PEs, NEW m, m = running[pe].msg,
         NEW r, r = running[pe].rank,
         InLoop(running[pe]), r < NodeSize, Skips(m, r),
         UNCHANGED <<wire, refs, queue, delivered, sender>>,
         running' = [running EXCEPT ![pe].rank = @ + 1]
  PROVE  Whole'
<1>1. PICK R, del, q, run, run2 :
        /\ R = DOMAIN refs /\ del = delivered /\ q = queue /\ run = running
        /\ run2 = running'
  OBVIOUS
<1>2. /\ DOMAIN run = PEs /\ r \in 0 .. NodeSize /\ NodeSize \in Nat
      /\ run[pe] = [at |-> "fanout", msg |-> m, rank |-> r, skip |-> run[pe].skip]
  BY <1>1, HandlerFacts, WireAssumption
     DEF DeliveryInv, Sharing, Handlers, InLoop, Idle, CallsBack, WireAssumption
<1>3. /\ run2[pe] = [at |-> "fanout", msg |-> m, rank |-> r + 1, skip |-> run[pe].skip]
      /\ \A p \in PEs \ {pe} : run2[p] = run[p]
  BY <1>1, <1>2
<1>4. Kept /\ AllPending(R, q, run, del) /\ Homes(q, run)
  BY <1>1 DEF Whole
<1>5. InLoop(run[pe]) /\ InLoop(run2[pe]) /\ run[pe].msg = m /\ run2[pe].msg = m
      /\ run[pe].rank = r /\ run2[pe].rank = r + 1
  BY <1>2, <1>3 DEF InLoop
<1>6. m \in R /\ m.dest = NodeOf(pe)
  BY <1>1, <1>4, <1>5, HandlerFacts, ReaderHasCount DEF DeliveryInv, Sharing, Homes
<1>7. ASSUME NEW k, NEW e \in PEs, k # m \/ ~(NodeOf(e) = NodeOf(pe) /\ Rank(e) = r)
      PROVE  Pending(q, run2, k, e) <=> Pending(q, run, k, e)
  <2>1. Rank(e) \in Int
    BY RankFacts, WireAssumption DEF WireAssumption
  <2>2. /\ InLoop(run2[pe]) /\ run2[pe].msg = k /\ NodeOf(pe) = NodeOf(e)
          /\ run2[pe].rank <= Rank(e)
        <=> /\ InLoop(run[pe]) /\ run[pe].msg = k /\ NodeOf(pe) = NodeOf(e)
            /\ run[pe].rank <= Rank(e)
    BY <1>2, <1>5, <1>7, <2>1
  <2>. QED BY <1>3, <2>2 DEF Pending
<1>8. ASSUME NEW i \in DOMAIN m.items, m.items[i].pe # AnyPE, Shaped(m)
      PROVE  m.items[i].pe \in PEs /\ Rank(m.items[i].pe) # r
  <2>1. m.items \in Seq(Payload)
    BY <1>8 DEF Shaped
  <2>2. m.items[i].pe \in PEs /\ DOMAIN m.items = 1 .. Len(m.items) /\ Len(m.items) \in Nat
    BY <1>8, <2>1, PayloadIs
  <2>3. PICK S : S = {j \in DOMAIN m.items : Rank(m.items[j].pe) = r}
    OBVIOUS
  <2>4. r \in 0 .. NodeSize - 1
    BY <1>2
  <2>5. Cardinality(S) = 0
    BY <2>3, <2>4 DEF Skips, Sizes
  <2>6. IsFiniteSet(S)
    <3>1. PICK n : n = Len(m.items)
      OBVIOUS
    <3>2. n \in Nat /\ S \subseteq 1 .. n
      BY <2>2, <2>3, <3>1
    <3>3. IsFiniteSet(1 .. n)
      BY <3>2, FS_Interval
    <3>. QED BY <3>2, <3>3, FS_Subset
  <2>7. S = {}
    BY <2>5, <2>6, FS_EmptySet
  <2>. QED BY <2>2, <2>3, <2>7
<1>9. AllPending(R, q, run2, del)
  <2>1. ASSUME NEW k \in R PROVE PendingIn(k, q, run2, del)
    <3>1. Shaped(k) /\ ForThePEs(k)
      BY <1>4 DEF AllPending, PendingIn
    <3>2. ASSUME NEW i \in DOMAIN k.items, k.items[i].pe # AnyPE
          PROVE  del[k.items[i].item] = <<>> <=> Pending(q, run2, k, k.items[i].pe)
      <4>1. del[k.items[i].item] = <<>> <=> Pending(q, run, k, k.items[i].pe)
        BY <1>4, <3>2 DEF AllPending, PendingIn
      <4>2. k.items[i].pe \in PEs
        <5>1. k.items \in Seq(Payload)
          BY <3>1 DEF Shaped
        <5>. QED BY <3>2, <5>1, PayloadIs
      <4>3. k # m \/ Rank(k.items[i].pe) # r
        BY <1>8, <3>1, <3>2
      <4>. QED BY <1>7, <4>1, <4>2, <4>3
    <3>. QED BY <3>1, <3>2 DEF PendingIn
  <2>. QED BY <2>1 DEF AllPending
<1>10. Homes(q, run2)
  BY <1>3, <1>4, <1>5, <1>6 DEF Homes
<1>11. Kept'
  BY <1>4, SenderSame DEF Kept
<1>. QED BY <1>1, <1>9, <1>10, <1>11 DEF Whole

\* The PE of an item of a shared message.
LEMMA ItemPE ==
  ASSUME NEW m, Shaped(m), NEW i \in DOMAIN m.items, m.items[i].pe # AnyPE
  PROVE  m.items[i].pe \in PEs
<1>1. m.items \in Seq(Payload)
  BY DEF Shaped
<1>. QED BY <1>1, PayloadIs

\* Nothing is handed over, and what is to come stays.
LEMMA SamePending ==
  ASSUME NEW R, NEW q, NEW run, NEW del, AllPending(R, q, run, del), NEW q2, NEW run2,
         \A k, e : k \in R /\ e \in PEs => (Pending(q2, run2, k, e) <=> Pending(q, run, k, e))
  PROVE  AllPending(R, q2, run2, del)
<1>1. ASSUME NEW k \in R PROVE PendingIn(k, q2, run2, del)
  <2>1. Shaped(k) /\ ForThePEs(k)
    BY DEF AllPending, PendingIn
  <2>2. ASSUME NEW i \in DOMAIN k.items, k.items[i].pe # AnyPE
        PROVE  del[k.items[i].item] = <<>> <=> Pending(q2, run2, k, k.items[i].pe)
    <3>1. del[k.items[i].item] = <<>> <=> Pending(q, run, k, k.items[i].pe)
      BY <2>2 DEF AllPending, PendingIn
    <3>2. k.items[i].pe \in PEs
      BY <2>1, <2>2, ItemPE
    <3>. QED BY <3>1, <3>2
  <2>. QED BY <2>1, <2>2 DEF PendingIn
<1>. QED BY <1>1 DEF AllPending

\* A turn of the loop that sends: the delivery is to come from the queue now.
LEMMA SendWhole ==
  ASSUME DeliveryInv, Whole, NEW pe \in PEs, NEW m, NEW e, SendsTo(pe, m, e),
         UNCHANGED <<delivered, sender>>
  PROVE  Whole'
<1>1. PICK R, del, q, run, q2, run2, r :
        /\ R = DOMAIN refs /\ del = delivered /\ q = queue /\ run = running
        /\ q2 = queue' /\ run2 = running' /\ r = running[pe].rank
  OBVIOUS
<1>2. /\ DOMAIN run = PEs /\ r \in 0 .. NodeSize /\ NodeSize \in Nat
      /\ run[pe] = [at |-> "fanout", msg |-> m, rank |-> r, skip |-> run[pe].skip]
      /\ r < NodeSize /\ m = run[pe].msg /\ InLoop(run[pe])
      /\ e = PEAt(NodeOf(pe), r)
  BY <1>1, HandlerFacts, WireAssumption
     DEF DeliveryInv, Sharing, Handlers, InLoop, Idle, CallsBack, WireAssumption, SendsTo
<1>3. /\ run2[pe] = [at |-> "fanout", msg |-> m, rank |-> r + 1, skip |-> run[pe].skip]
      /\ \A p \in PEs \ {pe} : run2[p] = run[p]
      /\ wire' = wire
  BY <1>1, <1>2 DEF SendsTo
<1>4. Kept /\ AllPending(R, q, run, del) /\ Homes(q, run)
  BY <1>1 DEF Whole
<1>5. InLoop(run[pe]) /\ InLoop(run2[pe]) /\ run[pe].msg = m /\ run2[pe].msg = m
      /\ run[pe].rank = r /\ run2[pe].rank = r + 1
  BY <1>2, <1>3 DEF InLoop
<1>6. m \in R /\ m.dest = NodeOf(pe) /\ DOMAIN refs' = R
  BY <1>1, <1>4, <1>5, HandlerFacts, ReaderHasCount, SendStep DEF DeliveryInv, Sharing, Homes
<1>7. r \in 0 .. NodeSize - 1 /\ NodeOf(pe) \in Nodes
  BY <1>2, NodeFacts
<1>8. e \in PEs /\ NodeOf(e) = NodeOf(pe) /\ Rank(e) = r
  <2>1. e \in PEs /\ NodeOf(e) = NodeOf(pe)
    BY <1>2, <1>7, NodeOfPEAt
  <2>2. PICK s, n : s = NodeSize /\ n = NodeOf(pe)
    OBVIOUS
  <2>3. s \in Nat \ {0} /\ r \in 0 .. s - 1 /\ n \in Nat
    BY <1>2, <1>7, <2>2 DEF Nodes
  <2>4. (n * s + r) % s = r
    BY <2>3
  <2>. QED BY <1>2, <2>1, <2>2, <2>4 DEF Rank, PEAt
<1>9. /\ ToSet(q2[e]) = ToSet(q[e]) \cup {m}
      /\ \A p \in PEs \ {e} : q2[p] = q[p]
  <2>1. DOMAIN q = PEs /\ IsQueue(q[e]) /\ q2 = [q EXCEPT ![e] = Append(@, m)]
    BY <1>1, <1>8 DEF DeliveryInv, Sharing, SendsTo
  <2>2. q2[e] = Append(q[e], m)
    BY <1>8, <2>1
  <2>3. m \notin ToSet(q[e])
    BY <1>1, <1>2, <1>5, <1>7 DEF DeliveryInv, Sharing, Loops, Ahead
  <2>. QED BY <2>1, <2>2, <2>3, AppendQueue
<1>10. ASSUME NEW k \in R, NEW f \in PEs
       PROVE  Pending(q2, run2, k, f) <=> Pending(q, run, k, f)
  <2>1. Rank(f) \in Int
    BY RankFacts, WireAssumption DEF WireAssumption
  <2>2. CASE k = m /\ f = e
    <3>1. Pending(q, run, k, f)
      BY <1>2, <1>5, <1>8, <2>2 DEF Pending
    <3>2. Pending(q2, run2, k, f)
      BY <1>9, <2>2 DEF Pending
    <3>. QED BY <3>1, <3>2
  <2>3. CASE k # m \/ f # e
    <3>1. k \in ToSet(q2[f]) <=> k \in ToSet(q[f])
      BY <1>9, <2>3
    <3>2. NodeOf(f) = NodeOf(pe) /\ Rank(f) = r => f = e
      BY <1>8, SamePE
    <3>3. /\ InLoop(run2[pe]) /\ run2[pe].msg = k /\ NodeOf(pe) = NodeOf(f)
            /\ run2[pe].rank <= Rank(f)
          <=> /\ InLoop(run[pe]) /\ run[pe].msg = k /\ NodeOf(pe) = NodeOf(f)
              /\ run[pe].rank <= Rank(f)
      BY <1>2, <1>5, <2>1, <2>3, <3>2
    <3>. QED BY <1>3, <3>1, <3>3 DEF Pending
  <2>. QED BY <2>2, <2>3
<1>11. AllPending(R, q2, run2, del)
  BY <1>4, <1>10, SamePending
<1>12. Homes(q2, run2)
  BY <1>3, <1>4, <1>5, <1>6, <1>8, <1>9 DEF Homes
<1>13. Kept'
  BY <1>1, <1>3, <1>4, <1>6, SenderSame DEF Kept
<1>. QED BY <1>1, <1>6, <1>11, <1>12, <1>13 DEF Whole

\* A message is freed when nothing of it is to come.
LEMMA FreedStored ==
  ASSUME NEW L, NEW B, NEW W, NEW R, NEW ins, NEW del, Stored(L, B, W, R, ins, del),
         Asks(ins), NEW R2, R2 \subseteq R,
         \A m \in R \ R2 : \A i \in DOMAIN m.items :
           m.items[i].pe # AnyPE => del[m.items[i].item] # <<>>
  PROVE  Stored(L, B, W, R2, ins, del)
<1>1. PICK M, M2 : M = W \cup R /\ M2 = W \cup R2
  OBVIOUS
<1>2. /\ Apart(L, B, M) /\ AllAsked(L, B, M, ins) /\ NoneDone(L, B, W, del)
      /\ NoneLost(L, B, M, ins, del) /\ \A m \in W : Shaped(m)
  BY <1>1 DEF Stored
<1>3. \A a, d, s : Has(L, B, M2, a, d, s) => Has(L, B, M, a, d, s)
  <2>1. M2 \subseteq M
    BY <1>1
  <2>. QED BY <2>1, HasMore
<1>4. Apart(L, B, M2) /\ AllAsked(L, B, M2, ins)
  BY <1>2, <1>3 DEF Apart, AllAsked
<1>5. NoneLost(L, B, M2, ins, del)
  <2>. SUFFICES ASSUME NEW r \in ins, NEW pe \in PEs, r.place = OnPE(pe),
                       del[r.item] = <<>>
                PROVE  \E a, d, s : Has(L, B, M2, a, d, s) /\ s.item = r.item
    BY DEF NoneLost
  <2>1. PICK a, d, s : Has(L, B, M, a, d, s) /\ s.item = r.item
    BY <1>2 DEF NoneLost
  <2>2. CASE Has(L, B, W, a, d, s) \/ InMessage(R2, a, d, s)
    <3>1. Has(L, B, M2, a, d, s)
      BY <1>1, <2>1, <2>2, HasUnion DEF Has
    <3>. QED BY <2>1, <3>1
  <2>3. CASE ~Has(L, B, W, a, d, s) /\ ~InMessage(R2, a, d, s)
    <3>1. InMessage(R, a, d, s)
      BY <1>1, <2>1, <2>3, HasUnion
    <3>2. PICK m \in R : \E i \in DOMAIN m.items :
                 a = <<"msg", m, i>> /\ d = m.dest /\ s = m.items[i]
      BY <3>1 DEF InMessage
    <3>3. PICK i \in DOMAIN m.items : a = <<"msg", m, i>> /\ d = m.dest /\ s = m.items[i]
      BY <3>2
    <3>4. m \notin R2
      BY <2>3, <3>3 DEF InMessage
    <3>5. s.pe = AnyPE
      BY <2>1, <3>3, <3>4
    <3>6. [item |-> s.item, place |-> OnProc(d)] \in ins
      BY <1>2, <2>1, <3>5 DEF AllAsked, Asked
    <3>7. r.place = OnProc(d)
      BY <2>1, <3>6 DEF Asks
    <3>. QED BY <3>7 DEF OnProc, OnPE
  <2>. QED BY <2>2, <2>3
<1>. QED BY <1>1, <1>2, <1>4, <1>5 DEF Stored

\* The loop or a callback ends.
LEMMA StopWhole ==
  ASSUME DeliveryInv, Whole, NEW pe \in PEs, NEW m, Stops(pe, m),
         InLoop(running[pe]) => running[pe].rank = NodeSize,
         UNCHANGED <<delivered, sender>>
  PROVE  Whole'
<1>1. PICK L, B, W, R, ins, del, q, run, R2, run2 :
        /\ L = localBuffers /\ B = msgBuffers /\ W = wire /\ R = DOMAIN refs
        /\ ins = inserted /\ del = delivered /\ q = queue /\ run = running
        /\ R2 = DOMAIN refs' /\ run2 = running'
  OBVIOUS
<1>2. /\ DOMAIN run = PEs /\ run2[pe] = Idle /\ ~InLoop(Idle)
      /\ \A p \in PEs \ {pe} : run2[p] = run[p]
      /\ queue' = q /\ wire' = W
  BY <1>1 DEF DeliveryInv, Sharing, Handlers, Idle, InLoop, Stops
<1>3. /\ Stored(L, B, W, R, ins, del) /\ ForDests(agg, B)
      /\ Asks(ins) /\ Handed(ins, del) /\ AllPending(R, q, run, del) /\ Homes(q, run)
  BY <1>1 DEF Whole, Kept
<1>4. Sharing' /\ R2 \subseteq R
  BY <1>1, StopStep DEF DeliveryInv
<1>5. ASSUME NEW k \in R, NEW e \in PEs
      PROVE  Pending(q, run2, k, e) <=> Pending(q, run, k, e)
  <2>1. Rank(e) < NodeSize
    <3>1. PICK r, s : r = Rank(e) /\ s = NodeSize
      OBVIOUS
    <3>2. r \in 0 .. s - 1 /\ s \in Nat
      BY <3>1, RankFacts, WireAssumption DEF WireAssumption
    <3>3. r < s
      BY <3>2
    <3>. QED BY <3>1, <3>3
  <2>2. ~(InLoop(run[pe]) /\ run[pe].rank <= Rank(e))
    <3>1. Rank(e) \in Int /\ NodeSize \in Int
      BY RankFacts, WireAssumption DEF WireAssumption
    <3>. QED BY <1>1, <2>1, <3>1
  <2>. QED BY <1>2, <2>2 DEF Pending
<1>6. AllPending(R, q, run2, del)
  BY <1>3, <1>5, SamePending
<1>7. ASSUME NEW k \in R \ R2, NEW i \in DOMAIN k.items, k.items[i].pe # AnyPE
      PROVE  del[k.items[i].item] # <<>>
  <2>1. Due(q, k) = {} /\ Readers(run2, k) = {}
    BY <1>1, <1>2, <1>4 DEF Sharing, Exact
  <2>2. PendingIn(k, q, run2, del)
    BY <1>6 DEF AllPending
  <2>3. k.items[i].pe \in PEs
    BY <1>7, <2>2, ItemPE DEF PendingIn
  <2>4. \A p \in PEs : InLoop(run2[p]) => run2[p] # Idle
    BY <1>2
  <2>5. ~Pending(q, run2, k, k.items[i].pe)
    BY <2>1, <2>3, <2>4 DEF Pending, Due, Readers
  <2>. QED BY <1>7, <2>2, <2>5 DEF PendingIn
<1>8. Stored(L, B, W, R2, ins, del)
  BY <1>3, <1>4, <1>7, FreedStored
<1>9. AllPending(R2, q, run2, del)
  BY <1>4, <1>6 DEF AllPending
<1>10. Homes(q, run2)
  BY <1>2, <1>3 DEF Homes
<1>. QED BY <1>1, <1>2, <1>3, <1>8, <1>9, <1>10, SenderSame DEF Whole, Kept

\* The items of a message, and those for a PE.
All(m) == {m.items[i].item : i \in DOMAIN m.items}
For(m, pe) == {m.items[i].item : i \in {j \in DOMAIN m.items : m.items[j].pe = pe}}

\* receivePerPE: what the PE gets is no longer to come, the rest stays.
LEMMA ReadWhole ==
  ASSUME DeliveryInv, Whole, NEW pe \in PEs, ReceivePerPE(pe), UNCHANGED sender
  PROVE  /\ Whole'
         /\ \E S : Delivers(inserted, delivered, delivered', S, OnPE(pe))
<1>1. PICK L, B, W, R, ins, del, q, run, del2, q2, run2, m, S, at :
        /\ L = localBuffers /\ B = msgBuffers /\ W = wire /\ R = DOMAIN refs
        /\ ins = inserted /\ del = delivered /\ q = queue /\ run = running
        /\ del2 = delivered' /\ q2 = queue' /\ run2 = running'
        /\ m = Head(queue[pe]) /\ S = For(m, pe) /\ at = OnPE(pe)
  OBVIOUS
<1>2. /\ DOMAIN q = PEs /\ IsQueue(q[pe]) /\ q[pe] # <<>>
      /\ run[pe] = Idle /\ DOMAIN run = PEs
      /\ q2 = [q EXCEPT ![pe] = Tail(@)] /\ run2 = [run EXCEPT ![pe] = CallsBack(m)]
      /\ HandTo(RangeOf(m, pe), at) /\ wire' = W /\ DOMAIN refs' = R
      /\ Loops(q, run) /\ W \cap R = {}
      /\ \A k : Due(q, k) # {} => k \in R
  BY <1>1 DEF DeliveryInv, Sharing, Handlers, ReceivePerPE, Exact
<1>3. /\ Stored(L, B, W, R, ins, del) /\ ForDests(agg, B)
      /\ Asks(ins) /\ Handed(ins, del) /\ AllPending(R, q, run, del) /\ Homes(q, run)
  BY <1>1 DEF Whole, Kept
<1>4. /\ m \in ToSet(q[pe]) /\ ToSet(q2[pe]) = ToSet(q[pe]) \ {m}
      /\ \A p \in PEs \ {pe} : q2[p] = q[p]
  <2>1. q2[pe] = Tail(q[pe]) /\ m = Head(q[pe])
    BY <1>1, <1>2
  <2>. QED BY <1>2, <2>1, TailQueue
<1>5. m \in R /\ m.dest = NodeOf(pe)
  BY <1>2, <1>3, <1>4 DEF Due, Homes
<1>6. Shaped(m) /\ ForThePEs(m) /\ PendingIn(m, q, run, del)
  BY <1>3, <1>5 DEF AllPending, PendingIn
<1>7. PICK M : M = W \cup R
  OBVIOUS
<1>8. Apart(L, B, M) /\ AllAsked(L, B, M, ins) /\ m \in M
  BY <1>3, <1>5, <1>7 DEF Stored
<1>9. Once(m.items)
  BY <1>6, <1>8, OnceIn
<1>10. pe # AnyPE /\ at \in Places
  BY <1>1, PlaceOfItem
<1>11. PICK part : part = RangeOf(m, pe)
  OBVIOUS
<1>12. PartFor(part, m.items, pe)
  BY <1>5, <1>6, <1>11, RangeIs
<1>13. /\ \A k, l \in DOMAIN part : part[k] = part[l] => k = l
       /\ S = {part[k] : k \in DOMAIN part}
  BY <1>1, <1>9, <1>12 DEF PartFor, For
<1>14. /\ S \subseteq Items
       /\ \A x \in S : del[x] = <<>> /\ [item |-> x, place |-> at] \in ins
  <2>1. ASSUME NEW i \in DOMAIN m.items, m.items[i].pe = pe
        PROVE  /\ m.items[i].item \in Items /\ del[m.items[i].item] = <<>>
               /\ [item |-> m.items[i].item, place |-> at] \in ins
    <3>1. /\ Has(L, B, M, <<"msg", m, i>>, m.dest, m.items[i])
          /\ m.items[i].item \in Items
      BY <1>6, <1>8, InMessages
    <3>2. Asked(ins, m.dest, m.items[i])
      BY <1>8, <3>1 DEF AllAsked
    <3>3. Pending(q, run, m, pe)
      BY <1>4 DEF Pending
    <3>4. del[m.items[i].item] = <<>>
      BY <1>6, <1>10, <2>1, <3>3 DEF PendingIn
    <3>. QED BY <1>1, <1>10, <2>1, <3>1, <3>2, <3>4 DEF Asked
  <2>. QED BY <1>1, <2>1 DEF For
<1>15. Delivers(ins, del, del2, S, at)
  <2>1. Handed(ins, delivered) /\ HandTo(part, at)
    BY <1>1, <1>2, <1>3, <1>11
  <2>2. \A x \in S : delivered[x] = <<>> /\ [item |-> x, place |-> at] \in ins
    BY <1>1, <1>14
  <2>3. Delivers(ins, delivered, delivered', S, at)
    BY <1>10, <1>13, <1>14, <2>1, <2>2, HandsOver
  <2>. QED BY <1>1, <2>3
<1>16. ASSUME NEW a, NEW d, NEW s, Has(L, B, M, a, d, s), s.item \in S
       PROVE  \E i \in DOMAIN m.items : a = <<"msg", m, i>> /\ m.items[i].pe = pe
  <2>1. PICK i \in DOMAIN m.items : m.items[i].pe = pe /\ s.item = m.items[i].item
    BY <1>1, <1>16 DEF For
  <2>2. a = <<"msg", m, i>>
    BY <1>6, <1>8, <1>16, <2>1, OneMessage
  <2>. QED BY <2>1, <2>2
<1>17. \A a, d, s : Has(L, B, W, a, d, s) => s.item \notin S
  <2>. SUFFICES ASSUME NEW a, NEW d, NEW s, Has(L, B, W, a, d, s), s.item \in S
                PROVE  FALSE
    OBVIOUS
  <2>1. Has(L, B, M, a, d, s)
    BY <1>7, HasUnion
  <2>2. PICK i \in DOMAIN m.items : a = <<"msg", m, i>>
    BY <1>16, <2>1
  <2>3. m \notin W
    BY <1>2, <1>5
  <2>. QED BY <2>2, <2>3 DEF Has, InLocal, InSlots, InMessage
<1>18. Stored(L, B, W, R, ins, del2) /\ Handed(ins, del2)
  <2>1. Takes(L, B, W, R, W, S)
    BY <1>17 DEF Takes
  <2>. QED BY <1>3, <1>15, <2>1, HandsStored
<1>19. \A x \in Items : /\ x \in S => del2[x] # <<>>
                        /\ x \notin S => del2[x] = del[x]
  BY <1>15 DEF Delivers
<1>20. /\ run2[pe] = CallsBack(m) /\ ~InLoop(CallsBack(m)) /\ ~InLoop(Idle)
       /\ \A p \in PEs \ {pe} : run2[p] = run[p]
  BY <1>2 DEF CallsBack, InLoop, Idle
<1>21. ~Pending(q2, run2, m, pe)
  <2>1. m \notin ToSet(q2[pe])
    BY <1>4
  <2>2. ASSUME NEW p \in PEs, InLoop(run2[p]), run2[p].msg = m,
               NodeOf(p) = NodeOf(pe), run2[p].rank <= Rank(pe)
        PROVE  FALSE
    <3>1. run2[p] = run[p]
      BY <1>20, <2>2
    <3>2. Ahead(q, run[p], NodeOf(p))
      BY <1>2, <2>2, <3>1 DEF Loops
    <3>3. Rank(pe) \in 0 .. NodeSize - 1 /\ pe = PEAt(NodeOf(pe), Rank(pe))
      BY RankFacts
    <3>4. m \notin ToSet(q[pe])
      BY <2>2, <3>1, <3>2, <3>3 DEF Ahead
    <3>. QED BY <1>4, <3>4
  <2>. QED BY <2>1, <2>2 DEF Pending
<1>22. ASSUME NEW k, NEW e \in PEs, k # m \/ e # pe
       PROVE  Pending(q2, run2, k, e) <=> Pending(q, run, k, e)
  <2>1. k \in ToSet(q2[e]) <=> k \in ToSet(q[e])
    BY <1>4, <1>22
  <2>. QED BY <1>2, <1>20, <2>1 DEF Pending
<1>23. AllPending(R, q2, run2, del2)
  <2>1. ASSUME NEW k \in R PROVE PendingIn(k, q2, run2, del2)
    <3>1. Shaped(k) /\ ForThePEs(k) /\ k \in M
      BY <1>3, <1>7 DEF AllPending, PendingIn
    <3>2. ASSUME NEW i \in DOMAIN k.items, k.items[i].pe # AnyPE
          PROVE  del2[k.items[i].item] = <<>> <=> Pending(q2, run2, k, k.items[i].pe)
      <4>1. /\ Has(L, B, M, <<"msg", k, i>>, k.dest, k.items[i])
            /\ k.items[i].item \in Items
        BY <3>1, InMessages
      <4>2. k.items[i].pe \in PEs
        BY <3>1, <3>2, ItemPE
      <4>3. del[k.items[i].item] = <<>> <=> Pending(q, run, k, k.items[i].pe)
        BY <1>3, <3>2 DEF AllPending, PendingIn
      <4>4. CASE k = m /\ k.items[i].pe = pe
        <5>1. k.items[i].item \in S
          BY <1>1, <4>4 DEF For
        <5>. QED BY <1>19, <1>21, <4>1, <4>4, <5>1
      <4>5. CASE ~(k = m /\ k.items[i].pe = pe)
        <5>1. k.items[i].item \notin S
          BY <1>16, <4>1, <4>5
        <5>. QED BY <1>19, <1>22, <4>1, <4>2, <4>3, <4>5, <5>1
      <4>. QED BY <4>4, <4>5
    <3>. QED BY <3>1, <3>2 DEF PendingIn
  <2>. QED BY <2>1 DEF AllPending
<1>24. Homes(q2, run2)
  BY <1>3, <1>4, <1>20 DEF Homes
<1>25. Whole'
  BY <1>1, <1>2, <1>3, <1>18, <1>23, <1>24, SenderSame DEF Whole, Kept
<1>. QED BY <1>1, <1>15, <1>25

\* A message of one receiver is handed over whole.
LEMMA AloneWhole ==
  ASSUME DeliveryInv, Whole, NEW m \in wire, wire' = wire \ {m},
         NEW at \in Places, HandTo(ItemsOf(m), at),
         \A i \in DOMAIN m.items :
           [item |-> m.items[i].item, place |-> at] \in inserted,
         UNCHANGED <<refs, queue, running, sender>>
  PROVE  /\ Whole'
         /\ \E S : Delivers(inserted, delivered, delivered', S, at)
<1>1. PICK L, B, W, R, ins, del, q, run, del2, S, W2, part :
        /\ L = localBuffers /\ B = msgBuffers /\ W = wire /\ R = DOMAIN refs
        /\ ins = inserted /\ del = delivered /\ q = queue /\ run = running
        /\ del2 = delivered' /\ S = All(m) /\ W2 = wire \ {m} /\ part = ItemsOf(m)
  OBVIOUS
<1>2. /\ Stored(L, B, W, R, ins, del) /\ ForDests(agg, B) /\ m \in W
      /\ Asks(ins) /\ Handed(ins, del) /\ AllPending(R, q, run, del) /\ Homes(q, run)
      /\ W \cap R = {}
  BY <1>1 DEF Whole, Kept, DeliveryInv, Sharing
<1>3. PICK M : M = W \cup R
  OBVIOUS
<1>4. /\ Apart(L, B, M) /\ AllAsked(L, B, M, ins) /\ NoneDone(L, B, W, del)
      /\ Shaped(m) /\ m \in M
  BY <1>2, <1>3 DEF Stored
<1>5. Once(m.items)
  BY <1>4, OnceIn
<1>6. DOMAIN part = DOMAIN m.items /\ \A i \in DOMAIN part : part[i] = m.items[i].item
  BY <1>1 DEF ItemsOf
<1>7. /\ \A k, l \in DOMAIN part : part[k] = part[l] => k = l
      /\ S = {part[k] : k \in DOMAIN part}
  BY <1>1, <1>5, <1>6 DEF All, Once
<1>8. /\ S \subseteq Items
      /\ \A x \in S : delivered[x] = <<>> /\ [item |-> x, place |-> at] \in ins
  <2>1. ASSUME NEW i \in DOMAIN m.items
        PROVE  /\ m.items[i].item \in Items /\ del[m.items[i].item] = <<>>
    <3>1. /\ Has(L, B, W, <<"msg", m, i>>, m.dest, m.items[i])
          /\ m.items[i].item \in Items
      BY <1>2, <1>4, InMessages
    <3>. QED BY <1>4, <3>1 DEF NoneDone
  <2>. QED BY <1>1, <2>1 DEF All
<1>9. Delivers(ins, del, del2, S, at)
  <2>1. Handed(ins, delivered) /\ HandTo(part, at)
    BY <1>1, <1>2
  <2>2. Delivers(ins, delivered, delivered', S, at)
    BY <1>7, <1>8, <2>1, HandsOver
  <2>. QED BY <1>1, <2>2
<1>10. ASSUME NEW a, NEW d, NEW s, Has(L, B, M, a, d, s), s.item \in S
       PROVE  \E i \in DOMAIN m.items : a = <<"msg", m, i>>
  <2>1. PICK i \in DOMAIN m.items : s.item = m.items[i].item
    BY <1>1, <1>10 DEF All
  <2>2. a = <<"msg", m, i>>
    BY <1>4, <1>10, <2>1, OneMessage
  <2>. QED BY <2>2
<1>11. \A a, d, s : Has(L, B, W2, a, d, s) => s.item \notin S
  <2>. SUFFICES ASSUME NEW a, NEW d, NEW s, Has(L, B, W2, a, d, s), s.item \in S
                PROVE  FALSE
    OBVIOUS
  <2>1. W2 \subseteq M /\ m \notin W2
    BY <1>1, <1>3
  <2>2. Has(L, B, M, a, d, s)
    BY <2>1, HasMore
  <2>3. PICK i \in DOMAIN m.items : a = <<"msg", m, i>>
    BY <1>10, <2>2
  <2>. QED BY <2>1, <2>3 DEF Has, InLocal, InSlots, InMessage
<1>12. \A a, d, s : Has(L, B, W \cup R, a, d, s) =>
         s.item \in S \/ Has(L, B, W2 \cup R, a, d, s)
  <2>. SUFFICES ASSUME NEW a, NEW d, NEW s, Has(L, B, W \cup R, a, d, s), s.item \notin S
                PROVE  Has(L, B, W2 \cup R, a, d, s)
    OBVIOUS
  <2>1. ASSUME InMessage(W, a, d, s) PROVE InMessage(W2, a, d, s)
    <3>1. PICK k \in W : \E i \in DOMAIN k.items :
                 a = <<"msg", k, i>> /\ d = k.dest /\ s = k.items[i]
      BY <2>1 DEF InMessage
    <3>2. k # m
      BY <1>1, <3>1 DEF All
    <3>. QED BY <1>1, <3>1, <3>2 DEF InMessage
  <2>. QED BY <2>1, HasUnion DEF Has
<1>13. Stored(L, B, W2, R, ins, del2) /\ Handed(ins, del2)
  <2>1. Takes(L, B, W, R, W2, S)
    BY <1>1, <1>11, <1>12 DEF Takes
  <2>. QED BY <1>2, <1>9, <2>1, HandsStored
<1>14. AllPending(R, q, run, del2)
  <2>1. ASSUME NEW k \in R PROVE PendingIn(k, q, run, del2)
    <3>1. Shaped(k) /\ ForThePEs(k) /\ k \in M /\ k # m /\ PendingIn(k, q, run, del)
      BY <1>2, <1>3 DEF AllPending, PendingIn
    <3>2. ASSUME NEW i \in DOMAIN k.items PROVE del2[k.items[i].item] = del[k.items[i].item]
      <4>1. /\ Has(L, B, M, <<"msg", k, i>>, k.dest, k.items[i])
            /\ k.items[i].item \in Items
        BY <3>1, InMessages
      <4>2. k.items[i].item \notin S
        BY <1>10, <3>1, <4>1
      <4>. QED BY <1>9, <4>1, <4>2 DEF Delivers
    <3>. QED BY <3>1, <3>2 DEF PendingIn
  <2>. QED BY <2>1 DEF AllPending
<1>15. Whole'
  BY <1>1, <1>2, <1>13, <1>14, SenderSame DEF Whole, Kept
<1>. QED BY <1>1, <1>9, <1>15

LEMMA WholeInit ==
  ASSUME Init
  PROVE  Whole
<1>1. /\ wire = {} /\ refs = <<>> /\ inserted = {} /\ agg = "WsP"
      /\ queue = [pe \in PEs |-> <<>>] /\ running = [pe \in PEs |-> Idle]
      /\ delivered = [x \in Items |-> <<>>] /\ localBuffers = [pe \in PEs |-> <<>>]
      /\ msgBuffers = [d \in PEs |-> IF d \in Dests(agg) THEN NewMessage(bufSize)
                                                         ELSE NoMessage]
  BY DEF Init, SenderInit, ReceiverInit
<1>2. DOMAIN refs = {} /\ DOMAIN <<>> = {}
  BY <1>1
<1>3. \A d \in PEs : msgBuffers[d].slots = <<>>
  BY <1>1 DEF NewMessage, NoMessage
<1>4. PICK M : M = wire \cup DOMAIN refs
  OBVIOUS
<1>5. \A a, d, s : ~Has(localBuffers, msgBuffers, M, a, d, s)
  <2>1. M = {}
    BY <1>1, <1>2, <1>4
  <2>. QED BY <1>1, <1>2, <1>3, <2>1 DEF Has, InLocal, InSlots, InMessage
<1>6. \A a, d, s : ~Has(localBuffers, msgBuffers, wire, a, d, s)
  <2>1. wire \subseteq M
    BY <1>4
  <2>. QED BY <1>5, <2>1, HasMore
<1>7. Stored(localBuffers, msgBuffers, wire, DOMAIN refs, inserted, delivered)
  <2>1. Apart(localBuffers, msgBuffers, M) /\ AllAsked(localBuffers, msgBuffers, M, inserted)
    BY <1>5 DEF Apart, AllAsked
  <2>2. NoneDone(localBuffers, msgBuffers, wire, delivered)
    BY <1>6 DEF NoneDone
  <2>3. NoneLost(localBuffers, msgBuffers, M, inserted, delivered)
    BY <1>1 DEF NoneLost
  <2>. QED BY <1>1, <1>4, <2>1, <2>2, <2>3 DEF Stored
<1>8. ForDests(agg, msgBuffers)
  BY <1>2, <1>3 DEF ForDests
<1>9. Asks(inserted) /\ Handed(inserted, delivered)
  BY <1>1 DEF Asks, Handed
<1>10. AllPending(DOMAIN refs, queue, running, delivered)
  BY <1>2 DEF AllPending
<1>11. Homes(queue, running)
  BY <1>1, <1>2 DEF Homes, ToSet, InLoop, Idle
<1>. QED BY <1>7, <1>8, <1>9, <1>10, <1>11 DEF Whole, Kept

\* What the places an item was asked for and handed over at can become.
Moves(at) ==
  \/ UNCHANGED <<inserted, delivered>>
  \/ /\ \E x \in Items : /\ \A r \in inserted : r.item # x
                         /\ inserted' = inserted \cup {[item |-> x, place |-> at]}
     /\ UNCHANGED delivered
  \/ /\ \E S : Delivers(inserted, delivered, delivered', S, at)
     /\ UNCHANGED inserted

LEMMA SenderWhole ==
  ASSUME DeliveryInv, Contained, Whole, Sends(Client) \/ Sends(TFlush)
  PROVE  Whole' /\ \E at \in Places : Moves(at)
<1>1. /\ UNCHANGED <<refs, queue, running, delivered>>
      /\ Kept /\ Buffers /\ Homes(queue, running)
      /\ AllPending(DOMAIN refs, queue, running, delivered)
  BY DEF Sends, receiver, Whole, DeliveryInv
<1>2. Kept' => Whole'
  BY <1>1 DEF Whole
<1>3. CASE TFlush
  <2>1. UNCHANGED inserted
    BY <1>3 DEF TFlush
  <2>2. \E at \in Places : Moves(at)
    <3>1. \E at : at \in Places
      BY PlaceOfItem, DeliveryAssumption DEF DeliveryAssumption
    <3>. QED BY <1>1, <2>1, <3>1 DEF Moves
  <2>. QED BY <1>1, <1>2, <1>3, <2>2, FlushKept
<1>4. ASSUME NEW x \in Items, NEW pe \in Targets, InsertValue(x, pe)
      PROVE  Kept' /\ \E at \in Places : Moves(at)
  <2>1. pe \in PEs /\ OnPE(pe) \in Places
    BY PlaceOfItem, DeliveryAssumption DEF DeliveryAssumption
  <2>2. Kept'
    BY <1>1, <1>4, <2>1, ValueKept
  <2>3. /\ \A r \in inserted : r.item # x
        /\ inserted' = inserted \cup {[item |-> x, place |-> OnPE(pe)]}
    BY <1>4 DEF InsertValue, Fresh, With
  <2>. QED BY <1>1, <2>1, <2>2, <2>3 DEF Moves
<1>5. ASSUME NEW x \in Items, NEW n \in Procs, agg = "WsP", InsertToProcess(x, n)
      PROVE  Kept' /\ \E at \in Places : Moves(at)
  <2>1. n \in Nodes /\ OnProc(n) \in Places
    BY PlaceOfItem, DeliveryAssumption DEF DeliveryAssumption
  <2>2. Kept'
    BY <1>1, <1>5, <2>1, ProcessKept
  <2>3. /\ \A r \in inserted : r.item # x
        /\ inserted' = inserted \cup {[item |-> x, place |-> OnProc(n)]}
    BY <1>5 DEF InsertToProcess, Fresh, With
  <2>. QED BY <1>1, <2>1, <2>2, <2>3 DEF Moves
<1>6. CASE \/ \E n \in BufSizes : SetBufferSize(n)
           \/ \E mode \in Modes : ResetStats(mode)
  <2>1. UNCHANGED inserted
    BY <1>6 DEF SetBufferSize, ResetStats
  <2>2. \E at \in Places : Moves(at)
    <3>1. \E at : at \in Places
      BY PlaceOfItem, DeliveryAssumption DEF DeliveryAssumption
    <3>. QED BY <1>1, <2>1, <3>1 DEF Moves
  <2>. QED BY <1>1, <1>2, <1>6, <2>2, KnobKept
<1>. QED BY <1>2, <1>3, <1>4, <1>5, <1>6 DEF Sends, Client

LEMMA ReceiverWhole ==
  ASSUME DeliveryInv, Whole, NEW pe \in PEs, Receives(pe)
  PROVE  Whole' /\ \E at \in Places : Moves(at)
<1>1. UNCHANGED sender /\ UNCHANGED inserted /\ OnPE(pe) \in Places /\ pe # AnyPE
  BY PlaceOfItem DEF Receives, sender
<1>2. ASSUME UNCHANGED delivered PROVE \E at \in Places : Moves(at)
  BY <1>1, <1>2 DEF Moves
<1>3. ASSUME NEW at \in Places, \E S : Delivers(inserted, delivered, delivered', S, at)
      PROVE  \E b \in Places : Moves(b)
  BY <1>1, <1>3 DEF Moves
<1>4. ASSUME NEW m, NEW skip, ReceiveNoSort(pe, m) \/ Receive(pe, m, skip)
      PROVE  Whole' /\ UNCHANGED delivered
  BY <1>1, <1>4, ArrivalWhole DEF ReceiveNoSort, Receive, StartFanOut
<1>5. ASSUME NEW m \in wire
      PROVE  /\ Shaped(m)
             /\ \A i \in DOMAIN m.items : Asked(inserted, m.dest, m.items[i])
  <2>1. PICK L, B, M : L = localBuffers /\ B = msgBuffers /\ M = wire \cup DOMAIN refs
    OBVIOUS
  <2>2. Shaped(m) /\ m \in M /\ AllAsked(L, B, M, inserted)
    BY <2>1 DEF Whole, Kept, Stored
  <2>. QED BY <2>2, InMessages DEF AllAsked
<1>6. ASSUME NEW m \in wire, ReceiveOnPE(pe, m)
      PROVE  Whole' /\ \E at \in Places : Moves(at)
  <2>1. /\ wire' = wire \ {m} /\ HandTo(ItemsOf(m), OnPE(pe))
        /\ UNCHANGED <<refs, queue, running>> /\ m.entry = "receiveOnPE" /\ m.dest = pe
    BY <1>6 DEF ReceiveOnPE, Arrives
  <2>2. \A i \in DOMAIN m.items : [item |-> m.items[i].item, place |-> OnPE(pe)] \in inserted
    BY <1>1, <1>5, <2>1 DEF Shaped, Asked
  <2>3. Whole' /\ \E S : Delivers(inserted, delivered, delivered', S, OnPE(pe))
    BY <1>1, <2>1, <2>2, AloneWhole
  <2>. QED BY <1>1, <1>3, <2>3
<1>7. ASSUME NEW m \in wire, ReceiveOnProc(pe, m)
      PROVE  Whole' /\ \E at \in Places : Moves(at)
  <2>1. /\ wire' = wire \ {m} /\ HandTo(ItemsOf(m), OnProc(m.dest))
        /\ UNCHANGED <<refs, queue, running>> /\ m.entry = "receiveOnProc"
    BY <1>7 DEF ReceiveOnProc, Arrives
  <2>2. m.dest \in Nodes /\ \A i \in DOMAIN m.items : m.items[i].pe = AnyPE
    BY <1>5, <2>1 DEF Shaped
  <2>3. PICK at : at = OnProc(m.dest)
    OBVIOUS
  <2>4. at \in Places /\ HandTo(ItemsOf(m), at)
    BY <2>1, <2>2, <2>3, PlaceOfItem
  <2>5. \A i \in DOMAIN m.items : [item |-> m.items[i].item, place |-> at] \in inserted
    BY <1>5, <2>2, <2>3 DEF Asked
  <2>6. Whole' /\ \E S : Delivers(inserted, delivered, delivered', S, at)
    BY <1>1, <2>1, <2>4, <2>5, AloneWhole
  <2>. QED BY <1>3, <2>4, <2>6
<1>8. CASE FanOut(pe)
  <2>1. PICK m, r : m = running[pe].msg /\ r = running[pe].rank
    OBVIOUS
  <2>2. CASE SendsTo(pe, m, PEAt(NodeOf(pe), r))
    BY <1>1, <1>2, <1>8, <2>2, SendWhole DEF FanOut
  <2>3. CASE Skips(m, r) /\ UNCHANGED <<refs, queue>>
    BY <1>1, <1>2, <1>8, <2>1, <2>3, SkipWhole DEF FanOut, InLoop
  <2>. QED BY <1>8, <2>1, <2>2, <2>3 DEF FanOut, SendsTo, InLoop
<1>9. CASE FanOutDone(pe) \/ CallbackReturns(pe)
  <2>1. /\ Stops(pe, running[pe].msg) /\ UNCHANGED delivered
        /\ InLoop(running[pe]) => running[pe].rank = NodeSize
    BY <1>9, HandlerFacts
       DEF FanOutDone, CallbackReturns, Stops, InLoop, DeliveryInv, Sharing
  <2>. QED BY <1>1, <1>2, <2>1, StopWhole
<1>10. CASE ReceivePerPE(pe)
  BY <1>1, <1>3, <1>10, ReadWhole
<1>. QED BY <1>2, <1>4, <1>6, <1>7, <1>8, <1>9, <1>10 DEF Receives, ReceiverStep

DeliveryWhole == DeliveryInv /\ Contained /\ Whole

LEMMA WholeInvariance == Spec => []DeliveryWhole
<1>1. Init => Whole
  BY WholeInit
<1>2. DeliveryInv /\ Contained /\ Whole /\ [Next]_vars => Whole'
  <2>. SUFFICES ASSUME DeliveryInv, Contained, Whole, [Next]_vars PROVE Whole'
    OBVIOUS
  <2>1. CASE Next
    BY <2>1, SenderWhole, ReceiverWhole DEF Next
  <2>2. CASE UNCHANGED vars
    BY <2>2 DEF vars, sender, receiver, Whole, Kept
  <2>. QED BY <2>1, <2>2
<1>. QED BY <1>1, <1>2, DeliveryInvariance, ContainedInvariance, PTL DEF Spec, DeliveryWhole

(***************************************************************************)
(* Sending and receiving together hand over what was asked for, where it   *)
(* was asked to, and once: every step of the two sides, whatever travels,  *)
(* is an insert or a batch of the delivery service, or nothing of it.      *)
(***************************************************************************)
THEOREM DeliveryRefinement == Spec => ImplementsDeliveryService
<1>1. Init => Service!Init
  BY DEF Init, SenderInit, ReceiverInit, Service!Init
<1>2. DeliveryWhole /\ [Next]_vars => [Service!Next]_(Service!vars)
  <2>. SUFFICES ASSUME DeliveryWhole, [Next]_vars
                PROVE  Service!Next \/ UNCHANGED Service!vars
    OBVIOUS
  <2>1. ASSUME NEW at \in Places, Moves(at)
        PROVE  Service!Next \/ UNCHANGED Service!vars
    <3>1. CASE UNCHANGED <<inserted, delivered>>
      BY <3>1 DEF Service!vars
    <3>2. ASSUME NEW x \in Items, \A r \in inserted : r.item # x,
                 inserted' = inserted \cup {[item |-> x, place |-> at]},
                 UNCHANGED delivered
          PROVE  Service!Next
      <4>1. Service!Insert(x, at)
        BY <3>2 DEF Service!Insert
      <4>. QED BY <4>1 DEF Service!Next
    <3>3. ASSUME NEW S, Delivers(inserted, delivered, delivered', S, at),
                 UNCHANGED inserted
          PROVE  Service!Next
      <4>1. Service!Deliver(S, at) /\ S \in SUBSET Items
        BY <3>3 DEF Service!Deliver, Delivers
      <4>. QED BY <4>1 DEF Service!Next
    <3>. QED BY <2>1, <3>1, <3>2, <3>3 DEF Moves
  <2>2. CASE Next
    BY <2>1, <2>2, SenderWhole, ReceiverWhole DEF Next, DeliveryWhole
  <2>3. CASE UNCHANGED vars
    BY <2>3 DEF vars, sender, receiver, Service!vars
  <2>. QED BY <2>2, <2>3
<1>. QED BY <1>1, <1>2, WholeInvariance, PTL DEF Spec, ImplementsDeliveryService, Service!Spec

(***************************************************************************)
(* Where an item is, counted.                                              *)
(***************************************************************************)
LEMMA BufferedIs ==
  ASSUME NEW x \in Items, NEW w
  PROVE  w \in Buffered(x) <=>
           \E d, s : /\ Has(localBuffers, msgBuffers, {}, w, d, s)
                     /\ s.item = x
<1>. DEFINE A == UNION {{<<"local", p, i>> : i \in At(localBuffers[p], x)} : p \in PEs}
            B == UNION {{<<"slot", p, i>> : i \in At(msgBuffers[p].slots, x)} : p \in PEs}
<1>1. w \in A <=> \E d, s : InLocal(localBuffers, w, d, s) /\ s.item = x
  <2>1. ASSUME w \in A PROVE \E d, s : InLocal(localBuffers, w, d, s) /\ s.item = x
    <3>1. PICK p \in PEs : w \in {<<"local", p, i>> : i \in At(localBuffers[p], x)}
      BY <2>1
    <3>2. PICK i \in At(localBuffers[p], x) : w = <<"local", p, i>>
      BY <3>1
    <3>3. InLocal(localBuffers, w, NodeOf(p), localBuffers[p][i]) /\ localBuffers[p][i].item = x
      BY <3>2 DEF InLocal, At
    <3>. QED BY <3>3
  <2>2. ASSUME NEW d, NEW s, InLocal(localBuffers, w, d, s), s.item = x PROVE w \in A
    <3>1. PICK p \in PEs : \E i \in DOMAIN localBuffers[p] :
                 w = <<"local", p, i>> /\ s = localBuffers[p][i]
      BY <2>2 DEF InLocal
    <3>2. PICK i \in DOMAIN localBuffers[p] : w = <<"local", p, i>> /\ s = localBuffers[p][i]
      BY <3>1
    <3>3. i \in At(localBuffers[p], x)
      BY <2>2, <3>2 DEF At
    <3>. QED BY <3>2, <3>3
  <2>. QED BY <2>1, <2>2
<1>2. w \in B <=> \E d, s : InSlots(msgBuffers, w, d, s) /\ s.item = x
  <2>1. ASSUME w \in B PROVE \E d, s : InSlots(msgBuffers, w, d, s) /\ s.item = x
    <3>1. PICK p \in PEs : w \in {<<"slot", p, i>> : i \in At(msgBuffers[p].slots, x)}
      BY <2>1
    <3>2. PICK i \in At(msgBuffers[p].slots, x) : w = <<"slot", p, i>>
      BY <3>1
    <3>3. InSlots(msgBuffers, w, p, msgBuffers[p].slots[i]) /\ msgBuffers[p].slots[i].item = x
      BY <3>2 DEF InSlots, At
    <3>. QED BY <3>3
  <2>2. ASSUME NEW d, NEW s, InSlots(msgBuffers, w, d, s), s.item = x PROVE w \in B
    <3>1. PICK i \in DOMAIN msgBuffers[d].slots :
                 w = <<"slot", d, i>> /\ s = msgBuffers[d].slots[i]
      BY <2>2 DEF InSlots
    <3>2. d \in PEs /\ i \in At(msgBuffers[d].slots, x)
      BY <2>2, <3>1 DEF At, InSlots
    <3>. QED BY <3>1, <3>2
  <2>. QED BY <2>1, <2>2
<1>3. Buffered(x) = A \cup B
  BY DEF Buffered
<1>. HIDE DEF A, B
<1>4. w \in Buffered(x) <=> w \in A \/ w \in B
  BY <1>3
<1>. QED BY <1>1, <1>2, <1>4 DEF Has, InMessage

LEMMA OnWireIs ==
  ASSUME NEW x, NEW w
  PROVE  w \in OnWire(x) <=>
           \E m \in wire : \E i \in DOMAIN m.items :
             w = <<"wire", m, i>> /\ m.items[i].item = x
<1>1. ASSUME w \in OnWire(x)
      PROVE  \E m \in wire : \E i \in DOMAIN m.items :
               w = <<"wire", m, i>> /\ m.items[i].item = x
  <2>1. PICK m \in wire : w \in {<<"wire", m, i>> : i \in At(m.items, x)}
    BY <1>1 DEF OnWire
  <2>2. PICK i \in At(m.items, x) : w = <<"wire", m, i>>
    BY <2>1
  <2>. QED BY <2>2 DEF At
<1>2. ASSUME NEW m \in wire, NEW i \in DOMAIN m.items, w = <<"wire", m, i>>,
             m.items[i].item = x
      PROVE  w \in OnWire(x)
  <2>1. i \in At(m.items, x)
    BY <1>2 DEF At
  <2>. QED BY <1>2, <2>1 DEF OnWire
<1>. QED BY <1>1, <1>2

\* How the k-th item of m is to come to pe: from its queue, or from a loop.
ComesAs(w, m, k, pe) ==
  \/ \E n \in DOMAIN queue[pe] : queue[pe][n] = m /\ w = <<"queue", n, k>>
  \/ \E p \in LoopsTo(pe) : running[p].msg = m /\ w = <<"loop", p, k>>

LEMMA ToComeIs ==
  ASSUME NEW x, NEW w, NEW pe
  PROVE  w \in ToCome(x, pe) <=> \E m, k : k \in DueIn(m, x, pe) /\ ComesAs(w, m, k, pe)
<1>. DEFINE A == UNION {{<<"queue", k, i>> : i \in DueIn(queue[pe][k], x, pe)} :
                          k \in DOMAIN queue[pe]}
            B == UNION {{<<"loop", p, i>> : i \in DueIn(running[p].msg, x, pe)} :
                          p \in LoopsTo(pe)}
<1>1. ASSUME w \in A PROVE \E m, k : k \in DueIn(m, x, pe) /\ ComesAs(w, m, k, pe)
  <2>1. PICK n \in DOMAIN queue[pe] :
               w \in {<<"queue", n, i>> : i \in DueIn(queue[pe][n], x, pe)}
    BY <1>1
  <2>2. PICK i \in DueIn(queue[pe][n], x, pe) : w = <<"queue", n, i>>
    BY <2>1
  <2>. QED BY <2>2 DEF ComesAs
<1>2. ASSUME w \in B PROVE \E m, k : k \in DueIn(m, x, pe) /\ ComesAs(w, m, k, pe)
  <2>1. PICK p \in LoopsTo(pe) : w \in {<<"loop", p, i>> : i \in DueIn(running[p].msg, x, pe)}
    BY <1>2
  <2>2. PICK i \in DueIn(running[p].msg, x, pe) : w = <<"loop", p, i>>
    BY <2>1
  <2>. QED BY <2>2 DEF ComesAs
<1>3. ASSUME NEW m, NEW k, k \in DueIn(m, x, pe), ComesAs(w, m, k, pe)
      PROVE  w \in A \/ w \in B
  <2>1. ASSUME NEW n \in DOMAIN queue[pe], queue[pe][n] = m, w = <<"queue", n, k>>
        PROVE  w \in A
    BY <1>3, <2>1
  <2>2. ASSUME NEW p \in LoopsTo(pe), running[p].msg = m, w = <<"loop", p, k>>
        PROVE  w \in B
    BY <1>3, <2>2
  <2>. QED BY <1>3, <2>1, <2>2 DEF ComesAs
<1>4. ToCome(x, pe) = A \cup B
  BY DEF ToCome
<1>. HIDE DEF A, B
<1>. QED BY <1>1, <1>2, <1>3, <1>4

LEMMA ComesOnce ==
  ASSUME Sharing, NEW pe \in PEs, NEW m, NEW k, NEW v, NEW w,
         ComesAs(v, m, k, pe), ComesAs(w, m, k, pe)
  PROVE  v = w
<1>1. ASSUME NEW p \in LoopsTo(pe), running[p].msg = m PROVE m \notin ToSet(queue[pe])
  <2>1. p \in PEs /\ InLoop(running[p]) /\ NodeOf(p) = NodeOf(pe) /\ running[p].rank <= Rank(pe)
    BY DEF LoopsTo, InLoop
  <2>2. Ahead(queue, running[p], NodeOf(p))
    BY <2>1 DEF Sharing, Loops
  <2>3. Rank(pe) \in 0 .. NodeSize - 1 /\ pe = PEAt(NodeOf(pe), Rank(pe))
    BY RankFacts
  <2>. QED BY <1>1, <2>1, <2>2, <2>3 DEF Ahead
<1>2. ASSUME NEW n \in DOMAIN queue[pe], queue[pe][n] = m PROVE m \in ToSet(queue[pe])
  BY <1>2 DEF ToSet
<1>3. ASSUME NEW i \in DOMAIN queue[pe], NEW j \in DOMAIN queue[pe],
             queue[pe][i] = queue[pe][j]
      PROVE  i = j
  <2>1. PICK s, T : s = queue[pe] /\ T = ToSet(queue[pe])
    OBVIOUS
  <2>2. s \in Seq(T) /\ \A a, b \in 1 .. Len(s) : s[a] = s[b] => a = b
    BY <2>1 DEF Sharing, IsQueue
  <2>3. DOMAIN s = 1 .. Len(s)
    BY <2>2
  <2>. QED BY <1>3, <2>1, <2>2, <2>3
<1>4. ASSUME NEW p \in LoopsTo(pe), NEW e \in LoopsTo(pe), running[p].msg = running[e].msg
      PROVE  p = e
  BY <1>4 DEF LoopsTo, Sharing, OneLoop, InLoop
<1>. QED BY <1>1, <1>2, <1>3, <1>4 DEF ComesAs

LEMMA Comes ==
  ASSUME NEW pe \in PEs, NEW m, Pending(queue, running, m, pe), NEW k
  PROVE  \E w : ComesAs(w, m, k, pe)
<1>1. CASE m \in ToSet(queue[pe])
  <2>1. PICK n \in DOMAIN queue[pe] : queue[pe][n] = m
    BY <1>1 DEF ToSet
  <2>. QED BY <2>1 DEF ComesAs
<1>2. CASE m \notin ToSet(queue[pe])
  <2>1. PICK p \in PEs : /\ InLoop(running[p]) /\ running[p].msg = m
                         /\ NodeOf(p) = NodeOf(pe) /\ running[p].rank <= Rank(pe)
    BY <1>2 DEF Pending
  <2>2. p \in LoopsTo(pe)
    BY <2>1 DEF LoopsTo, InLoop
  <2>. QED BY <2>1, <2>2 DEF ComesAs
<1>. QED BY <1>1, <1>2

\* What is to come is an item for the PE, in a shared message for its node.
LEMMA ComesFrom ==
  ASSUME DeliveryInv, Whole, NEW pe \in PEs, NEW m, NEW k, NEW w, ComesAs(w, m, k, pe),
         NEW x, k \in DueIn(m, x, pe)
  PROVE  /\ m \in DOMAIN refs /\ Shaped(m) /\ Pending(queue, running, m, pe)
         /\ \E i \in DOMAIN m.items : m.items[i].pe = pe /\ m.items[i].item = x
         /\ delivered[x] = <<>>
<1>1. Sharing /\ Homes(queue, running) /\ AllPending(DOMAIN refs, queue, running, delivered)
  BY DEF DeliveryInv, Whole
<1>2. Pending(queue, running, m, pe) /\ m \in DOMAIN refs /\ m.dest = NodeOf(pe)
  <2>1. ASSUME NEW n \in DOMAIN queue[pe], queue[pe][n] = m
        PROVE  Pending(queue, running, m, pe) /\ m \in DOMAIN refs /\ m.dest = NodeOf(pe)
    <3>1. m \in ToSet(queue[pe])
      BY <2>1 DEF ToSet
    <3>. QED BY <1>1, <3>1 DEF Pending, Sharing, Exact, Due, Homes
  <2>2. ASSUME NEW p \in LoopsTo(pe), running[p].msg = m
        PROVE  Pending(queue, running, m, pe) /\ m \in DOMAIN refs /\ m.dest = NodeOf(pe)
    <3>1. /\ p \in PEs /\ InLoop(running[p]) /\ NodeOf(p) = NodeOf(pe)
          /\ running[p].rank <= Rank(pe)
      BY <2>2 DEF LoopsTo, InLoop
    <3>2. m \in DOMAIN refs
      BY <1>1, <2>2, <3>1, HandlerFacts, ReaderHasCount DEF Sharing
    <3>. QED BY <1>1, <2>2, <3>1, <3>2 DEF Pending, Homes
  <2>. QED BY <2>1, <2>2 DEF ComesAs
<1>3. PendingIn(m, queue, running, delivered) /\ Shaped(m) /\ ForThePEs(m)
  BY <1>1, <1>2 DEF AllPending, PendingIn
<1>4. PartFor(RangeOf(m, pe), m.items, pe)
  BY <1>2, <1>3, RangeIs
<1>5. PICK i \in DOMAIN m.items : m.items[i].pe = pe /\ m.items[i].item = x
  BY <1>4 DEF PartFor, DueIn
<1>6. pe # AnyPE
  BY PlaceOfItem
<1>. QED BY <1>2, <1>3, <1>5, <1>6 DEF PendingIn

\* An item of a message for a PE is once in the range of the PE.
OneDue(m, x, pe) == \E k : DueIn(m, x, pe) = {k}

LEMMA DueOnce ==
  ASSUME NEW m, Shaped(m), ForThePEs(m), Once(m.items), NEW pe \in PEs,
         NEW x \in For(m, pe)
  PROVE  OneDue(m, x, pe)
<1>1. PICK i \in DOMAIN m.items : m.items[i].pe = pe /\ m.items[i].item = x
  BY DEF For
<1>2. NodeOf(pe) = m.dest
  <2>1. pe # AnyPE
    BY PlaceOfItem
  <2>. QED BY <1>1, <2>1 DEF Shaped, ForThePEs
<1>3. PICK part : part = RangeOf(m, pe)
  OBVIOUS
<1>4. PartFor(part, m.items, pe)
  BY <1>2, <1>3, RangeIs
<1>5. PICK k \in DOMAIN part : part[k] = x
  BY <1>1, <1>4 DEF PartFor
<1>6. \A l \in DOMAIN part : part[l] = x => l = k
  BY <1>1, <1>4, <1>5 DEF PartFor
<1>7. DueIn(m, x, pe) = {k}
  BY <1>3, <1>5, <1>6 DEF DueIn
<1>. QED BY <1>7 DEF OneDue

\* Nothing that was handed over is anywhere else.
LEMMA OnlyHandedOver ==
  ASSUME DeliveryWhole, NEW x \in Items, NEW pe \in PEs, delivered[x] # <<>>
  PROVE  Whereabouts(x, pe) = {<<"callback", 1>>}
<1>1. PICK L, B, W : L = localBuffers /\ B = msgBuffers /\ W = wire
  OBVIOUS
<1>2. /\ NoneDone(L, B, W, delivered) /\ Handed(inserted, delivered)
      /\ DeliveryInv /\ Whole /\ \A m \in W : Shaped(m)
  BY <1>1 DEF DeliveryWhole, Whole, Kept, Stored
<1>3. PICK at \in Places : delivered[x] = <<at>>
  BY <1>2 DEF Handed
<1>4. HandedOver(x) = {<<"callback", 1>>}
  <2>1. DOMAIN <<at>> = {1}
    OBVIOUS
  <2>. QED BY <1>3, <2>1 DEF HandedOver
<1>5. \A w : w \notin Buffered(x)
  <2>1. ASSUME NEW w, w \in Buffered(x) PROVE FALSE
    <3>1. PICK d, s : Has(L, B, {}, w, d, s) /\ s.item = x
      BY <1>1, <2>1, BufferedIs
    <3>2. Has(L, B, W, w, d, s)
      BY <3>1, HasMore
    <3>. QED BY <1>2, <3>1, <3>2 DEF NoneDone
  <2>. QED BY <2>1
<1>6. \A w : w \notin OnWire(x)
  <2>1. ASSUME NEW w, w \in OnWire(x) PROVE FALSE
    <3>1. PICK m \in wire : \E i \in DOMAIN m.items :
                 w = <<"wire", m, i>> /\ m.items[i].item = x
      BY <2>1, OnWireIs
    <3>2. PICK i \in DOMAIN m.items : m.items[i].item = x
      BY <3>1
    <3>3. Has(L, B, W, <<"msg", m, i>>, m.dest, m.items[i])
      BY <1>1, <1>2, InMessages
    <3>. QED BY <1>2, <3>2, <3>3 DEF NoneDone
  <2>. QED BY <2>1
<1>7. \A w : w \notin ToCome(x, pe)
  <2>1. ASSUME NEW w, w \in ToCome(x, pe) PROVE FALSE
    <3>1. PICK m, k : k \in DueIn(m, x, pe) /\ ComesAs(w, m, k, pe)
      BY <2>1, ToComeIs
    <3>. QED BY <1>2, <3>1, ComesFrom
  <2>. QED BY <2>1
<1>. QED BY <1>4, <1>5, <1>6, <1>7 DEF Whereabouts

\* An item that waits at a place of M for pe is nowhere else.
LEMMA OnlyThere ==
  ASSUME DeliveryWhole, NEW x \in Items, NEW pe \in PEs, delivered[x] = <<>>,
         NEW M, M = wire \cup DOMAIN refs, NEW a, NEW d, NEW s,
         Has(localBuffers, msgBuffers, M, a, d, s), s.item = x, s.pe = pe
  PROVE  \E w : Whereabouts(x, pe) = {w}
<1>1. PICK L, B, W, R : L = localBuffers /\ B = msgBuffers /\ W = wire /\ R = DOMAIN refs
  OBVIOUS
<1>2. /\ Apart(L, B, M) /\ DeliveryInv /\ Whole /\ Sharing /\ W \cap R = {} /\ M = W \cup R
      /\ Has(L, B, M, a, d, s) /\ AllPending(R, queue, running, delivered)
      /\ \A m \in W : Shaped(m)
  BY <1>1 DEF DeliveryWhole, DeliveryInv, Sharing, Whole, Kept, Stored
<1>3. HandedOver(x) = {}
  <2>1. DOMAIN <<>> = {}
    OBVIOUS
  <2>. QED BY <2>1 DEF HandedOver
<1>4. ASSUME NEW w, w \in Buffered(x)
      PROVE  w = a /\ (InLocal(L, a, d, s) \/ InSlots(B, a, d, s))
  <2>1. PICK e, t : Has(L, B, {}, w, e, t) /\ t.item = x
    BY <1>1, <1>4, BufferedIs
  <2>2. Has(L, B, M, w, e, t)
    BY <2>1, HasMore
  <2>3. w = a
    BY <1>2, <2>1, <2>2 DEF Apart
  <2>4. e = d /\ t = s
    BY <1>2, <2>2, <2>3, PlaceTells
  <2>. QED BY <2>1, <2>3, <2>4 DEF Has, InMessage
<1>5. ASSUME NEW w, w \in OnWire(x)
      PROVE  \E m \in W : \E i \in DOMAIN m.items : a = <<"msg", m, i>> /\ w = <<"wire", m, i>>
  <2>1. PICK m \in W : \E i \in DOMAIN m.items :
               w = <<"wire", m, i>> /\ m.items[i].item = x
    BY <1>1, <1>5, OnWireIs
  <2>2. PICK i \in DOMAIN m.items : w = <<"wire", m, i>> /\ m.items[i].item = x
    BY <2>1
  <2>3. m \in M /\ Shaped(m)
    BY <1>2
  <2>4. a = <<"msg", m, i>>
    BY <1>2, <2>2, <2>3, OneMessage
  <2>. QED BY <2>2, <2>4
<1>6. ASSUME NEW w, w \in ToCome(x, pe)
      PROVE  \E m, k : /\ m \in R /\ k \in DueIn(m, x, pe) /\ ComesAs(w, m, k, pe)
                       /\ \E i \in DOMAIN m.items : a = <<"msg", m, i>>
  <2>1. PICK m, k : k \in DueIn(m, x, pe) /\ ComesAs(w, m, k, pe)
    BY <1>6, ToComeIs
  <2>2. m \in R /\ Shaped(m) /\ \E i \in DOMAIN m.items : m.items[i].item = x
    BY <1>1, <1>2, <2>1, ComesFrom
  <2>3. PICK i \in DOMAIN m.items : m.items[i].item = x
    BY <2>2
  <2>4. m \in M
    BY <1>2, <2>2
  <2>5. a = <<"msg", m, i>>
    BY <1>2, <2>2, <2>3, <2>4, OneMessage
  <2>. QED BY <2>1, <2>2, <2>5
<1>7. CASE InLocal(L, a, d, s) \/ InSlots(B, a, d, s)
  <2>1. \A m, i : a # <<"msg", m, i>>
    BY <1>7 DEF InLocal, InSlots
  <2>2. a \in Buffered(x)
    <3>1. Has(L, B, {}, a, d, s)
      BY <1>2, <1>7 DEF Has
    <3>. QED BY <1>1, <3>1, BufferedIs
  <2>3. \A w \in Whereabouts(x, pe) : w = a
    BY <1>3, <1>4, <1>5, <1>6, <2>1 DEF Whereabouts
  <2>4. Whereabouts(x, pe) = {a}
    BY <2>2, <2>3 DEF Whereabouts
  <2>. QED BY <2>4
<1>8. ASSUME NEW m \in M, NEW i \in DOMAIN m.items, a = <<"msg", m, i>>, s = m.items[i]
      PROVE  \E w : Whereabouts(x, pe) = {w}
  <2>1. ~(InLocal(L, a, d, s) \/ InSlots(B, a, d, s))
    BY <1>8 DEF InLocal, InSlots
  <2>2. \A w : w \notin Buffered(x)
    BY <1>4, <2>1
  <2>3. CASE m \in W
    <3>1. <<"wire", m, i>> \in OnWire(x)
      BY <1>1, <1>8, <2>3, OnWireIs
    <3>2. ASSUME NEW w \in Whereabouts(x, pe) PROVE w = <<"wire", m, i>>
      <4>1. w \notin ToCome(x, pe)
        BY <1>2, <1>6, <1>8, <2>3
      <4>2. w \in OnWire(x)
        BY <1>3, <2>2, <3>2, <4>1 DEF Whereabouts
      <4>. QED BY <1>5, <1>8, <4>2
    <3>3. Whereabouts(x, pe) = {<<"wire", m, i>>}
      BY <3>1, <3>2 DEF Whereabouts
    <3>. QED BY <3>3
  <2>4. CASE m \in R
    <3>1. \A w : w \notin OnWire(x)
      BY <1>2, <1>5, <1>8, <2>4
    <3>2. Shaped(m) /\ ForThePEs(m) /\ PendingIn(m, queue, running, delivered)
      BY <1>2, <2>4 DEF AllPending, PendingIn
    <3>3. Once(m.items) /\ m.items[i].pe = pe /\ m.items[i].item = x
      BY <1>2, <1>8, <3>2, OnceIn
    <3>4. PICK k : DueIn(m, x, pe) = {k}
      <4>1. x \in For(m, pe)
        BY <1>8, <3>3 DEF For
      <4>2. OneDue(m, x, pe)
        BY <3>2, <3>3, <4>1, DueOnce
      <4>. QED BY <4>2 DEF OneDue
    <3>5. Pending(queue, running, m, pe)
      <4>1. pe # AnyPE
        BY PlaceOfItem
      <4>. QED BY <1>8, <3>2, <4>1 DEF PendingIn
    <3>6. PICK v : ComesAs(v, m, k, pe)
      BY <3>5, Comes
    <3>7. v \in ToCome(x, pe)
      BY <3>4, <3>6, ToComeIs
    <3>8. ASSUME NEW w \in Whereabouts(x, pe) PROVE w = v
      <4>1. w \in ToCome(x, pe)
        BY <1>3, <2>2, <3>1, <3>8 DEF Whereabouts
      <4>2. PICK n, l : /\ l \in DueIn(n, x, pe) /\ ComesAs(w, n, l, pe)
                        /\ \E j \in DOMAIN n.items : a = <<"msg", n, j>>
        BY <1>6, <4>1
      <4>3. n = m /\ l = k
        BY <1>8, <3>4, <4>2
      <4>4. ComesAs(w, m, k, pe)
        BY <4>2, <4>3
      <4>. QED BY <1>2, <3>6, <4>4, ComesOnce
    <3>9. Whereabouts(x, pe) = {v}
      BY <3>7, <3>8 DEF Whereabouts
    <3>. QED BY <3>9
  <2>. QED BY <1>2, <2>3, <2>4
<1>9. CASE InMessage(M, a, d, s)
  <2>1. PICK m \in M : \E i \in DOMAIN m.items : a = <<"msg", m, i>> /\ s = m.items[i]
    BY <1>9 DEF InMessage
  <2>. QED BY <1>8, <2>1
<1>. QED BY <1>2, <1>7, <1>9 DEF Has

(***************************************************************************)
(* An item that was inserted for a PE is in exactly one place: buffered,   *)
(* in a message that travels, in the range of a shared message that the    *)
(* PE's queue or a receiver's loop has still to deliver, or handed over.   *)
(* No interleaving of inserts, flushes, receivers and callbacks loses or   *)
(* doubles it.                                                             *)
(***************************************************************************)
THEOREM EveryItemInOnePlace == Spec => []EveryItemAccounted
<1>1. DeliveryWhole => EveryItemAccounted
  <2>. SUFFICES ASSUME DeliveryWhole, NEW r \in inserted, NEW pe \in PEs,
                       r.place = OnPE(pe)
                PROVE  Cardinality(Whereabouts(r.item, pe)) = 1
    BY DEF EveryItemAccounted
  <2>1. PICK x, L, B, M : /\ x = r.item /\ L = localBuffers /\ B = msgBuffers
                          /\ M = wire \cup DOMAIN refs
    OBVIOUS
  <2>2. /\ Asks(inserted) /\ AllAsked(L, B, M, inserted)
        /\ NoneLost(L, B, M, inserted, delivered)
    BY <2>1 DEF DeliveryWhole, Whole, Kept, Stored
  <2>3. x \in Items
    BY <2>1, <2>2 DEF Asks
  <2>4. \E w : Whereabouts(x, pe) = {w}
    <3>1. CASE delivered[x] # <<>>
      BY <2>3, <3>1, OnlyHandedOver
    <3>2. CASE delivered[x] = <<>>
      <4>1. PICK a, d, s : Has(L, B, M, a, d, s) /\ s.item = x
        BY <2>1, <2>2, <3>2 DEF NoneLost
      <4>2. s.pe = pe
        <5>1. Asked(inserted, d, s)
          BY <2>2, <4>1 DEF AllAsked
        <5>2. r.place = IF s.pe = AnyPE THEN OnProc(d) ELSE OnPE(s.pe)
          BY <2>1, <2>2, <4>1, <5>1 DEF Asks, Asked
        <5>. QED BY <5>2 DEF OnPE, OnProc
      <4>3. Has(localBuffers, msgBuffers, M, a, d, s)
        BY <2>1, <4>1
      <4>. QED BY <2>1, <2>3, <3>2, <4>1, <4>2, <4>3, OnlyThere
    <3>. QED BY <3>1, <3>2
  <2>. QED BY <2>1, <2>4, FS_Singleton
<1>. QED BY <1>1, WholeInvariance, PTL
=============================================================================
