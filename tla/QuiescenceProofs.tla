-------------------------- MODULE QuiescenceProofs --------------------------
(***************************************************************************)
(* Quiescence for any finite sets of PEs and items: the types, and that    *)
(* the callback fires only when nothing is buffered or in flight.          *)
(*                                                                         *)
(* The PEs count at different times.  Their counts hold together because   *)
(* the counts start with no message in flight, and nothing happens on a PE *)
(* without a message: what a PE has counted stays as it was (Counted).     *)
(***************************************************************************)
EXTENDS Quiescence, FiniteSetTheorems, TLAPS

\* While the PEs count, nothing travels, and as long as the sum is zero
\* those that have counted hold nothing.
Counted ==
  phase = "count" =>
    /\ network = {} /\ toFlush = {}
    /\ total = 0 => \A p \in PEs \ toCount : AtPE(p) = {}

IInv == TypeOK /\ Counted

LEMMA CountType ==
  ASSUME TypeOK, NEW p \in PEs
  PROVE  Count(p) \in Nat /\ (Count(p) = 0 => AtPE(p) = {})
<1>1. IsFiniteSet(PEs \X Items)
  BY FS_Product, QuiescenceAssumption
<1>2. IsFiniteSet(Held(p))
  BY <1>1, FS_Subset DEF Held
<1>3. Count(p) \in Nat /\ (Count(p) = 0 <=> Held(p) = {})
  BY <1>2, FS_CardinalityType, FS_EmptySet DEF Count
<1>4. ASSUME Held(p) = {}, NEW d \in PEs, NEW x \in buffered[p][d]
      PROVE  FALSE
  <2>1. x \in Items
    BY DEF TypeOK
  <2>2. <<d, x>> \in Held(p)
    BY <2>1 DEF Held
  <2> QED BY <2>2, <1>4
<1> QED BY <1>3, <1>4 DEF AtPE

\* What a handler of p does to buffers and network keeps their types.
LEMMA InsertType ==
  ASSUME TypeOK, NEW p \in PEs, NEW d \in PEs, NEW x \in Unsent,
         NEW net \in SUBSET network, Insert(p, d, x, net)
  PROVE  /\ buffered' \in [PEs -> [PEs -> SUBSET Items]]
         /\ network' \in SUBSET [dest : PEs, items : SUBSET Items]
<1>1. x \in Items
  BY DEF Unsent
<1>2. CASE /\ buffered' = [buffered EXCEPT ![p][d] = @ \cup {x}]
           /\ network' = net
  BY <1>1, <1>2 DEF TypeOK
<1>3. CASE /\ buffered' = [buffered EXCEPT ![p][d] = {}]
           /\ network' = net \cup {Message(d, buffered[p][d] \cup {x})}
  <2>1. buffered[p][d] \cup {x} \in SUBSET Items
    BY <1>1 DEF TypeOK
  <2>2. Message(d, buffered[p][d] \cup {x}) \in [dest : PEs, items : SUBSET Items]
    BY <2>1 DEF Message
  <2>3. buffered' \in [PEs -> [PEs -> SUBSET Items]]
    BY <1>3 DEF TypeOK
  <2> QED BY <1>3, <2>2, <2>3 DEF TypeOK
<1> QED BY <1>2, <1>3 DEF Insert

LEMMA FlushType ==
  ASSUME TypeOK, NEW p \in PEs, FlushPE(p)
  PROVE  /\ buffered' \in [PEs -> [PEs -> SUBSET Items]]
         /\ network' \in SUBSET [dest : PEs, items : SUBSET Items]
<1>1. \A d \in PEs : Message(d, buffered[p][d]) \in [dest : PEs, items : SUBSET Items]
  BY DEF TypeOK, Message
<1> QED BY <1>1 DEF FlushPE, TypeOK

LEMMA StepKeeps ==
  ASSUME IInv, Next
  PROVE  IInv'
<1> USE DEF IInv, Counted
<1>1. CASE Work
  <2>1. PICK p \in PEs, d \in PEs, x \in Unsent : Insert(p, d, x, network)
    BY <1>1 DEF Work
  <2> QED BY <2>1, <1>1, InsertType DEF Work, TypeOK
<1>2. CASE HtramQuiesce
  BY <1>2 DEF HtramQuiesce, TypeOK, traffic
<1>3. CASE OnQD
  BY <1>3 DEF OnQD, TypeOK, traffic, Quiet
<1>4. CASE SecondQD
  <2>1. TypeOK'
    BY <1>4 DEF SecondQD, TypeOK, traffic, Quiet
  <2>2. PEs \ toCount' = {} /\ network' = {} /\ toFlush' = {}
    BY <1>4 DEF SecondQD, traffic, Quiet
  <2> QED BY <2>1, <2>2
<1>5. CASE OnBufferCount
  <2>1. TypeOK'
    BY <1>5 DEF OnBufferCount, TypeOK, traffic, AllCounted, Retry
  <2>2. phase' # "count"
    BY <1>5 DEF OnBufferCount, Retry
  <2> QED BY <2>1, <2>2
<1>6. ASSUME NEW p \in PEs, Flush(p)
      PROVE  IInv'
  <2>1. TypeOK'
    BY <1>6, FlushType DEF Flush, TypeOK
  <2>2. phase' # "count"
    BY <1>6 DEF Flush, TypeOK
  <2> QED BY <2>1, <2>2
<1>7. ASSUME NEW p \in PEs, CountBuffers(p)
      PROVE  IInv'
  <2>1. Count(p) \in Nat /\ (Count(p) = 0 => AtPE(p) = {})
    BY CountType
  <2>2. TypeOK'
    BY <1>7, <2>1 DEF CountBuffers, TypeOK, traffic
  <2>3. phase = "count" /\ network' = {} /\ toFlush' = {}
    BY <1>7 DEF CountBuffers, TypeOK, traffic
  <2>4. ASSUME total' = 0, NEW q \in PEs \ toCount'
        PROVE  AtPE(q)' = {}
    <3>1. total = 0 /\ Count(p) = 0
      BY <1>7, <2>1, <2>4 DEF CountBuffers, TypeOK
    <3>2. q = p \/ q \in PEs \ toCount
      BY <1>7, <2>4 DEF CountBuffers
    <3>3. AtPE(q) = {}
      BY <2>1, <2>3, <3>1, <3>2
    <3> QED BY <1>7, <3>3 DEF CountBuffers, AtPE, traffic
  <2> QED BY <2>2, <2>3, <2>4
<1>8. ASSUME NEW m \in network, Deliver(m)
      PROVE  IInv'
  <2>1. m.dest \in PEs /\ m.items \in SUBSET Items
    BY <1>8 DEF TypeOK
  <2> DEFINE Typed == /\ buffered' \in [PEs -> [PEs -> SUBSET Items]]
                      /\ network' \in SUBSET [dest : PEs, items : SUBSET Items]
  <2>2. Typed
    <3>1. CASE network' = network \ {m} /\ UNCHANGED buffered
      BY <3>1 DEF TypeOK
    <3>2. ASSUME NEW d \in PEs, NEW x \in Unsent,
                 Insert(m.dest, d, x, network \ {m})
          PROVE  Typed
      BY <2>1, <3>2, InsertType
    <3> HIDE DEF Typed
    <3> QED BY <3>1, <3>2, <1>8 DEF Deliver
  <2>3. phase # "count"
    BY <1>8
  <2>4. TypeOK'
    BY <2>1, <2>2, <1>8 DEF Deliver, TypeOK
  <2> QED BY <1>8, <2>3, <2>4 DEF Deliver
<1> QED BY <1>1, <1>2, <1>3, <1>4, <1>5, <1>6, <1>7, <1>8 DEF Next, Protocol

LEMMA Invariance == Spec => []IInv
<1>1. Init => IInv
  BY DEF Init, IInv, TypeOK, Counted
<1>2. IInv /\ UNCHANGED vars => IInv'
  <2> SUFFICES ASSUME IInv, UNCHANGED vars PROVE IInv'
    OBVIOUS
  <2>1. TypeOK'
    BY DEF IInv, TypeOK, vars, traffic
  <2> QED BY <2>1 DEF IInv, Counted, AtPE, vars, traffic
<1>3. IInv /\ [Next]_vars => IInv'
  BY <1>2, StepKeeps
<1> QED BY <1>1, <1>3, PTL DEF Spec

\* Every variable keeps its type; broadcasts are under way in their phase.
THEOREM TypeCorrect == Spec => []TypeOK
<1>1. IInv => TypeOK
  BY DEF IInv
<1> QED BY <1>1, Invariance, PTL

\* onBufferCount calls back with nothing in any buffer and any message,
\* for every number of PEs and items and every order of counts.
THEOREM CallbackMeansEmpty == Spec => FiresWhenEmpty
<1>1. ASSUME IInv, [Next]_vars
      PROVE  [phase = "count" /\ phase' = "none" => Pending = {}]_vars
  <2> SUFFICES ASSUME Next, phase = "count", phase' = "none"
               PROVE  Pending = {}
    BY <1>1 DEF vars
  <2>1. OnBufferCount
    BY <1>1 DEF Next, Protocol, Work, HtramQuiesce, OnQD, SecondQD, Flush,
                CountBuffers, Deliver
  <2>2. total = 0 /\ toCount = {}
    BY <2>1 DEF OnBufferCount, AllCounted, Retry
  <2>3. network = {} /\ \A p \in PEs : AtPE(p) = {}
    BY <1>1, <2>2 DEF IInv, Counted
  <2> QED BY <2>3 DEF Pending, InFlight
<1>2. Spec => [][Next]_vars
  BY PTL DEF Spec
<1> QED BY <1>1, <1>2, Invariance, PTL DEF FiresWhenEmpty
=============================================================================
