----------------------------- MODULE Quiescence -----------------------------
(***************************************************************************)
(* htramQuiesce across the PEs: wait until Charm++ has no message in       *)
(* flight (quiescence detection, QD), flush every PE, wait again, add up   *)
(* what the PEs still buffer, and call the client's callback when that is  *)
(* nothing; otherwise start over.                                          *)
(*                                                                         *)
(* Of a PE only the items a tflush sends are kept, in the buffer or        *)
(* admitted in the hold (HTramPrio tells how), per destination PE.         *)
(* countBuffers adds the buffers and the admitted counts, which is zero    *)
(* when these sets are empty and not otherwise.                            *)
(*                                                                         *)
(* As in HTramPrio, a wrong version of an operator may stand before it: a  *)
(* bug the code might have had, used nowhere.                              *)
(***************************************************************************)
EXTENDS Integers, FiniteSets

CONSTANTS PEs,
          Items    \* the items the client may send, each of them once

ASSUME QuiescenceAssumption == IsFiniteSet(PEs) /\ IsFiniteSet(Items)

VARIABLES
  phase,      \* what the PE 0 waits for; "none": nobody has asked
  buffered,   \* buffered[p][d]: what p has for d and would flush
  network,    \* the item messages in flight
  delivered,  \* the items the clients have received
  toFlush,    \* the PEs a broadcast tflush is on its way to
  toCount,    \* the PEs a broadcast countBuffers is on its way to
  total       \* the sum the reduction has so far

traffic == <<buffered, network, delivered>>
vars == <<phase, traffic, toFlush, toCount, total>>

Message(d, items) == [dest |-> d, items |-> items]
InFlight == UNION {m.items : m \in network}
AtPE(p) == UNION {buffered[p][d] : d \in PEs}
Pending == InFlight \cup UNION {AtPE(p) : p \in PEs}
Unsent == Items \ (Pending \cup delivered)

(***************************************************************************)
(* Traffic.                                                                *)
(***************************************************************************)
\* p sends x to d: it is buffered, or it fills the buffer, which leaves.
Insert(p, d, x, net) ==
  \/ /\ buffered' = [buffered EXCEPT ![p][d] = @ \cup {x}]
     /\ network' = net
  \/ /\ buffered' = [buffered EXCEPT ![p][d] = {}]
     /\ network' = net \cup {Message(d, buffered[p][d] \cup {x})}

\* tflush on p.
FlushPE(p) ==
  /\ buffered' = [buffered EXCEPT ![p] = [d \in PEs |-> {}]]
  /\ network' = network \cup
       {Message(d, buffered[p][d]) : d \in {e \in PEs : buffered[p][e] # {}}}

\* The client works until it asks for quiescence; from then on it sends only
\* from the delivery of an item, here at most one for a message.
Work == /\ phase = "none"
        /\ \E p, d \in PEs, x \in Unsent : Insert(p, d, x, network)
        /\ UNCHANGED <<delivered, phase, toFlush, toCount, total>>

Deliver(m) ==
  /\ m \in network
  /\ \/ network' = network \ {m} /\ UNCHANGED buffered
     \/ \E d \in PEs, x \in Unsent : Insert(m.dest, d, x, network \ {m})
  /\ delivered' = delivered \cup m.items
  /\ UNCHANGED <<phase, toFlush, toCount, total>>

(***************************************************************************)
(* The protocol.                                                           *)
(***************************************************************************)
HtramQuiesce ==
  /\ phase = "none"
  /\ phase' = "qd"
  /\ UNCHANGED <<traffic, toFlush, toCount, total>>

\* Charm++ detects quiescence: no message is in flight, a broadcast included.
Quiet == network = {} /\ toFlush = {} /\ toCount = {}

OnQD ==
  /\ phase = "qd" /\ Quiet
  /\ toFlush' = PEs
  /\ phase' = "flushed"
  /\ UNCHANGED <<traffic, toCount, total>>

Flush(p) ==
  /\ p \in toFlush
  /\ FlushPE(p)
  /\ toFlush' = toFlush \ {p}
  /\ UNCHANGED <<delivered, phase, toCount, total>>

SecondQD ==
  /\ phase = "flushed" /\ Quiet
  /\ toCount' = PEs
  /\ total' = 0
  /\ phase' = "count"
  /\ UNCHANGED <<traffic, toFlush>>

\* What p contributes: the sizes of its buffers.
CountToSelf(p) == Cardinality(buffered[p][p])
Held(p) == {e \in PEs \X Items : e[2] \in buffered[p][e[1]]}
Count(p) == Cardinality(Held(p))

CountBuffers(p) ==
  /\ p \in toCount
  /\ total' = total + Count(p)
  /\ toCount' = toCount \ {p}
  /\ UNCHANGED <<phase, traffic, toFlush>>

\* Where a cycle that found something starts again.
RetryCount == "flushed"
Retry == "qd"

\* The reduction is complete.
SomeCounted == toCount # PEs
AllCounted == toCount = {}

OnBufferCount ==
  /\ phase = "count" /\ AllCounted
  /\ phase' = IF total = 0 THEN "none" ELSE Retry
  /\ UNCHANGED <<traffic, toFlush, toCount, total>>

\* The periodic flush, when it is on, knows nothing of all this.
PeriodicTFlush(p) ==
  /\ AtPE(p) # {}
  /\ FlushPE(p)
  /\ UNCHANGED <<delivered, phase, toFlush, toCount, total>>

(***************************************************************************)
(* The specifications, without the periodic flush and with it.             *)
(***************************************************************************)
Init ==
  /\ phase = "none"
  /\ buffered = [p \in PEs |-> [d \in PEs |-> {}]]
  /\ network = {} /\ delivered = {}
  /\ toFlush = {} /\ toCount = {}
  /\ total = 0

Protocol == \/ OnQD \/ SecondQD \/ OnBufferCount
            \/ \E p \in PEs : Flush(p) \/ CountBuffers(p)
            \/ \E m \in network : Deliver(m)

Next == Work \/ HtramQuiesce \/ Protocol

\* Messages are delivered, and Charm++ detects quiescence.
Spec == Init /\ [][Next]_vars /\ WF_vars(Protocol)

TimerNext == Next \/ \E p \in PEs : PeriodicTFlush(p)
TimerSpec == Init /\ [][TimerNext]_vars
-----------------------------------------------------------------------------
TypeOK ==
  /\ phase \in {"none", "qd", "flushed", "count"}
  /\ buffered \in [PEs -> [PEs -> SUBSET Items]]
  /\ network \in SUBSET [dest : PEs, items : SUBSET Items]
  /\ delivered \subseteq Items
  /\ toFlush \subseteq PEs /\ (toFlush # {} => phase = "flushed")
  /\ toCount \subseteq PEs /\ (toCount # {} => phase = "count")
  /\ total \in Nat

\* onBufferCount fires the callback only when all buffers are empty
\* (htram_group.C:1241) and no item is on its way to a client that may send
\* more: the PEs count at different times, and one count must stand for all.
FiresWhenEmpty ==
  [][phase = "count" /\ phase' = "none" => Pending = {}]_vars

\* The same of the buffers alone.  With the periodic flush on, a PE that has
\* counted nothing receives what another flushes before it counts.
FiresWhenBuffersEmpty ==
  [][phase = "count" /\ phase' = "none" => \A p \in PEs : AtPE(p) = {}]_vars

\* A client that has asked for quiescence gets its callback, however often a
\* delivery after a PE's flush puts something into its buffers again.
CallbackFires == phase # "none" ~> phase = "none"
=============================================================================
