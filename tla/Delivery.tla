------------------------------ MODULE Delivery ------------------------------
(***************************************************************************)
(* Plain sends from end to end: the client of one PE inserts items, its    *)
(* HTram buffers and ships them, and the nodes they are for hand them to   *)
(* the callbacks of their PEs.  Senders of different PEs share nothing in  *)
(* these modes, so one of them stands for all.                             *)
(***************************************************************************)
EXTENDS PlainSends, NodeRecv

CONSTANTS
  Self,      \* the PE that sends
  Targets,   \* the PEs its client sends to
  Procs      \* the nodes its client sends to with insertToProcess

ASSUME DeliveryAssumption == Self \in PEs /\ Targets \subseteq PEs /\ Procs \subseteq Nodes

vars == <<wire, sender, receiver>>

Init == SenderInit /\ ReceiverInit

\* The client's calls run on its PE: by themselves, or in a callback.
ClientRuns == running[Self].at # "fanout"

\* A client of insertToProcess stays in the default mode.  In the others the
\* receiver of a flushed buffer takes its dest PE -1 for a rank, or the node
\* for a PE.
Client ==
  \/ \E x \in Items, pe \in Targets : InsertValue(x, pe)
  \/ \E x \in Items, n \in Procs : agg = "WsP" /\ InsertToProcess(x, n)
  \/ /\ \E x \in Items : Fresh(x)   \* a bound: past the last item they change nothing
     /\ \/ \E n \in BufSizes : SetBufferSize(n)
        \/ \E mode \in Modes : ResetStats(mode)

Sends(A) == ClientRuns /\ A /\ UNCHANGED receiver
Receives(pe) == ReceiverStep(pe) /\ UNCHANGED sender

Next == Sends(Client) \/ Sends(TFlush) \/ \E pe \in PEs : Receives(pe)

Spec == Init /\ [][Next]_vars

\* periodic_tflush is called again and again (htram_group.C:1500); a PE runs
\* what is in its queues.
LiveSpec == /\ Spec
            /\ SF_vars(Sends(TFlush))
            /\ \A pe \in PEs : WF_vars(Receives(pe))

-----------------------------------------------------------------------------
\* The types; a message that nobody refers to is freed.
ItemSlots == [item : Items \cup {Garbage}, pe : PEs \cup {AnyPE}]

TypeOK ==
  /\ agg \in {"WsP", "WPs", "WW"} /\ bufSize \in BufSizes
  /\ \A pe \in PEs : localBuffers[pe] \in Seq([item : Items, pe : {pe}])
  /\ msgBuffers \in [PEs -> [slots : Seq(ItemSlots), cap : Nat]]
  /\ inserted \subseteq [item : Items, place : Places]
  /\ \A m \in DOMAIN refs : refs[m] \in Nat \ {0}
  /\ delivered \in [Items -> Seq(Places)]

(***************************************************************************)
(* Between handlers every buffer in use has the capacity of bufSize and    *)
(* room for the next item, across changes of size and mode.  Otherwise a   *)
(* fill site (htram_group.C:732) writes past the end, or misses its        *)
(* equality test for ever.                                                 *)
(***************************************************************************)
RoomForNext ==
  \A d \in Dests(agg) : msgBuffers[d].cap = bufSize /\ NextOf(d) < bufSize

(***************************************************************************)
(* In WsP the count of a message agrees with the local buffers it stands   *)
(* for (htram_group.C:735-742); otherwise slots leave that nobody wrote,   *)
(* or items stay behind.                                                   *)
(***************************************************************************)
LocalsAgree ==
  agg = "WsP" => \A d \in Nodes :
    ~ForProcess(d) => NextOf(d) = Len(Locals(localBuffers, d))

(***************************************************************************)
(* A message of receive_no_sort has the items of a PE in one range, and    *)
(* the ranges in the order of the PEs, which receivePerPE relies on        *)
(* (htram_group.C:1293); every item of a message is one that was inserted, *)
(* and is for a PE of the node.                                            *)
(***************************************************************************)
MessagesWellFormed ==
  \A m \in wire :
    /\ \A i \in DOMAIN m.items : m.items[i].item # Garbage
    /\ m.entry \in {"receive", "receive_no_sort"} =>
         \A i \in DOMAIN m.items :
           m.items[i].pe # AnyPE => NodeOf(m.items[i].pe) = m.dest
    /\ m.entry = "receive_no_sort" =>
         \A i, j \in DOMAIN m.items : i < j => m.items[i].pe <= m.items[j].pe

(***************************************************************************)
(* An item for a PE is in one place: buffered, in a message, in a shared   *)
(* message whose delivery to that PE is still due, or handed over.         *)
(***************************************************************************)
At(slots, x) == {i \in DOMAIN slots : slots[i].item = x}
Buffered(x) ==
  (UNION {{<<"local", p, i>> : i \in At(localBuffers[p], x)} : p \in PEs})
  \cup (UNION {{<<"slot", p, i>> : i \in At(msgBuffers[p].slots, x)} : p \in PEs})
OnWire(x) == UNION {{<<"wire", m, i>> : i \in At(m.items, x)} : m \in wire}

DueIn(m, x, pe) == {i \in DOMAIN RangeOf(m, pe) : RangeOf(m, pe)[i] = x}
LoopsTo(pe) == {p \in PEs : /\ running[p].at = "fanout" /\ NodeOf(p) = NodeOf(pe)
                            /\ running[p].rank <= Rank(pe)}
ToCome(x, pe) ==
  (UNION {{<<"queue", k, i>> : i \in DueIn(queue[pe][k], x, pe)} : k \in DOMAIN queue[pe]})
  \cup (UNION {{<<"loop", p, i>> : i \in DueIn(running[p].msg, x, pe)} : p \in LoopsTo(pe)})
HandedOver(x) == {<<"callback", k>> : k \in DOMAIN delivered[x]}

Whereabouts(x, pe) == Buffered(x) \cup OnWire(x) \cup ToCome(x, pe) \cup HandedOver(x)

EveryItemAccounted ==
  \A r \in inserted : \A pe \in PEs :
    r.place = OnPE(pe) => Cardinality(Whereabouts(r.item, pe)) = 1

\* Sending, receiving and sharing implement the promise of the service.
Service == INSTANCE DeliveryService
ImplementsDeliveryService == Service!Spec

\* With the periodic flush, an item inserted for a PE gets there.
ForPE(x) == \E pe \in Targets : [item |-> x, place |-> OnPE(pe)] \in inserted
EveryItemDelivered == \A x \in Items : ForPE(x) ~> delivered[x] # <<>>
=============================================================================
