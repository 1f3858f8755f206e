------------------------------ MODULE NodeRecv ------------------------------
(***************************************************************************)
(* The receiving side: HTramRecv, a node group whose entry methods run on  *)
(* any PE of the node, and the receivePerPE handlers of its PEs.           *)
(*                                                                         *)
(* receive sorts the items of a message by rank into a node message, whose *)
(* offsets delimit the ranges of the PEs; receive_no_sort passes on the    *)
(* sender's message, in which the items of a PE are a contiguous range.    *)
(* Either way one message is shared by the PEs under a reference count:    *)
(* the receiver holds one reference and takes one more per delivery, and a *)
(* delivery drops its own when the callback has returned.  PEs are threads *)
(* of one process, so deliveries run while the receiver still loops.  What *)
(* is shared does not change any more, and stands here under the message   *)
(* that arrived.                                                           *)
(*                                                                         *)
(* The callback may be called once per item or once per batch (ret_list):  *)
(* the same items in the same order.  The counters tot_recv_count,         *)
(* node_msgs and node_msg_bytes are only printed, and left out.            *)
(***************************************************************************)
EXTENDS Wire

VARIABLES
  refs,       \* refs[m]: the references to m, for each message not freed
  queue,      \* queue[pe]: the messages whose receivePerPE is due at pe
  running,    \* running[pe]: what pe executes
  delivered   \* delivered[x]: the places whose callback got x, in order

receiver == <<refs, queue, running, delivered>>

Idle == [at |-> "idle"]
FansOut(m, skip) == [at |-> "fanout", msg |-> m, rank |-> 0, skip |-> skip]
CallsBack(m) == [at |-> "callback", msg |-> m]

ReceiverInit ==
  /\ wire = {}
  /\ refs = <<>>
  /\ queue = [pe \in PEs |-> <<>>]
  /\ running = [pe \in PEs |-> Idle]
  /\ delivered = [x \in Items |-> <<>>]

(***************************************************************************)
(* The node message: a counting sort by rank, and the end of every rank's  *)
(* range.                                                                  *)
(***************************************************************************)
Rank(pe) == pe % NodeSize
Sizes(items) ==
  [r \in 0 .. NodeSize - 1 |-> Cardinality({i \in DOMAIN items : Rank(items[i].pe) = r})]

\* Where the range of each rank starts, and where it ends.
Starts(sizes) ==
  LET start[r \in 0 .. NodeSize - 1] ==
        IF r = 0 THEN 0 ELSE start[r - 1] + sizes[r - 1]
  IN  start

EndsEarly(sizes) == Starts(sizes)
Ends(sizes) ==
  LET end[r \in 0 .. NodeSize - 1] ==
        IF r = 0 THEN sizes[0] ELSE end[r - 1] + sizes[r]
  IN  end

\* Every item goes to the next place of its rank.
Place(to, s) ==
  [items |-> [to.items EXCEPT ![to.offset[Rank(s.pe)] + 1] = s.item],
   offset |-> [to.offset EXCEPT ![Rank(s.pe)] = @ + 1]]

Sorted(items) ==
  LET after[k \in 0 .. Len(items)] ==
        IF k = 0 THEN [items |-> [i \in DOMAIN items |-> 0],
                       offset |-> Starts(Sizes(items))]
                 ELSE Place(after[k - 1], items[k])
  IN  after[Len(items)].items

NodeMessage(m) == [items |-> Sorted(m.items), offset |-> Ends(Sizes(m.items))]

(***************************************************************************)
(* The range of a message that is pe's.                                    *)
(***************************************************************************)
ItemsOf(m) == [i \in DOMAIN m.items |-> m.items[i].item]
Slice(items, low, high) == [i \in 1 .. high - low |-> items[low + i]]

\* receivePerPE of a node message reads the offsets, ...
RangeFromStart(n, pe) == Slice(n.items, 0, n.offset[Rank(pe)])
RangeByOffset(n, pe) ==
  LET r == Rank(pe)
  IN  Slice(n.items, IF r = 0 THEN 0 ELSE n.offset[r - 1], n.offset[r])

\* ... that of a sender's message looks for it: past the PEs below pe, up to
\* the first item that is not for pe.
ScanFrom(S, n) == IF S = {} THEN n ELSE Min(S) - 1
RangeByScan(m, pe) ==
  LET n == Len(m.items)
      low == ScanFrom({i \in 1 .. n : m.items[i].pe >= pe}, n)
      high == ScanFrom({i \in low + 1 .. n : m.items[i].pe # pe}, n)
  IN  Slice(ItemsOf(m), low, high)

RangeOf(m, pe) == IF m.entry = "receive" THEN RangeByOffset(NodeMessage(m), pe)
                                         ELSE RangeByScan(m, pe)

\* The callback at a place gets a batch.
Times(batch, x) == Cardinality({i \in DOMAIN batch : batch[i] = x})
HandTo(batch, at) ==
  delivered' = [x \in Items |-> delivered[x] \o [i \in 1 .. Times(batch, x) |-> at]]

(***************************************************************************)
(* References                                                              *)
(***************************************************************************)
Drop(m) ==
  IF m \notin DOMAIN refs THEN refs        \* freed already: undefined
  ELSE IF refs[m] = 1 THEN [k \in DOMAIN refs \ {m} |-> refs[k]]
  ELSE [refs EXCEPT ![m] = @ - 1]

TakeNone(m) == refs
Take(m) == IF m \in DOMAIN refs THEN [refs EXCEPT ![m] = @ + 1] ELSE refs

(***************************************************************************)
(* receive, receive_no_sort and their loop over the PEs                    *)
(***************************************************************************)
Arrives(pe, m, entry) ==
  /\ running[pe] = Idle
  /\ m \in wire /\ m.entry = entry
  /\ m.dest = IF entry = "receiveOnPE" THEN pe ELSE NodeOf(pe)
  /\ wire' = wire \ {m}

StartFanOut(pe, m, skip) ==
  /\ refs' = [k \in DOMAIN refs \cup {m} |-> IF k = m THEN 1 ELSE refs[k]]
  /\ running' = [running EXCEPT ![pe] = FansOut(m, skip)]
  /\ UNCHANGED <<queue, delivered>>

ReceiveNoSort(pe, m) ==
  /\ Arrives(pe, m, "receive_no_sort")
  /\ StartFanOut(pe, m, FALSE)

\* skip_empty_deliveries is a setting of the client.
Receive(pe, m, skip) ==
  /\ Arrives(pe, m, "receive")
  /\ StartFanOut(pe, m, skip)

SkipsSingles(m, r) == Sizes(m.items)[r] <= 1
Skips(m, r) == Sizes(m.items)[r] = 0

\* One turn of the loop: a reference for the PE of the next rank, and a call
\* of its receivePerPE; or nothing, if that PE is skipped.
FanOut(pe) ==
  /\ running[pe].at = "fanout" /\ running[pe].rank < NodeSize
  /\ LET m == running[pe].msg
         r == running[pe].rank
     IN  \/ /\ running[pe].skip /\ Skips(m, r)
            /\ UNCHANGED <<refs, queue>>
         \/ /\ ~(running[pe].skip /\ Skips(m, r))
            /\ refs' = Take(m)
            /\ queue' = [queue EXCEPT ![PEAt(NodeOf(pe), r)] = Append(@, m)]
  /\ running' = [running EXCEPT ![pe].rank = @ + 1]
  /\ UNCHANGED <<wire, delivered>>

FanOutDone(pe) ==
  /\ running[pe].at = "fanout" /\ running[pe].rank = NodeSize
  /\ refs' = Drop(running[pe].msg)
  /\ running' = [running EXCEPT ![pe] = Idle]
  /\ UNCHANGED <<wire, queue, delivered>>

(***************************************************************************)
(* receivePerPE: the callback, and then the reference is dropped.          *)
(***************************************************************************)
ReceivePerPE(pe) ==
  /\ running[pe] = Idle /\ queue[pe] # <<>>
  /\ LET m == Head(queue[pe])
     IN  /\ HandTo(RangeOf(m, pe), OnPE(pe))
         /\ running' = [running EXCEPT ![pe] = CallsBack(m)]
  /\ queue' = [queue EXCEPT ![pe] = Tail(@)]
  /\ UNCHANGED <<wire, refs>>

CallbackReturns(pe) ==
  /\ running[pe].at = "callback"
  /\ refs' = Drop(running[pe].msg)
  /\ running' = [running EXCEPT ![pe] = Idle]
  /\ UNCHANGED <<wire, queue, delivered>>

\* The messages of WW and of insertToProcess are one receiver's own.
ReceiveOnPE(pe, m) ==
  /\ Arrives(pe, m, "receiveOnPE")
  /\ HandTo(ItemsOf(m), OnPE(pe))
  /\ UNCHANGED <<refs, queue, running>>

ReceiveOnProc(pe, m) ==
  /\ Arrives(pe, m, "receiveOnProc")
  /\ HandTo(ItemsOf(m), OnProc(m.dest))
  /\ UNCHANGED <<refs, queue, running>>

ReceiverStep(pe) ==
  \/ \E m \in wire : \/ ReceiveNoSort(pe, m)
                     \/ \E skip \in BOOLEAN : Receive(pe, m, skip)
                     \/ ReceiveOnPE(pe, m)
                     \/ ReceiveOnProc(pe, m)
  \/ FanOut(pe) \/ FanOutDone(pe)
  \/ ReceivePerPE(pe) \/ CallbackReturns(pe)

-----------------------------------------------------------------------------
(***************************************************************************)
(* The reference count of a shared message is the number of deliveries     *)
(* due, callbacks that read it, and the receiver that still loops; it is   *)
(* freed when there are none, and not before.                              *)
(***************************************************************************)
DueAt(m) == {pe \in PEs : m \in ToSet(queue[pe])}
HeldBy(m) == {pe \in PEs : running[pe] # Idle /\ running[pe].msg = m}
InUse == (UNION {ToSet(queue[pe]) : pe \in PEs})
           \cup {running[pe].msg : pe \in {p \in PEs : running[p] # Idle}}

RefsExact ==
  /\ DOMAIN refs = InUse
  /\ \A m \in DOMAIN refs : refs[m] = Cardinality(DueAt(m)) + Cardinality(HeldBy(m))
=============================================================================
