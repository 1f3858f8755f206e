---------------------------- MODULE PPNodeBuffer ----------------------------
(***************************************************************************)
(* agg = PP: the PEs of a node are threads that collect items in a private *)
(* local buffer and copy it, when it is full, into one buffer they share   *)
(* per destination node.  A thread reserves slots by adding to get_idx,    *)
(* copies, and adds to done_count and to its own mailbox; the thread that  *)
(* completes the count, or a flush that closes the buffer, ships it.       *)
(*                                                                         *)
(* One destination: nothing is shared between two of them.  This is the    *)
(* build without BUCKETS_BY_DEST; every atomic access is a step of its     *)
(* own, and memory is sequentially consistent.                             *)
(*                                                                         *)
(* A thread that finds the buffer closed spins, adding to get_idx again    *)
(* and again.  Only get_idx < bufSize is ever asked, so spinning is        *)
(* waiting here and the value above bufSize does not grow.                 *)
(*                                                                         *)
(* As in HTramPrio, a wrong version of an operator may stand before it: a  *)
(* bug the code might have had, used nowhere.                              *)
(***************************************************************************)
EXTENDS Integers, Sequences, FiniteSets, FiniteSetsExt, Functions

CONSTANTS Threads,        \* the PEs of the node
          Items,
          bufSize,
          LOCAL_BUFSIZE

ASSUME PPAssumption ==
  /\ bufSize \in Nat \ {0}
  /\ LOCAL_BUFSIZE \in Nat \ {0}

VARIABLES
  pc,           \* where a thread is
  local_buf,    \* local_buf[t]: the items thread t has collected
  slot,         \* slot[t]: the index t reserved, or the size it will ship
  get_idx, done_count, mailbox_receiver,
  msgBuffer,    \* the shared buffer: an item or Hole per slot
  sent          \* the messages handed to the runtime

shared == <<get_idx, done_count, mailbox_receiver, msgBuffer>>
vars == <<pc, local_buf, slot, shared, sent>>

Hole == "never written"
Slots == 0 .. bufSize + LOCAL_BUFSIZE - 1
NewBuffer == [i \in Slots |-> Hole]

Goto(t, at) == pc' = [pc EXCEPT ![t] = at]

OpenAtEnd == get_idx <= bufSize
Open == get_idx < bufSize

\* fetch_add on get_idx.
Reserved(n) == get_idx' = IF get_idx < bufSize THEN get_idx + n ELSE get_idx

Stored == (UNION {Range(local_buf[t]) : t \in Threads})
            \cup (Range(msgBuffer) \ {Hole})
Known == Stored \cup UNION {m.items : m \in sent}

(***************************************************************************)
(* insertValue and copyToNodeBuf                                           *)
(***************************************************************************)
InsertValue(t, x) ==
  /\ pc[t] = "idle"
  /\ x \notin Known
  /\ local_buf' = [local_buf EXCEPT ![t] = Append(@, x)]
  /\ Goto(t, IF Len(local_buf'[t]) = LOCAL_BUFSIZE THEN "reserve" ELSE "idle")
  /\ UNCHANGED <<slot, shared, sent>>

Reserve(t) ==
  /\ pc[t] = "reserve"
  /\ Open
  /\ slot' = [slot EXCEPT ![t] = get_idx]
  /\ Reserved(LOCAL_BUFSIZE)
  /\ Goto(t, "copy")
  /\ UNCHANGED <<local_buf, done_count, mailbox_receiver, msgBuffer, sent>>

\* local_idx is private to the thread: its reset is done here.
Copy(t) ==
  /\ pc[t] = "copy"
  /\ msgBuffer' = [i \in Slots |->
                     IF i - slot[t] \in 0 .. LOCAL_BUFSIZE - 1
                       THEN local_buf[t][i - slot[t] + 1] ELSE msgBuffer[i]]
  /\ local_buf' = [local_buf EXCEPT ![t] = <<>>]
  /\ Goto(t, "count")
  /\ UNCHANGED <<slot, get_idx, done_count, mailbox_receiver, sent>>

\* Who completes the buffer goes on to ship it, when its mailbox is counted.
Count(t) ==
  /\ pc[t] = "count"
  /\ done_count' = done_count + LOCAL_BUFSIZE
  /\ \/ /\ done_count' = bufSize
        /\ slot' = [slot EXCEPT ![t] = bufSize]
        /\ Goto(t, "lastMail")
     \/ /\ done_count' # bufSize
        /\ slot' = [slot EXCEPT ![t] = 0]
        /\ Goto(t, "mail")
  /\ UNCHANGED <<local_buf, get_idx, mailbox_receiver, msgBuffer, sent>>

Mail(t) ==
  /\ pc[t] \in {"mail", "lastMail"}
  /\ mailbox_receiver' = [mailbox_receiver EXCEPT ![t] = @ + LOCAL_BUFSIZE]
  /\ Goto(t, IF pc[t] = "lastMail" THEN "collect" ELSE "idle")
  /\ UNCHANGED <<local_buf, slot, get_idx, done_count, msgBuffer, sent>>

(***************************************************************************)
(* tflush                                                                  *)
(***************************************************************************)
\* The local buffer leaves as it is, empty or not.
FlushLocal(t) ==
  /\ pc[t] = "idle"
  /\ sent' = sent \cup {[items |-> Range(local_buf[t])]}
  /\ local_buf' = [local_buf EXCEPT ![t] = <<>>]
  /\ Goto(t, "peek")
  /\ UNCHANGED <<slot, shared>>

\* The test for something to ship in the shared buffer.
CountedMany == done_count > 1
Counted == done_count # 0

FlushPeek(t) ==
  /\ pc[t] = "peek"
  /\ Goto(t, IF Counted THEN "claim" ELSE "idle")
  /\ UNCHANGED <<local_buf, slot, shared, sent>>

\* Closes the buffer, unless it is closed already: then whoever did ships it.
FlushClaim(t) ==
  /\ pc[t] = "claim"
  /\ Reserved(bufSize)
  /\ \/ Open /\ slot' = [slot EXCEPT ![t] = get_idx] /\ Goto(t, "await")
     \/ ~Open /\ UNCHANGED slot /\ Goto(t, "idle")
  /\ UNCHANGED <<local_buf, done_count, mailbox_receiver, msgBuffer, sent>>

\* Until every reserved slot has been counted.
AllCounted(t) == done_count = slot[t]

FlushAwait(t) ==
  /\ pc[t] = "await"
  /\ AllCounted(t)
  /\ Goto(t, "collect")
  /\ UNCHANGED <<local_buf, slot, shared, sent>>

(***************************************************************************)
(* Shipping, the same in both.                                             *)
(***************************************************************************)
\* The mailboxes are added up until they reach the size.
Collect(t) ==
  /\ pc[t] = "collect"
  /\ MapThenSumSet(LAMBDA u : mailbox_receiver[u], Threads) >= slot[t]
  /\ mailbox_receiver' = [u \in Threads |-> 0]
  /\ Goto(t, "ship")
  /\ UNCHANGED <<local_buf, slot, get_idx, done_count, msgBuffer, sent>>

\* The slots that go into the message: next = done_count in a flush, bufSize
\* in copyToNodeBuf.
ShippedShort(n) == {msgBuffer[i] : i \in 0 .. n - 2}
Shipped(n) == {msgBuffer[i] : i \in 0 .. n - 1}

Ship(t) ==
  /\ pc[t] = "ship"
  /\ sent' = sent \cup {[items |-> Shipped(slot[t])]}
  /\ msgBuffer' = NewBuffer
  /\ Goto(t, "clearCount")
  /\ UNCHANGED <<local_buf, slot, get_idx, done_count, mailbox_receiver>>

ClearCount(t) ==
  /\ pc[t] = "clearCount"
  /\ done_count' = 0
  /\ Goto(t, "reopen")
  /\ UNCHANGED <<local_buf, slot, get_idx, mailbox_receiver, msgBuffer, sent>>

Reopen(t) ==
  /\ pc[t] = "reopen"
  /\ get_idx' = 0
  /\ slot' = [slot EXCEPT ![t] = 0]
  /\ Goto(t, "idle")
  /\ UNCHANGED <<local_buf, done_count, mailbox_receiver, msgBuffer, sent>>

(***************************************************************************)
(* The specification.                                                      *)
(***************************************************************************)
Init ==
  /\ pc = [t \in Threads |-> "idle"]
  /\ local_buf = [t \in Threads |-> <<>>]
  /\ slot = [t \in Threads |-> 0]
  /\ get_idx = 0 /\ done_count = 0
  /\ mailbox_receiver = [t \in Threads |-> 0]
  /\ msgBuffer = NewBuffer
  /\ sent = {}

\* A thread inside insertValue or tflush.
Run(t) == \/ Reserve(t) \/ Copy(t) \/ Count(t) \/ Mail(t)
          \/ FlushPeek(t) \/ FlushClaim(t) \/ FlushAwait(t)
          \/ Collect(t) \/ Ship(t) \/ ClearCount(t) \/ Reopen(t)

Next == \E t \in Threads :
          \/ \E x \in Items : InsertValue(t, x)
          \/ FlushLocal(t)
          \/ Run(t)

Spec == Init /\ [][Next]_vars

\* The threads run, and their periodic timers flush.
LiveSpec == /\ Spec
            /\ \A t \in Threads : WF_vars(Run(t)) /\ SF_vars(FlushLocal(t))
-----------------------------------------------------------------------------
TypeOK ==
  /\ local_buf \in [Threads -> Seq(Items)]
  /\ \A t \in Threads : Len(local_buf[t]) <= LOCAL_BUFSIZE
  /\ slot \in [Threads -> 0 .. bufSize]
  /\ get_idx \in 0 .. 2 * bufSize + LOCAL_BUFSIZE
  /\ done_count \in 0 .. bufSize + LOCAL_BUFSIZE
  /\ mailbox_receiver \in [Threads -> 0 .. bufSize + LOCAL_BUFSIZE]

\* The buffer has one owner from the moment it is closed until it is opened
\* again: a full count and a flush never ship it both, and while it is closed
\* there is somebody who will.
Owners == {t \in Threads : pc[t] \in {"lastMail", "await", "collect", "ship",
                                      "clearCount", "reopen"}}
Copying == {t \in Threads : pc[t] \in {"copy", "count"}}
OneOwner ==
  /\ Cardinality(Owners) <= 1
  /\ get_idx >= bufSize => Owners \cup Copying # {}

\* A message leaves only when every slot it counts has been written.
NoHoleShipped ==
  \A t \in Threads : pc[t] = "ship" => Hole \notin Shipped(slot[t])

\* No item is lost, sent twice or overwritten, whatever way the threads
\* interleave.  A message without items is no abstract step.
Service == INSTANCE TramService WITH
             Dests <- {0},
             Batches <- {S \in SUBSET Items :
                           S # {} /\ Cardinality(S) <= bufSize},
             pending <- [d \in {0} |-> Stored],
             shipped <- {[dest |-> 0, items |-> m.items] :
                           m \in {n \in sent : n.items # {}}}
ImplementsTramService == Service!Spec

\* README.md:73: tflush() sends every partially filled buffer.  With the
\* periodic flush on, an item a thread has collected is sent.
EveryItemLeaves ==
  \A x \in Items : x \in Stored ~> x \notin Stored
=============================================================================
