----------------------------- MODULE PlainSends -----------------------------
(***************************************************************************)
(* One PE's plain sends, without priorities and holds (the build without   *)
(* BUCKETS_BY_DEST): insertValue in the modes WsP, WPs and WW,             *)
(* insertToProcess, tflush, setBufferSize and reset_stats.                 *)
(*                                                                         *)
(* In WsP an item waits in the local buffer of its PE and is counted in    *)
(* the message to its node: the count is a slot nobody has written, until  *)
(* the local buffers are copied over the slots when the message leaves.    *)
(*                                                                         *)
(* A handler is one action: what the PE sends in it is seen by nobody      *)
(* before the runtime gets the PE back.  A wrong version of an operator    *)
(* stands before it where a property is to tell the two apart.             *)
(***************************************************************************)
EXTENDS Wire

CONSTANTS
  BufSizes,    \* the sizes the client passes to setBufferSize
  Modes,       \* the values of agg the client passes to reset_stats
  Garbage      \* the item in a slot nobody has written

ASSUME PlainAssumption ==
  /\ BufSizes \subseteq Nat \ {0} /\ BufSizes # {}
  /\ Modes \subseteq {"WsP", "WPs", "WW"}
  /\ Garbage \notin Items

VARIABLES
  agg,
  bufSize,
  localBuffers,   \* localBuffers[pe]
  msgBuffers,     \* msgBuffers[d]: the slots below next, and the capacity
  inserted        \* what the client asked for: [item, place] pairs

sender == <<agg, bufSize, localBuffers, msgBuffers, inserted>>

\* destCount(), and the destination of an item for pe.
Dests(mode) == IF mode = "WW" THEN PEs ELSE Nodes
DestOf(pe) == IF agg = "WW" THEN pe ELSE NodeOf(pe)

Unwritten == Slot(Garbage, AnyPE)
NewMessage(n) == [slots |-> <<>>, cap |-> n]
NoMessage == [slots |-> <<>>, cap |-> 0]    \* the null pointer
NextOf(d) == Len(msgBuffers[d].slots)

SenderInit ==
  /\ agg = "WsP"
  /\ bufSize \in BufSizes
  /\ localBuffers = [pe \in PEs |-> <<>>]
  /\ msgBuffers = [d \in PEs |-> IF d \in Dests(agg) THEN NewMessage(bufSize)
                                                     ELSE NoMessage]
  /\ inserted = {}

(***************************************************************************)
(* A message leaves.  In WsP its slots are first overwritten with the      *)
(* local buffers of its node, in the order of their PEs.                   *)
(***************************************************************************)
LocalsReversed(local, n) ==
  FlattenSeq([r \in 1 .. NodeSize |-> local[PEsOf(n)[NodeSize + 1 - r]]])
Locals(local, n) == FlattenSeq([r \in 1 .. NodeSize |-> local[PEsOf(n)[r]]])

Contents(local, d, slots) ==
  IF agg # "WsP" THEN slots
  ELSE LET copied == Locals(local, d)
       IN  [i \in DOMAIN slots |-> IF i \in DOMAIN copied THEN copied[i]
                                                          ELSE slots[i]]

EntryPoint == CASE agg = "WsP" -> "receive_no_sort"
                [] agg = "WPs" -> "receive"
                [] agg = "WW"  -> "receiveOnPE"

LocalsKept(local, gone) == local
LocalsLeft(local, gone) ==
  [pe \in PEs |-> IF agg = "WsP" /\ NodeOf(pe) \in gone THEN <<>> ELSE local[pe]]

(***************************************************************************)
(* insertValue and insertToProcess.  A client that uses both waits for the *)
(* buffer to leave in between: insertValue ships what it finds in the      *)
(* buffer to the entry point of its own mode.                              *)
(***************************************************************************)
Fresh(x) == \A r \in inserted : r.item # x
ForProcess(d) == \E s \in ToSet(msgBuffers[d].slots) : s.pe = AnyPE /\ s # Unwritten
ForPEs(d) == NextOf(d) # 0 /\ ~ForProcess(d)

Store(d, slot) == Append(msgBuffers[d].slots, slot)
With(x, place) == inserted \cup {[item |-> x, place |-> place]}

InsertValue(x, pe) ==
  LET d == DestOf(pe)
      local == IF agg = "WsP"
                 THEN [localBuffers EXCEPT ![pe] = Append(@, Slot(x, pe))]
                 ELSE localBuffers
      slots == Store(d, IF agg = "WsP" THEN Unwritten ELSE Slot(x, pe))
      now == With(x, OnPE(pe))
  IN  /\ Fresh(x) /\ ~ForProcess(d)
      /\ inserted' = now
      /\ \/ /\ Len(slots) # bufSize
            /\ msgBuffers' = [msgBuffers EXCEPT ![d].slots = slots]
            /\ localBuffers' = local
            /\ UNCHANGED wire
         \/ /\ Len(slots) = bufSize
            /\ wire' = wire \cup
                 {Message(EntryPoint, d, Contents(local, d, slots), Cardinality(now))}
            /\ msgBuffers' = [msgBuffers EXCEPT ![d] = NewMessage(bufSize)]
            /\ localBuffers' = LocalsLeft(local, {d})
      /\ UNCHANGED <<agg, bufSize>>

InsertToProcess(x, n) ==
  LET slots == Store(n, Slot(x, AnyPE))
      now == With(x, OnProc(n))
  IN  /\ Fresh(x) /\ ~ForPEs(n)
      /\ inserted' = now
      /\ \/ /\ Len(slots) # bufSize
            /\ msgBuffers' = [msgBuffers EXCEPT ![n].slots = slots]
            /\ UNCHANGED wire
         \/ /\ Len(slots) = bufSize
            /\ wire' = wire \cup {Message("receiveOnProc", n, slots, Cardinality(now))}
            /\ msgBuffers' = [msgBuffers EXCEPT ![n] = NewMessage(bufSize)]
      /\ UNCHANGED <<agg, bufSize, localBuffers>>

(***************************************************************************)
(* tflush, setBufferSize and reset_stats                                   *)
(***************************************************************************)
Partial == {d \in Dests(agg) : NextOf(d) # 0}

TFlush ==
  /\ wire' = wire \cup
       {Message(EntryPoint, d, Contents(localBuffers, d, msgBuffers[d].slots),
                Cardinality(inserted)) : d \in Partial}
  /\ msgBuffers' = [d \in PEs |-> IF d \in Partial THEN NewMessage(bufSize)
                                                   ELSE msgBuffers[d]]
  /\ localBuffers' = LocalsLeft(localBuffers, Partial)
  /\ UNCHANGED <<agg, bufSize, inserted>>

\* setBufferSize aborts if anything is buffered.
SetBufferSize(n) ==
  /\ n # bufSize
  /\ Partial = {}
  /\ bufSize' = n
  /\ msgBuffers' = [d \in PEs |-> IF d \in Dests(agg) /\ msgBuffers[d] # NoMessage
                                    THEN NewMessage(n) ELSE msgBuffers[d]]
  /\ UNCHANGED <<agg, localBuffers, wire, inserted>>

\* reset_stats replaces the buffers without looking: the client calls it
\* with nothing buffered, as the drivers do.  It back-fills the buffers of
\* destinations that the mode did not have.
RefreshKept(mode, d) ==
  IF msgBuffers[d] = NoMessage THEN NoMessage ELSE NewMessage(bufSize)
Refresh(mode, d) == IF d \in Dests(mode) THEN NewMessage(bufSize) ELSE msgBuffers[d]

ResetStats(mode) ==
  /\ Partial = {}
  /\ agg' = mode
  /\ msgBuffers' = [d \in PEs |-> Refresh(mode, d)]
  /\ UNCHANGED <<bufSize, localBuffers, wire, inserted>>
=============================================================================
