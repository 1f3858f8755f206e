-------------------------------- MODULE Wire --------------------------------
(***************************************************************************)
(* The nodes of a run, their PEs, and the messages of HTram that travel    *)
(* between them, in no order.                                              *)
(***************************************************************************)
EXTENDS Integers, SequencesExt

CONSTANTS
  Items,       \* the items the client may insert
  NumNodes,    \* CkNumNodes()
  NodeSize     \* CkNodeSize(0), and that of every other node

ASSUME WireAssumption ==
  /\ NumNodes \in Nat \ {0}
  /\ NodeSize \in Nat \ {0}

VARIABLE wire   \* the messages sent and not received

Nodes == 0 .. NumNodes - 1
PEs == 0 .. NumNodes * NodeSize - 1
NodeOf(pe) == pe \div NodeSize

\* The PEs of a node, by rank.
PEAt(n, r) == n * NodeSize + r
PEsOf(n) == [r \in 1 .. NodeSize |-> PEAt(n, r - 1)]

\* The places an item can be for: a PE, or a node as a whole.
OnPE(pe) == <<"pe", pe>>
OnProc(n) == <<"proc", n>>
Places == {OnPE(pe) : pe \in PEs} \cup {OnProc(n) : n \in Nodes}

\* What a buffer holds of an item: the item and its dest PE, -1 for an item
\* of insertToProcess.
Slot(x, pe) == [item |-> x, pe |-> pe]
AnyPE == -1

\* A message on its way to an entry method at a node (or, in WW, at a PE).
\* Messages are objects, and two are never the same one: `serial` is the
\* number of items that had been inserted when it left.
Message(entry, dest, items, serial) ==
  [entry |-> entry, dest |-> dest, items |-> items, serial |-> serial]
=============================================================================
