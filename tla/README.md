# A verification project for HTram

HTram is a Charm++ group: one object per PE (a worker thread) that collects the
items the client sends, per destination, and ships them in batches.  This
directory holds TLA+ models of it, the TLC configurations that check them, and
TLAPS proofs of what matters most in them.  Line numbers refer to
`src/htram_group.C` unless another file is named.

## The system

| part | state | operations | hard behaviour |
| --- | --- | --- | --- |
| **Prioritised sends** of `HTram` (build `BUCKETS_BY_DEST`, `agg` WPs or WW) | per destination: a hold (`tram_hold[d][bucket]`), a message being filled (`msgBuffers[d]`), an admitted count (`updates_in_tram[d]`), `full_sends[d]`; the knobs `tram_threshold`, `direct_threshold`, `selectivity`, `bufSize` and the cached `release_level` | `sendItemPrioDeferredDest`, `insertBucketsByDest`, `changeThreshold`, `coarsenBuckets`, `setBufferSize`, `tflush`, `flushDest`, `flushStale`, `flushIdle` | ten sites adjust one counter; knob changes in any order with items held; loops over destinations with nested calls |
| **Combining** (`enableCombining`, `releaseFull`, the combining branches) | one `CombiningHold` per destination replaces hold and direct path | insert with fold, release from the lowest bucket | a fold moves an item across the threshold |
| **CombiningHold** (`htram_combine.h`) | open-addressed table, entry pool, per-bucket lists with stale references, stamps | `insert`, `release`, `erase`, `rebuild` | lazy deletion, recycled entries, backward-shift erase |
| **Plain sends**: `insertValue` WsP / WPs / WW, `insertToProcess`, `reset_stats` | `msgBuffers`, `localBuffers`, `agg` | buffer, ship when full, flush, change size or mode | two buffers that must agree (WsP); buffers replaced under a mode change |
| **PP mode** (`copyToNodeBuf`, `tflush`) | node-wide atomics `get_idx`, `done_count`, `mailbox_receiver`, a shared buffer | reserve a range, copy, count, the last one ships | many threads, relaxed atomics, spinning |
| **Receiving** (`HTramRecv`, `receivePerPE`, `receiveOnPE`) | one message shared by the node's PEs, a reference count | counting sort by PE, fan-out, last one frees | deliveries run while the receiver still loops, `skip_empty_deliveries` |
| **Quiescence** (`htramQuiesce`, `onQD`, `countBuffers`, `onBufferCount`) | the callback; Charm++'s quiescence detection | flush, wait, count, repeat | a flush on another PE between two counts |
| **Timers** (`periodic_tflush`, `registercb`, `enableIdleFlush`) | `enable_flush` | re-arm, flush | stop racing a pending timer |
| **Hold storage** (`HoldQueue`, `holdNext`) | vector with a head index; one bit per bucket | push, pop with compaction, word scan | boundaries at 64 buckets and 4096 pops |
| **Drivers** `histo.C`, `smp_ig.C` | update counts, phases | generate, flush, verify | startup counting, flush of responses |
| Reporting (`tramStats`, `avgLatency`, `sanityCheck`), message layout, build files | counters, bytes | print, reduce | none that changes delivery |

A PE runs one entry method at a time; PEs of a node share memory in PP mode and
on the receiving side; PEs of different nodes meet in messages only.  The client
calls HTram synchronously; HTram calls the client back with delivered batches
(`cb_retarr`) and, after a drain, with `tram_done`.

What makes each part correct: no item is lost, duplicated or sent to another
destination (all); the admitted count follows what is admitted, buffers have room, knobs take
effect at once, flushes leave nothing behind (prioritised sends); what comes out
of a hold is the fold of what went in, in bucket order (CombiningHold); every
reserved slot is copied before the buffer leaves, and the buffer always has one
owner (PP); every item is delivered to its own PE once and the message freed
once (receiving); the callback fires only when nothing is left anywhere, and
then does fire (quiescence).

## The modules

| module | what it is |
| --- | --- |
| `TramService` | abstract: what one PE promises, an item accepted for a destination leaves once, for that destination, in a batch a message can carry |
| `HTramPrio` | the prioritised path of one PE; implements `TramService` |
| `HTramPrioClaims` | `HTramPrio` with `insertValue` beside it, for a documented claim about the counts |
| `HTramRounds` | `HTramPrio` with a history variable, for a property across two `flushStale` rounds |
| `HTramPrioProofs`, `HTramPrioPromises` | TLAPS: the invariants; and what a handler has achieved when it returns, the refinement, and the two rounds of `HTramRounds` |
| `BucketQueues`, `HoldStorage` | abstract: a FIFO queue per bucket; and how `HoldQueue` and the bitmap store it |
| `HoldStorageProofs` | TLAPS: the invariant of vector, head and bits, the scan, and the refinement |
| `HoldService`, `CombiningHold` | abstract: what a combining hold promises; and the data structure of `htram_combine.h` |
| `CombiningHoldProofs` | TLAPS: the invariants of table, pool, lists and release, and the refinement |
| `CombiningService`, `CombiningTram` | abstract: `TramService` with items that absorb each other; and `HTramPrio` with combining on |
| `CombiningTramProofs` | TLAPS: the invariant of a PE that turns combining on, what its handlers achieve, and the refinement |
| `PPNodeBuffer` | the shared buffer of PP mode, one step per atomic access; implements `TramService` |
| `PPNodeBufferProofs` | TLAPS: its invariant and the refinement |
| `Wire`, `PlainSends`, `NodeRecv` | nodes, PEs and messages; the plain sends of one PE; the receivers of all nodes |
| `DeliveryService`, `Delivery` | abstract: an item is handed to the callback of its place, once; and the composition of `PlainSends` and `NodeRecv` |
| `DeliveryProofs` | TLAPS: reference counts, room in the buffers, what a message contains, the counting sort and the ranges, where an item is, and the refinement |
| `Quiescence`, `QuiescenceProofs` | the flush and count cycle across PEs; TLAPS: when the callback fires |
| `MC...` | the instances TLC checks |

How they fit together: `HTramPrio` keeps a hold as a set per bucket, which
`HoldStorage` justifies; `CombiningTram` keeps a hold as the set of its entries,
which `CombiningHold` and `HoldService` justify; `Quiescence` keeps of a PE only
what a flush would send, which the properties of the counts and `FlushComplete`
of `HTramPrio` justify (see Quiescence); `Delivery` composes sender and receivers.

In every module a wrong version of an operator may stand before the right one: a
bug the code might have had, used nowhere but to see that a property notices it.

### HTramPrio

State and actions carry the names of the code.  `updates_in_tram`, `bufSize`,
`release_level`, `tot_send_count` and the thresholds are the code's;
`tram_hold[d][b]` is a set where the code has a FIFO queue (no property tells two
items of a bucket apart); `msgBuffers[d]` is the set of items with the message's
capacity; `selectivity` is a number of units of `1/SelUnit`, so that the
comparison of a count with `selectivity * bufSize` stays exact.  `full_sends`
only says whether the count is above 0.

A PE runs one entry method at a time, so a client call starts only when `ctl` is
`Idle`.  A method without loops is one action.  One with a loop over destinations
or items is a first action and step actions, and `ctl` is its program counter:
the loop, the destination, the next bucket, and the loop to return to, because
`changeThreshold`, `coarsenBuckets` and `setBufferSize` call `insertBucketsByDest`
from inside a loop.  TLC therefore sees every intermediate state, and a property
about the end of a handler speaks of the step that makes `ctl` idle.

The client may pass any threshold, selectivity and buffer size of the constants,
in any order, and may coarsen with and without `keep_top` at any threshold.  With
the threshold at or past the bucket that `keep_top` keeps, the code lowers it and
leaves the bucket where it is: what was admitted there is stranded above the
threshold, but still counted.  The model does the same, and the properties of the
counts say how far it goes; see also Disagreements.  The build is the one without `IDLE_FLUSH`, where an idle
flush is never a `tflush(true)`.  `tram_done` is called and changes no state: a
client that sends from inside it is not modelled.

### HoldStorage

A `HoldQueue` is its vector and its head; a word of the bitmap is the set of its
bits.  What a drain does with an item is left out, and when it leaves a bucket is a
choice, so every drain and both orders of clearing a bit (before the first item is
taken in a flush, after the last in `insertBucketsByDest`) are covered.
`coarsenBuckets` moves one queue per step.  Vector capacities are left out.

### CombiningHold

Entry numbers start at 1, as they do in `slots_`.  `Key`, `Hash` and `Tag` are
functions of the instance; what the client's `combine` decides is a choice
between keeping the held item and taking the new one.  A backward shift, a
rebuild and a probe are each one operator over the table, since nothing runs
between their iterations (the first two as recursive functions, with `Shift` and
`Placed` for one iteration); `release` takes one reference per step, since `emit`
hands each item out.  References are dropped as they are read, where the code
erases those of a bucket together when it leaves it.

### CombiningTram

Before `enableCombining` a PE behaves as `HTramPrio`; after it every item waits in
`holds[d]`, and `release` is one choice of a set of lowest entries, as many as
asked for or all there are.  `releaseFull` and `flushDest` are loops around it and
keep their loop in `ctl`, as in `HTramPrio`; every turn is a step.  The client
calls `enableCombining` before its first send (htram_group.h:496) and keeps the
threshold below the bucket count (`MayAdmit`), as `live(i)` requires.
`coarsenBuckets`, and `setBufferSize` with something buffered, abort there and are
no actions.

### PlainSends, NodeRecv and Delivery

This is the build without `BUCKETS_BY_DEST`.  A sending handler is one action,
since nobody sees what it sends before the PE is free again.  In WsP an item is
stored in `localBuffers[pe]` and counted in the message, which is written when it
leaves: a counted slot holds `Garbage` until then, so a message whose count and
local buffers disagree shows.  `NoMessage` is the null pointer of a destination
that another mode does not have.

On the receiving side `receive` and `receive_no_sort` take one step per rank,
because PEs of a node are threads and their deliveries run meanwhile; a callback
has a beginning and an end, because the reference is dropped after it.  The sorted
message and its offsets are functions of the message that arrived.  Whether empty
deliveries are skipped is a choice per message.  A message is told apart from
another with the same items by `serial`, the number of items inserted when it
left.

Restrictions on the client: `insertToProcess` is used in WsP only and not while
items of `insertValue` wait in the same buffer, nor the other way round, because
the two ship what they find to different entry points; `reset_stats` is called
with nothing buffered, as the drivers do; `setBufferSize` aborts otherwise.  One
PE sends: in these modes senders share nothing.

### PPNodeBuffer

Every atomic access is a step: `fetch_add` on `get_idx`, the copy, `fetch_add` on
`done_count` and on the thread's mailbox, the sum over the mailboxes, the send,
and the two stores that open the buffer again.  Memory is sequentially
consistent: reorderings of the relaxed accesses are not explored.  A spin loop is
waiting: only `get_idx < bufSize` is ever asked, so adding to a `get_idx` that is
past it changes nothing, and its growth is left out.  The sum over the mailboxes
and their reset are one step; nobody adds to a mailbox while the buffer is closed
and complete.  There is one destination, since two share nothing; the first loop
of `tflush` (local buffers) comes before the second (shared buffer), as in the
code.  `flush_count` is never read and is left out.

### Quiescence

Of each PE only the items a `tflush` would send remain, per destination PE, and a
PE's count is how many these are.  In the code it is zero only if nothing is left:
`HTramPrio` proves that no count is ever too low (`CountersCover`).  It is zero
whenever nothing is left if no coarsening stranded an item (`CountersAreExact`) and
the client does not use `insertValue` beside priorities; otherwise the code's cycle
never ends (see Disagreements), and such clients are left out here.  A delivery lets the client send one item in return, which is
buffered or fills its buffer.  Charm++ is external: quiescence is detected only
when no message is in flight, and the reduction ends when every PE contributed.
Items held above the threshold are outside: neither the flush nor the count
looks at them.

## The runs

| run | instance | what it shows |
| --- | --- | --- |
| `core` | 1 destination, 4 buckets, 4 items, sizes 2 and 4, thresholds 0, 2 and 3 | counts, admission, full messages and the refinement, for all orders of calls |
| `dests` | 2 destinations, 3 buckets, 4 items, sizes 1 and 2, thresholds 0 to 2 | the loops over destinations, also with a nested release; buffers in bounds, those not yet resized included; no buffered item survives two `flushStale` rounds |
| `live` | 1 destination, 2 buckets, 3 items | handlers return; admitted items are sent |
| `storage` | 5 buckets in words of 2, 5 items, compaction from 2 on | the hold as it is stored is a FIFO queue per bucket |
| `hold` | 3 keys, 5 items, table of 4 slots that grows to 8, 2 buckets | the combining hold |
| `combine` | 2 destinations, 2 buckets, 3 items of 2 keys, sizes 1, 2 and 4 | sends, knobs and flushes with combining on |
| `pp` | 3 threads, 4 items, buffer of 2, local buffers of 1 | the shared buffer: safety, and every item leaves |
| `delivery` | 2 nodes of 2 PEs, 2 items, sizes 1 and 2, all three modes | from `insertValue` to the callback |
| `quiesce` | 3 PEs, 3 items | the callback's condition, and that it fires |
| `claim_...` | see Disagreements | one documented claim each, violated |

What the properties say, and where:

- Prioritised path: `DriftIsWhatStrands` (the counter starts equal to what
  `admittedDrift()` recounts, and no step of any handler changes the difference
  but a coarsening, by the items it strands), `CoarseningStrandsOnlyKept` (these
  are the items of an admitted last bucket that `keep_top` keeps, all of them and
  no others), `BufferBounds` (room for the next item; never past `bufSize`),
  `NoBacklog` (between handlers no admitted item is held back while its count asks
  for a release), `FlushComplete` (after `tflush` and `flushIdle` nothing admitted
  is left), `FullUnlessFlushed` (short messages only from a
  flush), `NoItemWaitsTwoRounds`, `HandlerReturns`, `AdmittedIsSent`,
  `ImplementsTramService`.
- Stored hold: `ScanFindsFirst` (the word scan finds the first bucket with items
  in every state of a drain or merge), `ImplementsBucketQueues`.
- Combining hold: `TableFindsEveryKey`, `RefsAreExact`, `LowestIsSound`,
  `ReleaseComplete`, `ImplementsHoldService`.
- Combining on: `CombinedCounterExact` (the count follows folds across the
  threshold), `CombinedNoBacklog`, `CombinedFlushComplete`, `AdmittedLeaves`,
  `ImplementsCombiningService` (every item is pending, sent or absorbed, and one
  is absorbed only while another with its key stays), with `BufferBounds`,
  `FullUnlessFlushed` and `HandlerReturns` again.
- PP mode: `OneOwner`, `NoHoleShipped`, `ImplementsTramService`,
  `EveryItemLeaves`.
- Delivery: `RoomForNext`, `LocalsAgree` (WsP's count is what its local buffers
  hold), `MessagesWellFormed` (the order `receivePerPE`'s scan relies on),
  `EveryItemAccounted` (the set of places where an item is has one member, shared
  messages included),
  `RefsExact` (a shared message lives exactly as long as somebody may read it),
  `ImplementsDeliveryService`, `EveryItemDelivered`.
- Quiescence: `FiresWhenEmpty`, `CallbackFires`.

`TypeOK` is checked for `HTramPrio` and `Quiescence`; the other modules state it.

### Bounds, and why they are enough

- Prioritised path.  Four buckets with thresholds 0, 2 and 3 leave buckets below,
  between and above, and a top bucket to keep with the threshold below it and at
  it; merging by 2 makes two buckets meet on each side of the threshold.  With two
  destinations three buckets suffice, again with a threshold at the top one, and
  sizes 1 and 2 let a nested release run while the second destination still has
  a buffer of the old size.  Sizes 2 and 4 with four items let a buffer fill
  once and start again, be too small and be too full after a change of size, and
  be padded: with size 4 a buffer of one item takes one filler, from the lowest
  of the buckets above the threshold.
  Selectivity 1/2 and 1 put the release level at, below and above a full buffer.
- Hold.  Two keys start at slot 7, the last of the grown table, and share a tag,
  so probes wrap; the third starts at slot 0, in their way.  The first table has
  4 slots where the code has 64, so that three entries grow it.  Five items for
  three keys let a key be held, folded, released and held again.
- Stored hold.  Five buckets in words of two bits leave the last word half used
  and a scan to start inside, at the end of and between words; compaction from a
  head of 2 on happens with and without the queue running empty.  Deadlock is not
  checked: it stops when all items are sent.
- Combining.  Two items of one key fold into each other, in both directions across
  the threshold; with size 4 a hold runs out before the buffer is full, with size
  1 every release ships.
- PP.  Two reservations fill the buffer, so a third thread finds it closed, and
  four items fill it twice.  A local buffer holds one item: how many slots a
  reservation has matters only where they do not divide the buffer, which is
  `claim_ppsize` (2 and 3).
- Delivery.  Two items suffice for a shared message: for one PE, for two PEs of a
  node and in either order, for two nodes; size 1 fills a buffer twice and size 2
  leaves one partly full.  PE 0 sends to itself, to both PEs of the other
  node, and to that node.  Knobs are turned only while an
  item is left to insert; after that they change nothing that is delivered.
- Quiescence.  Three PEs: one that counted, one that did not, one in between.
- Items are used once, which bounds every run.  They and threads or PEs are
  symmetric; runs that check liveness use no symmetry.  Deadlock checking is on
everywhere else.

### Fairness

- `HTramPrio`, `WF(Step)`: a handler that started runs to its end, since the
  scheduler of a PE does not preempt.  `SF(TFlush)`: with `enable_timed_flushing`
  `periodic_tflush` is called again and again, when no other handler runs.
- `PPNodeBuffer`, `WF(Run(t))`: threads are not stopped for ever.
  `SF(FlushLocal(t))`: the periodic flush of each PE.
- `CombiningTram`: as `HTramPrio`, for both paths (`AnyStep`, `AnyTFlush`).
- `Delivery`, `WF(Receives(pe))`: a PE runs what is in its queues, and callbacks
  return.  `SF(Sends(TFlush))`: the periodic flush of the sender.
- `Quiescence`, `WF(Protocol)`: messages are delivered and quiescence detected.

No fairness is assumed of a client.

## What is proved

The assumptions on the constants are those the modules name
(`ConstantsAssumption`, `KeyAssumption`, `StorageAssumption`, `HoldAssumption`,
`PPAssumption`, `WireAssumption`, `PlainAssumption`, `DeliveryAssumption`,
`QuiescenceAssumption`), and `Fits` where it is said.  `CInv`,
`HInv`, `HoldInv`, `WInv`, `Contained` and `Whole` below were checked by TLC on the
instances of the runs before they were proved.

| module | theorem | states |
| --- | --- | --- |
| `HTramPrioProofs` | `TypeCorrect` | `Spec => []TypeOK` |
| | `CountersDriftByStranding` | `Spec => DriftIsWhatStrands` |
| | `CountersCover` | `Spec => []CounterCovers`: no count is below what is admitted |
| | `CountersAreExact` | `Spec /\ [][~Stranding]_vars => []CounterExact` |
| | `BuffersHaveRoom` | `Spec => []BufferBounds` |
| | `CoarseningStrands` | `Spec => CoarseningStrandsOnlyKept` |
| `HTramPrioPromises` | `MessagesLeaveFull` | `Spec => FullUnlessFlushed` |
| | `KnobsReleaseAll` | `Spec => []NoBacklog` |
| | `FlushesComplete` | `Spec => FlushComplete` |
| | `Refinement` | `Spec => ImplementsTramService` |
| | `RoundsLeaveNothingOverdue` | `RoundSpec => NoItemWaitsTwoRounds` |
| `HoldStorageProofs` | `HoldInvariance`, `StorageTypes` | `Spec => []HInv`, `Spec => []TypeOK` |
| | `ScanIsExact` | `Spec => []ScanFindsFirst` |
| | `HoldRefinement` | `Spec => ImplementsBucketQueues` |
| `CombiningHoldProofs` | `HoldInvariant`, `HoldTypes` | `Spec => []HoldInv`, `Spec => []TypeOK` |
| | `LookupsAreRight` | `Spec => []TableFindsEveryKey` |
| | `ReferencesAreRight` | `Spec => []RefsAreExact` |
| | `LowestIsRight` | `Spec => []LowestIsSound` |
| | `ReleasesAreComplete` | `Spec => ReleaseComplete` |
| | `HoldServiceRefinement` | `Spec => ImplementsHoldService` |
| `CombiningTramProofs` | `CombinedInvariance` | `CombinedSpec => []CInv` |
| | `CombinedCountersExact` | `CombinedSpec => []CombinedCounterExact` |
| | `CombinedBuffersHaveRoom` | `CombinedSpec => []BufferBounds` |
| | `CombinedReleasesAll` | `CombinedSpec => CombinedNoBacklog` |
| | `CombinedFlushesComplete` | `CombinedSpec => CombinedFlushComplete` |
| | `CombinedMessagesLeaveFull` | `CombinedSpec => FullUnlessFlushed` |
| | `CombiningRefinement` | `CombinedSpec => ImplementsCombiningService` |
| `PPNodeBufferProofs` | `OneThreadShips` | `Fits`: `Spec => []OneOwner` |
| | `NoHoles` | `Fits`: `Spec => []NoHoleShipped` |
| | `SharedBufferServes` | `Fits`: `Spec => ImplementsTramService` |
| `DeliveryProofs` | `MessagesSharedSafely` | `Spec => []RefsExact` |
| | `BuffersHaveRoom` | `Spec => []RoomForNext` |
| | `CountsMatchLocals` | `Spec => []LocalsAgree` |
| | `ReceiversGetOrder` | `Spec => []MessagesWellFormed` |
| | `DeliveryRefinement` | `Spec => ImplementsDeliveryService` |
| | `EveryItemInOnePlace` | `Spec => []EveryItemAccounted` |
| `QuiescenceProofs` | `TypeCorrect` | `Spec => []TypeOK` |
| | `CallbackMeansEmpty` | `Spec => FiresWhenEmpty` |

**Prioritised path, invariants.**  `IInv` is `TypeOK`, `BufferBounds` and
`CounterCovers` together with `HeldOnce` (an item is in at most one bucket, or one
buffer, of one destination).  For the counts every action has one of two laws
(`DriftLaw`): it leaves `Drift`, the difference to what `admittedDrift()` recounts,
as it is (`Steady`), or it is a coarsening with `keep_top` and adds what it
strands.  So the drift never falls, which is `CounterCovers`, and where nothing is
stranded it stays zero, which is `CountersAreExact`.  The law needs the rest of `IInv`: a drain
takes an item out of a bucket and puts it into the buffer, which leaves the count
right only if the item was not there yet and in no other bucket; and a full buffer
leaves with exactly `bufSize` items, which is what the code subtracts, only because
of `BufferBounds`.  The facts on cardinalities of the hold (`HeldIn` over a range of
buckets splits, and changes by one) are lemmas.

**Prioritised path, what a handler has achieved.**  Both arguments are about loops,
and say which destinations a loop is done with.  `NoBacklog`: every destination
that is not `Unreleased` (ahead of the loop, or where `insertBucketsByDest` is) is
`Settled`, and `Scanned` says that `insertBucketsByDest` leaves an item behind only
when the count asks for no more.  `FlushComplete`: `FlushProgress` says for which
destinations the hold is `Emptied` and the buffer too (`Flushed`); `flushIdle` may
skip a destination because its count, being never too low (`CounterCovers`), is 0
only when there is nothing.

**Prioritised path, refinement.**  `pending[d]` is what is held or buffered for `d`,
`shipped` is `sent`.  A step that moves an item from hold to buffer stutters unless
it fills the buffer; every send is a `Ship`, with the client's new item as `fresh`
when `sendItemPrioDeferredDest` fills the buffer itself.  It needs `BufferBounds` for
the size of a batch, and `HeldOnce` to know that what was shipped is not pending
any more.

**Prioritised path, two rounds.**  `WInv` adds three things to `IInv` and the shape of
`ctl`.  `OnePlace`: an item is pending for one destination, or sent, never both.
`Waits`: an item that a whole round has passed over is in a buffer that has not been
sent since, so no full send is on record for its destination; that is what makes it
safe to skip a destination with a full send.  `Passed`: the destinations the loop of
`flushStale` has gone past have nothing overdue, and their record is cleared.  A
knob or another flush between two rounds only takes items away.

**Stored hold.**  `HInv` says that bits are exact (`BitsOK`): the bit of a bucket is
set if, and only if, its queue has an item, but for the one bucket that a flush is
taking items out of, whose bit is cleared before the first.  It needs `CtlOK`: a loop stands at a bucket the scan found, since a merge
sets the bit of its target without looking at what it moves.  `ScanIsExact` follows
from the exact bits and the arithmetic of words, for every width; the refinement maps
a vector and its head to the items from the head on, which compaction leaves alone.

**Combining hold.**  Four arguments meet in `HoldInv`.  The table (`TableIsMap`): the
way from the home of a key to its slot has no empty slot on it, one slot per held
entry, and the table is at most half full, so a probe ends.  Backward-shift deletion
keeps this by its own invariant (`ShiftInv`, one iteration at a time): there is one
hole, and no way to a slot that the loop has gone past crosses it.  A rebuild is the same for insertions into an empty table.  The lists (`ListsOK`):
no reference has a stamp its entry has not had yet, so raising the stamp when an entry
leaves or moves invalidates all its old references.  `LiveCounts` and the bound
`lowest` follow from what the references name, and `ReleaseOK` says what a running
release has passed.  Functions defined by recursion (`Erased`, `Rebuilt`) are shown
to exist, and their properties to hold for every iteration, by the least
counterexample.

**Combining on.**  `CInv` has two halves.  Before `enableCombining`, `IInv` holds and
nothing is in the library (`Blank`), so no coarsening strands anything, counts are
exact (`CounterExact`) and may start afresh.  After it, an
item is in one place (`Once`: an entry, a buffer, sent or absorbed), buffers have room
(`Room`), and counts are exact in every step of every loop (`Counted`).  `Once` is what a fold needs: the
entry it replaces is nowhere else, so the count changes by the threshold alone.
`Progress` says which destinations a release or flush loop is done with, and gives
`CombinedNoBacklog` and `CombinedFlushComplete`.

**PP mode.**  `Fits` is what `claim_ppsize` shows to be needed: `LOCAL_BUFSIZE`
divides the size; threads are finitely many, and an unwritten slot is not an item.
The invariant counts reservations.  While the buffer is open (`Opened`), `get_idx` is
`done_count` plus `LOCAL_BUFSIZE` for each thread that copies or has yet to count;
the thread that closes it (`OwnedBy`) has the same sum in its own slot, so a full
count, or the end of the wait in a flush, means that nobody copies.  `Written` says
which slots have items: all below the index but those that a thread reserved and
will write, which are disjoint.  The refinement follows: a copy moves items from one
place to another, and a message is all there is in the shared buffer.

**Delivery.**  References are counted per message, so two messages must never be
the same one (`Aged`: what leaves is newer than all that travels or is shared), and
one PE never has a message twice in its queue (`IsQueue`; `Loops`: the PEs that a
loop has still to reach do not have its message; `OneLoop`: no two loops share one).
Then each step changes the count as it changes the set of users (`Exact`).
`RoomForNext` is `Buffers`, by itself nearly inductive; a mode change is the case
that is not obvious.

What a message contains is `Contained`.  In WsP the slots of a node are all counts, as
many as its local buffers hold (`CountedBy`), or all items for the node, with the
local buffers empty (`ForNodeBy`); never both, which is where the restriction on the
client is used.  In the other modes the local buffers are empty and the slots are for
the destination (`WrittenFor`).  `FlattenIs` says what copying the local buffers one
after the other gives: there are offsets, one per PE, that grow by the lengths
(`Parts`).  From these come that a count and its local buffer grow together
(`LocalsGrow`), and that the copied items are in the order of their PEs
(`LocalsInOrder`), for any number of PEs.

**Delivery, end to end.**  First, what a receiver finds (`RangeIs`): the range of a
PE in a shared message is its items, all of them, and none twice if no item of the
message is (`PartFor`).  For `receive` that is a fact of the counting sort (`SortedIs`): after
k items, item i of them is at `Goes(items, i)`, which is the number of items of lower
ranks plus its own position among those of its rank; two items go to different
places, and those of a rank fill the interval that its offset ends (`OffsetRange`).
For `receive_no_sort` it is a fact of the two scans over items in the order of their
PEs (`ScanRange`), which `MessagesWellFormed` gives.

Then each item is followed.  `DeliveryWhole` adds `Whole` to the invariants above.
`Stored` is about every place where an item can be, local buffers, message buffers,
messages that travel or are shared (`Has`): no item is in two of them, it is where
it was asked to go (`AllAsked`), none outside a shared message was handed over
(`NoneDone`), and what is asked for a PE and not handed over is in one (`NoneLost`).
A sending handler stores an item and then lets buffers leave; `StorePhase` and
`ShipPhase` keep `Stored` each, so a handler that fills a buffer is their
composition.  On the receiving side a place in a shared message stays while the
message does, so a place alone does not say whether the item is still due:
`AllPending` says that it was handed over if, and only if, its delivery is not to come
(not in the queue of its PE, and every loop over the message is past that PE).  A
skipped PE is one with no items in the message, and `RefsExact` keeps the message
until the last delivery.  `EveryItemAccounted` counts places, and needs both
halves.  The refinement needs in addition that a batch has an item once, for the
place it was inserted for: a delivery is then one `Deliver` of the service.

**Quiescence.**  The PEs count at different times; their counts hold together
because the counting starts with no message in flight, and a PE does nothing
without a message (`Counted`).  With a periodic flush that is not so, see
`claim_quiescence`.

Induction.  The library's induction theorems take an operator, which the provers
cannot instantiate.  Where a fact is about every iteration of a loop or every prefix
of a sequence (`Erased`, `Rebuilt`, `FlattenSeq`, `Starts`, `Ends`, `Sorted`, the
scans), it is proved from the least counterexample (`LeastNumber`, `UpTo`), with a
lemma for one iteration.

Only model-checked:

- Liveness: `HandlerReturns`, `AdmittedIsSent`, `AdmittedLeaves`, `EveryItemLeaves`,
  `EveryItemDelivered`, `CallbackFires`.  They rest on fairness, and so on ENABLED,
  which is out of the prover's reach.
- The claims, which are refuted on an instance.

## Disagreements between the code and what is said of it

| run | said | the code |
| --- | --- | --- |
| `claim_counter` | 1241: the callback fires if all buffers are empty | `insertValue` (WPs, `BUCKETS_BY_DEST`) subtracts a full buffer from a count it never added to, so the sum of the counts is not zero with everything sent |
| `claim_ppsize` | README.md:55: any size in `1..BUFSIZE`, live | a size that `LOCAL_BUFSIZE` does not divide closes the shared buffer for ever |
| `claim_quiescence` | 1241: the callback fires if all buffers are empty | with the periodic flush on it may fire while an item is buffered |

One more is in the properties that hold, since they say what the code does.  The
comment on the merge of `coarsenBuckets` (481) has it that an item's admitted status
can only change one way, and that every bucket at or below the threshold `t` lands at
or below `t / k`.  With `keep_top` the last bucket is left out of the merge (547),
and the threshold is divided all the same (581).  With the threshold at or past that
bucket its admitted items are above the threshold afterwards
(`CoarseningStrandsOnlyKept`, checked by `core` and proved), and stay in the count
(`DriftIsWhatStrands`).  When the threshold rises again `changeThreshold` counts them a
second time (366-373); the drift never falls, so the count is above zero with
everything sent, and `onBufferCount` (1241) does not fire the callback.  Neither
the code nor htram_group.h:515-523 keeps a client from it.

Smaller ones that no run is spent on: `flush_everything()` is `tflush()` and leaves
what is above the threshold in the hold, where README.md:73-74 has it drained too;
the first loop of `tflush` does not count what it sends into the total that
1525 prints; 833 says that nothing waits in `msgBuffers` with combining on, where
`releaseFull` leaves items when the selectivity is below 1.

## What is not modelled

- The hold without `BUCKETS_BY_DEST`: that build never allocates it.
- `reset_stats` with items held or buffered: what it replaces is dropped, and no
  client in the sources calls it then.
- A client that sends from `tram_done`.
- `stop_periodic_flush` and the re-arming of the timer: the flush may come at any
  time, or never, in the safety runs.
- The growth of a closed `get_idx` while threads spin, and reorderings of the
  relaxed atomics in PP mode; `setBufferSize` there, and PP with `BUCKETS_BY_DEST`.
- An item of `insertToProcess` that a flush ships in WsP: it travels to
  `receivePerPE` with dest PE -1 and reaches no callback.  The model does that, and
  the properties about delivery speak of items for PEs.
- `receive_small`: `receive` over a smaller message type.  `setIdleFlushInterval`
  only makes `flushIdle` do nothing at times.
- The benchmark drivers: they have no state that the library depends on.
- Reporting, message layout, envelopes, payload types and build files have no
  behaviour a model would add to.

## Plan

1. `PPNodeBuffer` with `setBufferSize` between fills, and without mailboxes.
2. The timer: `stop_periodic_flush` racing a pending call of `periodic_tflush`.
3. The start-up and the last flush of the drivers, if they turn out to be more
   than counting.
