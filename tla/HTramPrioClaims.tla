-------------------------- MODULE HTramPrioClaims --------------------------
(***************************************************************************)
(* What a comment says of the counts of one PE's HTram, for a client that  *)
(* also sends without priorities, checked under those calls: it fails.     *)
(***************************************************************************)
EXTENDS HTramPrio

\* insertValue (agg = WPs) sends without a priority: the item goes to the
\* buffer, and is not counted as admitted unless it fills it.
InsertValue(d, x) ==
  /\ ctl = Idle
  /\ x \notin Known
  /\ Fill(d, x, 0, TRUE)
  /\ UNCHANGED <<tram_hold, bufSize, knobs, release_level, ctl>>

\* flush_everything: a call of tflush (htram_group.C:1195).
FlushEverything == TFlush

\* A client that sends with both calls the README names, and flushes.
MixedNext == \/ \E d \in Dests, x \in Items :
                  InsertValue(d, x) \/ \E b \in Buckets : SendItem(d, b, x)
             \/ FlushEverything \/ Step
MixedSpec == Init /\ [][MixedNext]_vars

-----------------------------------------------------------------------------
\* onBufferCount (htram_group.C:1241): if all buffers are empty, it fires the
\* user's quiescence callback.  It does so when the counts of countBuffers are
\* zero, and a destination that insertValue filled keeps a negative count.
EmptyCountsZero ==
  \A d \in Dests : Pending(d) = {} => updates_in_tram[d] = 0
=============================================================================
