---------------------------- MODULE HTramRounds ----------------------------
(***************************************************************************)
(* HTramPrio with a history variable: the items that were in a buffer at   *)
(* the end of the last flushStale(), which a client calls once per round.  *)
(***************************************************************************)
EXTENDS HTramPrio

VARIABLE overdue    \* the buffered items a whole round has passed over

Buffered == UNION {msgBuffers[d].items : d \in Dests}
EndOfRound == ctl' = Idle /\ (ctl.at = "stale" \/ ctl.back = "stale")

RoundInit == Init /\ overdue = {}
RoundNext == /\ Next
             /\ overdue' = IF EndOfRound THEN Buffered' ELSE overdue
RoundSpec == RoundInit /\ [][RoundNext]_<<vars, overdue>>

\* flushStale skips a destination that had a full send since the last round
\* (htram_group.h:382-385).  That is enough to bound the wait: an item that
\* sat in a buffer when one round ended is sent before the next one ends,
\* with or without traffic behind it.
NoItemWaitsTwoRounds ==
  [][EndOfRound => overdue \cap Buffered' = {}]_<<vars, overdue>>
=============================================================================
