------------------------- MODULE MCTimelineFindings -------------------------
(* What comments say about the timeline and the code does not keep.          *)
EXTENDS MCTimeline

\* server_test.go:160-161: "every chunk carries the host time its first
\* sample is heard. if that is not monotonic the speakers cannot schedule
\* anything."  A delay that is lowered brings the stamps back.
StampsAdvance == [][frame' # frame => frame'.at > frame.at]_vars

\* session.go:460-461: "the epoch moves with the delay, otherwise already
\* queued audio would keep the old timing".  What is queued is stamped.
QueuedMovesWithDelay ==
  [][\A g \in Guests : delay' # delay
       => queue'[g] = [i \in 1..Len(queue[g]) |->
                         [queue[g][i] EXCEPT !.at = @ + delay' - delay]]]_vars

\* session.go:199-200: "a chunk that cannot be queued now is already too late
\* to be useful, so drop it".  What is dropped is the chunk due last.
DroppedIsLate ==
  [][\A g \in Guests : frame' # frame /\ queue'[g] = queue[g] => frame'.at <= now]_vars

\* capture.go:19: the delay is "how far behind the source every speaker
\* plays".  The epoch is a reading of the wall clock, and stays what it was
\* when that clock is set.
KeepsBehind ==
  [][frame' # frame /\ ctl # "commit"
       => frame'.at - now \in (delay - Jitter + 1)..(delay + Jitter - 1)]_vars
=============================================================================
