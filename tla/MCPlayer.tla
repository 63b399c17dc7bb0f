------------------------------ MODULE MCPlayer ------------------------------
(* A short stream: long enough for a delay to move by more than threshold    *)
(* and error together while a chunk waits, and a nudge and a suspension that *)
(* are each smaller than the threshold.                                      *)
EXTENDS Player

\* What tells two states apart: the last chunk matters to its neighbour only,
\* and what an anchor was meant to be only while there is an anchor.
Told == <<epoch, next, time, lag, ctx, err, nudge, anchor, anchorSeq,
          IF last # None /\ last.seq = next - 1 THEN last ELSE None,
          IF anchor = None THEN 0 ELSE aim>>
=============================================================================
