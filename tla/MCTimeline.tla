----------------------------- MODULE MCTimeline -----------------------------
(* One speaker, a few chunks long.  Ticks stand for 20 ms; the numbers are   *)
(* scaled down: the delays (100 to 2000 ms) go from as long as the queue     *)
(* (about 500) to three times that, and the thread may be late by as much as *)
(* the shortest delay.                                                       *)
EXTENDS Timeline

AskedDelays == {0, 2, 9}
SetBy == {-1, 2}
=============================================================================
