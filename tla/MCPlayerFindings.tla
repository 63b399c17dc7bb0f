-------------------------- MODULE MCPlayerFindings --------------------------
(* What the README says of the speakers and push() does not keep.            *)
EXTENDS Player

\* about what the ear hears as an echo: 20 ms
Echo == 1

\* README.md:132-133: the ear hears an echo "somewhere around 20 to 30ms
\* apart.  The clock sync gets well inside that."  A player that anchored on
\* a poor first answer stays there when the clock is exact.
InsideAnEcho ==
  [][Schedule /\ err = 0 => When - (Aim + next) \in -Echo..Echo]_vars

\* README.md:137: "Slide it until the echo collapses into one sound."  The
\* slider moves the next chunk only when it moves past the threshold.
NudgeMoves ==
  [][nudge' # nudge /\ ctx = "running" /\ anchor # None /\ err # None
       => When' - When = nudge - nudge']_vars
=============================================================================
