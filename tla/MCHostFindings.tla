--------------------------- MODULE MCHostFindings ---------------------------
(***************************************************************************)
(* What the host page says of its audible switch, and the README of its    *)
(* stop button, against HostPage.                                          *)
(***************************************************************************)
EXTENDS MCHostPage

\* What each user last set the box to while the page showed a stream.
VARIABLE chosen
\* The last click was one on stop.
VARIABLE stopLast

ChoosingInit == Init /\ chosen = [p \in Pages |-> None] /\ stopLast = FALSE
ChoosingNext ==
  /\ Next
  /\ chosen' = [p \in Pages |-> IF checked'[p] # checked[p] /\ acts' # acts /\ streaming[p]
                                 THEN checked'[p] ELSE chosen[p]]
  /\ stopLast' = IF acts' = acts THEN stopLast
                 ELSE \E p \in Pages : streaming[p] /\ timers' = timers /\ up' = Sent(p, [type |-> "stop"])

Quiet == /\ \A p \in Pages : timers[p] = 0
         /\ \A c \in Conns : ~Busy(c)

\* host.js:150-151: the switch "only takes effect when the routing is rebuilt,
\* so do that now rather than leaving a setting that silently does nothing".
\* Once the restart is over, the stream has the setting that was chosen.
SwitchTakesEffect ==
  Quiet /\ live /\ wants = TRUE => \A p \in Pages : chosen[p] \in {None, keepAudible}

\* "puts everything back the way it was when you stop" (README.md:91-92): with
\* one page, on one connection that is never lost, the stream does not run
\* once a click on stop was the last and nothing is under way.  The start at
\* launch may outlast a start and a stop of the page, and then runs the stream.
StopIsObeyed ==
  Quiet /\ ~launch /\ stopLast /\ conn[a1] = "open" /\ conn[b1] = "connecting" => ~live
=============================================================================
