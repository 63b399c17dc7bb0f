------------------------- MODULE MCSpeakerFindings -------------------------
(***************************************************************************)
(* What is said and shown of joining, leaving and coming back, without the *)
(* exceptions of SpeakerPage's promises.  TLC refutes each property on the *)
(* instance of SpeakerPage.cfg.                                            *)
(***************************************************************************)
EXTENDS SpeakerPage

\* "Whatever your mac is playing comes out of every phone" (README.md:3): a
\* page that has joined, and shows 'playing', can play.  connect() makes a new
\* player, whose audio context waits for a click on join.
JoinedIsHeard == joined /\ sock = "open" => unlocked

\* app.js:140-141: "leaving is explicit, so a phone put down mid party does not
\* silently keep a slot in the mixer".  A page that is left while it waits to
\* reconnect connects all the same, says hello and keeps its row.
LeavingIsFinal == left ~> (~left \/ (row = "none" /\ sock = "closed"))

\* A page that joins gets a row: but one that has left has closed its socket,
\* and join does not open another.
JoiningConnects == joined ~> (~joined \/ row = "this")

\* A page that has left lets the screen go: but a second lock, of a second
\* click on join or of a return to the page, has no handle any more, and one
\* that is granted after the click on leave is kept.
LeavingLetsGo == left ~> (~left \/ live = {})
=============================================================================
