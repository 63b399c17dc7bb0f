---------------------------- MODULE SpeakerPage ----------------------------
(***************************************************************************)
(* A speaker's page: its connection, joining and leaving (web/app.js), and *)
(* the lock that keeps the screen on (web/awake.js), in a browser that has *)
(* one.  Handlers run to their end or to an await; whatever is awaited may *)
(* be answered late, with other handlers in between.                       *)
(*                                                                         *)
(* What overlapping connections do to the rows of the mixer is in Hub, and *)
(* what is done with the chunks in Player: here the server only knows      *)
(* whether the device has a row.                                           *)
(***************************************************************************)
EXTENDS Integers

CONSTANTS
  Locks,      \* wake lock sentinels, as many as can be live at once
  MaxAsks,    \* handlers of one kind that have not returned: a bound for TLC
  None

ASSUME SpeakerAssumption == MaxAsks \in Nat /\ None \notin Locks

VARIABLES
  \* the connection
  sock,      \* "connecting", "open", "closing", "closed"
  retry,     \* onclose's timer is pending
  hello,     \* a hello is under way
  row,       \* the mixer's: "none", "this" connection's, "old" one's, not yet dropped
  ticking,   \* the interval of the clock of this connection
  unlocked,  \* does the player of this connection have an audio context?
  \* app.js
  joined, left,
  panel,     \* the panel with the leave button is shown instead of the setup
  joins,     \* join handlers that await player.unlock()
  \* awake.js
  want, lock,
  asked,     \* requests for a lock that are not answered, by who awaits them
  live,      \* sentinels that hold the screen on
  shown,     \* what was reported last: "held", "lost"
  \* the browser
  visible,
  refused    \* it refused a lock, or took it back, since the page last asked

sockVars  == <<sock, retry, hello, row, ticking, unlocked>>
appVars   == <<joined, left, panel, joins>>
awakeVars == <<want, lock, asked, live, shown, refused>>
vars == <<sockVars, appVars, awakeVars, visible>>

Askers == {"join", "visibility"}

\* With the types: an interval belongs to a connection, so that there is never
\* a clock left behind that nobody stops.
TypeOK ==
  /\ sock \in {"connecting", "open", "closing", "closed"}
  /\ row \in {"none", "this", "old"} /\ shown \in {"held", "lost"}
  /\ {retry, hello, ticking, unlocked, joined, left, panel, want, visible, refused}
       \subseteq BOOLEAN
  /\ joins \in 0 .. MaxAsks /\ asked \in [Askers -> Nat]
  /\ lock \in Locks \cup {None} /\ live \subseteq Locks
  /\ ticking => sock \in {"open", "closing"}

Init ==
  /\ sock = "connecting" /\ retry = FALSE /\ hello = FALSE /\ row = "none"
  /\ ticking = FALSE /\ unlocked = FALSE
  /\ joined = FALSE /\ left = FALSE /\ panel = FALSE /\ joins = 0
  /\ want = FALSE /\ lock = None /\ asked = [a \in Askers |-> 0] /\ live = {}
  /\ shown = "lost" /\ visible = TRUE /\ refused = FALSE

(***************************************************************************)
(* awake.js.                                                               *)
(***************************************************************************)

\* acquire(), up to its await; one that holds the lock has nothing to await.
Acquire(who) ==
  /\ want' = TRUE
  /\ IF lock # None
       THEN shown' = "held" /\ UNCHANGED <<asked, refused>>
       ELSE /\ asked' = [asked EXCEPT ![who] = @ + 1] /\ refused' = FALSE
            /\ UNCHANGED shown
  /\ UNCHANGED <<lock, live>>

\* acquire(), after it: the lock is granted to a page that is seen,
Grant(who, s) ==
  /\ asked[who] > 0 /\ visible /\ s \notin live
  /\ asked' = [asked EXCEPT ![who] = @ - 1]
  /\ lock' = s /\ live' = live \cup {s} /\ shown' = "held"
  /\ UNCHANGED <<want, refused>>

\* or refused: the page was hidden, the battery is low.
Refuse(who) ==
  /\ asked[who] > 0
  /\ asked' = [asked EXCEPT ![who] = @ - 1]
  /\ lock' = None /\ shown' = "lost" /\ refused' = TRUE
  /\ UNCHANGED <<want, live>>

\* Mutant of Released: nobody listens for a release.
KeepsHandle(ss) ==
  /\ live' = live \ ss
  /\ UNCHANGED <<lock, shown>>

\* The sentinels ss end, and the listener of each drops the handle.
Released(ss) ==
  /\ live' = live \ ss
  /\ IF ss = {} THEN UNCHANGED <<lock, shown>> ELSE lock' = None /\ shown' = "lost"

\* release(), of the one sentinel there is a handle to, which ends at once
Release ==
  /\ want' = FALSE
  /\ live' = live \ {lock} /\ lock' = None /\ shown' = "lost"
  /\ UNCHANGED <<asked, refused>>

(***************************************************************************)
(* The browser.                                                            *)
(***************************************************************************)

\* Every lock is dropped when the page is no longer looked at.
Hide ==
  /\ visible /\ visible' = FALSE
  /\ Released(live)
  /\ UNCHANGED <<sockVars, appVars, want, asked, refused>>

\* Mutant of Show: a page that is seen again does not ask again.
ShowOnly ==
  /\ ~visible /\ visible' = TRUE
  /\ UNCHANGED <<sockVars, appVars, awakeVars>>

\* visibilitychange
Show ==
  /\ ~visible /\ visible' = TRUE
  /\ IF want THEN asked["visibility"] < MaxAsks /\ Acquire("visibility")
     ELSE UNCHANGED awakeVars
  /\ UNCHANGED <<sockVars, appVars>>

\* a lock is taken back for a reason of the system's own
TakeBack(s) ==
  /\ s \in live
  /\ Released({s})
  /\ refused' = TRUE
  /\ UNCHANGED <<sockVars, appVars, want, asked, visible>>

\* the end of join's handler, and of the one that awaits nothing but the lock
EndJoin == /\ joined' = TRUE /\ left' = FALSE /\ panel' = TRUE
           /\ UNCHANGED joins
Answer(who) ==
  /\ Refuse(who) \/ \E s \in Locks : Grant(who, s)
  /\ IF who = "join" THEN EndJoin ELSE UNCHANGED appVars
  /\ UNCHANGED <<sockVars, visible>>

(***************************************************************************)
(* app.js.                                                                 *)
(***************************************************************************)

\* onopen
Open ==
  /\ sock = "connecting"
  /\ sock' = "open" /\ hello' = TRUE /\ ticking' = TRUE
  /\ UNCHANGED <<retry, row, unlocked, appVars, awakeVars, visible>>

\* the row of a connection that ends
OldRow == IF row = "this" THEN "old" ELSE row

\* Mutants of OnClose: a page that left retries all the same; one whose
\* connection never opened does not; the clock goes on.
RetriesAlways ==
  /\ sock # "closed"
  /\ sock' = "closed" /\ retry' = TRUE /\ ticking' = FALSE /\ row' = OldRow
  /\ UNCHANGED <<hello, unlocked, appVars, awakeVars, visible>>
RetriesOnce ==
  /\ sock # "closed"
  /\ sock' = "closed" /\ ticking' = FALSE /\ row' = OldRow
  /\ retry' = (~left /\ sock = "open")
  /\ UNCHANGED <<hello, unlocked, appVars, awakeVars, visible>>
TicksOn ==
  /\ sock # "closed"
  /\ sock' = "closed" /\ retry' = ~left /\ row' = OldRow
  /\ UNCHANGED <<hello, ticking, unlocked, appVars, awakeVars, visible>>

\* onclose: the connection is refused, lost or closed by either end.
OnClose ==
  /\ sock # "closed"
  /\ sock' = "closed" /\ retry' = ~left /\ ticking' = FALSE /\ row' = OldRow
  /\ UNCHANGED <<hello, unlocked, appVars, awakeVars, visible>>

\* connect(), two seconds later: a new socket, clock and player
Connect ==
  /\ retry
  /\ sock' = "connecting" /\ retry' = FALSE /\ hello' = FALSE
  /\ ticking' = FALSE /\ unlocked' = FALSE
  /\ UNCHANGED <<row, appVars, awakeVars, visible>>

\* join, up to its first await.  With a name it says hello again: send throws
\* while the socket connects, and drops what it is given once it closes.
Join(named) ==
  /\ ~panel /\ joins + asked["join"] < MaxAsks
  /\ ~(named /\ sock = "connecting")
  /\ hello' = (hello \/ (named /\ sock = "open"))
  /\ unlocked' = TRUE /\ joins' = joins + 1
  /\ UNCHANGED <<sock, retry, row, ticking, joined, left, panel, awakeVars, visible>>

\* player.unlock() returns, and the lock is asked for.
Unlocked ==
  /\ joins > 0 /\ joins' = joins - 1
  /\ Acquire("join")
  /\ IF lock # None THEN joined' = TRUE /\ left' = FALSE /\ panel' = TRUE
     ELSE UNCHANGED <<joined, left, panel>>
  /\ UNCHANGED <<sockVars, visible>>

Leave ==
  /\ panel /\ panel' = FALSE
  /\ left' = TRUE /\ joined' = FALSE
  /\ Release
  /\ ticking' = FALSE
  /\ sock' = IF sock = "closed" THEN sock ELSE "closing"
  /\ UNCHANGED <<retry, hello, row, unlocked, joins, visible>>

(***************************************************************************)
(* The server.                                                             *)
(***************************************************************************)

\* hello is read; from a connection that has closed since, it makes a row too.
Hear ==
  /\ hello /\ hello' = FALSE
  /\ row' = IF sock \in {"open", "closing"} THEN "this" ELSE "old"
  /\ UNCHANGED <<sock, retry, ticking, unlocked, appVars, awakeVars, visible>>

\* drop
Drop ==
  /\ row = "old" /\ row' = "none"
  /\ UNCHANGED <<sock, retry, hello, ticking, unlocked, appVars, awakeVars, visible>>

\* No pong came for twelve seconds: the row goes, and the page learns of it
\* when it wakes.
GiveUp ==
  /\ row = "this" /\ sock = "open"
  /\ row' = "none" /\ sock' = "closing"
  /\ UNCHANGED <<retry, hello, ticking, unlocked, appVars, awakeVars, visible>>

Next ==
  \/ Hide \/ Show \/ \E s \in Locks : TakeBack(s)
  \/ \E who \in Askers : Answer(who)
  \/ Open \/ OnClose \/ Connect \/ \E named \in BOOLEAN : Join(named)
  \/ Unlocked \/ Leave
  \/ Hear \/ Drop \/ GiveUp

\* Timers fire, requests are answered, and a socket that closes has closed
\* sooner or later.  A server that can be reached again and again is reached
\* at some time: the page's network comes back.
Fairness ==
  /\ WF_vars(Connect) /\ WF_vars(sock = "closing" /\ OnClose)
  /\ WF_vars(Hear) /\ WF_vars(Drop)
  /\ \A who \in Askers : WF_vars(Answer(who))
  /\ SF_vars(Open) /\ SF_vars(Hear /\ sock = "open")

Spec == Init /\ [][Next]_vars /\ Fairness

(***************************************************************************)
(* Properties.                                                             *)
(***************************************************************************)

\* awake.js:2: the page "reports honestly": it says that the screen will stay
\* on only while a lock is live, whatever was asked for twice, refused late or
\* taken back meanwhile.
AwakeIsTrue == shown = "held" => lock \in live

\* awake.js:20: "take it again as soon as the page is looked at".  A page that
\* wants the lock and stays in sight holds one, unless it is refused.
TakenAgain ==
  (want /\ visible) ~> (lock # None \/ refused \/ ~want \/ ~visible)

\* server_test.go:94: "A phone that drops off and comes back must reclaim its
\* row".  It does come back: a page whose connection ended, opened or not, has
\* a row again, unless its user leaves.  The server's lock is taken to be let
\* go: a hello that panicked with it (NeverStuck of MCHubFindings) keeps every
\* page without a row.
ComesBack == retry ~> (row = "this" \/ left)

\* app.js:140: "leaving is explicit": a page that has left is out of the mixer
\* and stays out until its user joins, unless it was left while it waited to
\* reconnect.
LeavesTheRoom ==
  (left /\ ~retry /\ sock \in {"closing", "closed"})
    ~> (~left \/ (row = "none" /\ ~hello /\ sock = "closed" /\ ~retry))
=============================================================================
