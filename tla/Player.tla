------------------------------- MODULE Player -------------------------------
(***************************************************************************)
(* Where a speaker places each chunk on its own audio clock: LivePlayer of *)
(* web/sync.js, fed with the frames of the timeline, a clock estimate that *)
(* is never exact, and an audio context the browser suspends at will.      *)
(*                                                                         *)
(* Time is counted in chunks of 20 ms, so chunk n is stamped epoch + n.    *)
(* A suspended context's clock stands still; lag is how far it is behind.  *)
(* What the device adds to nudgeMs, its output latency, enters every sum   *)
(* next to it, so nudge stands for both.                                   *)
(***************************************************************************)
EXTENDS Integers

CONSTANTS
  Reseat,     \* RESEAT_S
  MaxErr,     \* the clock estimate is off by at most this
  Nudges,     \* positions of the nudge slider
  Lead,       \* how far ahead of its time a chunk may arrive: the delay
  MaxLag,     \* for how long the context is ever suspended
  Horizon,    \* the last instant looked at
  None        \* no anchor, no answer, no chunk

ASSUME PlayerAssumption ==
  /\ Reseat \in Nat \ {0} /\ MaxErr \in Nat /\ Nudges \subseteq Int /\ 0 \in Nudges
  /\ Lead \in Nat \ {0} /\ MaxLag \in Nat /\ Horizon \in Nat
  /\ None \notin Int /\ None \notin [seq : Nat, when : Int]

VARIABLES
  \* the host's stream, as it arrives
  epoch,      \* when sample 0 is to be heard, by the host's clock
  next,       \* the chunk that comes next
  \* the browser
  time,       \* ctx.currentTime
  lag,        \* the host's clock minus time
  ctx,        \* "none" before unlock, "running" or "suspended"
  err,        \* the error of clock.now(); None before the first answer
  \* fields of LivePlayer
  nudge, anchor, anchorSeq,
  \* history, read by properties only
  last,       \* the last chunk handed to the audio graph
  aim         \* where sample 0 belonged when the player anchored

histVars == <<last, aim>>
vars == <<epoch, next, time, lag, ctx, err, nudge, anchor, anchorSeq, histVars>>

Chunks == [seq : Nat, when : Int]
Errors == -MaxErr..MaxErr

TypeOK ==
  /\ epoch \in Int /\ next \in Nat
  /\ time \in Nat /\ lag \in 0..MaxLag /\ ctx \in {"none", "running", "suspended"}
  /\ err \in Errors \cup {None}
  /\ nudge \in Nudges /\ anchor \in Int \cup {None} /\ anchorSeq \in Nat
  /\ last \in Chunks \cup {None} /\ aim \in Int

Init ==
  /\ epoch \in 0..Lead /\ next = 0
  /\ time = 0 /\ lag = 0 /\ ctx = "none" /\ err = None
  /\ nudge \in Nudges /\ anchor = None /\ anchorSeq = 0
  /\ last = None /\ aim = 0

(***************************************************************************)
(* The host and the network.                                               *)
(***************************************************************************)

\* a stamp the host gives a chunk no more than the delay ahead of its time
Ahead(e, n) == e + n - (time + lag) \in 0..Lead

\* A chunk is lost on the way: its speaker's queue was full.
Lose ==
  /\ epoch + next <= Horizon
  /\ next' = next + 1
  /\ UNCHANGED <<epoch, time, lag, ctx, err, nudge, anchor, anchorSeq, histVars>>

\* The host moved the delay: later chunks lie on another line.
MoveDelay(e) ==
  /\ e # epoch /\ Ahead(e, next)
  /\ epoch' = e
  /\ UNCHANGED <<next, time, lag, ctx, err, nudge, anchor, anchorSeq, histVars>>

\* The host stopped and started again: sample 0 anew.  When it starts while it
\* streams, the first chunks of the new device still lie on the old line.
Restart(e) ==
  /\ e = epoch \/ Ahead(e, 0)
  /\ epoch' = e /\ next' = 0
  /\ last' = None
  /\ UNCHANGED <<time, lag, ctx, err, nudge, anchor, anchorSeq, aim>>

(***************************************************************************)
(* The browser and the page.                                               *)
(***************************************************************************)

Tick ==
  /\ time + lag < Horizon
  /\ IF ctx = "suspended"
       THEN lag < MaxLag /\ lag' = lag + 1 /\ UNCHANGED time
       ELSE time' = time + 1 /\ UNCHANGED lag
  /\ UNCHANGED <<epoch, next, ctx, err, nudge, anchor, anchorSeq, histVars>>

\* accept() of Clock
Sync(e) ==
  /\ err' = e
  /\ UNCHANGED <<epoch, next, time, lag, ctx, nudge, anchor, anchorSeq, histVars>>

\* unlock(), on the join button: the context may start suspended, and is
\* resumed
Unlock ==
  /\ ctx # "running"
  /\ ctx' = "running"
  /\ UNCHANGED <<epoch, next, time, lag, err, nudge, anchor, anchorSeq, histVars>>

\* the browser, on its own (screen dimming, app switch)
Suspend ==
  /\ ctx = "running"
  /\ ctx' = "suspended"
  /\ UNCHANGED <<epoch, next, time, lag, err, nudge, anchor, anchorSeq, histVars>>

SetNudge(n) ==
  /\ n # nudge
  /\ nudge' = n
  /\ UNCHANGED <<epoch, next, time, lag, ctx, err, anchor, anchorSeq, histVars>>

(***************************************************************************)
(* push().                                                                 *)
(***************************************************************************)

\* Where sample 0 belongs on the audio clock.
Aim == epoch - lag - nudge

\* hostToAudio of the stamp of the chunk that came
Ideal == epoch + next - (time + lag + err) - nudge + time

\* the place the anchor gives it
Placed == anchor + (next - anchorSeq)

\* Mutants of Lost: every chunk is placed by a fresh reading of the clock; an
\* anchor that is too early is not noticed, nor one that is stale.
Always == TRUE
OneSided == anchor = None \/ next < anchorSeq \/ Placed - Ideal > Reseat
NeverStale == anchor = None \/ next < anchorSeq

\* The thread is lost: no anchor, a stream that began anew, or a real drift.
Lost ==
  \/ anchor = None
  \/ next < anchorSeq
  \/ Ideal - Placed > Reseat \/ Placed - Ideal > Reseat

When == IF Lost THEN Ideal ELSE Placed

\* no context yet, or no clock: the chunk is ignored
Ignore ==
  /\ ctx = "none" \/ err = None
  /\ next' = next + 1
  /\ UNCHANGED <<epoch, time, lag, ctx, err, nudge, anchor, anchorSeq, histVars>>

\* The chunk only wakes a suspended context, which may stay asleep.
Wake ==
  /\ ctx = "suspended" /\ err # None
  /\ next' = next + 1
  /\ ctx' \in {"suspended", "running"}
  /\ UNCHANGED <<epoch, time, lag, err, nudge, anchor, anchorSeq, histVars>>

\* past due: dropped, and the anchor with it
DropLate ==
  /\ ctx = "running" /\ err # None /\ When <= time
  /\ next' = next + 1
  /\ anchor' = None
  /\ anchorSeq' = IF Lost THEN next ELSE anchorSeq
  /\ UNCHANGED <<epoch, time, lag, ctx, err, nudge, histVars>>

Schedule ==
  /\ ctx = "running" /\ err # None /\ When > time
  /\ next' = next + 1
  /\ IF Lost THEN anchor' = Ideal /\ anchorSeq' = next /\ aim' = Aim
             ELSE UNCHANGED <<anchor, anchorSeq, aim>>
  /\ last' = [seq |-> next, when |-> When]
  /\ UNCHANGED <<epoch, time, lag, ctx, err, nudge>>

Arrives == epoch + next <= time + lag + Lead /\ epoch + next <= Horizon

Next ==
  \/ Lose \/ \E e \in -Horizon..(Horizon + Lead) : MoveDelay(e) \/ Restart(e)
  \/ Tick \/ Unlock \/ Suspend
  \/ \E e \in Errors : Sync(e)
  \/ \E n \in Nudges : SetNudge(n)
  \/ Arrives /\ (Ignore \/ Wake \/ DropLate \/ Schedule)

Spec == Init /\ [][Next]_vars

(***************************************************************************)
(* Properties.                                                             *)
(***************************************************************************)

\* Two speakers are never further apart than their clocks and the reseat
\* threshold allow: whatever was lost, late, suspended or moved before, a
\* chunk that is played is heard at its moment, up to MaxErr + Reseat.
Together ==
  [][last' # last /\ last' # None
       => last'.when - (Aim + last'.seq) \in -(Reseat + MaxErr)..(Reseat + MaxErr)]_vars

\* sync.js:206-211: neighbours butt together exactly.  As long as the jitter
\* of the clock stays within the threshold, and nothing moved the line since
\* the player anchored, a chunk begins where the one before it ends, no
\* matter how the estimate has wandered meanwhile.
Seamless ==
  [][last' # last /\ last' # None /\ last # None
       => (2 * MaxErr <= Reseat /\ aim = Aim /\ last'.seq = last.seq + 1
             => last'.when = last.when + 1)]_vars

\* Only what is late is dropped as late: a chunk with more time left than
\* the error and the threshold is played, however stale the anchor was.
LateIsLate ==
  [][DropLate => Aim + next - time <= Reseat + MaxErr]_vars
=============================================================================
