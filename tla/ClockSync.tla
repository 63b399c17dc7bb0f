----------------------------- MODULE ClockSync -----------------------------
(***************************************************************************)
(* How a speaker estimates the host's clock: class Clock of web/sync.js    *)
(* and the answer of the server (case "sync" of readPump, session.go).     *)
(*                                                                         *)
(* Both directions of the connection keep the order and may take any time. *)
(* The two clocks run at the same rate; the host's may be set, which moves *)
(* what there is to estimate.  Half a round trip is a fraction, so the     *)
(* offset is kept doubled.                                                 *)
(***************************************************************************)
EXTENDS Integers, Sequences

CONSTANTS
  Burst,      \* pings per round (SYNC_BURST)
  Leaps,      \* by how much the host's clock may be set
  MaxSkew,    \* host clock minus page clock, at most
  MaxRounds,  \* rounds looked at
  Horizon     \* the last instant looked at

ASSUME ClockAssumption ==
  /\ Burst \in Nat \ {0} /\ Leaps \subseteq Int
  /\ MaxSkew \in Nat /\ MaxRounds \in Nat /\ Horizon \in Nat

VARIABLES
  now,        \* performance.now()
  skew,       \* the host's clock minus now
  timers,     \* pings of a burst that are to be sent
  up,         \* pings on their way to the host: when each was sent
  down,       \* answers on their way back
  \* fields of Clock
  best,       \* rtt of the least delayed answer of the round, or None
  offset,     \* twice the offset
  rtt, ready,
  \* history, read by properties only
  round,      \* how often ping() was called
  truth,      \* the skew when the answer in force was stamped
  heard,      \* round trips of the answers heard since ping() was last called
  leapt,      \* the round in which the host's clock was last set
  newest,     \* the latest round one of whose pings was answered
  settled     \* that, when ping() was last called

histVars == <<round, truth, heard, leapt, newest, settled>>
vars == <<now, skew, timers, up, down, best, offset, rtt, ready, histVars>>

None == -1

\* t0 is echoed and ts added by the host; at and round say when that was and
\* to which round the ping belonged, for the properties.
Answers == [t0 : Nat, ts : Int, at : Nat, round : Nat]
Pings   == [t0 : Nat, round : Nat]

TypeOK ==
  /\ now \in Nat /\ skew \in Int /\ timers \in Nat
  /\ up \in Seq(Pings) /\ down \in Seq(Answers)
  /\ best \in Nat \cup {None} /\ offset \in Int /\ rtt \in Nat /\ ready \in BOOLEAN
  /\ round \in Nat /\ truth \in Int /\ heard \subseteq Nat
  /\ leapt \in Nat /\ newest \in Nat /\ settled \in Nat

Init ==
  /\ now = 0 /\ skew \in -MaxSkew..MaxSkew /\ timers = 0
  /\ up = <<>> /\ down = <<>>
  /\ best = None /\ offset = 0 /\ rtt = 0 /\ ready = FALSE
  /\ round = 0 /\ truth = 0 /\ heard = {} /\ leapt = 0 /\ newest = 0 /\ settled = 0

Tick ==
  /\ now < Horizon
  /\ now' = now + 1
  /\ UNCHANGED <<skew, timers, up, down, best, offset, rtt, ready, histVars>>

\* nowMs() of the host is its wall clock.
SetClock(d) ==
  /\ skew + d \in -MaxSkew..MaxSkew
  /\ skew' = skew + d
  /\ leapt' = round
  /\ UNCHANGED <<now, timers, up, down, best, offset, rtt, ready, round, truth, heard,
                 newest, settled>>

\* Mutant of Ping: the best answer stays from round to round.
KeepsBest ==
  /\ round < MaxRounds
  /\ timers = 0 /\ timers' = Burst
  /\ round' = round + 1 /\ heard' = {} /\ settled' = newest
  /\ UNCHANGED <<now, skew, up, down, best, offset, rtt, ready, truth, leapt, newest>>

\* ping(), from start() and every RESYNC_MS after, long after the last timer
\* of the burst before
Ping ==
  /\ round < MaxRounds
  /\ timers = 0 /\ timers' = Burst
  /\ best' = None
  /\ round' = round + 1 /\ heard' = {} /\ settled' = newest
  /\ UNCHANGED <<now, skew, up, down, offset, rtt, ready, truth, leapt, newest>>

\* one of the burst's timers; a socket that is not open sends nothing
Timer ==
  /\ timers > 0
  /\ timers' = timers - 1
  /\ \/ up' = Append(up, [t0 |-> now, round |-> round])
     \/ UNCHANGED up
  /\ UNCHANGED <<now, skew, down, best, offset, rtt, ready, histVars>>

\* The server stamps its answer; it is dropped when the queue is full.
Answer ==
  /\ up # <<>>
  /\ up' = Tail(up)
  /\ \/ down' = Append(down, [t0 |-> Head(up).t0, ts |-> now + skew, at |-> now,
                              round |-> Head(up).round])
     \/ UNCHANGED down
  /\ UNCHANGED <<now, skew, timers, best, offset, rtt, ready, histVars>>

\* Mutants of Estimate and Better: the answer counts as if it had come at once;
\* the latest counts.
IgnoresTrip(m) == 2 * (m.ts - now)
AlwaysBetter(trip) == TRUE

\* t1 - t0
Trip(m) == now - m.t0
\* twice hostTs + rtt / 2 - t1
Estimate(m) == 2 * m.ts + Trip(m) - 2 * now
Better(trip) == best = None \/ trip < best

\* accept(t0, hostTs)
Accept ==
  /\ down # <<>>
  /\ down' = Tail(down)
  /\ heard' = heard \cup {Trip(Head(down))}
  /\ newest' = Head(down).round
  /\ IF Better(Trip(Head(down)))
       THEN /\ best' = Trip(Head(down)) /\ rtt' = Trip(Head(down))
            /\ offset' = Estimate(Head(down))
            /\ ready' = TRUE
            /\ truth' = Head(down).ts - Head(down).at
       ELSE UNCHANGED <<best, rtt, offset, ready, truth>>
  /\ UNCHANGED <<now, skew, timers, up, round, leapt, settled>>

Next ==
  \/ Tick \/ \E d \in Leaps : SetClock(d)
  \/ Ping \/ Timer \/ Answer \/ Accept

Spec == Init /\ [][Next]_vars

(***************************************************************************)
(* Properties.                                                             *)
(***************************************************************************)

\* What a speaker takes for the host's clock is off by at most half the round
\* trip it reports, however unequal the two ways were.
ErrorIsBounded == ready => offset - 2 * truth \in -rtt..rtt

\* sync.js:9: "pings per round, keep the least delayed one".  With an answer
\* heard in this round, the offset is that of the least delayed one, a late
\* answer to the round before included.
LeastDelayed ==
  /\ best # None <=> heard # {}
  /\ heard # {} => rtt \in heard /\ \A trip \in heard : rtt <= trip

\* The host's clock may be set at any moment.  One whole round later no
\* answer from before is in force, nor can one come: once an answer to a
\* later round has been heard, the next round starts from fresh ones.
FollowsTheHost ==
  heard # {} /\ settled > leapt => truth = skew
=============================================================================
