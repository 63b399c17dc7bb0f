-------------------------- MODULE ClockSyncProofs --------------------------
(***************************************************************************)
(* Proofs about ClockSync, for any burst, any delays and any history of    *)
(* the host's clock.  The error of an estimate is bounded because a ping,  *)
(* its answer and its arrival follow one another (Stamped); the estimate   *)
(* follows the host because both directions keep the order, so that the    *)
(* rounds of the messages on their way never go down (Ordered) and those   *)
(* of a round after the host's clock was set carry the new one (Fresh).    *)
(***************************************************************************)
EXTENDS ClockSync, TLAPS

\* A ping is sent before it is answered, and that before now.
Stamped ==
  /\ \A i \in 1..Len(up) : up[i].t0 <= now
  /\ \A i \in 1..Len(down) : down[i].t0 <= down[i].at /\ down[i].at <= now

\* First come the answers, then the pings, in the order of their rounds.
Ordered ==
  /\ settled <= newest /\ newest <= round /\ leapt <= round
  /\ \A i \in 1..Len(up) : newest <= up[i].round /\ up[i].round <= round
  /\ \A i \in 1..Len(down) : newest <= down[i].round /\ down[i].round <= round
  /\ \A i, j \in 1..Len(up) : i <= j => up[i].round <= up[j].round
  /\ \A i, j \in 1..Len(down) : i <= j => down[i].round <= down[j].round
  /\ \A i \in 1..Len(down), j \in 1..Len(up) : down[i].round <= up[j].round

\* Whatever belongs to a round after the clock was set was stamped after it.
Fresh == \A i \in 1..Len(down) : down[i].round > leapt => down[i].ts - down[i].at = skew

\* With an answer heard, the best of the round is the one in force.
InForce == heard # {} => ready /\ rtt = best

IInv == /\ TypeOK /\ Stamped /\ ErrorIsBounded /\ LeastDelayed /\ InForce
        /\ Ordered /\ Fresh /\ FollowsTheHost

(***************************************************************************)
(* Facts about queues.                                                     *)
(***************************************************************************)

\* What is left of a queue was in it, one place further on.
LEMMA TailProps ==
  ASSUME NEW S, NEW q \in Seq(S), q # <<>>
  PROVE  /\ Head(q) \in S /\ Head(q) = q[1] /\ Tail(q) \in Seq(S)
         /\ Len(q) \in Nat /\ 1 \in 1..Len(q) /\ Len(Tail(q)) = Len(q) - 1
         /\ \A i \in 1..Len(Tail(q)) : i + 1 \in 1..Len(q) /\ Tail(q)[i] = q[i + 1]
OBVIOUS

\* What was in a queue stays in its place when another element comes.
LEMMA AppendProps ==
  ASSUME NEW S, NEW q \in Seq(S), NEW e \in S
  PROVE  /\ Append(q, e) \in Seq(S) /\ Len(Append(q, e)) = Len(q) + 1 /\ Len(q) \in Nat
         /\ Append(q, e)[Len(q) + 1] = e
         /\ \A i \in 1..Len(q) : Append(q, e)[i] = q[i]
OBVIOUS

\* Whatever the two ways took, the estimate is off by at most half of both.
LEMMA HalfTrip ==
  ASSUME NEW t0 \in Int, NEW ts \in Int, NEW at \in Int, NEW t1 \in Int,
         t0 <= at, at <= t1
  PROVE  /\ 2 * ts + (t1 - t0) - 2 * t1 \in Int
         /\ (2 * ts + (t1 - t0) - 2 * t1) - 2 * (ts - at) \in -(t1 - t0)..(t1 - t0)
OBVIOUS

\* The fields of what is on its way.
LEMMA QueueTypes ==
  ASSUME TypeOK
  PROVE  /\ Len(up) \in Nat /\ Len(down) \in Nat
         /\ \A i \in 1..Len(up) : up[i].t0 \in Nat /\ up[i].round \in Nat
         /\ \A i \in 1..Len(down) : /\ down[i].t0 \in Nat /\ down[i].ts \in Int
                                    /\ down[i].at \in Nat /\ down[i].round \in Nat
<1>1. up \in Seq(Pings) /\ down \in Seq(Answers)
  BY DEF TypeOK
<1>2. \A i \in 1..Len(up) : up[i] \in Pings
  BY <1>1
<1>3. \A i \in 1..Len(down) : down[i] \in Answers
  BY <1>1
<1>4. \A x \in Pings : x.t0 \in Nat /\ x.round \in Nat
  BY DEF Pings
<1>5. \A x \in Answers : x.t0 \in Nat /\ x.ts \in Int /\ x.at \in Nat /\ x.round \in Nat
  BY DEF Answers
<1> QED
  BY <1>1, <1>2, <1>3, <1>4, <1>5

(***************************************************************************)
(* Each action preserves the invariant.                                    *)
(***************************************************************************)

\* Nothing has been sent, nothing is known.
LEMMA InitInv == Init => IInv
<1> SUFFICES ASSUME Init PROVE IInv
  OBVIOUS
<1>1. up \in Seq(Pings) /\ down \in Seq(Answers) /\ Len(up) = 0 /\ Len(down) = 0
  BY DEF Init
<1>2. skew \in Int
  BY ClockAssumption DEF Init
<1>3. TypeOK
  <2>1. ready \in BOOLEAN /\ best \in Nat \cup {None} /\ heard \subseteq Nat
    BY DEF Init
  <2>2. /\ now \in Nat /\ timers \in Nat /\ offset \in Int /\ rtt \in Nat /\ round \in Nat
        /\ truth \in Int /\ leapt \in Nat /\ newest \in Nat /\ settled \in Nat
    BY DEF Init
  <2> QED
    BY <1>1, <1>2, <2>1, <2>2 DEF TypeOK
<1> QED
  BY <1>1, <1>3 DEF Init, IInv, Stamped, ErrorIsBounded, LeastDelayed, InForce, Ordered, Fresh,
     FollowsTheHost, None

\* Time passes on both sides at once.
LEMMA TickInv == IInv /\ Tick => IInv'
<1> SUFFICES ASSUME IInv, Tick PROVE IInv'
  OBVIOUS
<1>1. TypeOK'
  BY DEF Tick, IInv, TypeOK, histVars
<1>2. Stamped'
  <2>1. now \in Nat /\ now' = now + 1 /\ UNCHANGED <<up, down>>
    BY DEF Tick, IInv, TypeOK
  <2> QED
    BY <2>1, QueueTypes DEF IInv, Stamped
<1> QED
  BY <1>1, <1>2 DEF Tick, IInv, ErrorIsBounded, LeastDelayed, InForce, Ordered, Fresh,
     FollowsTheHost, histVars

\* Setting the host's clock leaves no round that is newer.
LEMMA SetClockInv == ASSUME NEW d \in Leaps PROVE IInv /\ SetClock(d) => IInv'
<1> SUFFICES ASSUME IInv, SetClock(d) PROVE IInv'
  OBVIOUS
<1>1. TypeOK'
  BY ClockAssumption DEF SetClock, IInv, TypeOK
<1>2. Ordered' /\ Fresh' /\ FollowsTheHost'
  <2>1. /\ round \in Nat /\ settled \in Nat /\ newest \in Nat /\ leapt' = round
        /\ UNCHANGED <<up, down, round, heard, newest, settled>>
    BY DEF SetClock, IInv, TypeOK
  <2>2. Ordered'
    BY <2>1 DEF IInv, Ordered
  <2>3. \A i \in 1..Len(down) : ~(down[i].round > leapt')
    BY <2>1, QueueTypes DEF IInv, Ordered
  <2>4. ~(settled > leapt')
    BY <2>1 DEF IInv, Ordered
  <2> QED
    BY <2>1, <2>2, <2>3, <2>4 DEF Fresh, FollowsTheHost
<1> QED
  BY <1>1, <1>2 DEF SetClock, IInv, Stamped, ErrorIsBounded, LeastDelayed, InForce

\* A new round begins with nothing heard.
LEMMA PingInv == IInv /\ Ping => IInv'
<1> SUFFICES ASSUME IInv, Ping PROVE IInv'
  OBVIOUS
<1>1. TypeOK'
  <2>1. best' \in Nat \cup {None} /\ heard' \subseteq Nat
    BY DEF Ping
  <2>2. timers' \in Nat /\ round' \in Nat /\ settled' \in Nat
    BY ClockAssumption DEF Ping, IInv, TypeOK
  <2> QED
    BY <2>1, <2>2 DEF Ping, IInv, TypeOK
<1>2. Ordered'
  <2>1. /\ round \in Nat /\ newest \in Nat /\ leapt \in Nat
        /\ round' = round + 1 /\ settled' = newest
        /\ UNCHANGED <<up, down, leapt, newest>>
    BY DEF Ping, IInv, TypeOK
  <2>2. /\ \A i \in 1..Len(up) : up[i].round <= round'
        /\ \A i \in 1..Len(down) : down[i].round <= round'
    BY <2>1, QueueTypes DEF IInv, Ordered
  <2> QED
    BY <2>1, <2>2 DEF IInv, Ordered
<1>3. heard' = {} /\ best' = None /\ UNCHANGED <<now, skew, up, down, offset, rtt, ready, truth, leapt>>
  BY DEF Ping
<1>4. LeastDelayed' /\ InForce' /\ FollowsTheHost'
  BY <1>3 DEF LeastDelayed, InForce, FollowsTheHost
<1> QED
  BY <1>1, <1>2, <1>3, <1>4 DEF IInv, Stamped, ErrorIsBounded, Fresh

\* A ping is sent after all others.
LEMMA TimerInv == IInv /\ Timer => IInv'
<1> SUFFICES ASSUME IInv, Timer PROVE IInv'
  OBVIOUS
<1>1. CASE UNCHANGED up
  <2>1. TypeOK'
    BY <1>1 DEF Timer, IInv, TypeOK, histVars
  <2> QED
    BY <1>1, <2>1 DEF Timer, IInv, Stamped, ErrorIsBounded, LeastDelayed, InForce, Ordered,
       Fresh, FollowsTheHost, histVars
<1>2. CASE up' = Append(up, [t0 |-> now, round |-> round])
  <2> DEFINE p == [t0 |-> now, round |-> round]
  <2>1. p \in Pings /\ p.t0 = now /\ p.round = round /\ up \in Seq(Pings)
    BY DEF IInv, TypeOK, Pings
  <2>2. /\ up' = Append(up, p)
        /\ timers' \in Nat
        /\ UNCHANGED <<now, skew, down, best, offset, rtt, ready, histVars>>
    BY <1>2 DEF Timer, IInv, TypeOK
  <2> HIDE DEF p
  <2>3. /\ up' \in Seq(Pings) /\ Len(up') = Len(up) + 1 /\ Len(up) \in Nat
        /\ up'[Len(up) + 1] = p
        /\ \A i \in 1..Len(up) : up'[i] = up[i] /\ up[i] \in Pings
    BY <2>1, <2>2, AppendProps
  <2>4. TypeOK'
    BY <2>2, <2>3 DEF IInv, TypeOK, histVars
  <2>5. \A i \in 1..Len(up') : \/ i \in 1..Len(up) /\ up'[i] = up[i]
                               \/ i = Len(up) + 1 /\ up'[i] = p
    BY <2>3
  <2>6. Stamped'
    BY <2>1, <2>2, <2>5 DEF IInv, TypeOK, Stamped
  <2>7. Ordered'
    <3>1. /\ now \in Nat /\ round \in Nat /\ newest \in Nat /\ newest <= round
          /\ \A i \in 1..Len(down) : down[i].round <= round
      BY DEF IInv, TypeOK, Ordered
    <3>2. \A i \in 1..Len(up') : newest <= up'[i].round /\ up'[i].round <= round
      BY <2>1, <2>5, <3>1 DEF IInv, Ordered
    <3>3. \A i, j \in 1..Len(up') : i <= j => up'[i].round <= up'[j].round
      BY <2>1, <2>3, <2>5, <3>1 DEF IInv, Ordered
    <3>4. \A i \in 1..Len(down), j \in 1..Len(up') : down[i].round <= up'[j].round
      BY <2>1, <2>5, <3>1 DEF IInv, Ordered
    <3> QED
      BY <2>2, <3>2, <3>3, <3>4 DEF IInv, Ordered, histVars
  <2> QED
    BY <2>2, <2>4, <2>6, <2>7
    DEF IInv, ErrorIsBounded, LeastDelayed, InForce, Fresh, FollowsTheHost, histVars
<1> QED
  BY <1>1, <1>2 DEF Timer

\* The host takes the oldest ping; its answer goes behind all others.
LEMMA AnswerInv == IInv /\ Answer => IInv'
<1> SUFFICES ASSUME IInv, Answer PROVE IInv'
  OBVIOUS
<1> DEFINE m == [t0 |-> Head(up).t0, ts |-> now + skew, at |-> now, round |-> Head(up).round]
<1>1. /\ up # <<>> /\ up' = Tail(up)
      /\ down' = Append(down, m) \/ down' = down
      /\ UNCHANGED <<now, skew, timers, best, offset, rtt, ready, histVars>>
  BY DEF Answer
<1>2. /\ up \in Seq(Pings) /\ down \in Seq(Answers)
      /\ now \in Nat /\ skew \in Int /\ round \in Nat /\ newest \in Nat /\ leapt \in Nat
  BY DEF IInv, TypeOK
<1>3. /\ Head(up) \in Pings /\ Head(up) = up[1] /\ up' \in Seq(Pings)
      /\ Len(up) \in Nat /\ 1 \in 1..Len(up) /\ Len(up') = Len(up) - 1
      /\ \A i \in 1..Len(up') : i + 1 \in 1..Len(up) /\ up'[i] = up[i + 1]
  BY <1>1, <1>2, TailProps
<1>4. /\ m \in Answers /\ m.t0 = up[1].t0 /\ m.at = now /\ m.ts - m.at = skew
      /\ m.round = up[1].round
  BY <1>2, <1>3 DEF Pings, Answers
<1> HIDE DEF m
<1>5. /\ down' \in Seq(Answers) /\ Len(down) \in Nat
      /\ \A i \in 1..Len(down') : \/ i \in 1..Len(down) /\ down'[i] = down[i]
                                  \/ i = Len(down) + 1 /\ down'[i] = m
  <2>1. CASE down' = down
    BY <1>2, <2>1
  <2>2. CASE down' = Append(down, m)
    <3>1. /\ down' \in Seq(Answers) /\ Len(down') = Len(down) + 1 /\ Len(down) \in Nat
          /\ down'[Len(down) + 1] = m
          /\ \A i \in 1..Len(down) : down'[i] = down[i]
      BY <1>2, <1>4, <2>2, AppendProps
    <3> QED
      BY <3>1
  <2> QED
    BY <1>1, <2>1, <2>2
<1>6. TypeOK'
  BY <1>1, <1>3, <1>5 DEF IInv, TypeOK, histVars
<1>7. Stamped'
  <2>1. \A i \in 1..Len(up') : up'[i].t0 <= now
    BY <1>3 DEF IInv, Stamped
  <2>2. m.t0 <= m.at /\ m.at <= now
    BY <1>2, <1>3, <1>4 DEF IInv, Stamped
  <2>3. \A i \in 1..Len(down') : down'[i].t0 <= down'[i].at /\ down'[i].at <= now
    BY <1>5, <2>2 DEF IInv, Stamped
  <2> QED
    BY <1>1, <2>1, <2>3 DEF Stamped
<1>8. Fresh'
  BY <1>1, <1>4, <1>5 DEF IInv, Fresh, histVars
<1>9. Ordered'
  <2>1. /\ \A i \in 1..Len(up) : newest <= up[i].round /\ up[i].round <= round
        /\ \A i \in 1..Len(down) : newest <= down[i].round /\ down[i].round <= round
        /\ \A i, j \in 1..Len(up) : i <= j => up[i].round <= up[j].round
        /\ \A i, j \in 1..Len(down) : i <= j => down[i].round <= down[j].round
        /\ \A i \in 1..Len(down), j \in 1..Len(up) : down[i].round <= up[j].round
        /\ settled <= newest /\ newest <= round /\ leapt <= round
    BY DEF IInv, Ordered
  <2>2. \A i \in 1..Len(up) : up[i].round \in Nat /\ up[1].round <= up[i].round
    BY <1>3, <2>1, QueueTypes DEF IInv
  <2>3. \A i \in 1..Len(down) : down[i].round \in Nat
    BY QueueTypes DEF IInv
  <2>4. /\ \A i \in 1..Len(up') : newest <= up'[i].round /\ up'[i].round <= round
        /\ \A i, j \in 1..Len(up') : i <= j => up'[i].round <= up'[j].round
    <3>1. \A i \in 1..Len(up') : newest <= up'[i].round /\ up'[i].round <= round
      BY <1>3, <2>1
    <3>2. \A i, j \in 1..Len(up') : i <= j => i + 1 <= j + 1
      BY <1>3
    <3>3. \A i, j \in 1..Len(up') : i <= j => up[i + 1].round <= up[j + 1].round
      BY <1>3, <2>1, <3>2
    <3> QED
      BY <1>3, <3>1, <3>3
  <2>5. \A i \in 1..Len(down') : newest <= down'[i].round /\ down'[i].round <= round
    BY <1>3, <1>4, <1>5, <2>1
  <2>6. ASSUME NEW i \in 1..Len(down'), NEW j \in 1..Len(down'), i <= j
        PROVE  down'[i].round <= down'[j].round
    <3>1. CASE j \in 1..Len(down) /\ down'[j] = down[j]
      <4>1. i \in 1..Len(down) /\ down'[i] = down[i]
        BY <1>5, <2>6, <3>1
      <4> QED
        BY <2>1, <2>6, <3>1, <4>1
    <3>2. CASE j = Len(down) + 1 /\ down'[j] = m
      <4>1. CASE i \in 1..Len(down) /\ down'[i] = down[i]
        BY <1>3, <1>4, <2>1, <3>2, <4>1
      <4>2. CASE i = Len(down) + 1 /\ down'[i] = m
        <5>1. m.round \in Nat
          BY <1>3, <1>4, <2>2
        <5> QED
          BY <3>2, <4>2, <5>1
      <4> QED
        BY <1>5, <4>1, <4>2
    <3> QED
      BY <1>5, <3>1, <3>2
  <2>7. \A i \in 1..Len(down'), j \in 1..Len(up') : down'[i].round <= up'[j].round
    BY <1>3, <1>4, <1>5, <2>1, <2>2
  <2> QED
    BY <1>1, <2>1, <2>4, <2>5, <2>6, <2>7 DEF Ordered, histVars
<1> QED
  BY <1>1, <1>6, <1>7, <1>8, <1>9
  DEF IInv, ErrorIsBounded, LeastDelayed, InForce, FollowsTheHost, histVars

\* accept() takes the oldest answer, and keeps it if it is the best.
LEMMA AcceptInv == IInv /\ Accept => IInv'
<1> SUFFICES ASSUME IInv, Accept PROVE IInv'
  OBVIOUS
<1> DEFINE m == Head(down)
           trip == now - m.t0
<1>1. /\ down # <<>> /\ down' = Tail(down)
      /\ heard' = heard \cup {trip} /\ newest' = m.round
      /\ UNCHANGED <<now, skew, timers, up, round, leapt, settled>>
  BY DEF Accept, Trip
<1>2. /\ now \in Nat /\ skew \in Int /\ round \in Nat /\ newest \in Nat /\ leapt \in Nat
      /\ down \in Seq(Answers) /\ up \in Seq(Pings) /\ settled \in Nat
  BY DEF IInv, TypeOK
<1>3. /\ m \in Answers /\ m = down[1] /\ down' \in Seq(Answers)
      /\ Len(down) \in Nat /\ 1 \in 1..Len(down) /\ Len(down') = Len(down) - 1
      /\ \A i \in 1..Len(down') : i + 1 \in 1..Len(down) /\ down'[i] = down[i + 1]
  BY <1>1, <1>2, TailProps
<1>4. /\ m.t0 \in Nat /\ m.ts \in Int /\ m.at \in Nat /\ m.round \in Nat
      /\ m.t0 <= m.at /\ m.at <= now /\ newest <= m.round
      /\ m.round > leapt => m.ts - m.at = skew
  BY <1>3 DEF IInv, Stamped, Ordered, Fresh, Answers
<1> HIDE DEF m
<1>5. trip \in Nat
  BY <1>2, <1>4
<1>6. /\ heard \subseteq Nat /\ best \in Nat \cup {None} /\ rtt \in Nat
      /\ heard # {} => ready /\ rtt = best /\ rtt \in heard /\ \A t \in heard : rtt <= t
      /\ best # None <=> heard # {}
  BY DEF IInv, TypeOK, LeastDelayed, InForce
<1>7. Stamped'
  BY <1>1, <1>3 DEF IInv, Stamped
<1>8. Fresh'
  BY <1>1, <1>3 DEF IInv, Fresh
<1>9. Ordered'
  <2>1. /\ \A i \in 1..Len(up) : newest <= up[i].round /\ up[i].round <= round
        /\ \A i \in 1..Len(down) : newest <= down[i].round /\ down[i].round <= round
        /\ \A i, j \in 1..Len(up) : i <= j => up[i].round <= up[j].round
        /\ \A i, j \in 1..Len(down) : i <= j => down[i].round <= down[j].round
        /\ \A i \in 1..Len(down), j \in 1..Len(up) : down[i].round <= up[j].round
        /\ settled <= newest /\ newest <= round /\ leapt <= round
    BY DEF IInv, Ordered
  <2>2. \A i \in 1..Len(down) : down[1].round <= down[i].round
    BY <1>3, <2>1
  <2>3. \A i \in 1..Len(up) : down[1].round <= up[i].round
    BY <1>3, <2>1
  <2>4. /\ \A i \in 1..Len(down') : newest' <= down'[i].round /\ down'[i].round <= round
        /\ \A i, j \in 1..Len(down') : i <= j => down'[i].round <= down'[j].round
        /\ \A i \in 1..Len(down'), j \in 1..Len(up) : down'[i].round <= up[j].round
    BY <1>1, <1>3, <2>1, <2>2
  <2>5. settled <= newest' /\ newest' <= round
    BY <1>1, <1>2, <1>3, <1>4, <2>1
  <2> QED
    BY <1>1, <1>3, <2>1, <2>3, <2>4, <2>5 DEF Ordered
<1>10. CASE Better(trip)
  <2>1. /\ best' = trip /\ rtt' = trip /\ truth' = m.ts - m.at
        /\ offset' = 2 * m.ts + (now - m.t0) - 2 * now
    BY <1>10 DEF Accept, Estimate, Trip, m
  <2>1a. /\ 2 * m.ts + (now - m.t0) - 2 * now \in Int
        /\ (2 * m.ts + (now - m.t0) - 2 * now) - 2 * (m.ts - m.at)
             \in -(now - m.t0)..(now - m.t0)
    <3>1. /\ m.t0 \in Int /\ m.ts \in Int /\ m.at \in Int /\ now \in Int
          /\ m.t0 <= m.at /\ m.at <= now
      BY <1>2, <1>4
    <3> HIDE DEF trip
    <3> QED
      BY ONLY <3>1, HalfTrip
  <2>1b. m.ts - m.at \in Int
    BY <1>4
  <2>1c. ready' = TRUE
    BY <1>10 DEF Accept, Trip, m
  <2>2. TypeOK'
    <3>1. /\ best' \in Nat \cup {None} /\ rtt' \in Nat /\ truth' \in Int /\ offset' \in Int
          /\ heard' \subseteq Nat /\ newest' \in Nat
      <4>1. offset' \in Int /\ truth' \in Int
        BY <2>1, <2>1a, <2>1b
      <4>2. best' \in Nat \cup {None} /\ rtt' \in Nat /\ heard' \subseteq Nat
        BY <1>1, <1>5, <1>6, <2>1
      <4>3. newest' \in Nat
        BY <1>1, <1>4
      <4> QED
        BY <4>1, <4>2, <4>3
    <3>2. ready' \in BOOLEAN
      BY <2>1c
    <3> QED
      BY <1>1, <1>3, <3>1, <3>2 DEF IInv, TypeOK
  <2>3. ErrorIsBounded'
    <3>1. offset' - 2 * truth' \in -rtt'..rtt'
      BY <2>1, <2>1a
    <3> QED
      BY <3>1 DEF ErrorIsBounded
  <2>4. trip # None /\ best = None => heard = {}
    BY <1>5, <1>6 DEF None
  <2>5. LeastDelayed' /\ InForce'
    <3>1. \A t \in heard : trip <= t
      BY <1>5, <1>6, <1>10 DEF Better, None
    <3> QED
      <4>1. heard' # {} /\ best' # None /\ trip \in heard'
        BY <1>1, <1>5, <2>1, <2>4 DEF None
      <4>2. \A t \in heard' : trip <= t
        BY <1>1, <1>5, <3>1
      <4> QED
        BY <2>1c, <2>1, <4>1, <4>2 DEF LeastDelayed, InForce
  <2>6. FollowsTheHost'
    <3> SUFFICES ASSUME settled > leapt PROVE truth' = skew
      BY <1>1 DEF FollowsTheHost
    <3>1. m.round > leapt
      BY <1>2, <1>4 DEF IInv, Ordered
    <3> QED
      BY <1>4, <2>1, <3>1
  <2> QED
    BY <1>7, <1>8, <1>9, <2>2, <2>3, <2>5, <2>6 DEF IInv
<1>11. CASE ~Better(trip)
  <2>1. UNCHANGED <<best, rtt, offset, ready, truth>>
    BY <1>11 DEF Accept, Trip, m
  <2>2. best # None /\ best <= trip /\ heard # {}
    BY <1>5, <1>6, <1>11 DEF Better, None
  <2>3. TypeOK'
    <3>1. heard' \subseteq Nat /\ newest' \in Nat
      BY <1>1, <1>4, <1>5, <1>6
    <3> QED
      BY <1>1, <1>3, <2>1, <3>1 DEF IInv, TypeOK
  <2>4. ErrorIsBounded' /\ FollowsTheHost'
    BY <1>1, <2>1, <2>2 DEF IInv, ErrorIsBounded, FollowsTheHost
  <2>5. LeastDelayed' /\ InForce'
    BY <1>1, <1>6, <2>1, <2>2 DEF LeastDelayed, InForce
  <2> QED
    BY <1>7, <1>8, <1>9, <2>3, <2>4, <2>5 DEF IInv
<1> QED
  BY <1>10, <1>11

\* The invariant is inductive.
LEMMA StepInv == IInv /\ [Next]_vars => IInv'
<1> SUFFICES ASSUME IInv, [Next]_vars PROVE IInv'
  OBVIOUS
<1>1. CASE UNCHANGED vars
  BY <1>1 DEF vars, histVars, IInv, TypeOK, Stamped, ErrorIsBounded, LeastDelayed, InForce,
     Ordered, Fresh, FollowsTheHost
<1>2. CASE Next
  BY <1>2, TickInv, SetClockInv, PingInv, TimerInv, AnswerInv, AcceptInv DEF Next
<1> QED
  BY <1>1, <1>2

(***************************************************************************)
(* The theorems.                                                           *)
(***************************************************************************)

\* Every field keeps its type.
THEOREM TypeCorrect == Spec => []TypeOK
<1>1. IInv => TypeOK
  BY DEF IInv
<1> QED
  BY InitInv, StepInv, <1>1, PTL DEF Spec

\* The estimate is off by at most half the round trip the page reports.
THEOREM BoundedError == Spec => []ErrorIsBounded
<1>1. IInv => ErrorIsBounded
  BY DEF IInv
<1> QED
  BY InitInv, StepInv, <1>1, PTL DEF Spec

\* The estimate in force is the least delayed one heard in the round.
THEOREM LeastInForce == Spec => []LeastDelayed
<1>1. IInv => LeastDelayed
  BY DEF IInv
<1> QED
  BY InitInv, StepInv, <1>1, PTL DEF Spec

\* One whole round after the host's clock was set, no estimate from before
\* is in force.
THEOREM HostIsFollowed == Spec => []FollowsTheHost
<1>1. IInv => FollowsTheHost
  BY DEF IInv
<1> QED
  BY InitInv, StepInv, <1>1, PTL DEF Spec
=============================================================================
