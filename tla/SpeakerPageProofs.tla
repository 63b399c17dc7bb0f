------------------------- MODULE SpeakerPageProofs -------------------------
(***************************************************************************)
(* For any number of requests and of sentinels: a speaker's page has no    *)
(* clock left over, and it is honest about its screen.  And what its       *)
(* liveness properties promise to happen is never let go of meanwhile: the *)
(* lock is asked for, the way back is not broken off, and who has left     *)
(* does not slip in again.                                                 *)
(***************************************************************************)
EXTENDS SpeakerPage, TLAPS

Typed ==
  /\ sock \in {"connecting", "open", "closing", "closed"}
  /\ row \in {"none", "this", "old"} /\ shown \in {"held", "lost"}
  /\ retry \in BOOLEAN /\ hello \in BOOLEAN /\ ticking \in BOOLEAN /\ unlocked \in BOOLEAN
  /\ joined \in BOOLEAN /\ left \in BOOLEAN /\ panel \in BOOLEAN
  /\ want \in BOOLEAN /\ visible \in BOOLEAN /\ refused \in BOOLEAN

Counted == joins \in 0 .. MaxAsks /\ asked \in [Askers -> Nat]
Locked  == lock \in Locks \cup {None} /\ live \subseteq Locks
Clocked == ticking => sock \in {"open", "closing"}

\* The handle is never stale: whatever is reported held, or found held by the
\* next acquire, is live.
Fresh == (lock # None => lock \in live) /\ AwakeIsTrue

IInv == Typed /\ Counted /\ Locked /\ Clocked /\ Fresh

\* The conjuncts of TypeOK, written out.
LEMMA TypesAre == TypeOK <=> Typed /\ Counted /\ Locked /\ Clocked
  BY DEF TypeOK, Typed, Counted, Locked, Clocked

USE DEF Askers

\* acquire(), up to its await, and its answer.
LEMMA AwakeSteps ==
  ASSUME IInv,
         \/ Hide \/ Show \/ \E s \in Locks : TakeBack(s)
         \/ \E who \in Askers : Answer(who)
         \/ Unlocked \/ Leave
  PROVE  IInv'
<1> USE SpeakerAssumption DEF sockVars, appVars, awakeVars
<1>1. CASE Hide \/ Show \/ \E s \in Locks : TakeBack(s)
  <2>1. Typed'
    <3>1. CASE Hide
      <4>1. shown' \in {"held", "lost"} /\ visible' \in BOOLEAN
        BY <3>1 DEF IInv, Typed, Hide, Released
      <4>2. UNCHANGED <<sockVars, appVars, want, refused>>
        BY <3>1 DEF Hide
      <4> QED
        BY <4>1, <4>2 DEF IInv, Typed
    <3>2. CASE Show
      <4>1. CASE want /\ Acquire("visibility")
        BY <3>2, <4>1 DEF IInv, Typed, Show, Acquire
      <4>2. CASE UNCHANGED awakeVars
        BY <3>2, <4>2 DEF IInv, Typed, Show
      <4> QED
        BY <3>2, <4>1, <4>2 DEF Show
    <3>3. CASE \E s \in Locks : TakeBack(s)
      BY <1>1, <3>3 DEF IInv, Typed, TakeBack, Released
    <3> QED
      BY <1>1, <3>1, <3>2, <3>3
  <2>2. Counted'
    BY <1>1 DEF IInv, Counted, Hide, Show, TakeBack, Released, Acquire
  <2>3. Locked' /\ Clocked' /\ Fresh'
    BY <1>1 DEF IInv, Typed, Locked, Clocked, Fresh, AwakeIsTrue, Hide, Show, TakeBack, Released,
                Acquire
  <2> QED
    BY <2>1, <2>2, <2>3 DEF IInv
<1>2. ASSUME NEW who \in Askers, Answer(who) PROVE IInv'
  <2>1. Typed'
    <3>1. /\ joined' \in BOOLEAN /\ left' \in BOOLEAN /\ panel' \in BOOLEAN
      <4>1. CASE who = "join"
        BY <1>2, <4>1 DEF Answer, EndJoin
      <4>2. CASE who # "join"
        BY <1>2, <4>2 DEF IInv, Typed, Answer
      <4> QED
        BY <4>1, <4>2
    <3>2. shown' \in {"held", "lost"} /\ want' \in BOOLEAN /\ refused' \in BOOLEAN
      BY <1>2 DEF IInv, Typed, Answer, Grant, Refuse
    <3>3. UNCHANGED <<sockVars, visible>>
      BY <1>2 DEF Answer
    <3> QED
      BY <3>1, <3>2, <3>3 DEF IInv, Typed
  <2>2. Counted'
    BY <1>2 DEF IInv, Counted, Answer, Grant, Refuse, EndJoin
  <2>3. Locked' /\ Clocked' /\ Fresh'
    BY <1>2 DEF IInv, Typed, Locked, Clocked, Fresh, AwakeIsTrue, Answer, Grant, Refuse
  <2> QED
    BY <2>1, <2>2, <2>3 DEF IInv
<1>3. CASE Unlocked
  <2>1. Typed'
    <3>1. /\ joined' \in BOOLEAN /\ left' \in BOOLEAN /\ panel' \in BOOLEAN
      <4>1. CASE lock # None
        BY <1>3, <4>1 DEF Unlocked
      <4>2. CASE lock = None
        BY <1>3, <4>2 DEF IInv, Typed, Unlocked
      <4> QED
        BY <4>1, <4>2
    <3>2. shown' \in {"held", "lost"} /\ want' \in BOOLEAN /\ refused' \in BOOLEAN
      BY <1>3 DEF IInv, Typed, Unlocked, Acquire
    <3>3. UNCHANGED <<sockVars, visible>>
      BY <1>3 DEF Unlocked
    <3> QED
      BY <3>1, <3>2, <3>3 DEF IInv, Typed
  <2>2. Counted'
    BY <1>3 DEF IInv, Counted, Unlocked, Acquire
  <2>3. Locked' /\ Clocked' /\ Fresh'
    BY <1>3 DEF IInv, Typed, Locked, Clocked, Fresh, AwakeIsTrue, Unlocked, Acquire
  <2> QED
    BY <2>1, <2>2, <2>3 DEF IInv
<1>4. CASE Leave
  <2>1. Typed'
    BY <1>4 DEF IInv, Typed, Leave, Release
  <2>2. Counted'
    BY <1>4 DEF IInv, Counted, Leave, Release
  <2>3. Locked' /\ Clocked' /\ Fresh'
    BY <1>4 DEF IInv, Typed, Locked, Clocked, Fresh, AwakeIsTrue, Leave, Release
  <2> QED
    BY <2>1, <2>2, <2>3 DEF IInv
<1> QED
  BY <1>1, <1>2, <1>3, <1>4

\* The connection's steps leave the lock alone.
LEMMA SocketSteps ==
  ASSUME IInv,
         \/ Open \/ OnClose \/ Connect \/ \E named \in BOOLEAN : Join(named)
         \/ Hear \/ Drop \/ GiveUp
  PROVE  IInv'
<1> USE SpeakerAssumption DEF sockVars, appVars, awakeVars
<1>1. UNCHANGED awakeVars
  BY DEF Open, OnClose, Connect, Join, Hear, Drop, GiveUp
<1>2. Locked' /\ Fresh'
  BY <1>1 DEF IInv, Locked, Fresh, AwakeIsTrue
<1>3. CASE \E named \in BOOLEAN : Join(named)
  <2>1. Typed' /\ Clocked'
    BY <1>3 DEF IInv, Typed, Clocked, Join
  <2>2. Counted'
    BY <1>3 DEF IInv, Counted, Join
  <2> QED
    BY <1>2, <2>1, <2>2 DEF IInv
<1>4. CASE Open \/ OnClose \/ Connect \/ Hear \/ Drop \/ GiveUp
  <2>1. Typed' /\ Clocked'
    <3>1. CASE Open
      BY <3>1 DEF IInv, Typed, Clocked, Open
    <3>2. CASE OnClose
      BY <3>2 DEF IInv, Typed, Clocked, OnClose, OldRow
    <3>3. CASE Connect
      BY <3>3 DEF IInv, Typed, Clocked, Connect
    <3>4. CASE Hear
      BY <3>4 DEF IInv, Typed, Clocked, Hear
    <3>5. CASE Drop \/ GiveUp
      BY <3>5 DEF IInv, Typed, Clocked, Drop, GiveUp
    <3> QED
      BY <1>4, <3>1, <3>2, <3>3, <3>4, <3>5
  <2>2. Counted'
    BY <1>4 DEF IInv, Counted, Open, OnClose, Connect, Hear, Drop, GiveUp
  <2> QED
    BY <1>2, <2>1, <2>2 DEF IInv
<1> QED
  BY <1>3, <1>4

\* IInv holds in every behaviour.
LEMMA Invariance == Spec => []IInv
<1>1. Init => IInv
  <2>1. Init => Typed
    BY DEF Init, Typed
  <2>2. Init => Counted
    BY SpeakerAssumption DEF Init, Counted
  <2>3. Init => Locked /\ Clocked /\ Fresh
    BY DEF Init, Locked, Clocked, Fresh, AwakeIsTrue
  <2> QED
    BY <2>1, <2>2, <2>3 DEF IInv
<1>2. IInv /\ [Next]_vars => IInv'
  <2>1. IInv /\ UNCHANGED vars => IInv'
    BY DEF vars, sockVars, appVars, awakeVars, IInv, Typed, Counted, Locked, Clocked, Fresh,
           AwakeIsTrue
  <2> QED
    BY <2>1, AwakeSteps, SocketSteps DEF Next
<1> QED
  BY <1>1, <1>2, PTL DEF Spec

\* The types of a speaker's page: in particular no interval of a clock goes on
\* after the connection it belongs to (app.js:47-48).
THEOREM TypeCorrect == Spec => []TypeOK
<1>1. IInv => TypeOK
  BY TypesAre DEF IInv
<1> QED
  BY <1>1, Invariance, PTL

\* "screen will stay on" is said only while a lock is live, however requests,
\* late grants, releases and hidden pages interleave (awake.js:43-77).
THEOREM ReportsAreHonest == Spec => []AwakeIsTrue
<1>1. IInv => AwakeIsTrue
  BY DEF IInv, Fresh
<1> QED
  BY <1>1, Invariance, PTL

(***************************************************************************)
(* What is on its way stays on its way.                                    *)
(***************************************************************************)

\* The safety half of TakenAgain: a page that wants the lock, is looked at and
\* has been refused by nobody holds it or waits for an answer.
Asking == want /\ visible /\ lock = None /\ ~refused => \E who \in Askers : asked[who] > 0

\* The safety half of ComesBack: from the timer of a lost connection on, a page
\* that is not left has a timer, a try or a hello under way, until it has its row.
OnItsWay == retry \/ sock = "connecting" \/ (sock = "open" /\ hello)
WayIsKept == [][OnItsWay /\ row # "this" => OnItsWay' \/ row' = "this" \/ left']_vars

\* The safety half of LeavesTheRoom: no connection is opened for a page that has
\* left, and once its row is gone none comes back, until its user joins.
Leaving == left /\ ~retry /\ sock \in {"closing", "closed"}
Out     == Leaving /\ sock = "closed" /\ row = "none" /\ ~hello
LeftIsLeft == [][(Leaving => Leaving' \/ ~left') /\ (Out => Out' \/ ~left')]_vars

\* Who asks waits for an answer, and an answer grants or refuses.
LEMMA AskingStep == IInv /\ Asking /\ [Next]_vars => Asking'
<1> SUFFICES ASSUME IInv, Asking, [Next]_vars PROVE Asking'
  OBVIOUS
<1> USE DEF Asking, sockVars, appVars, awakeVars
<1>1. ASSUME NEW who \in Askers, Acquire(who) PROVE Asking'
  BY <1>1 DEF IInv, Counted, Acquire
<1>2. CASE Hide \/ Show \/ \E s \in Locks : TakeBack(s)
  BY <1>1, <1>2 DEF Hide, Show, TakeBack, Released
<1>3. ASSUME NEW who \in Askers, Answer(who) PROVE Asking'
  BY <1>3, SpeakerAssumption DEF Answer, Grant, Refuse
<1>4. CASE Unlocked
  BY <1>1, <1>4 DEF Unlocked
<1>5. CASE Leave
  BY <1>5 DEF Leave, Release
<1>6. CASE \/ Open \/ OnClose \/ Connect \/ \E named \in BOOLEAN : Join(named)
           \/ Hear \/ Drop \/ GiveUp \/ UNCHANGED vars
  BY <1>6 DEF Open, OnClose, Connect, Join, Hear, Drop, GiveUp, vars
<1> QED
  BY <1>2, <1>3, <1>4, <1>5, <1>6 DEF Next

\* No page gives up on its screen by itself: as long as it is looked at and wants
\* the lock, it has it or asks for it (awake.js:22-24, 43-60).
THEOREM LockIsSought == Spec => []Asking
<1>1. Init => Asking
  BY DEF Init, Asking
<1> QED
  BY <1>1, AskingStep, Invariance, PTL DEF Spec

\* The handlers of the lock and of join leave the connection alone.
LEMMA SocketKept ==
  ASSUME \/ Hide \/ Show \/ \E s \in Locks : TakeBack(s)
         \/ \E who \in Askers : Answer(who)
         \/ Unlocked
         \/ UNCHANGED vars
  PROVE  UNCHANGED sockVars
  BY DEF Hide, Show, TakeBack, Answer, Unlocked, vars

\* A page whose connection ended, opened or not, goes on trying until it has its
\* row again or its user leaves (app.js:44-53).
THEOREM WayBackIsKept == Spec => WayIsKept
<1>1. IInv /\ [Next]_vars => (OnItsWay /\ row # "this" => OnItsWay' \/ row' = "this" \/ left')
  <2> SUFFICES ASSUME IInv, [Next]_vars, OnItsWay, row # "this"
               PROVE  OnItsWay' \/ row' = "this" \/ left'
    OBVIOUS
  <2> USE DEF OnItsWay, sockVars, appVars, awakeVars
  <2>1. CASE UNCHANGED sockVars
    BY <2>1
  <2>2. CASE Open \/ Connect \/ Drop \/ GiveUp \/ \E named \in BOOLEAN : Join(named)
    BY <2>2 DEF Open, Connect, Drop, GiveUp, Join
  <2>3. CASE OnClose
    BY <2>3 DEF OnClose
  <2>4. CASE Leave
    BY <2>4 DEF Leave
  <2>5. CASE Hear
    BY <2>5 DEF Hear
  <2> QED
    BY <2>1, <2>2, <2>3, <2>4, <2>5, SocketKept DEF Next
<1> QED
  BY <1>1, Invariance, PTL DEF Spec, WayIsKept

\* Whoever has left is not brought back by a late hello, an old timer or the end
\* of the connection: only by joining (app.js:139-149).
THEOREM LeavingLasts == Spec => LeftIsLeft
<1>1. IInv /\ [Next]_vars => (Leaving => Leaving' \/ ~left') /\ (Out => Out' \/ ~left')
  <2> SUFFICES ASSUME IInv, [Next]_vars, Leaving, left'
               PROVE  Leaving' /\ (Out => Out')
    BY DEF Out
  <2> USE DEF Leaving, Out, sockVars, appVars, awakeVars
  <2>1. CASE UNCHANGED sockVars
    BY <2>1
  <2>2. CASE Open \/ Connect \/ Drop \/ GiveUp
    BY <2>2 DEF Open, Connect, Drop, GiveUp
  <2>3. CASE OnClose
    BY <2>3 DEF OnClose
  <2>4. CASE Leave
    BY <2>4 DEF Leave
  <2>5. CASE Hear
    BY <2>5 DEF Hear
  <2>6. ASSUME NEW named \in BOOLEAN, Join(named) PROVE Leaving' /\ (Out => Out')
    <3>1. UNCHANGED <<sock, retry, row, left>> /\ hello' = (hello \/ (named /\ sock = "open"))
      BY <2>6 DEF Join
    <3>2. sock # "open"
      OBVIOUS
    <3>3. ~hello => ~hello'
      BY <3>1, <3>2
    <3> QED
      BY <3>1, <3>3
  <2> QED
    BY <2>1, <2>2, <2>3, <2>4, <2>5, <2>6, SocketKept DEF Next
<1> QED
  BY <1>1, Invariance, PTL DEF Spec, LeftIsLeft
=============================================================================
