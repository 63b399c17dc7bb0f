---------------------------- MODULE PlayerProofs ----------------------------
(***************************************************************************)
(* Proofs about Player, for any threshold, any error of the clock, any     *)
(* delay and any position of the slider.  The player's line is never       *)
(* further from the one the host meant, when it was anchored, than the     *)
(* error of the reading it was anchored by (AnchorLine); whatever has been *)
(* played since lies on it (OnLine); and a player without an anchor has    *)
(* missed a chunk (Gap).                                                   *)
(***************************************************************************)
EXTENDS Player, TLAPS

\* The anchor is the place of its chunk, by a reading off by some error.
AnchorLine == anchor # None => anchor - (aim + anchorSeq) \in Errors

\* What was played since the anchor was set lies on its line.
OnLine ==
  anchor # None /\ last # None
    => anchorSeq <= last.seq /\ last.when = anchor + (last.seq - anchorSeq)

\* What was played came before what comes next; without an anchor, the chunk
\* in between was dropped.
Gap ==
  last # None => last.seq < next /\ (anchor = None => last.seq + 1 < next)

IInv == TypeOK /\ AnchorLine /\ OnLine /\ Gap

\* The types a step of push() works with.
LEMMA Numbers ==
  ASSUME TypeOK, err # None
  PROVE  /\ err \in Int /\ err \in Errors /\ MaxErr \in Nat /\ Reseat \in Nat
         /\ epoch \in Int /\ next \in Nat /\ time \in Nat /\ lag \in Int /\ nudge \in Int
         /\ aim \in Int /\ anchorSeq \in Nat
         /\ Aim \in Int /\ Ideal \in Int
         /\ Ideal = Aim + next - err
<1>1. /\ err \in Errors /\ MaxErr \in Nat /\ Reseat \in Nat
      /\ epoch \in Int /\ next \in Nat /\ time \in Nat /\ lag \in 0..MaxLag
      /\ nudge \in Int /\ aim \in Int /\ anchorSeq \in Nat
  BY PlayerAssumption DEF TypeOK
<1>2. err \in Int /\ lag \in Int
  BY <1>1, PlayerAssumption DEF Errors
<1> QED
  BY <1>1, <1>2 DEF Aim, Ideal

\* A chunk is placed within the threshold of where the clock wants it, and
\* that within the error of where it belongs.
LEMMA WhenLemma ==
  ASSUME TypeOK, err # None
  PROVE  /\ When \in Int
         /\ When - Ideal \in -Reseat..Reseat
         /\ When - (Aim + next) \in -(Reseat + MaxErr)..(Reseat + MaxErr)
         /\ anchor = None => Lost
<1>1. CASE Lost
  BY <1>1, Numbers DEF When, Errors, Lost
<1>2. CASE ~Lost
  <2>1. anchor # None /\ anchor \in Int
    BY <1>2 DEF Lost, TypeOK
  <2>2. Placed \in Int /\ ~(Ideal - Placed > Reseat) /\ ~(Placed - Ideal > Reseat)
    BY <1>2, <2>1, Numbers DEF Lost, Placed
  <2>3. When = Placed
    BY <1>2 DEF When
  <2>4. When \in Int /\ When - Ideal \in -Reseat..Reseat
    BY <2>2, <2>3, Numbers
  <2> QED
    BY <2>1, <2>4, Numbers DEF Errors
<1> QED
  BY <1>1, <1>2

(***************************************************************************)
(* Each action preserves the invariant.                                    *)
(***************************************************************************)

\* Nothing is anchored, nothing was played.
LEMMA InitInv == Init => IInv
<1> SUFFICES ASSUME Init PROVE IInv
  OBVIOUS
<1>1. /\ epoch \in Int /\ next \in Nat /\ time \in Nat /\ lag \in 0..MaxLag /\ aim \in Int
      /\ anchorSeq \in Nat
  BY PlayerAssumption DEF Init
<1>2. /\ ctx \in {"none", "running", "suspended"} /\ err \in Errors \cup {None}
      /\ nudge \in Nudges /\ anchor \in Int \cup {None} /\ last \in Chunks \cup {None}
  BY DEF Init
<1> QED
  BY <1>1, <1>2 DEF Init, IInv, TypeOK, AnchorLine, OnLine, Gap

\* Only push() moves the anchor; what the host, the network, the browser and
\* the page do besides keeps it.
LEMMA OthersInv ==
  ASSUME IInv,
         UNCHANGED <<anchor, anchorSeq, last, aim>>,
         epoch' \in Int, next' \in Nat, next <= next', time' \in Nat, lag' \in 0..MaxLag,
         ctx' \in {"none", "running", "suspended"}, err' \in Errors \cup {None},
         nudge' \in Nudges
  PROVE  IInv'
<1>1. TypeOK' /\ AnchorLine' /\ OnLine'
  BY DEF IInv, TypeOK, AnchorLine, OnLine
<1>2. Gap'
  <2>1. ASSUME last # None PROVE last.seq \in Nat
    BY <2>1 DEF IInv, TypeOK, Chunks
  <2>2. next \in Nat
    BY DEF IInv, TypeOK
  <2> QED
    BY <2>1, <2>2 DEF IInv, Gap
<1> QED
  BY <1>1, <1>2 DEF IInv

\* A restart begins the count, and the record of what was played, anew.
LEMMA RestartInv ==
  ASSUME IInv, NEW e \in -Horizon..(Horizon + Lead), Restart(e) PROVE IInv'
<1>1. e \in Int
  BY PlayerAssumption
<1>2. TypeOK'
  BY <1>1 DEF Restart, IInv, TypeOK
<1> QED
  BY <1>2 DEF Restart, IInv, AnchorLine, OnLine, Gap

\* Dropping a chunk gives up the anchor.
LEMMA DropLateInv == ASSUME IInv, DropLate PROVE IInv'
<1>1. /\ next' = next + 1 /\ anchor' = None /\ anchorSeq' \in {next, anchorSeq}
      /\ UNCHANGED <<epoch, time, lag, ctx, err, nudge, last, aim>>
  BY DEF DropLate, histVars
<1>2. next \in Nat /\ anchorSeq \in Nat
  BY DEF IInv, TypeOK
<1>3. TypeOK'
  BY <1>1, <1>2 DEF IInv, TypeOK
<1>4. AnchorLine' /\ OnLine'
  BY <1>1 DEF AnchorLine, OnLine
<1>5. Gap'
  <2>1. ASSUME last # None PROVE last.seq \in Nat
    BY <2>1 DEF IInv, TypeOK, Chunks
  <2> QED
    BY <1>1, <1>2, <2>1 DEF IInv, Gap
<1> QED
  BY <1>3, <1>4, <1>5 DEF IInv

\* A chunk that is played lies on the line of the anchor, the old or its own.
LEMMA ScheduleInv == ASSUME IInv, Schedule PROVE IInv'
<1>1. /\ err # None /\ next' = next + 1 /\ last' = [seq |-> next, when |-> When]
      /\ UNCHANGED <<epoch, time, lag, ctx, err, nudge>>
  BY DEF Schedule
<1>2. TypeOK
  BY DEF IInv
<1>3. last' \in Chunks /\ last'.seq = next /\ last'.when = When /\ last' # None
  <2>1. last' \in Chunks /\ last'.seq = next /\ last'.when = When
    BY <1>1, <1>2, Numbers, WhenLemma DEF Chunks
  <2> QED
    BY <2>1, PlayerAssumption DEF Chunks
<1>4. CASE Lost
  <2>1. anchor' = Ideal /\ anchorSeq' = next /\ aim' = Aim
    BY <1>4 DEF Schedule
  <2>2. TypeOK'
    BY <1>1, <1>2, <1>3, <2>1, Numbers DEF TypeOK
  <2>3. AnchorLine'
    BY <1>1, <1>2, <2>1, Numbers DEF AnchorLine, Errors
  <2>4. When = Ideal
    BY <1>4 DEF When
  <2>5. anchor' # None
    BY <1>1, <1>2, <2>1, Numbers, PlayerAssumption
  <2>6. OnLine' /\ Gap'
    BY <1>1, <1>2, <1>3, <2>1, <2>4, <2>5, Numbers DEF OnLine, Gap
  <2> QED
    BY <2>2, <2>3, <2>6 DEF IInv
<1>5. CASE ~Lost
  <2>1. UNCHANGED <<anchor, anchorSeq, aim>>
    BY <1>5 DEF Schedule
  <2>2. TypeOK'
    BY <1>1, <1>2, <1>3, <2>1, Numbers DEF TypeOK
  <2>3. anchor # None /\ ~(next < anchorSeq) /\ anchor \in Int
    BY <1>2, <1>5 DEF Lost, TypeOK
  <2>4. When = anchor + (next - anchorSeq)
    BY <1>5 DEF When, Placed
  <2>5. OnLine' /\ Gap'
    BY <1>1, <1>2, <1>3, <2>1, <2>3, <2>4, Numbers DEF OnLine, Gap
  <2> QED
    BY <2>1, <2>2, <2>5 DEF IInv, AnchorLine
<1> QED
  BY <1>4, <1>5

\* The invariant is inductive.
LEMMA StepInv == IInv /\ [Next]_vars => IInv'
<1> SUFFICES ASSUME IInv, [Next]_vars PROVE IInv'
  OBVIOUS
<1> USE DEF histVars
<1>0. /\ epoch \in Int /\ next \in Nat /\ time \in Nat /\ lag \in 0..MaxLag
      /\ ctx \in {"none", "running", "suspended"} /\ err \in Errors \cup {None}
      /\ nudge \in Nudges /\ next + 1 \in Nat /\ next <= next + 1 /\ next <= next
  BY DEF IInv, TypeOK
<1>1. CASE UNCHANGED vars
  BY <1>0, <1>1, OthersInv DEF vars
<1>2. CASE Lose
  BY <1>0, <1>2, OthersInv DEF Lose
<1>3. ASSUME NEW e \in -Horizon..(Horizon + Lead), MoveDelay(e) PROVE IInv'
  <2>1. e \in Int
    BY PlayerAssumption
  <2> QED
    BY <1>0, <1>3, <2>1, OthersInv DEF MoveDelay
<1>4. ASSUME NEW e \in -Horizon..(Horizon + Lead), Restart(e) PROVE IInv'
  BY <1>4, RestartInv
<1>5. CASE Tick
  <2>1. time' \in Nat /\ lag' \in 0..MaxLag
    BY <1>0, <1>5, PlayerAssumption DEF Tick
  <2> QED
    BY <1>0, <1>5, <2>1, OthersInv DEF Tick
<1>6. CASE Unlock
  BY <1>0, <1>6, OthersInv DEF Unlock
<1>7. CASE Suspend
  BY <1>0, <1>7, OthersInv DEF Suspend
<1>8. ASSUME NEW e \in Errors, Sync(e) PROVE IInv'
  BY <1>0, <1>8, OthersInv DEF Sync
<1>9. ASSUME NEW n \in Nudges, SetNudge(n) PROVE IInv'
  BY <1>0, <1>9, OthersInv DEF SetNudge
<1>10. CASE Ignore
  BY <1>0, <1>10, OthersInv DEF Ignore
<1>11. CASE Wake
  BY <1>0, <1>11, OthersInv DEF Wake
<1>12. CASE DropLate
  BY <1>12, DropLateInv
<1>13. CASE Schedule
  BY <1>13, ScheduleInv
<1> QED
  BY <1>1, <1>2, <1>3, <1>4, <1>5, <1>6, <1>7, <1>8, <1>9, <1>10, <1>11, <1>12, <1>13 DEF Next

\* Only Schedule hands a chunk to the audio graph.
LEMMA Playing ==
  ASSUME [Next]_vars, last' # last, last' # None
  PROVE  Schedule
BY DEF Next, vars, histVars, Lose, MoveDelay, Restart, Tick, Unlock, Suspend, Sync, SetNudge,
   Ignore, Wake, DropLate

(***************************************************************************)
(* The theorems.                                                           *)
(***************************************************************************)

\* Every field keeps its type.
THEOREM TypeCorrect == Spec => []TypeOK
<1>1. IInv => TypeOK
  BY DEF IInv
<1> QED
  BY InitInv, StepInv, <1>1, PTL DEF Spec

\* A chunk that is played is heard within the error of the clock and the
\* threshold of its moment.
THEOREM PlayedTogether == Spec => Together
<1>1. IInv /\ [Next]_vars =>
        [last' # last /\ last' # None
           => last'.when - (Aim + last'.seq) \in -(Reseat + MaxErr)..(Reseat + MaxErr)]_vars
  <2> SUFFICES ASSUME IInv, [Next]_vars, last' # last, last' # None
               PROVE  last'.when - (Aim + last'.seq) \in -(Reseat + MaxErr)..(Reseat + MaxErr)
    OBVIOUS
  <2>1. err # None /\ last'.seq = next /\ last'.when = When
    BY Playing DEF Schedule
  <2> QED
    BY <2>1, WhenLemma DEF IInv
<1> QED
  BY InitInv, StepInv, <1>1, PTL DEF Spec, Together

\* Neighbours butt together however the estimate wanders, as long as its
\* jitter stays within the threshold.
THEOREM PlayedSeamlessly == Spec => Seamless
<1> DEFINE Steady == 2 * MaxErr <= Reseat /\ aim = Aim /\ last'.seq = last.seq + 1
<1>1. IInv /\ [Next]_vars =>
        [last' # last /\ last' # None /\ last # None
           => (Steady => last'.when = last.when + 1)]_vars
  <2> SUFFICES ASSUME IInv, [Next]_vars, last' # last, last' # None, last # None, Steady
               PROVE  last'.when = last.when + 1
    OBVIOUS
  <2>1. err # None /\ last'.seq = next /\ last'.when = When /\ TypeOK
    BY Playing DEF Schedule, IInv
  <2>2. last.seq \in Nat /\ last.when \in Int /\ next = last.seq + 1
    BY <2>1 DEF TypeOK, Chunks
  <2>3. anchor # None /\ anchor \in Int
    BY <2>1, <2>2 DEF IInv, Gap, TypeOK
  <2>4. anchorSeq <= last.seq /\ last.when = anchor + (last.seq - anchorSeq)
    BY <2>3 DEF IInv, OnLine
  <2>5. Placed = last.when + 1 /\ Placed \in Int
    BY <2>1, <2>2, <2>3, <2>4, Numbers DEF Placed
  <2>6. ~Lost
    <3>1. anchor - (aim + anchorSeq) \in -MaxErr..MaxErr
      BY <2>3 DEF IInv, AnchorLine, Errors
    <3>2. Ideal = aim + next - err /\ err \in -MaxErr..MaxErr
      BY <2>1, Numbers DEF Errors
    <3>3. Placed = anchor + (next - anchorSeq)
      BY DEF Placed
    <3>4. ~(Ideal - Placed > Reseat) /\ ~(Placed - Ideal > Reseat)
      BY <2>1, <2>3, <3>1, <3>2, <3>3, Numbers
    <3> QED
      BY <2>1, <2>2, <2>3, <2>4, <3>4, Numbers DEF Lost
  <2> QED
    BY <2>1, <2>5, <2>6 DEF When
<1> QED
  BY InitInv, StepInv, <1>1, PTL DEF Spec, Seamless

\* No chunk with more time left than the error and the threshold is dropped.
THEOREM OnlyLateIsDropped == Spec => LateIsLate
<1>1. IInv /\ [Next]_vars => [DropLate => Aim + next - time <= Reseat + MaxErr]_vars
  <2> SUFFICES ASSUME IInv, DropLate PROVE Aim + next - time <= Reseat + MaxErr
    OBVIOUS
  <2>1. err # None /\ When <= time /\ TypeOK
    BY DEF DropLate, IInv
  <2> QED
    BY <2>1, WhenLemma, Numbers
<1> QED
  BY InitInv, StepInv, <1>1, PTL DEF Spec, LateIsLate
=============================================================================
