--------------------------- MODULE TimelineProofs ---------------------------
(***************************************************************************)
(* Proofs about Timeline, for any delays, any lateness of the audio thread *)
(* and any number of speakers.  The counter of samples is the clock in     *)
(* disguise: while the device runs, what it has numbered and what it still *)
(* owes add up to the time since it was opened (Counted).  So an epoch     *)
(* anchored by any chunk of the device, however late, lies within Jitter   *)
(* of the moment sample 0 was captured (Anchored), and so does every       *)
(* stamp of its own capture.                                               *)
(***************************************************************************)
EXTENDS Timeline, TLAPS

\* The samples numbered and the periods due add up to the time elapsed, and
\* the chunk in hand is the last one numbered.
Counted ==
  /\ open => now - base = seq + due
  /\ hand # NoChunk => open /\ hand = seq - 1
  /\ Pending <= Jitter

\* A device that is closed owes nothing, one that is open delivers; none is open
\* when another is.
Closed ==
  /\ ~open => due = 0 /\ hand = NoChunk
  /\ open => sink
  /\ ctl = "open" => ~open

\* An epoch of the device that is open, or was last.
Anchored ==
  epoch # 0 /\ ctl # "commit" /\ ~adrift
     => epoch \in (base + delay + 1)..(base + delay + Jitter)

\* The device was opened in the past.
Elapsed == base <= now

IInv == TypeOK /\ Counted /\ Closed /\ Anchored /\ Elapsed

(***************************************************************************)
(* Each action preserves the invariant.                                    *)
(***************************************************************************)

\* Taal starts with the device closed and no epoch.
LEMMA InitInv == Init => IInv
<1> SUFFICES ASSUME Init PROVE IInv
  OBVIOUS
<1>1. queue \in [Guests -> Seq(Frames)] /\ \A g \in Guests : Len(queue[g]) <= AudioCap
  BY BoundsAssumption DEF Init
<1>2. frame \in Frames /\ ctl \in Steps
  BY DEF Init, Frames, Steps
<1>3. TypeOK
  <2>1. /\ now \in Nat /\ delay \in LoDelay..HiDelay /\ epoch \in Int /\ seq \in Nat
        /\ due \in 0..Jitter /\ base \in Nat
    BY BoundsAssumption DEF Init
  <2>2. streaming \in BOOLEAN /\ open \in BOOLEAN /\ sink \in BOOLEAN
        /\ hand \in Nat \cup {NoChunk} /\ adrift \in BOOLEAN
    BY DEF Init
  <2> QED
    BY <1>1, <1>2, <2>1, <2>2 DEF TypeOK
<1>4. Counted /\ Closed /\ Anchored /\ Elapsed
  BY BoundsAssumption DEF Init, Counted, Closed, Anchored, Elapsed, Pending, NoChunk
<1> QED
  BY <1>3, <1>4 DEF IInv

\* A period that passes is owed by the device that is open.
LEMMA TickInv == IInv /\ Tick => IInv'
<1> SUFFICES ASSUME IInv, Tick PROVE IInv'
  OBVIOUS
<1>1. TypeOK'
  <2>1. due' \in 0..Jitter /\ now' \in Nat
    BY BoundsAssumption DEF Tick, IInv, TypeOK, Pending
  <2> QED
    BY <2>1 DEF Tick, IInv, TypeOK, histVars
<1>2. Counted' /\ Closed' /\ Elapsed'
  BY BoundsAssumption
  DEF Tick, IInv, TypeOK, Counted, Closed, Elapsed, Pending, NoChunk, histVars
<1>3. Anchored'
  BY DEF Tick, IInv, Anchored, histVars
<1> QED
  BY <1>1, <1>2, <1>3 DEF IInv

\* When the clock is set, what has elapsed stays what it was.
LEMMA SetClockInv == ASSUME NEW d \in Leaps PROVE IInv /\ SetClock(d) => IInv'
<1> SUFFICES ASSUME IInv, SetClock(d) PROVE IInv'
  OBVIOUS
<1>1. d \in Int /\ now \in Int /\ base \in Int
  BY BoundsAssumption DEF IInv, TypeOK
<1>2. now' \in Nat /\ base' \in Nat /\ now' - base' = now - base
  <2>1. now >= base
    BY <1>1 DEF IInv, Elapsed
  <2> QED
    BY <1>1, <2>1 DEF SetClock
<1>3. TypeOK'
  BY <1>2 DEF SetClock, IInv, TypeOK, capVars
<1>4. Counted' /\ Closed'
  BY <1>2 DEF SetClock, IInv, Counted, Closed, Pending, capVars
<1>5. Anchored' /\ Elapsed'
  <2>1. epoch # 0 => adrift'
    BY DEF SetClock
  <2> QED
    BY <1>1, <1>2, <2>1 DEF SetClock, IInv, Anchored, Elapsed
<1> QED
  BY <1>3, <1>4, <1>5 DEF IInv

\* The callback turns a period owed into one numbered.
LEMMA CaptureInv == IInv /\ Capture => IInv'
<1> SUFFICES ASSUME IInv, Capture PROVE IInv'
  OBVIOUS
<1>1. TypeOK'
  <2>1. due' \in 0..Jitter /\ seq' \in Nat /\ hand' \in Nat \cup {NoChunk}
    BY BoundsAssumption DEF Capture, IInv, TypeOK
  <2> QED
    BY <2>1 DEF Capture, IInv, TypeOK, histVars
<1>2. Counted' /\ Closed' /\ Elapsed'
  BY BoundsAssumption
  DEF Capture, IInv, TypeOK, Counted, Closed, Elapsed, Pending, NoChunk, histVars
<1>3. Anchored'
  BY DEF Capture, IInv, Anchored, histVars
<1> QED
  BY <1>1, <1>2, <1>3 DEF IInv

\* A queue that is offered a frame stays within its capacity.
LEMMA OfferedTyped ==
  ASSUME NEW q \in Seq(Frames), Len(q) <= AudioCap, NEW f \in Frames
  PROVE  Offered(q, f) \in Seq(Frames) /\ Len(Offered(q, f)) <= AudioCap
BY BoundsAssumption DEF Offered

\* What a chunk is stamped with: its own epoch or the one that was anchored
\* lies within the lateness of the thread, and so does the stamp.
LEMMA StampLemma ==
  ASSUME IInv, hand # NoChunk
  PROVE  /\ Epoch \in Int
         /\ ctl # "commit" /\ ~adrift => Epoch \in (base + delay + 1)..(base + delay + Jitter)
         /\ ctl # "commit" /\ ~adrift
              => Epoch + hand - now \in (delay - Jitter + 1)..(delay + Jitter - 1)
<1>1. /\ now \in Int /\ delay \in Int /\ hand \in Nat /\ epoch \in Int /\ base \in Int
      /\ seq \in Nat /\ due \in Nat /\ Jitter \in Nat
  BY BoundsAssumption DEF IInv, TypeOK, NoChunk
<1>2. now = base + hand + 1 + due /\ due + 1 <= Jitter
  BY <1>1 DEF IInv, Counted, Pending
<1>3. CASE epoch = 0
  BY <1>1, <1>2, <1>3 DEF Epoch
<1>4. CASE epoch # 0
  BY <1>1, <1>2, <1>4 DEF Epoch, IInv, Anchored
<1> QED
  BY <1>3, <1>4

\* onChunk anchors the timeline, or leaves it where it is.
LEMMA OnChunkInv == IInv /\ OnChunk => IInv'
<1> SUFFICES ASSUME IInv, OnChunk PROVE IInv'
  OBVIOUS
<1>1. /\ hand # NoChunk /\ hand' = NoChunk
      /\ UNCHANGED <<now, streaming, delay, open, sink, seq, due, ctl, base, adrift>>
  BY DEF OnChunk
<1>2. Counted' /\ Closed'
  BY <1>1, BoundsAssumption DEF IInv, TypeOK, Counted, Closed, Pending, NoChunk
<1>3. CASE streaming
  <2>1. /\ epoch' = Epoch /\ frame' = [at |-> Epoch + hand, seq |-> hand]
        /\ queue' = [g \in Guests |-> Offered(queue[g], frame')]
    BY <1>3 DEF OnChunk
  <2>2. Anchored' /\ Elapsed'
    BY <1>1, <2>1, StampLemma DEF IInv, Anchored, Elapsed
  <2>3. epoch' \in Int /\ frame' \in Frames
    BY <1>1, <2>1, StampLemma DEF IInv, TypeOK, Frames
  <2>4. queue' \in [Guests -> Seq(Frames)] /\ \A g \in Guests : Len(queue'[g]) <= AudioCap
    BY <2>1, <2>3, OfferedTyped DEF IInv, TypeOK
  <2> QED
    BY <1>1, <1>2, <2>2, <2>3, <2>4 DEF IInv, TypeOK
<1>4. CASE ~streaming
  BY <1>1, <1>2, <1>4 DEF OnChunk, IInv, TypeOK, Anchored, Elapsed
<1> QED
  BY <1>3, <1>4

\* A writer takes the oldest frame of its queue.
LEMMA SendInv == ASSUME NEW g \in Guests PROVE IInv /\ Send(g) => IInv'
<1> SUFFICES ASSUME IInv, Send(g) PROVE IInv'
  OBVIOUS
<1>1. queue[g] \in Seq(Frames) /\ queue[g] # <<>> /\ Len(queue[g]) <= AudioCap
  BY DEF Send, IInv, TypeOK
<1>2. Tail(queue[g]) \in Seq(Frames) /\ Len(Tail(queue[g])) = Len(queue[g]) - 1
  BY <1>1
<1>3. queue' \in [Guests -> Seq(Frames)] /\ \A h \in Guests : Len(queue'[h]) <= AudioCap
  BY <1>1, <1>2, BoundsAssumption DEF Send, IInv, TypeOK
<1> QED
  BY <1>3 DEF Send, IInv, TypeOK, Counted, Closed, Anchored, Elapsed, Pending, capVars, histVars

\* A change of the delay waits for a chunk to anchor it.
LEMMA SetDelayInv == ASSUME NEW ms \in Asked PROVE IInv /\ SetDelay(ms) => IInv'
<1> SUFFICES ASSUME IInv, SetDelay(ms) PROVE IInv'
  OBVIOUS
<1>1. ms \in Int /\ LoDelay \in Int /\ HiDelay \in Int /\ LoDelay <= HiDelay
  BY BoundsAssumption
<1>2. delay' \in LoDelay..HiDelay
  BY <1>1 DEF SetDelay, Clamp
<1> QED
  <2>1. TypeOK'
    <3>1. adrift' \in BOOLEAN
      BY DEF SetDelay
    <3>2. epoch' \in Int
      BY DEF SetDelay
    <3> QED
      BY <1>2, <3>1, <3>2 DEF SetDelay, IInv, TypeOK, capVars
  <2> QED
    BY <2>1 DEF SetDelay, IInv, Counted, Closed, Anchored, Elapsed, Pending, capVars

\* Closing the device leaves nothing in hand and nothing due.
LEMMA CloseInv ==
  ASSUME IInv, NEW next \in Steps \ {"commit"}, ctl # "commit", CloseDevice(next)
  PROVE  IInv'
<1>1. TypeOK'
  <2>1. due' \in 0..Jitter
    BY BoundsAssumption DEF CloseDevice
  <2>2. ctl' \in Steps /\ open' \in BOOLEAN /\ sink' \in BOOLEAN
    BY DEF CloseDevice
  <2> QED
    BY <2>1, <2>2 DEF CloseDevice, IInv, TypeOK, histVars
<1>2. Counted' /\ Closed'
  BY BoundsAssumption DEF CloseDevice, Counted, Closed, Pending, NoChunk
<1>3. Anchored' /\ Elapsed'
  BY DEF CloseDevice, IInv, Anchored, Elapsed, histVars
<1> QED
  BY <1>1, <1>2, <1>3 DEF IInv

\* startStream and stopStream, step by step.
LEMMA ControlInv == IInv /\ (BeginStart \/ BeginStop \/ Control) => IInv'
<1> SUFFICES ASSUME IInv, BeginStart \/ BeginStop \/ Control PROVE IInv'
  OBVIOUS
<1> USE DEF IInv
<1>1. CASE BeginStart \/ BeginStop
  BY <1>1 DEF BeginStart, BeginStop, TypeOK, Counted, Closed, Anchored, Elapsed, Pending, Steps, capVars, histVars
<1>2. CASE Halt
  BY <1>2, CloseInv DEF Halt, Steps
<1>3. CASE OpenDevice
  <2>1. ~open /\ due = 0 /\ hand = NoChunk /\ ctl' \in {"commit", "fail"}
    BY <1>3 DEF OpenDevice, Closed
  <2>2. TypeOK'
    BY <1>3, <2>1 DEF OpenDevice, TypeOK, Steps
  <2>3. Counted'
    BY <1>3, <2>1, BoundsAssumption DEF OpenDevice, TypeOK, Counted, Pending, NoChunk
  <2>4. Closed' /\ Anchored' /\ Elapsed'
    BY <1>3, <2>1, BoundsAssumption DEF OpenDevice, TypeOK, Closed, Anchored, Elapsed
  <2> QED
    BY <2>2, <2>3, <2>4
<1>4. CASE Commit
  <2>1. TypeOK'
    <3>1. adrift' \in BOOLEAN /\ streaming' \in BOOLEAN
      BY <1>4 DEF Commit
    <3>2. epoch' \in Int /\ ctl' \in Steps
      BY <1>4 DEF Commit, Steps
    <3> QED
      BY <1>4, <3>1, <3>2 DEF Commit, TypeOK, capVars
  <2> QED
    BY <1>4, <2>1 DEF Commit, Counted, Closed, Anchored, Elapsed, Pending, capVars
<1>5. CASE Fail
  BY <1>5 DEF Fail, TypeOK, Counted, Closed, Anchored, Elapsed, Pending, Steps, capVars, histVars
<1>6. CASE Stop
  BY <1>6, CloseInv DEF Stop, Steps
<1>7. CASE Clear
  BY <1>7 DEF Clear, TypeOK, Counted, Closed, Anchored, Elapsed, Pending, Steps, capVars, histVars
<1> QED
  BY <1>1, <1>2, <1>3, <1>4, <1>5, <1>6, <1>7 DEF Control

\* The invariant is inductive.
LEMMA StepInv == IInv /\ [Next]_vars => IInv'
<1> SUFFICES ASSUME IInv, [Next]_vars PROVE IInv'
  OBVIOUS
<1>1. CASE UNCHANGED vars
  BY <1>1 DEF vars, capVars, histVars, IInv, TypeOK, Counted, Closed, Anchored, Elapsed, Pending
<1>2. CASE Next
  BY <1>2, TickInv, SetClockInv, CaptureInv, OnChunkInv, SendInv, SetDelayInv, ControlInv DEF Next
<1> QED
  BY <1>1, <1>2

\* Only onChunk stamps a frame.
LEMMA Stamping ==
  ASSUME IInv, [Next]_vars, frame' # frame
  PROVE  /\ hand # NoChunk /\ streaming
         /\ frame' = [at |-> Epoch + hand, seq |-> hand]
<1>1. ~UNCHANGED vars
  BY DEF vars, histVars
<1>2. OnChunk
  BY <1>1 DEF Next, Tick, SetClock, Capture, Send, SetDelay, BeginStart, BeginStop, Control, Halt,
     OpenDevice, Commit, Fail, Stop, Clear, CloseDevice, histVars
<1> QED
  BY <1>2 DEF OnChunk

(***************************************************************************)
(* Neighbours.                                                             *)
(***************************************************************************)

\* The chunk that onChunk will see next.
Upcoming == IF hand # NoChunk THEN hand ELSE seq

\* While the line stands, the last frame lies on it, and the next chunk is its
\* neighbour or the first of a new device.
OneLine ==
  streaming /\ epoch # 0 =>
    /\ frame.at = epoch + frame.seq
    /\ Upcoming \in {0, frame.seq + 1}

\* Every chunk of a stream that has a line is stamped; all else that changes
\* what comes next begins from 0, or takes the line away.
LEMMA OneLineStep == IInv /\ OneLine /\ [Next]_vars => OneLine'
<1> SUFFICES ASSUME IInv, OneLine, [Next]_vars PROVE OneLine'
  OBVIOUS
<1> USE DEF OneLine, Upcoming
<1>1. CASE Capture
  <2>1. hand = NoChunk /\ due > 0
    BY <1>1 DEF Capture
  <2>2. seq \in Nat /\ due \in Nat
    BY BoundsAssumption DEF IInv, TypeOK
  <2>3. UNCHANGED <<streaming, epoch, frame>> /\ seq' = seq + 1
        /\ hand' = IF sink THEN seq ELSE NoChunk
    BY <1>1 DEF Capture, histVars
  <2>4. sink
    BY <2>1, <2>2 DEF IInv, Closed
  <2> QED
    BY <2>1, <2>2, <2>3, <2>4 DEF NoChunk
<1>2. CASE OnChunk
  <2>1. hand # NoChunk /\ hand' = NoChunk /\ hand = seq - 1 /\ seq' = seq /\ streaming' = streaming
    BY <1>2 DEF OnChunk, IInv, Counted
  <2>2. CASE streaming
    <3>1. epoch' = Epoch /\ frame' = [at |-> Epoch + hand, seq |-> hand]
      BY <1>2, <2>2 DEF OnChunk
    <3>2. seq \in Nat
      BY DEF IInv, TypeOK
    <3> QED
      BY <2>1, <3>1, <3>2
  <2> QED
    BY <2>1, <2>2
<1>3. CASE Tick \/ (\E d \in Leaps : SetClock(d)) \/ (\E g \in Guests : Send(g))
           \/ BeginStart \/ BeginStop
  BY <1>3 DEF Tick, SetClock, Send, BeginStart, BeginStop, capVars, histVars
<1>4. CASE \E ms \in Asked : SetDelay(ms)
  BY <1>4 DEF SetDelay
<1>5. CASE Halt \/ Stop
  BY <1>5 DEF Halt, Stop, CloseDevice, histVars
<1>6. CASE OpenDevice
  <2>1. hand = NoChunk
    BY <1>6 DEF OpenDevice, IInv, Closed
  <2> QED
    BY <1>6, <2>1 DEF OpenDevice
<1>7. CASE Commit \/ Fail \/ Clear
  BY <1>7 DEF Commit, Fail, Clear
<1>8. CASE UNCHANGED vars
  BY <1>8 DEF vars, capVars, histVars
<1> QED
  BY <1>1, <1>2, <1>3, <1>4, <1>5, <1>6, <1>7, <1>8 DEF Next, Control

(***************************************************************************)
(* The theorems.                                                           *)
(***************************************************************************)

\* Every field keeps its type; the delay stays within the limits of
\* setDelay and no audio queue exceeds its capacity.
THEOREM TypeCorrect == Spec => []TypeOK
<1>1. IInv => TypeOK
  BY DEF IInv
<1> QED
  BY InitInv, StepInv, <1>1, PTL DEF Spec

\* A chunk is stamped with the delay in force, give or take the lateness of
\* the audio thread: the stamps never drift, however long the stream runs.
THEOREM LeadIsKept == Spec => LeadIsDelay
<1>1. IInv /\ [Next]_vars =>
        [frame' # frame /\ ctl # "commit" /\ ~adrift
           => frame'.at - now \in (delay - Jitter + 1)..(delay + Jitter - 1)]_vars
  <2> SUFFICES ASSUME IInv, [Next]_vars, frame' # frame, ctl # "commit", ~adrift
               PROVE  frame'.at - now \in (delay - Jitter + 1)..(delay + Jitter - 1)
    OBVIOUS
  <2>1. hand # NoChunk /\ frame'.at = Epoch + hand
    BY Stamping
  <2>2. Epoch + hand - now \in (delay - Jitter + 1)..(delay + Jitter - 1)
    BY <2>1, StampLemma
  <2>3. Epoch \in Int /\ hand \in Int /\ now \in Int /\ delay \in Int /\ Jitter \in Int
    BY <2>1, StampLemma, BoundsAssumption DEF IInv, TypeOK, NoChunk
  <2> QED
    BY <2>1, <2>2, <2>3
<1> QED
  BY InitInv, StepInv, <1>1, PTL DEF Spec, LeadIsDelay

\* A chunk stamped was captured by the device that is open.
THEOREM DeviceIsOver == Spec => NoneLeftBehind
<1>1. IInv /\ [Next]_vars => [frame' # frame => open /\ frame'.seq < now - base]_vars
  <2> SUFFICES ASSUME IInv, [Next]_vars, frame' # frame
               PROVE  open /\ frame'.seq < now - base
    OBVIOUS
  <2>1. hand # NoChunk /\ frame'.seq = hand
    BY Stamping
  <2> QED
    BY <2>1 DEF IInv, TypeOK, Counted
<1> QED
  BY InitInv, StepInv, <1>1, PTL DEF Spec, NoneLeftBehind

\* Between a start or a change of the delay and the next one, the stamps of a
\* stream are one line without gap or overlap, for any lateness of the audio
\* thread: what a player takes for granted when it places a chunk by its number
\* (session.go:470-487, sync.js:206-211).
THEOREM StampsAreOneLine == Spec => NeighboursButt
<1>1. Init => OneLine
  BY DEF Init, OneLine
<1>2. IInv /\ OneLine /\ [Next]_vars =>
        [frame' # frame /\ epoch # 0
           => /\ frame'.at - frame.at = frame'.seq - frame.seq
              /\ frame'.seq \in {0, frame.seq + 1}]_vars
  <2> SUFFICES ASSUME IInv, OneLine, [Next]_vars, frame' # frame, epoch # 0
               PROVE  /\ frame'.at - frame.at = frame'.seq - frame.seq
                      /\ frame'.seq \in {0, frame.seq + 1}
    OBVIOUS
  <2>1. hand # NoChunk /\ frame' = [at |-> Epoch + hand, seq |-> hand] /\ streaming
    BY Stamping
  <2>2. Epoch = epoch /\ frame.at = epoch + frame.seq /\ hand \in {0, frame.seq + 1}
    BY <2>1 DEF OneLine, Upcoming, Epoch
  <2>3. epoch \in Int /\ hand \in Int /\ frame.seq \in Int
    BY <2>1 DEF IInv, TypeOK, Frames, NoChunk
  <2> QED
    BY <2>1, <2>2, <2>3
<1> QED
  BY InitInv, StepInv, OneLineStep, <1>1, <1>2, PTL DEF Spec, NeighboursButt
=============================================================================
