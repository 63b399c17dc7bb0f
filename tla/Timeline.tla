------------------------------ MODULE Timeline ------------------------------
(***************************************************************************)
(* When each captured chunk is to be heard: the audio callback and its     *)
(* sample counter (capture.go), onChunk and setDelay (session.go) and the  *)
(* stamps they put on the frames (stream.go), between a startStream and a  *)
(* stopStream that open and close the device under them.                   *)
(*                                                                         *)
(* Time is counted in chunks of 20 ms, and so are samples: chunk n holds   *)
(* the sound of the n-th period since the device was opened.  The thread   *)
(* of the audio driver may run late, by fewer than Jitter periods.         *)
(***************************************************************************)
EXTENDS Integers, Sequences

CONSTANTS
  Guests,     \* the registered speakers
  AudioCap,   \* capacity of client.audio
  Jitter,     \* periods the callback may be behind the hardware
  Asked,      \* the delays a page asks for
  LoDelay, HiDelay, DefaultDelay,
  Boot,       \* the clock when taal starts
  Leaps,      \* by how much the mac's clock may be set
  Horizon     \* the last instant looked at

ASSUME BoundsAssumption ==
  /\ AudioCap \in Nat \ {0} /\ Jitter \in Nat \ {0}
  /\ Asked \subseteq Int /\ Leaps \subseteq Int
  /\ LoDelay \in Nat /\ HiDelay \in Nat /\ DefaultDelay \in LoDelay..HiDelay
  /\ Boot \in Nat \ {0} /\ Horizon \in Nat

VARIABLES
  now,        \* nowMs()
  \* fields of server
  streaming, delay,
  epoch,      \* 0 until a chunk anchors the timeline
  \* capture
  open,       \* the device runs
  sink,       \* capture.sink # nil
  seq,        \* capture.seq
  due,        \* periods captured whose callback has not begun
  hand,       \* the chunk the callback has numbered and not yet delivered
  \* the goroutine inside startStream or stopStream
  ctl,
  \* client.audio of each speaker
  queue,
  \* history, read by properties only
  frame,      \* the last frame stamped
  base,       \* when the device was opened, by the clock as it is set now
  adrift      \* the clock was set since the timeline was anchored

capVars  == <<open, sink, seq, due, hand>>
histVars == <<frame, base, adrift>>
vars == <<now, streaming, delay, epoch, capVars, ctl, queue, histVars>>

NoChunk == -1
Frames == [at : Int, seq : Nat]
Steps == {"idle", "halt", "open", "commit", "fail",   \* startStream
          "stop", "clear"}                            \* stopStream

TypeOK ==
  /\ now \in Nat /\ streaming \in BOOLEAN
  /\ delay \in LoDelay..HiDelay /\ epoch \in Int
  /\ open \in BOOLEAN /\ sink \in BOOLEAN /\ seq \in Nat
  /\ due \in 0..Jitter /\ hand \in Nat \cup {NoChunk}
  /\ ctl \in Steps
  /\ queue \in [Guests -> Seq(Frames)] /\ \A g \in Guests : Len(queue[g]) <= AudioCap
  /\ frame \in Frames /\ base \in Nat /\ adrift \in BOOLEAN

Init ==
  /\ now = Boot /\ streaming = FALSE /\ delay = DefaultDelay /\ epoch = 0
  /\ open = FALSE /\ sink = FALSE /\ seq = 0 /\ due = 0 /\ hand = NoChunk
  /\ ctl = "idle" /\ queue = [g \in Guests |-> <<>>]
  /\ frame = [at |-> 0, seq |-> 0] /\ base = Boot /\ adrift = FALSE

(***************************************************************************)
(* The audio thread.                                                       *)
(***************************************************************************)

\* Periods the driver has recorded and the program has not dealt with.
Pending == due + (IF hand = NoChunk THEN 0 ELSE 1)

\* A period passes, and the driver has one more to deliver.
Tick ==
  /\ now < Horizon
  /\ now' = now + 1
  /\ IF open THEN Pending < Jitter /\ due' = due + 1 ELSE UNCHANGED due
  /\ UNCHANGED <<streaming, delay, epoch, open, sink, seq, hand, ctl, queue, histVars>>

\* nowMs() is the wall clock, which the mac sets by the network's.
SetClock(d) ==
  /\ now + d <= Horizon /\ base + d > 0
  /\ now' = now + d
  /\ base' = base + d
  /\ adrift' = (adrift \/ epoch # 0)
  /\ UNCHANGED <<streaming, delay, epoch, capVars, ctl, queue, frame>>

\* The callback numbers the chunk and reads the sink, under capture.mu.
Capture ==
  /\ due > 0 /\ hand = NoChunk
  /\ due' = due - 1
  /\ seq' = seq + 1
  /\ hand' = IF sink THEN seq ELSE NoChunk
  /\ UNCHANGED <<now, streaming, delay, epoch, open, sink, ctl, queue, histVars>>

\* Mutant of LockHeld: stopStream takes the lock before cap.stop().
HeldAcrossStop == ctl = "stop"
\* startStream and stopStream call the capture outside server.mu, and keep
\* the lock over no step another goroutine could wait for.
LockHeld == FALSE

\* trySendBinary: what does not fit is dropped
Offered(q, f) == IF Len(q) < AudioCap THEN Append(q, f) ELSE q

\* Mutant of Epoch: every chunk is stamped from the clock.
ReadsTheClock == now + delay - hand

\* The epoch the chunk in hand is stamped with: its own, when it is the
\* first after a start or a change of the delay.
Epoch == IF epoch = 0 THEN now + delay - hand ELSE epoch

\* onChunk, once the lock is free
OnChunk ==
  /\ hand # NoChunk /\ ~LockHeld
  /\ hand' = NoChunk
  /\ IF streaming
       THEN /\ epoch' = Epoch
            /\ frame' = [at |-> Epoch + hand, seq |-> hand]
            /\ queue' = [g \in Guests |-> Offered(queue[g], frame')]
       ELSE UNCHANGED <<epoch, frame, queue>>
  /\ UNCHANGED <<now, streaming, delay, open, sink, seq, due, ctl, base, adrift>>

\* the writer of a speaker's connection
Send(g) ==
  /\ queue[g] # <<>>
  /\ queue' = [queue EXCEPT ![g] = Tail(@)]
  /\ UNCHANGED <<now, streaming, delay, epoch, capVars, ctl, histVars>>

(***************************************************************************)
(* setDelay.                                                               *)
(***************************************************************************)

Clamp(ms) == IF ms < LoDelay THEN LoDelay ELSE IF ms > HiDelay THEN HiDelay ELSE ms

\* Mutant of SetDelay: the epoch stays.
KeepsEpoch(ms) ==
  /\ ~LockHeld
  /\ delay' = Clamp(ms)
  /\ UNCHANGED <<now, streaming, epoch, capVars, ctl, queue, histVars>>

SetDelay(ms) ==
  /\ ~LockHeld
  /\ delay' = Clamp(ms)
  /\ epoch' = 0 /\ adrift' = FALSE
  /\ UNCHANGED <<now, streaming, capVars, ctl, queue, frame, base>>

(***************************************************************************)
(* startStream and stopStream, as far as they touch the capture and the    *)
(* timeline.  StreamControl has the rest of them, and what happens when    *)
(* two of them overlap.                                                    *)
(***************************************************************************)

\* startStream does not ask whether the stream is running.
BeginStart ==
  /\ ctl = "idle" /\ ctl' = "halt"
  /\ UNCHANGED <<now, streaming, delay, epoch, capVars, queue, histVars>>

BeginStop ==
  /\ ctl = "idle" /\ ctl' = "stop"
  /\ UNCHANGED <<now, streaming, delay, epoch, capVars, queue, histVars>>

\* Mutant of CloseDevice: it does not wait for the callback.
AbandonsCallback(next) ==
  /\ open' = FALSE /\ sink' = FALSE /\ due' = 0
  /\ ctl' = next
  /\ UNCHANGED <<now, streaming, delay, epoch, seq, hand, queue, histVars>>

\* capture.stop: dev.Stop() returns once the callback has, and what the
\* driver recorded meanwhile is lost.
CloseDevice(next) ==
  /\ hand = NoChunk
  /\ open' = FALSE /\ sink' = FALSE /\ due' = 0
  /\ ctl' = next
  /\ UNCHANGED <<now, streaming, delay, epoch, seq, hand, queue, histVars>>

\* capture.start stops the device it finds, ...
Halt == ctl = "halt" /\ CloseDevice("open")

\* ... sets the sink, counts from 0 again and starts a new device, or fails
OpenDevice ==
  /\ ctl = "open"
  /\ sink' = TRUE /\ seq' = 0
  /\ \/ open' = TRUE /\ base' = now /\ ctl' = "commit"
     \/ ctl' = "fail" /\ UNCHANGED <<open, base>>
  /\ UNCHANGED <<now, streaming, delay, epoch, due, hand, queue, frame, adrift>>

\* back in startStream, under the lock
Commit ==
  /\ ctl = "commit" /\ ~LockHeld
  /\ streaming' = TRUE
  /\ epoch' = 0 /\ adrift' = FALSE
  /\ ctl' = "idle"
  /\ UNCHANGED <<now, delay, capVars, queue, frame, base>>

Fail ==
  /\ ctl = "fail" /\ ~LockHeld
  /\ streaming' = FALSE
  /\ ctl' = "idle"
  /\ UNCHANGED <<now, delay, epoch, capVars, queue, histVars>>

\* stopStream: s.cap.stop(), then the lock
Stop == ctl = "stop" /\ CloseDevice("clear")

Clear ==
  /\ ctl = "clear" /\ ~LockHeld
  /\ streaming' = FALSE
  /\ ctl' = "idle"
  /\ UNCHANGED <<now, delay, epoch, capVars, queue, histVars>>

Control == Halt \/ OpenDevice \/ Commit \/ Fail \/ Stop \/ Clear

Next ==
  \/ Tick \/ Capture \/ OnChunk
  \/ \E d \in Leaps : SetClock(d)
  \/ \E g \in Guests : Send(g)
  \/ \E ms \in Asked : SetDelay(ms)
  \/ BeginStart \/ BeginStop \/ Control

\* The audio thread gets to run, and so does whoever waits for it: a request
\* that is being handled goes on.  Nobody has to make one, and time may stop.
Fairness == WF_vars(Capture) /\ WF_vars(OnChunk) /\ WF_vars(Control)

Spec == Init /\ [][Next]_vars /\ Fairness

(***************************************************************************)
(* Properties.                                                             *)
(***************************************************************************)

\* capture.go:19 calls the delay "how far behind the source every speaker
\* plays": at every moment, whatever was started, stopped, asked for or late
\* before, a chunk is stamped with the delay now in force ahead of now, give
\* or take the lateness of the thread.  There are two exceptions.  A stream
\* started while it runs: between the new device and the commit the old epoch
\* is still there.  And a mac whose clock is set while it streams: the
\* timeline stays where it was until somebody moves the delay.
LeadIsDelay ==
  [][frame' # frame /\ ctl # "commit" /\ ~adrift
       => frame'.at - now \in (delay - Jitter + 1)..(delay + Jitter - 1)]_vars

\* No chunk outlives its device: once capture.stop has returned, no chunk of
\* that device is stamped, whatever the next start makes of the timeline.
NoneLeftBehind == [][frame' # frame => open /\ frame'.seq < now - base]_vars

\* sync.js:206-211 has neighbours butt together exactly, and that begins here.
\* Unless a start or a change of the delay has asked for a new line, a chunk is
\* the one after the last and due right behind it, however late the thread is
\* with either: between the callback that numbers a chunk and the onChunk that
\* stamps it no other is stamped, and none is left out.  Only a device that is
\* opened under a running stream counts from 0 again on the line of the old one.
NeighboursButt ==
  [][frame' # frame /\ epoch # 0
       => /\ frame'.at - frame.at = frame'.seq - frame.seq
          /\ frame'.seq \in {0, frame.seq + 1}]_vars

\* stopStream comes back: capture.stop waits for the callback, and the
\* callback never waits for the one who stops it.  The other ways to keep s.mu
\* are not here: once a hello has panicked with it (NeverStuck of
\* MCHubFindings) the callback waits for ever, and so does a stop.
StopReturns == ctl \in {"stop", "halt"} ~> ctl = "idle"
=============================================================================
