--------------------------- MODULE StreamControl ---------------------------
(***************************************************************************)
(* How taal borrows the mac's audio output and gives it back:              *)
(* startStream and stopStream (session.go), the capture device they open   *)
(* and close (capture.go), the routing device they build and destroy       *)
(* (routing_darwin.go), the file that remembers the way back and the       *)
(* recovery that reads it at the next start (restore.go), and the order in *)
(* which main launches all of this (main.go).                              *)
(*                                                                         *)
(* Neither handler is one critical section: both talk to CoreAudio, to the *)
(* capture device and to the disk between two acquisitions of server.mu,   *)
(* and run on whichever goroutine received the request: a page's readPump, *)
(* the goroutine main starts at launch, or the signal goroutine.  One      *)
(* action below is one step of such a goroutine: at most one effect that   *)
(* another goroutine, or the next process after a crash, can see.          *)
(***************************************************************************)
EXTENDS Naturals, FiniteSets

CONSTANTS
  Pages,     \* goroutines that read a page's socket (readPump)
  Launchers, \* the goroutine main starts to stream at launch; {} with -http
  Signals,   \* the goroutine of cleanupOnSignal
  Speakers,  \* real output devices of this mac
  Loopback,  \* the loopback driver's device
  Routing,   \* the device taal builds ("taal output")
  Handles,   \* capture device handles, as many as may be open at once
  None       \* no device, no goroutine, no file

Threads == Pages \cup Launchers \cup Signals
Outputs == Speakers \cup {Loopback, Routing}

ASSUME ThreadsAssumption ==
  /\ Pages \cap Launchers = {} /\ Pages \cap Signals = {} /\ Launchers \cap Signals = {}
  /\ None \notin Threads
\* main starts one goroutine, or none with -http
ASSUME LaunchersAssumption == \A t, u \in Launchers : t = u
ASSUME DevicesAssumption ==
  /\ Speakers # {}
  /\ Loopback \notin Speakers /\ Routing \notin Speakers /\ Loopback # Routing
  /\ None \notin Outputs /\ None \notin Handles

VARIABLES
  \* macOS: survives the death of the process (except live)
  output,      \* the system output device
  routing,     \* the devices the routing device feeds; {} when it does not exist
  driver,      \* is the loopback driver installed?
  live,        \* capture devices that were opened and not closed
  \* ~/Library/Application Support/taal/restore.json
  restore,     \* the output it names, None when there is no file
  \* fields of server and capture
  phase,       \* how far main is: see Phases
  mu,          \* who keeps server.mu across several steps
  stuck,       \* a hello that panicked keeps server.mu, for good
  streaming, prevOut, keepAudible,
  dev,         \* capture.dev
  sink,        \* capture.sink # nil
  \* goroutines
  pc,          \* next step
  loc,         \* local variables
  \* history, read by properties only
  home,        \* the output the user chose, which taal only borrows
  spoilt       \* one of the events that lose it has happened: see Spoils

macVars   == <<output, routing, driver, live>>
coreVars  == <<mu, stuck, streaming, prevOut, keepAudible>>
capVars   == <<dev, sink>>
histVars  == <<home, spoilt>>
vars == <<macVars, restore, phase, coreVars, capVars, pc, loc, histVars>>

Phases == {"off",      \* never started, or ended in os.Exit after a stopStream
           "dead",     \* killed
           "restore", "discard", "clean",   \* inside recoverFromCrash
           "up"}       \* serving

Locals == [task: {"start", "stop"}, audible: BOOLEAN, speakers: Speakers \cup {None},
           prev: Outputs \cup {None}, target: Outputs \cup {None},
           dev: Handles \cup {None}]
NoLocals == [task |-> "stop", audible |-> FALSE, speakers |-> None, prev |-> None,
             target |-> None, dev |-> None]

Steps == {"idle", "launch",
          "inspect", "prev", "destroy", "create", "point",   \* startStream up to setOutput
          "devices", "halt", "release", "open", "keep",      \* capture.start, capture.stop
          "commit", "fail", "failRemove",                    \* startStream, under the lock
          "clear", "putBack", "unroute", "forget", "finish"} \* stopStream

TypeOK ==
  /\ output \in Outputs /\ routing \subseteq Speakers \cup {Loopback}
  /\ driver \in BOOLEAN /\ live \subseteq Handles
  /\ restore \in Outputs \cup {None}
  /\ phase \in Phases /\ mu \in Threads \cup {None} /\ stuck \in BOOLEAN
  /\ streaming \in BOOLEAN /\ prevOut \in Outputs \cup {None} /\ keepAudible \in BOOLEAN
  /\ dev \in Handles \cup {None} /\ sink \in BOOLEAN
  /\ pc \in [Threads -> Steps] /\ loc \in [Threads -> Locals]
  /\ home \in Speakers /\ spoilt \in BOOLEAN

Busy(t) == pc[t] # "idle"
AllIdle == \A t \in Threads : ~Busy(t)

(***************************************************************************)
(* CoreAudio, as the code uses it.                                         *)
(***************************************************************************)

\* setOutput finds a device by name and gives up when there is none.  That
\* CoreAudio accepts a device that exists is assumed: the code ignores its
\* answer, and nothing taal promises about the output survives a refusal.
Exists(d) == \/ d \in Speakers
             \/ d = Loopback /\ driver
             \/ d = Routing /\ routing # {}
SetOutput(d) == output' = IF Exists(d) THEN d ELSE output

\* macOS falls back to a real device when the default output is destroyed
RemoveRouting ==
  /\ routing' = {}
  /\ IF output = Routing /\ routing # {} THEN output' \in Speakers ELSE UNCHANGED output

\* realSpeakers prefers the current output, if it is a real one
RealSpeakers == IF output \in Speakers THEN {output} ELSE Speakers

(***************************************************************************)
(* Goroutines.                                                             *)
(***************************************************************************)

At(t, step)   == phase # "off" /\ phase # "dead" /\ pc[t] = step
Goto(t, step) == pc' = [pc EXCEPT ![t] = step]
Set(t, l)     == loc' = [loc EXCEPT ![t] = l]

\* s.mu.Lock() returns
Free == mu = None /\ ~stuck

\* A request is on its own when no other goroutine is inside a handler and
\* main is through recoverFromCrash.
Alone(t) == phase = "up" /\ \A u \in Threads \ {t} : ~Busy(u)

\* case "start" of readPump: a page asks to stream.
RequestStart(t, audible) ==
  /\ t \in Pages /\ phase = "up" /\ At(t, "idle")
  /\ Goto(t, "inspect")
  /\ Set(t, [NoLocals EXCEPT !.task = "start", !.audible = audible])
  /\ spoilt' = (spoilt \/ ~Alone(t) \/ streaming)
  /\ UNCHANGED <<macVars, restore, phase, coreVars, capVars, home>>

\* The goroutine main starts once it is up: startStream(true) when the
\* driver is there.
AutoStart(t) ==
  /\ t \in Launchers /\ At(t, "launch")
  /\ IF driver
       THEN /\ Goto(t, "inspect")
            /\ Set(t, [NoLocals EXCEPT !.task = "start", !.audible = TRUE])
            /\ spoilt' = (spoilt \/ ~Alone(t) \/ streaming)
       ELSE Goto(t, "idle") /\ UNCHANGED <<loc, spoilt>>
  /\ UNCHANGED <<macVars, restore, phase, coreVars, capVars, home>>

\* case "stop" of readPump, or the signal goroutine after <-ch: the handler
\* is installed before recoverFromCrash runs.
RequestStop(t) ==
  /\ \/ t \in Pages /\ phase = "up"
     \/ t \in Signals
  /\ At(t, "idle")
  /\ Goto(t, "halt")
  /\ Set(t, NoLocals)
  /\ spoilt' = (spoilt \/ ~Alone(t))
  /\ UNCHANGED <<macVars, restore, phase, coreVars, capVars, home>>

(***************************************************************************)
(* startStream, up to the lock.                                            *)
(***************************************************************************)

\* The nil check under the lock, then inspectAudio: no driver, no stream.
Inspect(t) ==
  /\ At(t, "inspect") /\ Free
  /\ IF driver
       THEN /\ \E s \in RealSpeakers :
                 Set(t, [loc[t] EXCEPT !.speakers = IF loc[t].audible THEN s ELSE None])
            /\ Goto(t, "prev")
       ELSE Goto(t, "idle") /\ UNCHANGED loc
  /\ UNCHANGED <<macVars, restore, phase, coreVars, capVars, histVars>>

\* prev := currentOutputName()
ReadPrev(t) ==
  /\ At(t, "prev")
  /\ Set(t, [loc[t] EXCEPT !.prev = output])
  /\ Goto(t, "destroy")
  /\ UNCHANGED <<macVars, restore, phase, coreVars, capVars, histVars>>

\* buildRouting first destroys what it finds under its own name ...
DestroyOld(t) ==
  /\ At(t, "destroy")
  /\ RemoveRouting
  /\ Goto(t, "create")
  /\ UNCHANGED <<driver, live, restore, phase, coreVars, capVars, loc, histVars>>

\* Mutant of CreateRouting: the speakers are added without asking whether
\* there are any.
AddsSpeakersBlindly(t) ==
  /\ At(t, "create")
  /\ routing' = {Loopback, loc[t].speakers}
  /\ Set(t, [loc[t] EXCEPT !.target = Routing])
  /\ Goto(t, "point")
  /\ UNCHANGED <<output, driver, live, restore, phase, coreVars, capVars, histVars>>

\* ... then builds the device anew, without the speakers when they are not
\* found or have no uid.  Its own uid is fixed, so CoreAudio refuses a second
\* one; it may also refuse for reasons of its own.
CreateRouting(t) ==
  /\ At(t, "create")
  /\ \/ /\ routing = {}
        /\ routing' \in {{Loopback}, {Loopback} \cup ({loc[t].speakers} \ {None})}
        /\ Set(t, [loc[t] EXCEPT !.target = Routing])
     \/ /\ UNCHANGED routing
        /\ Set(t, [loc[t] EXCEPT !.target = Loopback])
  /\ Goto(t, "point")
  /\ UNCHANGED <<output, driver, live, restore, phase, coreVars, capVars, histVars>>

\* setOutput(name), or setOutput(setup.Loopback) without a routing device
PointOutput(t) ==
  /\ At(t, "point")
  /\ SetOutput(loc[t].target)
  /\ Goto(t, "devices")
  /\ UNCHANGED <<routing, driver, live, restore, phase, coreVars, capVars, loc, histVars>>

(***************************************************************************)
(* capture.start and capture.stop: no lock covers capture.dev.             *)
(***************************************************************************)

\* capture.start lists the devices before it touches the running one
FindSource(t) ==
  /\ At(t, "devices")
  /\ \/ Goto(t, "halt")
     \/ Goto(t, "fail")
  /\ UNCHANGED <<macVars, restore, phase, coreVars, capVars, loc, histVars>>

AfterHalt(t) == IF loc[t].task = "start" THEN "open" ELSE "clear"

\* if c.dev != nil { c.dev.Stop() ...; otherwise only the sink goes
HaltDevice(t) ==
  /\ At(t, "halt")
  /\ \/ /\ dev # None
        /\ live' = live \ {dev}
        /\ Goto(t, "release")
        /\ UNCHANGED sink
     \/ /\ dev = None
        /\ sink' = FALSE
        /\ Goto(t, AfterHalt(t))
        /\ UNCHANGED live
  /\ UNCHANGED <<output, routing, driver, restore, phase, coreVars, dev, loc, histVars>>

\* ... c.dev.Uninit(); c.dev = nil }, then c.sink = nil.  c.dev is read anew:
\* it may be another device by now,
ReleaseDevice(t) ==
  /\ At(t, "release") /\ dev # None
  /\ live' = live \ {dev}
  /\ dev' = None
  /\ sink' = FALSE
  /\ Goto(t, AfterHalt(t))
  /\ UNCHANGED <<output, routing, driver, restore, phase, coreVars, loc, histVars>>

\* macOS closes the capture devices of a process that is gone
Dies(how) ==
  /\ phase' = how
  /\ live' = {} /\ mu' = None /\ stuck' = FALSE /\ streaming' = FALSE /\ prevOut' = None
  /\ keepAudible' = FALSE /\ dev' = None /\ sink' = FALSE
  /\ pc' = [t \in Threads |-> "idle"]
  /\ loc' = [t \in Threads |-> NoLocals]
  /\ UNCHANGED <<output, routing, driver, restore>>

\* or nil, when another goroutine closed it meanwhile: a page's goroutine
\* panics alone (net/http recovers it), any other one takes the process along.
Panic(t) ==
  /\ At(t, "release") /\ dev = None
  /\ \/ /\ t \in Pages
        /\ Goto(t, "idle")
        /\ Set(t, NoLocals)
        /\ UNCHANGED <<macVars, restore, phase, coreVars, capVars>>
     \/ t \notin Pages /\ Dies("dead")
  /\ UNCHANGED histVars

\* Mutant of OpenDevice: the sink was set before c.stop() cleared it.
SetsSinkTooEarly(t) ==
  /\ At(t, "open")
  /\ \/ \E h \in Handles \ (live \cup {dev}) :
          /\ live' = live \cup {h}
          /\ Set(t, [loc[t] EXCEPT !.dev = h])
          /\ Goto(t, "keep")
     \/ Goto(t, "fail") /\ UNCHANGED <<live, loc>>
  /\ UNCHANGED <<output, routing, driver, restore, phase, coreVars, capVars, histVars>>

\* The sink is set, the device initialised and started; when one of the two
\* fails the sink stays.
OpenDevice(t) ==
  /\ At(t, "open")
  /\ sink' = TRUE
  /\ \/ \E h \in Handles \ (live \cup {dev}) :
          /\ live' = live \cup {h}
          /\ Set(t, [loc[t] EXCEPT !.dev = h])
          /\ Goto(t, "keep")
     \/ Goto(t, "fail") /\ UNCHANGED <<live, loc>>
  /\ UNCHANGED <<output, routing, driver, restore, phase, coreVars, dev, histVars>>

\* c.dev = dev
KeepDevice(t) ==
  /\ At(t, "keep")
  /\ dev' = loc[t].dev
  /\ Goto(t, "commit")
  /\ UNCHANGED <<macVars, restore, phase, coreVars, sink, loc, histVars>>

(***************************************************************************)
(* startStream, under the lock.                                            *)
(***************************************************************************)

Commit(t) ==
  /\ At(t, "commit") /\ Free
  /\ streaming' = TRUE
  /\ prevOut' = loc[t].prev
  /\ keepAudible' = loc[t].audible
  /\ restore' = loc[t].prev
  /\ Goto(t, "idle")
  /\ Set(t, NoLocals)
  /\ UNCHANGED <<macVars, phase, mu, stuck, capVars, histVars>>

\* err != nil: give the output back, keeping the lock ...
FailPutBack(t) ==
  /\ At(t, "fail") /\ Free
  /\ mu' = t
  /\ streaming' = FALSE
  /\ SetOutput(loc[t].prev)
  /\ Goto(t, "failRemove")
  /\ UNCHANGED <<routing, driver, live, restore, phase, stuck, prevOut, keepAudible, capVars,
                 loc, histVars>>

\* Mutant of FailRemove: the early return keeps the lock.
ReturnsLocked(t) ==
  /\ At(t, "failRemove") /\ mu = t
  /\ RemoveRouting
  /\ Goto(t, "idle")
  /\ Set(t, NoLocals)
  /\ UNCHANGED <<driver, live, restore, phase, coreVars, capVars, histVars>>

\* ... and the routing device away, then unlock
FailRemove(t) ==
  /\ At(t, "failRemove") /\ mu = t
  /\ mu' = None
  /\ RemoveRouting
  /\ Goto(t, "idle")
  /\ Set(t, NoLocals)
  /\ UNCHANGED <<driver, live, restore, phase, stuck, streaming, prevOut, keepAudible,
                 capVars, histVars>>

(***************************************************************************)
(* stopStream, after cap.stop().                                           *)
(***************************************************************************)

\* Mutants of TakePrev: prevOut is read after it was emptied; the file is
\* removed here, before the output is put back.
ReadsPrevTooLate(t) ==
  /\ At(t, "clear") /\ Free
  /\ Set(t, [loc[t] EXCEPT !.prev = None])
  /\ streaming' = FALSE
  /\ prevOut' = None
  /\ Goto(t, "putBack")
  /\ UNCHANGED <<macVars, restore, phase, mu, stuck, keepAudible, capVars, histVars>>
ForgetsTooEarly(t) ==
  /\ At(t, "clear") /\ Free
  /\ Set(t, [loc[t] EXCEPT !.prev = prevOut])
  /\ streaming' = FALSE
  /\ prevOut' = None
  /\ restore' = None
  /\ Goto(t, "putBack")
  /\ UNCHANGED <<macVars, phase, mu, stuck, keepAudible, capVars, histVars>>

\* prev := s.prevOut; s.streaming = false; s.prevOut = ""
TakePrev(t) ==
  /\ At(t, "clear") /\ Free
  /\ Set(t, [loc[t] EXCEPT !.prev = prevOut])
  /\ streaming' = FALSE
  /\ prevOut' = None
  /\ Goto(t, "putBack")
  /\ UNCHANGED <<macVars, restore, phase, mu, stuck, keepAudible, capVars, histVars>>

PutBack(t) ==
  /\ At(t, "putBack")
  /\ IF loc[t].prev # None THEN SetOutput(loc[t].prev) ELSE UNCHANGED output
  /\ Goto(t, "unroute")
  /\ UNCHANGED <<routing, driver, live, restore, phase, coreVars, capVars, loc, histVars>>

Unroute(t) ==
  /\ At(t, "unroute")
  /\ RemoveRouting
  /\ Goto(t, "forget")
  /\ UNCHANGED <<driver, live, restore, phase, coreVars, capVars, loc, histVars>>

\* forgetOutput()
Forget(t) ==
  /\ At(t, "forget")
  /\ restore' = None
  /\ Goto(t, "finish")
  /\ UNCHANGED <<macVars, phase, coreVars, capVars, loc, histVars>>

\* the last fanout under the lock: a page's goroutine reads on
Finish(t) ==
  /\ t \notin Signals /\ At(t, "finish") /\ Free
  /\ Goto(t, "idle")
  /\ Set(t, NoLocals)
  /\ UNCHANGED <<macVars, restore, phase, coreVars, capVars, histVars>>

(***************************************************************************)
(* The process: death, launch and recovery.                                *)
(***************************************************************************)

\* the signal goroutine: stopStream has returned, os.Exit(0)
Exit(t) ==
  /\ t \in Signals /\ At(t, "finish") /\ Free
  /\ Dies("off")
  /\ UNCHANGED histVars

\* startStream has moved the output and not yet written restore.json
Unsaved(t) == /\ loc[t].task = "start"
              /\ pc[t] \in {"devices", "halt", "release", "open", "keep", "commit", "fail"}

\* kill -9, a panic, power loss.  Whoever moved the output away from taal's
\* device meanwhile keeps that output (recoverFromCrash leaves it alone).
Crash ==
  /\ phase \notin {"off", "dead"}
  /\ Dies("dead")
  /\ spoilt' = (spoilt \/ (\E t \in Threads : Unsaved(t)) \/ output = Loopback)
  /\ home' = IF output \in Speakers THEN output ELSE home

\* main: newCapture, newServer, cleanupOnSignal
Launch ==
  /\ phase \in {"off", "dead"}
  /\ phase' = "restore"
  /\ UNCHANGED <<macVars, restore, coreVars, capVars, pc, loc, histVars>>

\* Mutant of RestoreOutput: the output goes back whoever holds it by now.
RestoresAlways ==
  /\ phase = "restore"
  /\ IF restore # None THEN SetOutput(restore) ELSE UNCHANGED output
  /\ phase' = "discard"
  /\ UNCHANGED <<routing, driver, live, restore, coreVars, capVars, pc, loc, histVars>>

\* recoverFromCrash: the output goes back only if taal still holds it
RestoreOutput ==
  /\ phase = "restore"
  /\ IF restore # None /\ output = Routing THEN SetOutput(restore) ELSE UNCHANGED output
  /\ phase' = "discard"
  /\ UNCHANGED <<routing, driver, live, restore, coreVars, capVars, pc, loc, histVars>>

DiscardFile ==
  /\ phase = "discard"
  /\ restore' = None
  /\ phase' = "clean"
  /\ UNCHANGED <<macVars, coreVars, capVars, pc, loc, histVars>>

\* Mutant of CleanRouting: the leftover device stays.
LeavesWreckage ==
  /\ phase = "clean"
  /\ phase' = "up"
  /\ pc' = [t \in Threads |-> IF t \in Launchers THEN "launch" ELSE pc[t]]
  /\ UNCHANGED <<macVars, restore, coreVars, capVars, loc, histVars>>

\* ... the leftover device goes away, and main starts serving and streaming
CleanRouting ==
  /\ phase = "clean"
  /\ RemoveRouting
  /\ phase' = "up"
  /\ pc' = [t \in Threads |-> IF t \in Launchers THEN "launch" ELSE pc[t]]
  /\ UNCHANGED <<driver, live, restore, coreVars, capVars, loc, histVars>>

(***************************************************************************)
(* The person at the mac, when no handler is in the middle of its work.    *)
(***************************************************************************)
UserSelects(d) ==
  /\ phase \in {"off", "dead", "up"} /\ AllIdle
  /\ output' = d
  /\ home' = IF streaming THEN home ELSE d
  /\ UNCHANGED <<routing, driver, live, restore, phase, coreVars, capVars, pc, loc, spoilt>>

InstallDriver ==
  /\ ~driver
  /\ driver' = TRUE
  /\ UNCHANGED <<output, routing, live, restore, phase, coreVars, capVars, pc, loc, histVars>>

(***************************************************************************)
(* The other connections.                                                  *)
(***************************************************************************)

\* A hello sends on the channel of a connection that was retired meanwhile
\* and panics with the lock held (NeverStuck of MCHubFindings): nobody gets
\* server.mu any more, until the process ends.
HelloPanics ==
  /\ phase = "up" /\ Free
  /\ stuck' = TRUE
  /\ UNCHANGED <<macVars, restore, phase, mu, streaming, prevOut, keepAudible, capVars, pc, loc,
                 histVars>>

Init ==
  /\ output \in Speakers /\ home = output
  /\ routing = {} /\ driver \in BOOLEAN /\ live = {} /\ restore = None
  /\ phase = "off" /\ mu = None /\ stuck = FALSE /\ streaming = FALSE /\ prevOut = None
  /\ keepAudible = FALSE /\ dev = None /\ sink = FALSE
  /\ pc = [t \in Threads |-> "idle"] /\ loc = [t \in Threads |-> NoLocals]
  /\ spoilt = FALSE

StartStep(t) ==
  \/ Inspect(t) \/ ReadPrev(t) \/ DestroyOld(t) \/ CreateRouting(t) \/ PointOutput(t)
  \/ FindSource(t) \/ OpenDevice(t) \/ KeepDevice(t)
  \/ Commit(t) \/ FailPutBack(t) \/ FailRemove(t)
StopStep(t) == TakePrev(t) \/ PutBack(t) \/ Unroute(t) \/ Forget(t) \/ Finish(t) \/ Exit(t)
HandlerStep(t) ==
  StartStep(t) \/ HaltDevice(t) \/ ReleaseDevice(t) \/ Panic(t) \/ StopStep(t)

Recovery == RestoreOutput \/ DiscardFile \/ CleanRouting

Request(t) == (\E a \in BOOLEAN : RequestStart(t, a)) \/ AutoStart(t) \/ RequestStop(t)

Next ==
  \/ \E t \in Threads : Request(t) \/ HandlerStep(t)
  \/ Launch \/ Recovery \/ Crash
  \/ \E d \in Speakers : UserSelects(d)
  \/ InstallDriver \/ HelloPanics

\* capture.stop waits for the device's callback, and the callback, onChunk,
\* may wait for server.mu
MayHang(t) == stuck /\ pc[t] = "halt" /\ dev # None

\* Goroutines are scheduled and CoreAudio calls return; nobody is obliged to
\* ask for anything, to launch taal or to kill it.  The fairness of a step
\* that waits for server.mu is strong because sync.Mutex hands the lock to a
\* goroutine that has waited for a millisecond (its starvation mode); the
\* other steps are never disabled once enabled.  Nothing is promised of a
\* capture.stop once the lock is stuck.
Fairness ==
  /\ \A t \in Threads : SF_vars(HandlerStep(t) /\ ~MayHang(t)) /\ WF_vars(AutoStart(t))
  /\ WF_vars(Recovery)

Spec == Init /\ [][Next]_vars /\ Fairness

(***************************************************************************)
(* Properties.                                                             *)
(*                                                                         *)
(* What taal promises about the output holds as long as none of these      *)
(* events has happened (the properties of MCStreamFindings, which TLC      *)
(* refutes, show what each leads to): two handlers overlap, a start finds  *)
(* the stream already running, the process is killed between setOutput and *)
(* rememberOutput, or killed while it plays into the loopback directly.    *)
(* spoilt records that one of them has.                                    *)
(***************************************************************************)

\* "put the output back exactly as it was": whenever taal is not streaming
\* and nothing is in progress, after any number of starts, failed starts,
\* stops, kills and relaunches, the mac plays where its owner wanted and no
\* trace is left: no routing device, no restore file, no open capture device.
GivenBack ==
  ~spoilt /\ AllIdle /\ phase \in {"off", "up"} /\ ~streaming
     => output = home /\ routing = {} /\ restore = None /\ live = {} /\ dev = None

\* The output is lent from the first step of a handler, or of recoverFromCrash,
\* to its last, and for as long as taal streams or lies dead.
Standing ==
  CASE spoilt -> "lost"
    [] ~spoilt /\ phase \in {"off", "up"} /\ AllIdle /\ ~streaming -> "none"
    [] OTHER -> "lent"

Loan == INSTANCE OutputLoan
          WITH Devices <- Outputs, Choices <- Speakers, owner <- home, loan <- Standing

\* Step by step and over any number of lives, startStream, stopStream and
\* recoverFromCrash together are a loan of the output: it comes back to the
\* owner's device at the end of every one, and no step of taal's ever
\* changes whose it is.
LoanIsKept == Loan!Spec

\* However taal is killed, the next launch can find the way back: either the
\* output is where its owner wants it, or it is taal's device and the file
\* names the owner's.
Recoverable ==
  ~spoilt /\ phase \in {"dead", "restore"}
     => output = home \/ (output = Routing /\ restore = home)

\* While streaming, exactly one capture device is open, the one the server
\* can close, and it delivers; the way back is saved twice; and the routing
\* device feeds the loopback and nothing else but, if the page asked for it,
\* the speakers the owner had chosen (they may have been gone when it was
\* built: AudibleIsHeard of MCStreamFindings).
StreamIsWhole ==
  ~spoilt /\ AllIdle /\ streaming
     => /\ live = {dev} /\ sink
        /\ prevOut = home /\ restore = home
        /\ routing # {} => /\ Loopback \in routing
                           /\ routing \ {Loopback} \subseteq (IF keepAudible THEN {home} ELSE {})
        /\ routing = {} => output # Routing

\* Whatever came before, overlapping handlers and kills at the worst moment
\* included, a launch starts clean: when recoverFromCrash returns there is no
\* device left over, no file, no open capture device, and the mac's output is
\* a device that exists.
Clean == routing = {} /\ restore = None /\ live = {} /\ Exists(output)
FreshStart == [][phase # "up" /\ phase' = "up" => Clean']_vars

\* Ctrl-c ends in an exit (or in a kill): whatever the handlers it finds at
\* work do, startStream under the lock included, stopStream gets through.  The
\* exception is a hello that panicked with the lock, before or meanwhile
\* (SignalAlwaysEnds of MCStreamFindings).
SignalEnds ==
  \A t \in Signals : (pc[t] = "halt") ~> (phase \in {"off", "dead"} \/ stuck)
=============================================================================
