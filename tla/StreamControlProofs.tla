------------------------ MODULE StreamControlProofs ------------------------
(***************************************************************************)
(* Proofs about StreamControl, for any number of pages, speakers and       *)
(* capture handles.  GivenBack, Recoverable and StreamIsWhole speak of     *)
(* moments when nothing is in progress (or the process is dead); what      *)
(* makes them true is what holds at every step in between, so the          *)
(* inductive invariant says, for the one goroutine that is at work, what   *)
(* it has done so far.                                                     *)
(***************************************************************************)
EXTENDS StreamControl, TLAPS

(***************************************************************************)
(* The inductive invariant.                                                *)
(***************************************************************************)
Quiet  == ~streaming /\ prevOut = None
Given  == output = home /\ routing = {} /\ restore = None
Closed == live = {} /\ dev = None
Wired(audible) ==
  /\ routing # {} => /\ Loopback \in routing
                     /\ routing \ {Loopback} \subseteq (IF audible THEN {home} ELSE {})
  /\ routing = {} => output # Routing
Saved  == prevOut = home /\ restore = home /\ Wired(keepAudible)
Resting   == Quiet /\ Given /\ Closed
Streaming == streaming /\ Saved /\ dev # None /\ live = {dev} /\ sink

\* Handlers do not overlap, and none runs beside recoverFromCrash.
Solo ==
  /\ \A t, u \in Threads : Busy(t) /\ Busy(u) => t = u
  /\ phase # "up" => AllIdle

\* What is known outside the serving phase.
DownOK ==
  /\ phase # "up" => Quiet /\ Closed /\ mu = None
  /\ phase = "off" => Given
  /\ phase \in {"dead", "restore"} => output = home \/ (output = Routing /\ restore = home)
  /\ phase \in {"discard", "clean"} => output = home
  /\ phase = "clean" => restore = None

IdleOK == phase = "up" /\ AllIdle => mu = None /\ (Resting \/ Streaming)

\* What startStream has done when it is about to take its next step ...
Chosen(l)  == l.speakers = IF l.audible THEN home ELSE None
StartOK(t) ==
  LET l == loc[t] IN
  /\ pc[t] \in {"launch", "inspect"} => Resting /\ mu = None
  /\ pc[t] \in {"prev", "destroy", "create"} => Resting /\ mu = None /\ Chosen(l)
  /\ pc[t] \in {"destroy", "create"} => l.prev = home
  /\ pc[t] \in {"inspect", "prev", "destroy", "create", "point", "devices", "open",
                "keep", "commit", "fail"} => l.task = "start"
  /\ pc[t] \in {"point", "devices", "open", "keep", "commit", "fail"}
        \/ (pc[t] = "halt" /\ l.task = "start")
       => /\ Quiet /\ restore = None /\ mu = None /\ l.prev = home
          /\ Chosen(l) /\ Wired(l.audible)
  /\ pc[t] = "point" => /\ output = home
                        /\ routing = {} => l.target = Loopback
  /\ pc[t] \in {"point", "devices", "open", "fail"} \/ (pc[t] = "halt" /\ l.task = "start")
       => Closed
  /\ pc[t] = "keep" => dev = None /\ l.dev # None /\ live = {l.dev} /\ sink
  /\ pc[t] = "commit" => dev # None /\ live = {dev} /\ sink
  /\ pc[t] = "failRemove" => Quiet /\ Closed /\ restore = None /\ output = home /\ mu = t

\* ... and stopStream.
StopOK(t) ==
  LET l == loc[t] IN
  /\ pc[t] \in {"release", "clear", "putBack", "unroute", "forget", "finish"}
       => l.task = "stop" /\ mu = None
  /\ pc[t] = "halt" /\ l.task = "stop" => mu = None /\ (Resting \/ Streaming)
  /\ pc[t] = "release" => streaming /\ Saved /\ dev # None /\ live = {}
  /\ pc[t] = "clear" => Resting \/ (streaming /\ Saved /\ Closed)
  /\ pc[t] = "putBack" =>
       /\ Quiet /\ Closed
       /\ \/ l.prev = None /\ Given
          \/ l.prev = home /\ restore = home
  /\ pc[t] = "unroute" => Quiet /\ Closed /\ output = home
  /\ pc[t] = "forget" => Quiet /\ Closed /\ output = home /\ routing = {}
  /\ pc[t] = "finish" => Resting

Core == Solo /\ DownOK /\ IdleOK /\ (\A t \in Threads : StartOK(t) /\ StopOK(t))
IInv == TypeOK /\ (~spoilt => Core)

(***************************************************************************)
(* Type correctness.                                                       *)
(***************************************************************************)

\* The local variables a handler begins with are typed.
LEMMA NoLocalsTyped == NoLocals \in Locals
  BY DEF NoLocals, Locals

\* The records the handlers store are local variables of the right type.
LEMMA RequestTyped ==
  ASSUME NEW a \in BOOLEAN
  PROVE  [NoLocals EXCEPT !.task = "start", !.audible = a] \in Locals
<1> DEFINE m == [NoLocals EXCEPT !.task = "start"]
<1>1. m \in Locals
  BY NoLocalsTyped DEF Locals
<1>2. [m EXCEPT !.audible = a] \in Locals
  BY <1>1 DEF Locals
<1> QED
  BY <1>2

\* A goroutine moves between the steps of its handler ...
LEMMA GotoTyped ==
  ASSUME TypeOK, NEW t \in Threads, NEW s \in Steps, Goto(t, s)
  PROVE  pc' \in [Threads -> Steps]
  BY DEF TypeOK, Goto

\* ... and stores local variables of the right type.
LEMMA SetTyped ==
  ASSUME TypeOK, NEW t \in Threads, NEW l \in Locals, Set(t, l)
  PROVE  loc' \in [Threads -> Locals]
  BY DEF TypeOK, Set

\* Storing the chosen speakers changes no other local variable.
LEMMA SpeakersSet ==
  ASSUME NEW l \in Locals, NEW s
  PROVE  /\ [l EXCEPT !.speakers = s].speakers = s
         /\ [l EXCEPT !.speakers = s].task = l.task
         /\ [l EXCEPT !.speakers = s].audible = l.audible
  BY DEF Locals

\* The local variables of any goroutine are typed, field by field.
LEMMA LocTyped ==
  ASSUME TypeOK, NEW t \in Threads
  PROVE  /\ loc[t] \in Locals
         /\ loc[t].audible \in BOOLEAN /\ loc[t].task \in {"start", "stop"}
         /\ loc[t].prev \in Outputs \cup {None} /\ loc[t].target \in Outputs \cup {None}
         /\ loc[t].speakers \in Speakers \cup {None} /\ loc[t].dev \in Handles \cup {None}
<1>1. loc[t] \in Locals
  BY DEF TypeOK
<1> QED
  BY <1>1 DEF Locals

\* A process that dies leaves typed variables.
LEMMA DeadTyped ==
  ASSUME TypeOK, NEW how \in Phases, Dies(how), home' \in Speakers, spoilt' \in BOOLEAN
  PROVE  TypeOK'
<1>1. [t \in Threads |-> "idle"] \in [Threads -> Steps]
  BY DEF Steps
<1>2. [t \in Threads |-> NoLocals] \in [Threads -> Locals]
  BY NoLocalsTyped
<1> QED
  BY <1>1, <1>2 DEF TypeOK, Dies

\* What setOutput and removeRouting leave is an output, too.
LEMMA OutputTyped ==
  ASSUME TypeOK
  PROVE  /\ RemoveRouting => output' \in Outputs /\ routing' = {}
         /\ \A d \in Outputs \cup {None} : SetOutput(d) => output' \in Outputs
  BY DevicesAssumption DEF TypeOK, RemoveRouting, SetOutput, Exists, Outputs

\* Initially the types are right.
LEMMA TypeInit ==
  ASSUME Init PROVE TypeOK
<1>1. [t \in Threads |-> "idle"] \in [Threads -> Steps]
  BY DEF Steps
<1>2. [t \in Threads |-> NoLocals] \in [Threads -> Locals]
  BY NoLocalsTyped
<1> QED
  BY <1>1, <1>2 DEF Init, TypeOK, Outputs, Phases

\* Every step keeps the types, one action after the other.
LEMMA TypeStep ==
  ASSUME TypeOK, [Next]_vars PROVE TypeOK'
<1> USE DEF macVars, coreVars, capVars, histVars
<1>1. ASSUME NEW t \in Threads, NEW a \in BOOLEAN, RequestStart(t, a) PROVE TypeOK'
  <2>1. pc' \in [Threads -> Steps] /\ loc' \in [Threads -> Locals]
    BY <1>1, GotoTyped, SetTyped, RequestTyped DEF RequestStart, Steps
  <2> QED
    BY <1>1, <2>1 DEF RequestStart, TypeOK
<1>2. ASSUME NEW t \in Threads, AutoStart(t) PROVE TypeOK'
  <2>1. pc' \in [Threads -> Steps] /\ loc' \in [Threads -> Locals]
    BY <1>2, GotoTyped, SetTyped, RequestTyped DEF AutoStart, Steps, TypeOK
  <2> QED
    BY <1>2, <2>1 DEF AutoStart, TypeOK
<1>3. ASSUME NEW t \in Threads, RequestStop(t) PROVE TypeOK'
  <2>1. pc' \in [Threads -> Steps] /\ loc' \in [Threads -> Locals]
    BY <1>3, GotoTyped, SetTyped, NoLocalsTyped DEF RequestStop, Steps
  <2> QED
    BY <1>3, <2>1 DEF RequestStop, TypeOK
<1>4. ASSUME NEW t \in Threads, Inspect(t) PROVE TypeOK'
  <2>1. \A sp \in RealSpeakers :
            [loc[t] EXCEPT !.speakers = IF loc[t].audible THEN sp ELSE None] \in Locals
    BY LocTyped DEF RealSpeakers, TypeOK, Locals
  <2>2. pc' \in [Threads -> Steps]
    BY <1>4, GotoTyped DEF Inspect, Steps
  <2>3. loc' \in [Threads -> Locals]
    BY <1>4, <2>1, SetTyped DEF Inspect, TypeOK
  <2> QED
    BY <1>4, <2>2, <2>3, LocTyped DEF Inspect, TypeOK
<1>5. ASSUME NEW t \in Threads, ReadPrev(t) PROVE TypeOK'
  <2>1. [loc[t] EXCEPT !.prev = output] \in Locals
    BY LocTyped DEF TypeOK, Locals
  <2>2. pc' \in [Threads -> Steps]
    BY <1>5, GotoTyped DEF ReadPrev, Steps
  <2>3. loc' \in [Threads -> Locals]
    BY <1>5, <2>1, SetTyped DEF ReadPrev, TypeOK
  <2> QED
    BY <1>5, <2>2, <2>3, LocTyped DEF ReadPrev, TypeOK
<1>6. ASSUME NEW t \in Threads, DestroyOld(t) PROVE TypeOK'
  <2>1. pc' \in [Threads -> Steps] /\ loc' \in [Threads -> Locals]
    BY <1>6, GotoTyped DEF DestroyOld, Steps, TypeOK
  <2> QED
    BY <1>6, <2>1, OutputTyped DEF DestroyOld, TypeOK
<1>7. ASSUME NEW t \in Threads, CreateRouting(t) PROVE TypeOK'
  <2>1. /\ [loc[t] EXCEPT !.target = Routing] \in Locals
          /\ [loc[t] EXCEPT !.target = Loopback] \in Locals
    BY LocTyped DEF TypeOK, Locals, Outputs
  <2>2. pc' \in [Threads -> Steps]
    BY <1>7, GotoTyped DEF CreateRouting, Steps
  <2>3. loc' \in [Threads -> Locals]
    BY <1>7, <2>1, SetTyped DEF CreateRouting, TypeOK
  <2> QED
    BY <1>7, <2>2, <2>3, LocTyped, DevicesAssumption DEF CreateRouting, TypeOK
<1>8. ASSUME NEW t \in Threads, PointOutput(t) PROVE TypeOK'
  <2>1. pc' \in [Threads -> Steps] /\ loc' \in [Threads -> Locals]
    BY <1>8, GotoTyped DEF PointOutput, Steps, TypeOK
  <2> QED
    BY <1>8, <2>1, LocTyped, OutputTyped DEF PointOutput, TypeOK
<1>9. ASSUME NEW t \in Threads, FindSource(t) PROVE TypeOK'
  <2>1. pc' \in [Threads -> Steps] /\ loc' \in [Threads -> Locals]
    BY <1>9, GotoTyped DEF FindSource, Steps, TypeOK
  <2> QED
    BY <1>9, <2>1 DEF FindSource, TypeOK
<1>10. ASSUME NEW t \in Threads, OpenDevice(t) PROVE TypeOK'
  <2>1. \A h \in Handles : [loc[t] EXCEPT !.dev = h] \in Locals
    BY LocTyped DEF TypeOK, Locals
  <2>2. pc' \in [Threads -> Steps]
    BY <1>10, GotoTyped DEF OpenDevice, Steps
  <2>3. loc' \in [Threads -> Locals]
    BY <1>10, <2>1, SetTyped DEF OpenDevice, TypeOK
  <2> QED
    BY <1>10, <2>2, <2>3, LocTyped DEF OpenDevice, TypeOK
<1>11. ASSUME NEW t \in Threads, KeepDevice(t) PROVE TypeOK'
  <2>1. pc' \in [Threads -> Steps] /\ loc' \in [Threads -> Locals]
    BY <1>11, GotoTyped DEF KeepDevice, Steps, TypeOK
  <2> QED
    BY <1>11, <2>1, LocTyped DEF KeepDevice, TypeOK
<1>12. ASSUME NEW t \in Threads, Commit(t) PROVE TypeOK'
  <2>1. pc' \in [Threads -> Steps] /\ loc' \in [Threads -> Locals]
    BY <1>12, GotoTyped, SetTyped, NoLocalsTyped DEF Commit, Steps, TypeOK, Locals
  <2> QED
    BY <1>12, <2>1, LocTyped DEF Commit, TypeOK, Locals
<1>13. ASSUME NEW t \in Threads, FailPutBack(t) PROVE TypeOK'
  <2>1. pc' \in [Threads -> Steps] /\ loc' \in [Threads -> Locals]
    BY <1>13, GotoTyped DEF FailPutBack, Steps, TypeOK
  <2> QED
    BY <1>13, <2>1, LocTyped, OutputTyped DEF FailPutBack, TypeOK
<1>14. ASSUME NEW t \in Threads, FailRemove(t) PROVE TypeOK'
  <2>1. pc' \in [Threads -> Steps] /\ loc' \in [Threads -> Locals]
    BY <1>14, GotoTyped, SetTyped, NoLocalsTyped DEF FailRemove, Steps, TypeOK
  <2> QED
    BY <1>14, <2>1, OutputTyped DEF FailRemove, TypeOK
<1>15. ASSUME NEW t \in Threads, HaltDevice(t) PROVE TypeOK'
  <2>1. pc' \in [Threads -> Steps] /\ loc' \in [Threads -> Locals]
    BY <1>15, GotoTyped DEF HaltDevice, Steps, TypeOK, AfterHalt
  <2> QED
    BY <1>15, <2>1 DEF HaltDevice, TypeOK, AfterHalt
<1>16. ASSUME NEW t \in Threads, ReleaseDevice(t) PROVE TypeOK'
  <2>1. pc' \in [Threads -> Steps] /\ loc' \in [Threads -> Locals]
    BY <1>16, GotoTyped DEF ReleaseDevice, Steps, TypeOK, AfterHalt
  <2> QED
    BY <1>16, <2>1 DEF ReleaseDevice, TypeOK, AfterHalt
<1>17. ASSUME NEW t \in Threads, Panic(t) PROVE TypeOK'
  <2>1. CASE Dies("dead")
    BY <1>17, <2>1, DeadTyped DEF Panic, Phases, TypeOK
  <2>2. CASE ~Dies("dead")
    <3>1. pc' \in [Threads -> Steps] /\ loc' \in [Threads -> Locals]
      BY <1>17, <2>2, GotoTyped, SetTyped, NoLocalsTyped DEF Panic, Steps
    <3> QED
      BY <1>17, <2>2, <3>1 DEF Panic, TypeOK
  <2> QED
    BY <2>1, <2>2
<1>18. ASSUME NEW t \in Threads, TakePrev(t) PROVE TypeOK'
  <2>1. [loc[t] EXCEPT !.prev = prevOut] \in Locals
    BY LocTyped DEF TypeOK, Locals
  <2>2. pc' \in [Threads -> Steps]
    BY <1>18, GotoTyped DEF TakePrev, Steps
  <2>3. loc' \in [Threads -> Locals]
    BY <1>18, <2>1, SetTyped DEF TakePrev, TypeOK
  <2> QED
    BY <1>18, <2>2, <2>3, LocTyped DEF TakePrev, TypeOK
<1>19. ASSUME NEW t \in Threads, PutBack(t) PROVE TypeOK'
  <2>1. pc' \in [Threads -> Steps] /\ loc' \in [Threads -> Locals]
    BY <1>19, GotoTyped DEF PutBack, Steps, TypeOK, SetOutput, Exists
  <2> QED
    BY <1>19, <2>1, LocTyped, OutputTyped DEF PutBack, TypeOK, SetOutput, Exists
<1>20. ASSUME NEW t \in Threads, Unroute(t) PROVE TypeOK'
  <2>1. pc' \in [Threads -> Steps] /\ loc' \in [Threads -> Locals]
    BY <1>20, GotoTyped DEF Unroute, Steps, TypeOK
  <2> QED
    BY <1>20, <2>1, OutputTyped DEF Unroute, TypeOK
<1>21. ASSUME NEW t \in Threads, Forget(t) PROVE TypeOK'
  <2>1. pc' \in [Threads -> Steps] /\ loc' \in [Threads -> Locals]
    BY <1>21, GotoTyped DEF Forget, Steps, TypeOK
  <2> QED
    BY <1>21, <2>1 DEF Forget, TypeOK
<1>22. ASSUME NEW t \in Threads, Finish(t) PROVE TypeOK'
  <2>1. pc' \in [Threads -> Steps] /\ loc' \in [Threads -> Locals]
    BY <1>22, GotoTyped, SetTyped, NoLocalsTyped DEF Finish, Steps, TypeOK
  <2> QED
    BY <1>22, <2>1 DEF Finish, TypeOK
<1>23. ASSUME NEW t \in Threads, Exit(t) PROVE TypeOK'
  BY <1>23, DeadTyped DEF Exit, Phases, TypeOK
<1>24. CASE Launch
  BY <1>24 DEF Launch, TypeOK, Phases
<1>25. CASE RestoreOutput
  BY <1>25, OutputTyped DEF RestoreOutput, TypeOK, Phases
<1>26. CASE DiscardFile
  BY <1>26 DEF DiscardFile, TypeOK, Phases
<1>27. CASE CleanRouting
  <2>1. pc' \in [Threads -> Steps]
    BY <1>27 DEF CleanRouting, TypeOK, Steps
  <2> QED
    BY <1>27, <2>1, OutputTyped DEF CleanRouting, TypeOK, Phases
<1>28. CASE Crash
  <2>1. home' \in Speakers /\ spoilt' \in BOOLEAN
    BY <1>28 DEF Crash, TypeOK
  <2> QED
    BY <1>28, <2>1, DeadTyped DEF Crash, Phases
<1>29. ASSUME NEW d \in Speakers, UserSelects(d) PROVE TypeOK'
  BY <1>29 DEF UserSelects, TypeOK, Outputs
<1>30. CASE InstallDriver
  BY <1>30 DEF InstallDriver, TypeOK
<1>31. CASE HelloPanics
  BY <1>31 DEF HelloPanics, TypeOK
<1>32. CASE UNCHANGED vars
  BY <1>32 DEF vars, TypeOK
<1> QED
  BY <1>1, <1>2, <1>3, <1>4, <1>5, <1>6, <1>7, <1>8, <1>9, <1>10, <1>11, <1>12,
     <1>13, <1>14, <1>15, <1>16, <1>17, <1>18, <1>19, <1>20, <1>21, <1>22, <1>23,
     <1>24, <1>25, <1>26, <1>27, <1>28, <1>29, <1>30, <1>31, <1>32
  DEF Next, Request, HandlerStep, StartStep, StopStep, Recovery

\* Every variable keeps its type: no step ever stores an output, a handle or
\* a program counter that does not exist.
THEOREM TypeCorrect == Spec => []TypeOK
<1>1. Init => TypeOK
  BY TypeInit
<1>2. TypeOK /\ [Next]_vars => TypeOK'
  BY TypeStep
<1> QED
  BY <1>1, <1>2, PTL DEF Spec

(***************************************************************************)
(* The output is given back.                                               *)
(***************************************************************************)

\* A goroutine at work is the only one, and the process is serving.
LEMMA Solitary ==
  ASSUME TypeOK, Core, NEW t \in Threads, Busy(t)
  PROVE  phase = "up" /\ \A u \in Threads \ {t} : pc[u] = "idle"
  BY DEF Core, Solo, AllIdle, Busy

\* So a step of its handler preserves Core when it leaves what its next step
\* relies on, or, at the end, what an idle process looks like.
LEMMA StepAlone ==
  ASSUME TypeOK', NEW t \in Threads, phase' = "up",
         \A u \in Threads \ {t} : pc'[u] = "idle",
         IF pc'[t] = "idle" THEN (mu = None /\ (Resting \/ Streaming))'
                            ELSE (StartOK(t) /\ StopOK(t))'
  PROVE  Core'
<1>1. Solo'
  BY DEF Solo, Busy, AllIdle
<1>2. DownOK'
  BY DEF DownOK
<1>3. IdleOK'
  BY DEF IdleOK, AllIdle, Busy
<1>4. ASSUME NEW u \in Threads, pc'[u] = "idle" PROVE (StartOK(u) /\ StopOK(u))'
  BY <1>4 DEF StartOK, StopOK
<1>5. ASSUME NEW u \in Threads PROVE (StartOK(u) /\ StopOK(u))'
  BY <1>4, <1>5
<1> QED
  BY <1>1, <1>2, <1>3, <1>5 DEF Core

\* Inspect: the speakers are the owner's output, or nothing is kept.
LEMMA InspectKeeps ==
  ASSUME TypeOK, TypeOK', Core, NEW t \in Threads, Inspect(t)
  PROVE  Core'
<1>1. pc[t] = "inspect" /\ StartOK(t) /\ StopOK(t)
  BY DEF Inspect, At, Core
<1>2. phase = "up" /\ \A u \in Threads \ {t} : pc[u] = "idle"
  BY <1>1, Solitary DEF Busy
<1>3. /\ phase' = "up" /\ \A u \in Threads \ {t} : pc'[u] = "idle"
      /\ pc'[t] \in {"prev", "idle"}
  BY <1>2 DEF Inspect, Goto, TypeOK
<1>4. IF pc'[t] = "idle" THEN (mu = None /\ (Resting \/ Streaming))'
                         ELSE (StartOK(t) /\ StopOK(t))'
  <2>1. CASE driver
    <3>1. Resting /\ mu = None /\ loc[t].task = "start"
      BY <1>1 DEF StartOK
    <3>2. RealSpeakers = {home}
      BY <3>1 DEF RealSpeakers, Resting, Given, TypeOK
    <3>3. /\ loc'[t] = [loc[t] EXCEPT !.speakers = IF loc[t].audible THEN home ELSE None]
          /\ pc'[t] = "prev"
      BY <2>1, <3>2 DEF Inspect, Set, Goto, TypeOK
    <3>4. loc'[t].task = "start" /\ Chosen(loc[t])'
      <4>1. home' = home
        BY DEF Inspect, histVars
      <4> QED
        BY <3>1, <3>3, <4>1, LocTyped, SpeakersSet DEF Chosen
    <3>5. (Resting /\ mu = None)'
      BY <3>1 DEF Inspect, Resting, Quiet, Given, Closed, macVars, coreVars, capVars, histVars
    <3> QED
      BY <3>3, <3>4, <3>5 DEF StartOK, StopOK
  <2>2. CASE ~driver
    BY <1>1, <2>2 DEF Inspect, Goto, StartOK, Resting, Quiet, Given, Closed, TypeOK,
       macVars, coreVars, capVars, histVars
  <2> QED
    BY <2>1, <2>2
<1> QED
  BY <1>3, <1>4, StepAlone

\* PointOutput: from here on the output may be taal's.
LEMMA PointOutputKeeps ==
  ASSUME TypeOK, TypeOK', Core, NEW t \in Threads, PointOutput(t)
  PROVE  Core'
<1>1. pc[t] = "point" /\ StartOK(t) /\ StopOK(t)
  BY DEF PointOutput, At, Core
<1>2. phase = "up" /\ \A u \in Threads \ {t} : pc[u] = "idle"
  BY <1>1, Solitary DEF Busy
<1>3. /\ phase' = "up" /\ \A u \in Threads \ {t} : pc'[u] = "idle"
      /\ pc'[t] = "devices"
  BY <1>2 DEF PointOutput, Goto, TypeOK
<1>4. IF pc'[t] = "idle" THEN (mu = None /\ (Resting \/ Streaming))'
                         ELSE (StartOK(t) /\ StopOK(t))'
  <2>1. /\ loc[t].task = "start" /\ Quiet /\ restore = None /\ mu = None /\ loc[t].prev = home
        /\ Chosen(loc[t]) /\ Wired(loc[t].audible) /\ output = home /\ Closed
        /\ routing = {} => loc[t].target = Loopback
    BY <1>1 DEF StartOK
  <2>2. Wired(loc[t].audible)'
    <3>1. routing' = routing /\ home' = home /\ loc' = loc
      BY DEF PointOutput, histVars
    <3>2. routing = {} => output' # Routing
      BY <2>1, DevicesAssumption DEF PointOutput, SetOutput, TypeOK
    <3> QED
      BY <2>1, <3>1, <3>2 DEF Wired
  <2>3. /\ Quiet' /\ Closed' /\ loc' = loc /\ restore' = restore /\ mu' = mu /\ home' = home
    BY <2>1 DEF PointOutput, Quiet, Closed, coreVars, capVars, histVars
  <2> QED
    BY <1>3, <2>1, <2>2, <2>3 DEF StartOK, StopOK, Chosen
<1> QED
  BY <1>3, <1>4, StepAlone

\* HaltDevice: the one open device stops.
LEMMA HaltDeviceKeeps ==
  ASSUME TypeOK, TypeOK', Core, NEW t \in Threads, HaltDevice(t)
  PROVE  Core'
<1>1. pc[t] = "halt" /\ StartOK(t) /\ StopOK(t)
  BY DEF HaltDevice, At, Core
<1>2. phase = "up" /\ \A u \in Threads \ {t} : pc[u] = "idle"
  BY <1>1, Solitary DEF Busy
<1>3. /\ phase' = "up" /\ \A u \in Threads \ {t} : pc'[u] = "idle"
      /\ pc'[t] \in {"release", "open", "clear"}
  BY <1>2 DEF HaltDevice, Goto, TypeOK, AfterHalt
<1>4. IF pc'[t] = "idle" THEN (mu = None /\ (Resting \/ Streaming))'
                         ELSE (StartOK(t) /\ StopOK(t))'
  <2> DEFINE l == loc[t]
  <2>1. /\ loc' = loc /\ home' = home /\ restore' = restore /\ mu' = mu /\ dev' = dev
        /\ output' = output /\ routing' = routing /\ streaming' = streaming
        /\ prevOut' = prevOut /\ keepAudible' = keepAudible
    BY DEF HaltDevice, coreVars, histVars
  <2>2. \/ dev # None /\ pc'[t] = "release" /\ live' = live \ {dev}
        \/ dev = None /\ pc'[t] = AfterHalt(t) /\ live' = live
    BY DEF HaltDevice, Goto, TypeOK
  <2>3. CASE l.task = "start"
    <3>1. /\ Quiet /\ restore = None /\ mu = None /\ l.prev = home /\ Chosen(l)
          /\ Wired(l.audible) /\ Closed
      BY <1>1, <2>3 DEF StartOK
    <3>2. pc'[t] = "open" /\ live' = live
      BY <2>2, <2>3, <3>1 DEF AfterHalt, Closed
    <3> QED
      BY <2>1, <2>3, <3>1, <3>2 DEF StartOK, StopOK, Quiet, Chosen, Wired, Closed
  <2>4. CASE l.task = "stop"
    <3>1. mu = None /\ (Resting \/ Streaming)
      BY <1>1, <2>4 DEF StopOK
    <3>2. CASE Resting
      <4>1. pc'[t] = "clear" /\ live' = live
        BY <2>2, <2>4, <3>2 DEF AfterHalt, Resting, Closed
      <4> QED
        BY <2>1, <2>4, <3>1, <3>2, <4>1
        DEF StartOK, StopOK, Resting, Quiet, Given, Closed
    <3>3. CASE Streaming
      <4>1. pc'[t] = "release" /\ live' = {}
        BY <2>2, <3>3 DEF Streaming
      <4> QED
        BY <2>1, <2>4, <3>1, <3>3, <4>1 DEF StartOK, StopOK, Streaming, Saved, Wired
    <3> QED
      BY <3>1, <3>2, <3>3
  <2> QED
    BY <2>3, <2>4, LocTyped
<1> QED
  BY <1>3, <1>4, StepAlone

\* ReleaseDevice: and is closed.
LEMMA ReleaseDeviceKeeps ==
  ASSUME TypeOK, TypeOK', Core, NEW t \in Threads, ReleaseDevice(t)
  PROVE  Core'
<1>1. pc[t] = "release" /\ StartOK(t) /\ StopOK(t)
  BY DEF ReleaseDevice, At, Core
<1>2. phase = "up" /\ \A u \in Threads \ {t} : pc[u] = "idle"
  BY <1>1, Solitary DEF Busy
<1>3. /\ phase' = "up" /\ \A u \in Threads \ {t} : pc'[u] = "idle"
      /\ pc'[t] = "clear"
  BY <1>1, <1>2 DEF ReleaseDevice, Goto, TypeOK, AfterHalt, StopOK
<1>4. IF pc'[t] = "idle" THEN (mu = None /\ (Resting \/ Streaming))'
                         ELSE (StartOK(t) /\ StopOK(t))'
  <2>1. /\ loc' = loc /\ home' = home /\ restore' = restore /\ mu' = mu /\ dev' = None
        /\ output' = output /\ routing' = routing /\ streaming' = streaming
        /\ prevOut' = prevOut /\ keepAudible' = keepAudible /\ live' = live \ {dev}
    BY DEF ReleaseDevice, coreVars, histVars
  <2>2. loc[t].task = "stop" /\ mu = None /\ streaming /\ Saved /\ live = {}
    BY <1>1 DEF StopOK
  <2> QED
    BY <1>3, <2>1, <2>2 DEF StartOK, StopOK, Saved, Wired, Closed
<1> QED
  BY <1>3, <1>4, StepAlone

\* OpenDevice: one device is open, known to this goroutine only.
LEMMA OpenDeviceKeeps ==
  ASSUME TypeOK, TypeOK', Core, NEW t \in Threads, OpenDevice(t)
  PROVE  Core'
<1>1. pc[t] = "open" /\ StartOK(t) /\ StopOK(t)
  BY DEF OpenDevice, At, Core
<1>2. phase = "up" /\ \A u \in Threads \ {t} : pc[u] = "idle"
  BY <1>1, Solitary DEF Busy
<1>3. /\ phase' = "up" /\ \A u \in Threads \ {t} : pc'[u] = "idle"
      /\ pc'[t] \in {"keep", "fail"}
  BY <1>2 DEF OpenDevice, Goto, TypeOK
<1>4. IF pc'[t] = "idle" THEN (mu = None /\ (Resting \/ Streaming))'
                         ELSE (StartOK(t) /\ StopOK(t))'
  <2> DEFINE l == loc[t]
  <2>1. /\ l.task = "start" /\ Quiet /\ restore = None /\ mu = None /\ l.prev = home
        /\ Chosen(l) /\ Wired(l.audible) /\ Closed
    BY <1>1 DEF StartOK
  <2>2. /\ home' = home /\ restore' = restore /\ mu' = mu /\ dev' = dev /\ sink'
        /\ output' = output /\ routing' = routing /\ Quiet'
    BY <2>1 DEF OpenDevice, coreVars, histVars, Quiet
  <2>3. CASE pc'[t] = "keep"
    <3>1. PICK h \in Handles : live' = live \cup {h} /\ Set(t, [loc[t] EXCEPT !.dev = h])
      BY <2>3 DEF OpenDevice, Goto, TypeOK
    <3>2. loc'[t] = [l EXCEPT !.dev = h]
      BY <3>1 DEF Set, TypeOK
    <3>3. /\ loc'[t].dev = h /\ loc'[t].task = l.task /\ loc'[t].prev = l.prev
          /\ loc'[t].audible = l.audible /\ loc'[t].speakers = l.speakers
      BY <3>2, LocTyped DEF Locals
    <3> QED
      BY <2>1, <2>2, <2>3, <3>1, <3>3, DevicesAssumption
      DEF StartOK, StopOK, Chosen, Wired, Closed
  <2>4. CASE pc'[t] = "fail"
    <3>1. loc' = loc /\ live' = live
      BY <2>4 DEF OpenDevice, Goto, TypeOK
    <3> QED
      BY <2>1, <2>2, <2>4, <3>1 DEF StartOK, StopOK, Chosen, Wired, Closed
  <2> QED
    BY <1>3, <2>3, <2>4
<1> QED
  BY <1>3, <1>4, StepAlone

\* PutBack: the output is the owner's again.
LEMMA PutBackKeeps ==
  ASSUME TypeOK, TypeOK', Core, NEW t \in Threads, PutBack(t)
  PROVE  Core'
<1>1. pc[t] = "putBack" /\ StartOK(t) /\ StopOK(t)
  BY DEF PutBack, At, Core
<1>2. phase = "up" /\ \A u \in Threads \ {t} : pc[u] = "idle"
  BY <1>1, Solitary DEF Busy
<1>3. /\ phase' = "up" /\ \A u \in Threads \ {t} : pc'[u] = "idle"
      /\ pc'[t] = "unroute"
  BY <1>2 DEF PutBack, Goto, TypeOK
<1>4. IF pc'[t] = "idle" THEN (mu = None /\ (Resting \/ Streaming))'
                         ELSE (StartOK(t) /\ StopOK(t))'
  <2>1. /\ loc[t].task = "stop" /\ mu = None /\ Quiet /\ Closed
        /\ \/ loc[t].prev = None /\ Given
           \/ loc[t].prev = home /\ restore = home
    BY <1>1 DEF StopOK
  <2>2. output' = home
    BY <2>1, DevicesAssumption DEF PutBack, SetOutput, Exists, Given, TypeOK, Outputs
  <2>3. /\ loc' = loc /\ home' = home /\ mu' = mu /\ Quiet' /\ Closed'
    BY <2>1 DEF PutBack, coreVars, capVars, histVars, Quiet, Closed
  <2> QED
    BY <1>3, <2>1, <2>2, <2>3 DEF StartOK, StopOK
<1> QED
  BY <1>3, <1>4, StepAlone

\* ReadPrev: what is read is the owner's output.
LEMMA ReadPrevKeeps ==
  ASSUME TypeOK, TypeOK', Core, NEW t \in Threads, ReadPrev(t)
  PROVE  Core'
<1>1. pc[t] = "prev" /\ StartOK(t) /\ StopOK(t)
  BY DEF ReadPrev, At, Core
<1>2. phase = "up" /\ \A u \in Threads \ {t} : pc[u] = "idle"
  BY <1>1, Solitary DEF Busy
<1>3. /\ phase' = "up" /\ \A u \in Threads \ {t} : pc'[u] = "idle"
      /\ pc'[t] = "destroy"
  BY <1>2 DEF ReadPrev, Goto, TypeOK
<1>4. IF pc'[t] = "idle" THEN (mu = None /\ (Resting \/ Streaming))'
                         ELSE (StartOK(t) /\ StopOK(t))'
  BY <1>1, <1>3, LocTyped, DevicesAssumption
  DEF ReadPrev, StartOK, StopOK, Set, Quiet, Given, Closed, Wired, Saved, Resting, Streaming,
      Chosen, TypeOK, macVars, coreVars, capVars, histVars
<1> QED
  BY <1>3, <1>4, StepAlone

\* DestroyOld: there was no routing device.
LEMMA DestroyOldKeeps ==
  ASSUME TypeOK, TypeOK', Core, NEW t \in Threads, DestroyOld(t)
  PROVE  Core'
<1>1. pc[t] = "destroy" /\ StartOK(t) /\ StopOK(t)
  BY DEF DestroyOld, At, Core
<1>2. phase = "up" /\ \A u \in Threads \ {t} : pc[u] = "idle"
  BY <1>1, Solitary DEF Busy
<1>3. /\ phase' = "up" /\ \A u \in Threads \ {t} : pc'[u] = "idle"
      /\ pc'[t] = "create"
  BY <1>2 DEF DestroyOld, Goto, TypeOK
<1>4. IF pc'[t] = "idle" THEN (mu = None /\ (Resting \/ Streaming))'
                         ELSE (StartOK(t) /\ StopOK(t))'
  BY <1>1, <1>3, LocTyped, DevicesAssumption
  DEF DestroyOld, StartOK, StopOK, Set, Quiet, Given, Closed, Wired, Saved, Resting, Streaming,
      Chosen, TypeOK, macVars, coreVars, capVars, histVars, RemoveRouting
<1> QED
  BY <1>3, <1>4, StepAlone

\* CreateRouting: the routing device feeds what was chosen.
LEMMA CreateRoutingKeeps ==
  ASSUME TypeOK, TypeOK', Core, NEW t \in Threads, CreateRouting(t)
  PROVE  Core'
<1>1. pc[t] = "create" /\ StartOK(t) /\ StopOK(t)
  BY DEF CreateRouting, At, Core
<1>2. phase = "up" /\ \A u \in Threads \ {t} : pc[u] = "idle"
  BY <1>1, Solitary DEF Busy
<1>3. /\ phase' = "up" /\ \A u \in Threads \ {t} : pc'[u] = "idle"
      /\ pc'[t] = "point"
  BY <1>2 DEF CreateRouting, Goto, TypeOK
<1>4. IF pc'[t] = "idle" THEN (mu = None /\ (Resting \/ Streaming))'
                         ELSE (StartOK(t) /\ StopOK(t))'
  <2> DEFINE l == loc[t]
  <2>1. Resting /\ mu = None /\ Chosen(l) /\ l.prev = home /\ l.task = "start"
    BY <1>1 DEF StartOK
  <2>2. /\ home' = home /\ output' = output /\ output' = home /\ restore' = None
        /\ mu' = None /\ Quiet' /\ Closed'
    BY <2>1 DEF CreateRouting, coreVars, capVars, histVars, Resting, Quiet, Given, Closed
  <2>3. /\ loc'[t].task = "start" /\ loc'[t].prev = home /\ loc'[t].audible = l.audible
        /\ loc'[t].speakers = l.speakers
        /\ \/ /\ loc'[t].target = Routing
              /\ routing' \in {{Loopback}, {Loopback} \cup ({l.speakers} \ {None})}
           \/ loc'[t].target = Loopback /\ routing' = {}
    <3>1. \/ /\ loc'[t] = [l EXCEPT !.target = Routing]
             /\ routing' \in {{Loopback}, {Loopback} \cup ({l.speakers} \ {None})}
          \/ loc'[t] = [l EXCEPT !.target = Loopback] /\ routing' = {}
      BY <2>1 DEF CreateRouting, Set, TypeOK, Resting, Given
    <3>2. l \in Locals
      BY LocTyped
    <3> QED
      BY <2>1, <3>1, <3>2 DEF Locals
  <2>4. Wired(l.audible)'
    BY <2>1, <2>2, <2>3, DevicesAssumption DEF Wired, Chosen, TypeOK, Outputs
  <2>5. Chosen(l)'
    BY <2>1, <2>2, <2>3 DEF Chosen
  <2> QED
    BY <1>3, <2>2, <2>3, <2>4, <2>5 DEF StartOK, StopOK
<1> QED
  BY <1>3, <1>4, StepAlone

\* FindSource changes nothing but the next step.
LEMMA FindSourceKeeps ==
  ASSUME TypeOK, TypeOK', Core, NEW t \in Threads, FindSource(t)
  PROVE  Core'
<1>1. pc[t] = "devices" /\ StartOK(t) /\ StopOK(t)
  BY DEF FindSource, At, Core
<1>2. phase = "up" /\ \A u \in Threads \ {t} : pc[u] = "idle"
  BY <1>1, Solitary DEF Busy
<1>3. /\ phase' = "up" /\ \A u \in Threads \ {t} : pc'[u] = "idle"
      /\ pc'[t] \in {"halt", "fail"}
  BY <1>2 DEF FindSource, Goto, TypeOK
<1>4. IF pc'[t] = "idle" THEN (mu = None /\ (Resting \/ Streaming))'
                         ELSE (StartOK(t) /\ StopOK(t))'
  BY <1>1, <1>3, LocTyped, DevicesAssumption
  DEF FindSource, StartOK, StopOK, Set, Quiet, Given, Closed, Wired, Saved, Resting, Streaming,
      Chosen, TypeOK, macVars, coreVars, capVars, histVars
<1> QED
  BY <1>3, <1>4, StepAlone

\* KeepDevice: the open device is the one the server can close.
LEMMA KeepDeviceKeeps ==
  ASSUME TypeOK, TypeOK', Core, NEW t \in Threads, KeepDevice(t)
  PROVE  Core'
<1>1. pc[t] = "keep" /\ StartOK(t) /\ StopOK(t)
  BY DEF KeepDevice, At, Core
<1>2. phase = "up" /\ \A u \in Threads \ {t} : pc[u] = "idle"
  BY <1>1, Solitary DEF Busy
<1>3. /\ phase' = "up" /\ \A u \in Threads \ {t} : pc'[u] = "idle"
      /\ pc'[t] = "commit"
  BY <1>2 DEF KeepDevice, Goto, TypeOK
<1>4. IF pc'[t] = "idle" THEN (mu = None /\ (Resting \/ Streaming))'
                         ELSE (StartOK(t) /\ StopOK(t))'
  BY <1>1, <1>3, LocTyped, DevicesAssumption
  DEF KeepDevice, StartOK, StopOK, Set, Quiet, Given, Closed, Wired, Saved, Resting, Streaming,
      Chosen, TypeOK, macVars, coreVars, capVars, histVars
<1> QED
  BY <1>3, <1>4, StepAlone

\* Commit: the stream runs, and the way back is saved twice.
LEMMA CommitKeeps ==
  ASSUME TypeOK, TypeOK', Core, NEW t \in Threads, Commit(t)
  PROVE  Core'
<1>1. pc[t] = "commit" /\ StartOK(t) /\ StopOK(t)
  BY DEF Commit, At, Core
<1>2. phase = "up" /\ \A u \in Threads \ {t} : pc[u] = "idle"
  BY <1>1, Solitary DEF Busy
<1>3. /\ phase' = "up" /\ \A u \in Threads \ {t} : pc'[u] = "idle"
      /\ pc'[t] = "idle"
  BY <1>2 DEF Commit, Goto, TypeOK
<1>4. IF pc'[t] = "idle" THEN (mu = None /\ (Resting \/ Streaming))'
                         ELSE (StartOK(t) /\ StopOK(t))'
  BY <1>1, <1>3, LocTyped, DevicesAssumption
  DEF Commit, StartOK, StopOK, Set, Quiet, Given, Closed, Wired, Saved, Resting, Streaming,
      Chosen, TypeOK, macVars, coreVars, capVars, histVars
<1> QED
  BY <1>3, <1>4, StepAlone

\* FailPutBack: the output is the owner's again.
LEMMA FailPutBackKeeps ==
  ASSUME TypeOK, TypeOK', Core, NEW t \in Threads, FailPutBack(t)
  PROVE  Core'
<1>1. pc[t] = "fail" /\ StartOK(t) /\ StopOK(t)
  BY DEF FailPutBack, At, Core
<1>2. phase = "up" /\ \A u \in Threads \ {t} : pc[u] = "idle"
  BY <1>1, Solitary DEF Busy
<1>3. /\ phase' = "up" /\ \A u \in Threads \ {t} : pc'[u] = "idle"
      /\ pc'[t] = "failRemove"
  BY <1>2 DEF FailPutBack, Goto, TypeOK
<1>4. IF pc'[t] = "idle" THEN (mu = None /\ (Resting \/ Streaming))'
                         ELSE (StartOK(t) /\ StopOK(t))'
  BY <1>1, <1>3, LocTyped, DevicesAssumption
  DEF FailPutBack, StartOK, StopOK, Set, Quiet, Given, Closed, Wired, Saved, Resting, Streaming,
      Chosen, TypeOK, macVars, coreVars, capVars, histVars, SetOutput, Exists
<1> QED
  BY <1>3, <1>4, StepAlone

\* FailRemove: and the routing device is gone.
LEMMA FailRemoveKeeps ==
  ASSUME TypeOK, TypeOK', Core, NEW t \in Threads, FailRemove(t)
  PROVE  Core'
<1>1. pc[t] = "failRemove" /\ StartOK(t) /\ StopOK(t)
  BY DEF FailRemove, At, Core
<1>2. phase = "up" /\ \A u \in Threads \ {t} : pc[u] = "idle"
  BY <1>1, Solitary DEF Busy
<1>3. /\ phase' = "up" /\ \A u \in Threads \ {t} : pc'[u] = "idle"
      /\ pc'[t] = "idle"
  BY <1>2 DEF FailRemove, Goto, TypeOK
<1>4. IF pc'[t] = "idle" THEN (mu = None /\ (Resting \/ Streaming))'
                         ELSE (StartOK(t) /\ StopOK(t))'
  BY <1>1, <1>3, LocTyped, DevicesAssumption
  DEF FailRemove, StartOK, StopOK, Set, Quiet, Given, Closed, Wired, Saved, Resting, Streaming,
      Chosen, TypeOK, macVars, coreVars, capVars, histVars, RemoveRouting, Outputs
<1> QED
  BY <1>3, <1>4, StepAlone

\* TakePrev: the way back moves to a local variable.
LEMMA TakePrevKeeps ==
  ASSUME TypeOK, TypeOK', Core, NEW t \in Threads, TakePrev(t)
  PROVE  Core'
<1>1. pc[t] = "clear" /\ StartOK(t) /\ StopOK(t)
  BY DEF TakePrev, At, Core
<1>2. phase = "up" /\ \A u \in Threads \ {t} : pc[u] = "idle"
  BY <1>1, Solitary DEF Busy
<1>3. /\ phase' = "up" /\ \A u \in Threads \ {t} : pc'[u] = "idle"
      /\ pc'[t] = "putBack"
  BY <1>2 DEF TakePrev, Goto, TypeOK
<1>4. IF pc'[t] = "idle" THEN (mu = None /\ (Resting \/ Streaming))'
                         ELSE (StartOK(t) /\ StopOK(t))'
  BY <1>1, <1>3, LocTyped, DevicesAssumption
  DEF TakePrev, StartOK, StopOK, Set, Quiet, Given, Closed, Wired, Saved, Resting, Streaming,
      Chosen, TypeOK, macVars, coreVars, capVars, histVars
<1> QED
  BY <1>3, <1>4, StepAlone

\* Unroute: the routing device is gone.
LEMMA UnrouteKeeps ==
  ASSUME TypeOK, TypeOK', Core, NEW t \in Threads, Unroute(t)
  PROVE  Core'
<1>1. pc[t] = "unroute" /\ StartOK(t) /\ StopOK(t)
  BY DEF Unroute, At, Core
<1>2. phase = "up" /\ \A u \in Threads \ {t} : pc[u] = "idle"
  BY <1>1, Solitary DEF Busy
<1>3. /\ phase' = "up" /\ \A u \in Threads \ {t} : pc'[u] = "idle"
      /\ pc'[t] = "forget"
  BY <1>2 DEF Unroute, Goto, TypeOK
<1>4. IF pc'[t] = "idle" THEN (mu = None /\ (Resting \/ Streaming))'
                         ELSE (StartOK(t) /\ StopOK(t))'
  BY <1>1, <1>3, LocTyped, DevicesAssumption
  DEF Unroute, StartOK, StopOK, Set, Quiet, Given, Closed, Wired, Saved, Resting, Streaming,
      Chosen, TypeOK, macVars, coreVars, capVars, histVars, RemoveRouting, Outputs
<1> QED
  BY <1>3, <1>4, StepAlone

\* Forget: and the file.
LEMMA ForgetKeeps ==
  ASSUME TypeOK, TypeOK', Core, NEW t \in Threads, Forget(t)
  PROVE  Core'
<1>1. pc[t] = "forget" /\ StartOK(t) /\ StopOK(t)
  BY DEF Forget, At, Core
<1>2. phase = "up" /\ \A u \in Threads \ {t} : pc[u] = "idle"
  BY <1>1, Solitary DEF Busy
<1>3. /\ phase' = "up" /\ \A u \in Threads \ {t} : pc'[u] = "idle"
      /\ pc'[t] = "finish"
  BY <1>2 DEF Forget, Goto, TypeOK
<1>4. IF pc'[t] = "idle" THEN (mu = None /\ (Resting \/ Streaming))'
                         ELSE (StartOK(t) /\ StopOK(t))'
  BY <1>1, <1>3, LocTyped, DevicesAssumption
  DEF Forget, StartOK, StopOK, Set, Quiet, Given, Closed, Wired, Saved, Resting, Streaming,
      Chosen, TypeOK, macVars, coreVars, capVars, histVars
<1> QED
  BY <1>3, <1>4, StepAlone

\* Finish: nothing is left to do.
LEMMA FinishKeeps ==
  ASSUME TypeOK, TypeOK', Core, NEW t \in Threads, Finish(t)
  PROVE  Core'
<1>1. pc[t] = "finish" /\ StartOK(t) /\ StopOK(t)
  BY DEF Finish, At, Core
<1>2. phase = "up" /\ \A u \in Threads \ {t} : pc[u] = "idle"
  BY <1>1, Solitary DEF Busy
<1>3. /\ phase' = "up" /\ \A u \in Threads \ {t} : pc'[u] = "idle"
      /\ pc'[t] = "idle"
  BY <1>2 DEF Finish, Goto, TypeOK
<1>4. IF pc'[t] = "idle" THEN (mu = None /\ (Resting \/ Streaming))'
                         ELSE (StartOK(t) /\ StopOK(t))'
  BY <1>1, <1>3, LocTyped, DevicesAssumption
  DEF Finish, StartOK, StopOK, Set, Quiet, Given, Closed, Wired, Saved, Resting, Streaming,
      Chosen, TypeOK, macVars, coreVars, capVars, histVars
<1> QED
  BY <1>3, <1>4, StepAlone

\* RequestStart: unspoilt, it finds the server at rest.
LEMMA RequestStartKeeps ==
  ASSUME TypeOK, TypeOK', Core, NEW t \in Threads, NEW a \in BOOLEAN,
         RequestStart(t, a), ~spoilt'
  PROVE  Core'
<1>1. /\ Alone(t) /\ ~streaming /\ pc[t] = "idle"
      /\ pc' = [pc EXCEPT ![t] = "inspect"] /\ phase' = phase /\ mu' = mu
  BY DEF RequestStart, At, Goto, coreVars
<1>2. phase = "up" /\ AllIdle
  BY <1>1 DEF Alone, AllIdle, Busy
<1>3. Resting /\ mu = None
  BY <1>1, <1>2 DEF Core, IdleOK, Streaming
<1>4. loc'[t] = [NoLocals EXCEPT !.task = "start", !.audible = a]
  BY DEF RequestStart, Set, TypeOK
<1>5. loc'[t].task = "start"
  BY <1>4 DEF NoLocals
<1>6. Resting'
  BY <1>3 DEF RequestStart, Resting, Quiet, Given, Closed, macVars, coreVars, capVars, histVars
<1>7. pc'[t] = "inspect" /\ \A u \in Threads \ {t} : pc'[u] = "idle"
  BY <1>1, <1>2 DEF AllIdle, Busy, TypeOK
<1>8. (StartOK(t) /\ StopOK(t))'
  BY <1>1, <1>3, <1>5, <1>6, <1>7 DEF StartOK, StopOK
<1> QED
  BY <1>1, <1>2, <1>7, <1>8, StepAlone

\* AutoStart: unspoilt, it finds the server at rest.
LEMMA AutoStartKeeps ==
  ASSUME TypeOK, TypeOK', Core, NEW t \in Threads, AutoStart(t), ~spoilt'
  PROVE  Core'
<1>1. pc[t] = "launch" /\ StartOK(t)
  BY DEF AutoStart, At, Core
<1>2. phase = "up" /\ \A u \in Threads \ {t} : pc[u] = "idle"
  BY <1>1, Solitary DEF Busy
<1>3. Resting /\ mu = None
  BY <1>1 DEF StartOK
<1>4. Resting' /\ mu' = None /\ phase' = "up"
  BY <1>2, <1>3 DEF AutoStart, Resting, Quiet, Given, Closed, macVars, coreVars, capVars, histVars
<1>5. CASE driver
  <2>1. loc'[t] = [NoLocals EXCEPT !.task = "start", !.audible = TRUE]
    BY <1>5 DEF AutoStart, Set, TypeOK
  <2>2. loc'[t].task = "start"
    BY <2>1 DEF NoLocals
  <2>3. pc'[t] = "inspect" /\ \A u \in Threads \ {t} : pc'[u] = "idle"
    BY <1>2, <1>5 DEF AutoStart, Goto, TypeOK
  <2>4. (StartOK(t) /\ StopOK(t))'
    BY <1>4, <2>2, <2>3 DEF StartOK, StopOK
  <2> QED
    BY <1>4, <2>3, <2>4, StepAlone
<1>6. CASE ~driver
  <2>1. pc'[t] = "idle" /\ \A u \in Threads \ {t} : pc'[u] = "idle"
    BY <1>2, <1>6 DEF AutoStart, Goto, TypeOK
  <2> QED
    BY <1>4, <2>1, StepAlone
<1> QED
  BY <1>5, <1>6

\* RequestStop: unspoilt, it runs alone.
LEMMA RequestStopKeeps ==
  ASSUME TypeOK, TypeOK', Core, NEW t \in Threads, RequestStop(t), ~spoilt'
  PROVE  Core'
<1>1. /\ Alone(t) /\ pc[t] = "idle"
      /\ pc' = [pc EXCEPT ![t] = "halt"] /\ phase' = phase /\ mu' = mu
  BY DEF RequestStop, At, Goto, coreVars
<1>2. phase = "up" /\ AllIdle
  BY <1>1 DEF Alone, AllIdle, Busy
<1>3. mu = None /\ (Resting \/ Streaming)
  BY <1>2 DEF Core, IdleOK
<1>4. loc'[t].task = "stop"
  BY DEF RequestStop, Set, TypeOK, NoLocals
<1>5. (Resting \/ Streaming)'
  BY <1>3 DEF RequestStop, Resting, Quiet, Given, Closed, Streaming, Saved, Wired, macVars, coreVars, capVars, histVars
<1>6. pc'[t] = "halt" /\ \A u \in Threads \ {t} : pc'[u] = "idle"
  BY <1>1, <1>2 DEF AllIdle, Busy, TypeOK
<1>7. (StartOK(t) /\ StopOK(t))'
  BY <1>1, <1>3, <1>4, <1>5, <1>6 DEF StartOK, StopOK
<1> QED
  BY <1>1, <1>2, <1>6, <1>7, StepAlone

\* A step into a phase other than serving.
LEMMA StepDown ==
  ASSUME TypeOK', phase' # "up", \A t \in Threads : pc'[t] = "idle", DownOK'
  PROVE  Core'
<1>1. Solo' /\ IdleOK'
  BY DEF Solo, IdleOK, AllIdle, Busy
<1>2. \A t \in Threads : (StartOK(t) /\ StopOK(t))'
  BY DEF StartOK, StopOK
<1> QED
  BY <1>1, <1>2 DEF Core

\* Exit: everything was given back before.
LEMMA ExitKeeps ==
  ASSUME TypeOK, TypeOK', Core, NEW t \in Threads, Exit(t)
  PROVE  Core'
<1>1. pc[t] = "finish" /\ StopOK(t)
  BY DEF Exit, At, Core
<1>2. Resting
  BY <1>1 DEF StopOK
<1>3. DownOK' /\ phase' = "off" /\ \A u \in Threads : pc'[u] = "idle"
  BY <1>2 DEF Exit, Dies, DownOK, Resting, Quiet, Given, Closed, histVars
<1> QED
  BY <1>3, StepDown

\* The one who panics is not alone.
LEMMA PanicKeeps ==
  ASSUME TypeOK, TypeOK', Core, NEW t \in Threads, Panic(t)
  PROVE  Core'
  BY DEF Panic, At, Core, StopOK

\* Wherever the process is killed, the way back survives: Unsaved covers the
\* steps for which it does not.
LEMMA CrashKeeps ==
  ASSUME TypeOK, TypeOK', Core, Crash, ~spoilt'
  PROVE  Core'
<1>1. /\ phase' = "dead" /\ phase # "off" /\ phase # "dead"
      /\ \A t \in Threads : pc'[t] = "idle"
      /\ Quiet' /\ Closed' /\ mu' = None
      /\ output' = output /\ restore' = restore
      /\ home' = IF output \in Speakers THEN output ELSE home
      /\ output # Loopback /\ \A t \in Threads : ~Unsaved(t)
  BY DEF Crash, Dies, Quiet, Closed
<1>2. output = home \/ (output = Routing => restore = home)
  <2>1. CASE phase # "up"
    BY <1>1, <2>1 DEF Core, DownOK, TypeOK, Phases
  <2>2. CASE phase = "up" /\ AllIdle
    BY <2>2 DEF Core, IdleOK, Resting, Given, Streaming, Saved
  <2>3. CASE phase = "up" /\ ~AllIdle
    <3>1. PICK t \in Threads : pc[t] # "idle"
      BY <2>3 DEF AllIdle, Busy
    <3>2. StartOK(t) /\ StopOK(t) /\ pc[t] \in Steps /\ loc[t].task \in {"start", "stop"}
      BY LocTyped DEF Core, TypeOK
    <3>3. CASE pc[t] \in {"launch", "inspect", "prev", "destroy", "create", "point",
                          "failRemove"}
      BY <3>2, <3>3 DEF StartOK, Resting, Given
    <3>4. CASE pc[t] \in {"devices", "open", "keep", "commit", "fail"}
      BY <1>1, <3>2, <3>4 DEF StartOK, Unsaved
    <3>5. CASE pc[t] = "halt"
      BY <1>1, <3>2, <3>5 DEF StopOK, Unsaved, Resting, Given, Streaming, Saved
    <3>6. CASE pc[t] \in {"release", "clear", "putBack", "unroute", "forget", "finish"}
      BY <3>2, <3>6 DEF StopOK, Resting, Given, Saved
    <3> QED
      BY <3>1, <3>2, <3>3, <3>4, <3>5, <3>6 DEF Steps
  <2> QED
    BY <2>1, <2>2, <2>3
<1>3. output' = home' \/ (output' = Routing /\ restore' = home')
  BY <1>1, <1>2, DevicesAssumption DEF TypeOK, Outputs
<1>4. DownOK'
  BY <1>1, <1>3 DEF DownOK
<1> QED
  BY <1>1, <1>4, StepDown

\* Launch: what a dead process left is found as it was.
LEMMA LaunchKeeps ==
  ASSUME TypeOK, TypeOK', Core, Launch
  PROVE  Core'
<1>1. DownOK' /\ phase' = "restore" /\ \A t \in Threads : pc'[t] = "idle"
  BY DEF Launch, Core, Solo, AllIdle, Busy, DownOK, Quiet, Given, Closed, macVars, coreVars, capVars, histVars
<1> QED
  BY <1>1, StepDown

\* The three steps of recoverFromCrash take the way back.
LEMMA RecoveryKeeps ==
  ASSUME TypeOK, TypeOK', Core, Recovery
  PROVE  Core'
<1>1. /\ Quiet /\ Closed /\ mu = None /\ \A t \in Threads : pc[t] = "idle"
  BY DEF Recovery, RestoreOutput, DiscardFile, CleanRouting, Core, DownOK, Solo, AllIdle, Busy
<1>2. CASE RestoreOutput
  <2>1. output = home \/ (output = Routing /\ restore = home)
    BY <1>2 DEF RestoreOutput, Core, DownOK
  <2>2. output' = home'
    BY <1>2, <2>1, DevicesAssumption
    DEF RestoreOutput, SetOutput, Exists, TypeOK, Outputs, histVars
  <2>3. DownOK' /\ phase' = "discard" /\ \A t \in Threads : pc'[t] = "idle"
    BY <1>1, <1>2, <2>2 DEF RestoreOutput, DownOK, Quiet, Closed, macVars, coreVars, capVars, histVars
  <2> QED
    BY <2>3, StepDown
<1>3. CASE DiscardFile
  <2>1. DownOK' /\ phase' = "clean" /\ \A t \in Threads : pc'[t] = "idle"
    BY <1>1, <1>3 DEF DiscardFile, Core, DownOK, Quiet, Closed, macVars, coreVars, capVars, histVars
  <2> QED
    BY <2>1, StepDown
<1>4. CASE CleanRouting
  <2>1. output = home /\ restore = None
    BY <1>4 DEF CleanRouting, Core, DownOK
  <2>2. Resting' /\ mu' = None /\ phase' = "up"
    BY <1>1, <1>4, <2>1, DevicesAssumption
    DEF CleanRouting, RemoveRouting, Resting, Quiet, Given, Closed, TypeOK, Outputs, macVars, coreVars, capVars, histVars
  <2>3. pc' = [t \in Threads |-> IF t \in Launchers THEN "launch" ELSE "idle"]
    BY <1>1, <1>4 DEF CleanRouting, TypeOK
  <2>4. Solo'
    BY <2>2, <2>3, LaunchersAssumption DEF Solo, Busy
  <2>5. DownOK' /\ IdleOK'
    BY <2>2 DEF DownOK, IdleOK
  <2>6. \A t \in Threads : (StartOK(t) /\ StopOK(t))'
    BY <2>2, <2>3 DEF StartOK, StopOK
  <2> QED
    BY <2>4, <2>5, <2>6 DEF Core
<1> QED
  BY <1>2, <1>3, <1>4 DEF Recovery

\* UserSelects: the owner's choice is home, unless taal streams.
LEMMA UserSelectsKeeps ==
  ASSUME TypeOK, TypeOK', Core, NEW d \in Speakers, UserSelects(d)
  PROVE  Core'
<1>1. /\ \A t \in Threads : pc'[t] = "idle"
      /\ phase' = phase /\ mu' = mu /\ phase \in {"off", "dead", "up"} /\ AllIdle
  BY DEF UserSelects, AllIdle, Busy, coreVars
<1>2. CASE phase # "up"
  <2>1. DownOK'
    BY <1>1, <1>2 DEF UserSelects, Core, DownOK, Quiet, Given, Closed, coreVars, capVars
  <2> QED
    BY <1>1, <1>2, <2>1, StepDown
<1>3. CASE phase = "up"
  <2>1. mu = None /\ (Resting \/ Streaming)
    BY <1>1, <1>3 DEF Core, IdleOK
  <2>2. (Resting \/ Streaming)'
    BY <2>1, DevicesAssumption DEF UserSelects, Resting, Quiet, Given, Closed, Streaming,
       Saved, Wired, coreVars, capVars
  <2>3. Solo' /\ DownOK' /\ IdleOK'
    BY <1>1, <1>3, <2>1, <2>2 DEF Solo, DownOK, IdleOK, AllIdle, Busy
  <2>4. \A t \in Threads : (StartOK(t) /\ StopOK(t))'
    BY <1>1 DEF StartOK, StopOK
  <2> QED
    BY <2>3, <2>4 DEF Core
<1> QED
  BY <1>2, <1>3

\* Core mentions neither the driver nor the stuck lock.
LEMMA SameKeeps ==
  ASSUME Core, InstallDriver \/ HelloPanics \/ UNCHANGED vars
  PROVE  Core'
<1>1. /\ UNCHANGED <<output, routing, live, restore, phase, mu, streaming, prevOut>>
      /\ UNCHANGED <<keepAudible, dev, sink, pc, loc, home>>
  BY DEF InstallDriver, HelloPanics, vars, macVars, coreVars, capVars, histVars
<1>2. Solo' /\ DownOK' /\ IdleOK'
  BY <1>1 DEF Core, Solo, DownOK, IdleOK, AllIdle, Busy, Resting, Quiet, Given, Closed,
     Streaming, Saved, Wired
<1>3. ASSUME NEW t \in Threads PROVE StartOK(t)'
  <2>1. StartOK(t)
    BY DEF Core
  <2> QED
    BY <1>1, <2>1 DEF StartOK, Chosen, Resting, Quiet, Given, Closed, Wired
<1>4. ASSUME NEW t \in Threads PROVE StopOK(t)'
  <2>1. StopOK(t)
    BY DEF Core
  <2> QED
    BY <1>1, <2>1 DEF StopOK, Resting, Quiet, Given, Closed, Streaming, Saved, Wired
<1> QED
  BY <1>2, <1>3, <1>4 DEF Core

\* A process that was never started rests.
LEMMA InvInit ==
  ASSUME Init PROVE IInv
<1>1. Quiet /\ Closed /\ Given /\ mu = None /\ phase = "off"
  BY DEF Init, Quiet, Closed, Given
<1>2. \A t \in Threads : pc[t] = "idle"
  BY DEF Init
<1>3. Solo /\ DownOK /\ IdleOK
  BY <1>1, <1>2 DEF Solo, DownOK, IdleOK, AllIdle, Busy
<1>4. \A t \in Threads : StartOK(t) /\ StopOK(t)
  BY <1>2 DEF StartOK, StopOK
<1> QED
  BY <1>3, <1>4, TypeInit DEF IInv, Core

\* What is spoilt stays spoilt.
LEMMA SpoiltStays ==
  ASSUME [Next]_vars, ~spoilt' PROVE ~spoilt
  BY DEF Next, Request, RequestStart, AutoStart, RequestStop, HandlerStep, StartStep, StopStep,
         Inspect, ReadPrev, DestroyOld, CreateRouting, PointOutput, FindSource, HaltDevice,
         ReleaseDevice, Panic, OpenDevice, KeepDevice, Commit, FailPutBack, FailRemove, TakePrev,
         PutBack, Unroute, Forget, Finish, Exit, Crash, Launch, Recovery, RestoreOutput,
         DiscardFile, CleanRouting, UserSelects, InstallDriver, HelloPanics, vars, histVars

\* Every step keeps the invariant: nothing is left to keep once a spoiling
\* event has happened.
LEMMA InvStep ==
  ASSUME IInv, [Next]_vars PROVE IInv'
<1> SUFFICES ASSUME ~spoilt' PROVE Core'
  BY TypeStep DEF IInv
<1>1. TypeOK /\ TypeOK'
  BY TypeStep DEF IInv
<1>2. ~spoilt
  BY SpoiltStays
<1>3. Core
  BY <1>2 DEF IInv
<1>4. ASSUME NEW t \in Threads, Request(t) PROVE Core'
  BY <1>1, <1>3, <1>4, RequestStartKeeps, AutoStartKeeps, RequestStopKeeps DEF Request
<1>5. ASSUME NEW t \in Threads, StartStep(t) PROVE Core'
  BY <1>1, <1>3, <1>5, InspectKeeps, ReadPrevKeeps, DestroyOldKeeps, CreateRoutingKeeps,
     PointOutputKeeps, FindSourceKeeps, OpenDeviceKeeps, KeepDeviceKeeps, CommitKeeps,
     FailPutBackKeeps, FailRemoveKeeps DEF StartStep
<1>6. ASSUME NEW t \in Threads, StopStep(t) PROVE Core'
  BY <1>1, <1>3, <1>6, TakePrevKeeps, PutBackKeeps, UnrouteKeeps, ForgetKeeps, FinishKeeps,
     ExitKeeps DEF StopStep
<1>7. ASSUME NEW t \in Threads, HaltDevice(t) \/ ReleaseDevice(t) \/ Panic(t) PROVE Core'
  BY <1>1, <1>3, <1>7, HaltDeviceKeeps, ReleaseDeviceKeeps, PanicKeeps
<1>8. CASE Launch \/ Recovery \/ Crash
  BY <1>1, <1>3, <1>8, LaunchKeeps, RecoveryKeeps, CrashKeeps
<1>9. CASE \E d \in Speakers : UserSelects(d)
  BY <1>1, <1>3, <1>9, UserSelectsKeeps
<1>10. CASE InstallDriver \/ HelloPanics \/ UNCHANGED vars
  BY <1>3, <1>10, SameKeeps
<1> QED
  BY <1>4, <1>5, <1>6, <1>7, <1>8, <1>9, <1>10 DEF Next, HandlerStep

\* Whenever taal is not streaming and nothing is in progress the mac plays
\* where its owner wanted, and no trace of taal is left.
THEOREM OutputIsGivenBack == Spec => []GivenBack
<1>1. Init => IInv
  BY InvInit
<1>2. IInv /\ [Next]_vars => IInv'
  BY InvStep
<1>3. IInv => GivenBack
  BY DEF IInv, GivenBack, Core, DownOK, IdleOK, Resting, Quiet, Given, Closed, Streaming
<1> QED
  BY <1>1, <1>2, <1>3, PTL DEF Spec

\* However taal is killed, the next launch can find the way back.
THEOREM KillsAreRecoverable == Spec => []Recoverable
<1>1. Init => IInv
  BY InvInit
<1>2. IInv /\ [Next]_vars => IInv'
  BY InvStep
<1>3. IInv => Recoverable
  BY DEF IInv, Recoverable, Core, DownOK
<1> QED
  BY <1>1, <1>2, <1>3, PTL DEF Spec

\* A running stream has its one capture device and its way back, and plays to
\* no speakers but the owner's, and to those only if it was asked to.
THEOREM StreamsAreWhole == Spec => []StreamIsWhole
<1>1. Init => IInv
  BY InvInit
<1>2. IInv /\ [Next]_vars => IInv'
  BY InvStep
<1>3. IInv => StreamIsWhole
  BY DEF IInv, StreamIsWhole, Core, DownOK, IdleOK, Resting, Quiet, Closed, Streaming, Saved,
         Wired
<1> QED
  BY <1>1, <1>2, <1>3, PTL DEF Spec

(***************************************************************************)
(* StreamControl implements OutputLoan.                                    *)
(***************************************************************************)
Rests == phase \in {"off", "up"} /\ AllIdle /\ ~streaming

\* How the output stands, one case at a time.
LEMMA StandingIs ==
  ASSUME TypeOK
  PROVE  /\ spoilt => Standing = "lost"
         /\ ~spoilt /\ Rests => Standing = "none"
         /\ ~spoilt /\ ~Rests => Standing = "lent"
  BY DEF Standing, Rests, TypeOK

\* The same of the state after a step.
LEMMA StandingWillBe ==
  ASSUME TypeOK'
  PROVE  /\ spoilt' => Standing' = "lost"
         /\ ~spoilt' /\ Rests' => Standing' = "none"
         /\ ~spoilt' /\ ~Rests' => Standing' = "lent"
  BY DEF Standing, Rests, TypeOK

\* The person at the mac and a kill apart, nobody changes whose output it is.
LEMMA HomeStays ==
  ASSUME [Next]_vars, ~Crash, ~\E d \in Speakers : UserSelects(d)
  PROVE  home' = home
  BY DEF Next, Request, RequestStart, AutoStart, RequestStop, HandlerStep, StartStep, StopStep,
         Inspect, ReadPrev, DestroyOld, CreateRouting, PointOutput, FindSource, HaltDevice,
         ReleaseDevice, Panic, OpenDevice, KeepDevice, Commit, FailPutBack, FailRemove, TakePrev,
         PutBack, Unroute, Forget, Finish, Exit, Launch, Recovery, RestoreOutput,
         DiscardFile, CleanRouting, InstallDriver, HelloPanics, vars, histVars

\* A step of a handler is taken by a goroutine at work.
LEMMA HandlersAreBusy ==
  ASSUME NEW t \in Threads, HandlerStep(t) PROVE Busy(t)
  BY DEF HandlerStep, StartStep, StopStep, At, Busy, Inspect, ReadPrev, DestroyOld, CreateRouting,
         PointOutput, FindSource, HaltDevice, ReleaseDevice, Panic, OpenDevice, KeepDevice,
         Commit, FailPutBack, FailRemove, TakePrev, PutBack, Unroute, Forget, Finish, Exit

\* So the first step of a loan leaves the output alone.
LEMMA FirstStepMovesNothing ==
  ASSUME [Next]_vars, Rests, ~\E d \in Speakers : UserSelects(d)
  PROVE  output' = output
<1>1. ASSUME NEW t \in Threads, Request(t) PROVE output' = output
  BY <1>1 DEF Request, RequestStart, AutoStart, RequestStop, macVars
<1>2. ASSUME NEW t \in Threads PROVE ~HandlerStep(t)
  BY HandlersAreBusy DEF Rests, AllIdle
<1>3. CASE Launch \/ Crash \/ InstallDriver \/ HelloPanics \/ UNCHANGED vars
  BY <1>3 DEF Launch, Crash, Dies, InstallDriver, HelloPanics, vars, macVars
<1>4. ~Recovery
  BY DEF Recovery, RestoreOutput, DiscardFile, CleanRouting, Rests
<1> QED
  BY <1>1, <1>2, <1>3, <1>4 DEF Next

\* Every step is one of a loan, or changes nothing its owner could see.
LEMMA LoanStep ==
  ASSUME IInv, IInv', [Next]_vars
  PROVE  [Loan!Next]_<<home, output, Standing>>
<1> USE DEF Loan!Next
<1>1. TypeOK /\ TypeOK'
  BY DEF IInv
<1>2. (~spoilt /\ Rests => output = home) /\ (~spoilt /\ Rests => output = home)'
  BY DEF IInv, Core, DownOK, IdleOK, Rests, Resting, Given, Streaming
<1>3. CASE spoilt'
  <2>1. Standing' = "lost"
    BY <1>1, <1>3, StandingWillBe
  <2> QED
    BY <2>1 DEF Loan!Lose
<1>4. CASE ~spoilt' /\ \E d \in Speakers : UserSelects(d)
  <2>1. PICK d \in Speakers : UserSelects(d)
    BY <1>4
  <2>2. /\ output' = d /\ home' = IF streaming THEN home ELSE d
        /\ spoilt' = spoilt /\ streaming' = streaming /\ (Rests' <=> Rests)
    BY <2>1 DEF UserSelects, Rests, AllIdle, Busy, coreVars
  <2>3. Standing' = Standing
    BY <1>1, <2>2, StandingIs, StandingWillBe
  <2>4. CASE streaming
    <3>1. Standing = "lent"
      BY <1>1, <1>4, <2>2, <2>4, StandingIs DEF Rests
    <3> QED
      BY <1>1, <2>2, <2>3, <2>4, <3>1 DEF Loan!Use, TypeOK
  <2>5. CASE ~streaming
    BY <2>1, <2>2, <2>3, <2>5 DEF Loan!Choose
  <2> QED
    BY <2>4, <2>5
<1>5. CASE ~spoilt' /\ Crash
  <2>1. /\ output' = output /\ home' = IF output \in Speakers THEN output ELSE home
        /\ ~spoilt /\ ~Rests'
    BY <1>5 DEF Crash, Dies, Rests
  <2>2. Standing' = "lent"
    BY <1>1, <1>5, <2>1, StandingWillBe
  <2>3. CASE Rests
    <3>1. Standing = "none" /\ home' = home
      BY <1>1, <1>2, <2>1, <2>3, StandingIs
    <3> QED
      BY <2>1, <2>2, <3>1 DEF Loan!Lend
  <2>4. CASE ~Rests
    <3>1. Standing = "lent"
      BY <1>1, <2>1, <2>4, StandingIs
    <3> QED
      BY <2>1, <2>2, <3>1 DEF Loan!Keep
  <2> QED
    BY <2>3, <2>4
<1>6. CASE ~spoilt' /\ ~Crash /\ ~\E d \in Speakers : UserSelects(d)
  <2>1. home' = home /\ output' \in Outputs
    BY <1>1, <1>6, HomeStays DEF TypeOK
  <2>2. ~spoilt
    BY <1>6, SpoiltStays
  <2>3. CASE Rests
    <3>1. output' = output /\ Standing = "none"
      BY <1>1, <1>6, <2>2, <2>3, FirstStepMovesNothing, StandingIs
    <3>2. CASE Rests'
      BY <1>1, <1>6, <2>1, <3>1, <3>2, StandingWillBe
    <3>3. CASE ~Rests'
      BY <1>1, <1>6, <2>1, <3>1, <3>3, StandingWillBe DEF Loan!Lend
    <3> QED
      BY <3>2, <3>3
  <2>4. CASE ~Rests
    <3>1. Standing = "lent"
      BY <1>1, <2>2, <2>4, StandingIs
    <3>2. CASE Rests'
      <4>1. Standing' = "none" /\ output' = home
        BY <1>1, <1>2, <1>6, <2>1, <3>2, StandingWillBe
      <4> QED
        BY <2>1, <3>1, <4>1 DEF Loan!GiveBack
    <3>3. CASE ~Rests'
      <4>1. Standing' = "lent"
        BY <1>1, <1>6, <3>3, StandingWillBe
      <4> QED
        BY <2>1, <3>1, <4>1 DEF Loan!Use
    <3> QED
      BY <3>2, <3>3
  <2> QED
    BY <2>3, <2>4
<1> QED
  BY <1>3, <1>4, <1>5, <1>6

\* startStream, stopStream and recoverFromCrash are a loan of the output, for
\* any number of goroutines, speakers and lives.
THEOREM LoanIsImplemented == Spec => LoanIsKept
<1>1. Init => Loan!Init
  BY TypeInit, StandingIs DEF Init, Loan!Init, Rests, AllIdle, Busy
<1>2. Init => IInv
  BY InvInit
<1>3. IInv /\ [Next]_vars => IInv'
  BY InvStep
<1>4. IInv /\ IInv' /\ [Next]_vars => [Loan!Next]_<<home, output, Standing>>
  BY LoanStep
<1> QED
  BY <1>1, <1>2, <1>3, <1>4, PTL DEF Spec, LoanIsKept, Loan!Spec

(***************************************************************************)
(* A launch starts clean, whatever came before.                            *)
(***************************************************************************)
StopSteps == {"idle", "halt", "release", "clear", "putBack", "unroute", "forget", "finish"}

\* Outside the serving phase nothing is captured, and the only goroutine that
\* may be at work is on its way through stopStream.
OnlyStops ==
  phase # "up" =>
    /\ live = {}
    /\ \A t \in Threads : /\ pc[t] \in StopSteps
                          /\ pc[t] \in {"halt", "release"} => loc[t].task = "stop"

Fresh == Exists(output) /\ OnlyStops /\ (phase = "clean" => restore = None)

\* setOutput and removeRouting leave the mac on a device that exists.
LEMMA OutputExists ==
  ASSUME Exists(output), driver' = driver,
         (routing' = routing /\ \E d : SetOutput(d)) \/ RemoveRouting
  PROVE  Exists(output)'
BY DevicesAssumption DEF Exists, SetOutput, RemoveRouting

\* A step of startStream is not taken outside the serving phase.
LEMMA StartsServe ==
  ASSUME TypeOK, Fresh, NEW t \in Threads, StartStep(t)
  PROVE  phase = "up"
BY DEF Fresh, OnlyStops, StopSteps, StartStep, At, Inspect, ReadPrev, DestroyOld, CreateRouting,
       PointOutput, FindSource, OpenDevice, KeepDevice, Commit, FailPutBack, FailRemove

\* A step of startStream leaves an output that exists.
LEMMA StartsFresh ==
  ASSUME TypeOK, Fresh, NEW t \in Threads, StartStep(t)
  PROVE  Fresh' /\ phase' = "up"
<1> USE DEF macVars, coreVars, capVars, histVars
<1>1. phase = "up" /\ phase' = phase
  BY StartsServe DEF StartStep, Inspect, ReadPrev, DestroyOld, CreateRouting, PointOutput,
                     FindSource, OpenDevice, KeepDevice, Commit, FailPutBack, FailRemove
<1>2. CASE DestroyOld(t) \/ PointOutput(t) \/ FailPutBack(t) \/ FailRemove(t)
  BY <1>1, <1>2, OutputExists
  DEF Fresh, OnlyStops, DestroyOld, PointOutput, FailPutBack, FailRemove
<1>3. CASE CreateRouting(t)
  BY <1>1, <1>3 DEF Fresh, OnlyStops, CreateRouting, Exists
<1>4. CASE Inspect(t) \/ ReadPrev(t) \/ FindSource(t) \/ OpenDevice(t) \/ KeepDevice(t)
           \/ Commit(t)
  <2>1. UNCHANGED <<output, routing, driver>>
    BY <1>4 DEF Inspect, ReadPrev, FindSource, OpenDevice, KeepDevice, Commit
  <2> QED
    BY <1>1, <2>1 DEF Fresh, OnlyStops, Exists
<1> QED
  BY <1>1, <1>2, <1>3, <1>4 DEF StartStep

\* A goroutine that moves on within stopStream stays within it.
LEMMA StopsOn ==
  ASSUME TypeOK, Fresh, NEW t \in Threads, NEW s \in StopSteps, Goto(t, s), phase' = phase,
         live' \subseteq live,
         loc' = loc \/ Set(t, NoLocals) \/ s \notin {"halt", "release"},
         \A u \in Threads \ {t} : loc'[u] = loc[u],
         s \in {"halt", "release"} => loc'[t].task = "stop" \/ phase = "up"
  PROVE  OnlyStops'
BY DEF Fresh, OnlyStops, Goto, TypeOK

\* stopStream, wherever it runs, does so too.
LEMMA StopsFresh ==
  ASSUME TypeOK, Fresh, NEW t \in Threads, StopStep(t) \/ HaltDevice(t) \/ ReleaseDevice(t)
                                           \/ Panic(t)
  PROVE  Fresh' /\ (phase' = phase \/ phase' # "up")
<1> USE DEF macVars, coreVars, capVars, histVars, StopSteps
<1>1. CASE TakePrev(t)
  <2>1. \A u \in Threads \ {t} : loc'[u] = loc[u]
    BY <1>1 DEF TakePrev, Set, TypeOK
  <2>2. OnlyStops'
    BY <1>1, <2>1, StopsOn DEF TakePrev
  <2> QED
    BY <1>1, <2>2 DEF TakePrev, Fresh, Exists
<1>2. CASE PutBack(t)
  <2>1. OnlyStops'
    BY <1>2, StopsOn DEF PutBack
  <2> QED
    BY <1>2, <2>1, OutputExists DEF PutBack, Fresh, Exists
<1>3. CASE Unroute(t)
  <2>1. OnlyStops'
    BY <1>3, StopsOn DEF Unroute
  <2> QED
    BY <1>3, <2>1, OutputExists DEF Unroute, Fresh
<1>4. CASE Forget(t)
  <2>1. OnlyStops'
    BY <1>4, StopsOn DEF Forget
  <2> QED
    BY <1>4, <2>1 DEF Forget, Fresh, Exists
<1>5. CASE Finish(t)
  <2>1. \A u \in Threads \ {t} : loc'[u] = loc[u]
    BY <1>5 DEF Finish, Set, TypeOK
  <2>2. OnlyStops'
    BY <1>5, <2>1, StopsOn DEF Finish
  <2> QED
    BY <1>5, <2>2 DEF Finish, Fresh, Exists
<1>6. CASE Exit(t)
  BY <1>6 DEF Exit, Dies, Fresh, OnlyStops, Exists
<1>7. CASE HaltDevice(t)
  <2>1. live' \subseteq live /\ loc' = loc /\ UNCHANGED <<output, routing, driver, restore, phase>>
    BY <1>7 DEF HaltDevice
  <2>2. PICK s \in {"release", AfterHalt(t)} : Goto(t, s)
    BY <1>7 DEF HaltDevice
  <2>3. phase # "up" => loc[t].task = "stop" /\ s \in StopSteps
    BY <1>7, <2>2 DEF HaltDevice, At, Fresh, OnlyStops, AfterHalt
  <2>4. OnlyStops'
    <3>1. CASE phase = "up"
      BY <3>1, <2>1 DEF OnlyStops
    <3>2. CASE phase # "up"
      BY <3>2, <2>1, <2>2, <2>3, StopsOn
    <3> QED
      BY <3>1, <3>2
  <2> QED
    BY <2>1, <2>4 DEF Fresh, Exists
<1>8. CASE ReleaseDevice(t)
  <2>1. /\ live' \subseteq live /\ loc' = loc /\ UNCHANGED <<output, routing, driver, restore, phase>>
        /\ Goto(t, AfterHalt(t))
    BY <1>8 DEF ReleaseDevice
  <2>2. phase # "up" => AfterHalt(t) = "clear"
    BY <1>8 DEF ReleaseDevice, At, Fresh, OnlyStops, AfterHalt
  <2>3. OnlyStops'
    <3>1. CASE phase = "up"
      BY <3>1, <2>1 DEF OnlyStops
    <3>2. CASE phase # "up"
      BY <3>2, <2>1, <2>2, StopsOn
    <3> QED
      BY <3>1, <3>2
  <2> QED
    BY <2>1, <2>3 DEF Fresh, Exists
<1>9. CASE Panic(t)
  <2>1. CASE Dies("dead")
    BY <1>9, <2>1 DEF Dies, Fresh, OnlyStops, Exists
  <2>2. CASE ~Dies("dead")
    <3>1. /\ Goto(t, "idle") /\ Set(t, NoLocals)
          /\ UNCHANGED <<macVars, restore, phase, coreVars, capVars>>
      BY <1>9, <2>2 DEF Panic
    <3>2. \A u \in Threads \ {t} : loc'[u] = loc[u]
      BY <3>1 DEF Set, TypeOK
    <3>3. OnlyStops'
      BY <3>1, <3>2, StopsOn
    <3> QED
      BY <3>1, <3>3 DEF Fresh, Exists
  <2> QED
    BY <2>1, <2>2
<1> QED
  BY <1>1, <1>2, <1>3, <1>4, <1>5, <1>6, <1>7, <1>8, <1>9 DEF StopStep

\* Requests, death, launch and recovery.
LEMMA RestFresh ==
  ASSUME TypeOK, Fresh,
         \/ \E t \in Threads : Request(t)
         \/ Launch \/ Recovery \/ Crash
         \/ \E d \in Speakers : UserSelects(d)
         \/ InstallDriver \/ HelloPanics
         \/ UNCHANGED vars
  PROVE  Fresh' /\ (phase # "up" /\ phase' = "up" => Clean')
<1> USE DEF macVars, coreVars, capVars, histVars, StopSteps
<1>1. ASSUME NEW t \in Threads, Request(t)
      PROVE  Fresh' /\ phase' = phase
  <2>1. UNCHANGED <<macVars, restore, phase>>
    BY <1>1 DEF Request, RequestStart, AutoStart, RequestStop
  <2>2. OnlyStops'
    <3>1. CASE phase = "up"
      BY <3>1, <2>1 DEF OnlyStops
    <3>2. CASE phase # "up"
      <4>1. RequestStop(t)
        BY <1>1, <3>2 DEF Request, RequestStart, AutoStart, At, Fresh, OnlyStops
      <4>2. Goto(t, "halt") /\ Set(t, NoLocals)
        BY <4>1 DEF RequestStop
      <4>3. /\ \A u \in Threads \ {t} : loc'[u] = loc[u]
            /\ loc'[t].task = "stop"
        BY <4>2 DEF Set, TypeOK, NoLocals
      <4> QED
        BY <2>1, <4>2, <4>3, StopsOn
    <3> QED
      BY <3>1, <3>2
  <2> QED
    BY <2>1, <2>2 DEF Fresh, Exists
<1>2. CASE Launch
  BY <1>2 DEF Launch, Fresh, OnlyStops, Exists
<1>3. CASE RestoreOutput
  <2>1. UNCHANGED <<routing, driver, live, pc, loc>> /\ phase' = "discard" /\ phase = "restore"
    BY <1>3 DEF RestoreOutput
  <2>2. Exists(output)'
    BY <1>3, <2>1, OutputExists DEF RestoreOutput, Fresh, Exists
  <2> QED
    BY <2>1, <2>2 DEF Fresh, OnlyStops
<1>4. CASE DiscardFile
  BY <1>4 DEF DiscardFile, Fresh, OnlyStops, Exists
<1>5. CASE CleanRouting
  <2>1. /\ phase = "clean" /\ phase' = "up" /\ RemoveRouting
        /\ UNCHANGED <<driver, live, restore>>
    BY <1>5 DEF CleanRouting
  <2>2. Exists(output)'
    BY <2>1, OutputExists DEF Fresh
  <2>3. routing' = {} /\ restore' = None /\ live' = {}
    BY <2>1 DEF RemoveRouting, Fresh, OnlyStops
  <2> QED
    BY <2>1, <2>2, <2>3 DEF Fresh, OnlyStops, Clean
<1>6. CASE Crash
  BY <1>6 DEF Crash, Dies, Fresh, OnlyStops, Exists
<1>7. CASE \E d \in Speakers : UserSelects(d)
  BY <1>7 DEF UserSelects, Fresh, OnlyStops, Exists
<1>8. CASE InstallDriver \/ HelloPanics
  BY <1>8 DEF InstallDriver, HelloPanics, Fresh, OnlyStops, Exists
<1>9. CASE UNCHANGED vars
  BY <1>9 DEF vars, Fresh, OnlyStops, Exists
<1> QED
  BY <1>1, <1>2, <1>3, <1>4, <1>5, <1>6, <1>7, <1>8, <1>9 DEF Recovery

\* When recoverFromCrash returns there is no device left over, no file and
\* no open capture device, and the output exists: for every history, those
\* in which handlers overlap or taal is killed at the worst moment included.
THEOREM LaunchIsClean == Spec => FreshStart
<1>1. Init => TypeOK /\ Fresh
  BY TypeInit DEF Init, Fresh, Exists, OnlyStops, StopSteps
<1>2. TypeOK /\ Fresh /\ [Next]_vars => (TypeOK /\ Fresh)'
  BY TypeStep, StartsFresh, StopsFresh, RestFresh DEF Next, HandlerStep
<1>3. TypeOK /\ Fresh /\ [Next]_vars => [phase # "up" /\ phase' = "up" => Clean']_vars
  BY StartsFresh, StartsServe, StopsFresh, RestFresh DEF Next, HandlerStep
<1> QED
  BY <1>1, <1>2, <1>3, PTL DEF Spec, FreshStart

(***************************************************************************)
(* A signal gets through.                                                  *)
(***************************************************************************)

\* The signal goroutine is in stopStream, and nowhere else.
SignalsStop ==
  \A t \in Signals : /\ pc[t] \in StopSteps
                     /\ pc[t] \in {"halt", "release"} => loc[t].task = "stop"

\* What comes after each step of stopStream.
Onward == {<<"halt", "release">>, <<"halt", "clear">>, <<"release", "clear">>,
           <<"clear", "putBack">>, <<"putBack", "unroute">>, <<"unroute", "forget">>,
           <<"forget", "finish">>}

\* The safety half of SignalEnds: no step of anybody takes the signal goroutine
\* back, or out of its stopStream before the process ends.
On(t) ==
  \/ pc'[t] = pc[t]
  \/ <<pc[t], pc'[t]>> \in Onward
  \/ phase' \in {"off", "dead"}
SignalGoesOn == [][\A t \in Signals : pc[t] # "idle" => On(t)]_vars

\* A step of one goroutine leaves the others where they are.
LEMMA OthersWait ==
  ASSUME TypeOK, NEW t \in Threads, NEW s \in Steps, Goto(t, s)
  PROVE  pc'[t] = s /\ \A u \in Threads \ {t} : pc'[u] = pc[u]
  BY DEF TypeOK, Goto

\* A request moves its own goroutine only, and the signal's is to stop.
LEMMA RequestMoves ==
  ASSUME NEW t \in Threads, Request(t)
  PROVE  /\ \E s : Goto(t, s)
         /\ loc' = loc \/ \E l : Set(t, l)
         /\ t \in Signals => RequestStop(t)
<1>1. ASSUME NEW a \in BOOLEAN, RequestStart(t, a)
      PROVE  t \in Pages /\ (\E s : Goto(t, s)) /\ (\E l : Set(t, l))
  BY <1>1, Zenon DEF RequestStart
<1>2. CASE AutoStart(t)
  <2>1. t \in Launchers
    BY <1>2, Zenon DEF AutoStart
  <2>2. /\ \E s : Goto(t, s)
        /\ loc' = loc \/ \E l : Set(t, l)
    <3>1. CASE driver
      BY <1>2, <3>1, Zenon DEF AutoStart
    <3>2. CASE ~driver
      BY <1>2, <3>2, Zenon DEF AutoStart
    <3> QED
      BY <3>1, <3>2
  <2> QED
    BY <2>1, <2>2, ThreadsAssumption
<1>3. CASE RequestStop(t)
  BY <1>3, Zenon DEF RequestStop
<1> QED
  BY <1>1, <1>2, <1>3, ThreadsAssumption DEF Request

\* What the signal goroutine does next is a step of stopStream, or the end.
LEMMA SignalsNext ==
  ASSUME TypeOK, SignalsStop, NEW t \in Signals, Request(t) \/ HandlerStep(t)
  PROVE  \/ phase' \in {"off", "dead"} /\ \E how \in Phases : Dies(how)
         \/ /\ pc[t] = "idle" /\ Goto(t, "halt") /\ loc'[t].task = "stop"
         \/ /\ \E s \in Steps : Goto(t, s) /\ <<pc[t], s>> \in Onward
            /\ pc'[t] = "release" => loc'[t] = loc[t]
<1> USE ThreadsAssumption DEF StopSteps, Onward, Threads
<1>1. CASE Request(t)
  <2>1. RequestStop(t)
    BY <1>1, RequestMoves
  <2>2. pc[t] = "idle" /\ Goto(t, "halt") /\ Set(t, NoLocals)
    BY <2>1 DEF RequestStop, At
  <2>3. loc'[t] = NoLocals
    BY <2>2 DEF Set, TypeOK
  <2> QED
    BY <2>2, <2>3 DEF NoLocals
<1>2. CASE StartStep(t)
  BY <1>2 DEF SignalsStop, StartStep, At, Inspect, ReadPrev, DestroyOld, CreateRouting,
              PointOutput, FindSource, OpenDevice, KeepDevice, Commit, FailPutBack, FailRemove
<1>3. CASE HaltDevice(t) \/ ReleaseDevice(t)
  BY <1>3 DEF SignalsStop, HaltDevice, ReleaseDevice, AfterHalt, At, Steps
<1>4. CASE Panic(t) \/ Exit(t)
  BY <1>4 DEF Panic, Exit, Dies, Phases
<1>5. CASE TakePrev(t) \/ PutBack(t) \/ Unroute(t) \/ Forget(t)
  BY <1>5, OthersWait DEF TakePrev, PutBack, Unroute, Forget, At, Steps
<1>6. CASE Finish(t)
  BY <1>6 DEF Finish
<1> QED
  BY <1>1, <1>2, <1>3, <1>4, <1>5, <1>6 DEF HandlerStep, StopStep

\* Whatever another goroutine does, short of ending the process, leaves the
\* signal goroutine alone.
LEMMA SignalsWait ==
  ASSUME TypeOK, NEW t \in Signals, NEW u \in Threads \ {t}, Request(u) \/ HandlerStep(u)
  PROVE  \/ phase' \in {"off", "dead"} /\ \E how \in Phases : Dies(how)
         \/ pc'[t] = pc[t] /\ loc'[t] = loc[t]
<1> USE DEF macVars, coreVars, capVars, histVars
<1>0. t \in Threads
  BY DEF Threads
<1>1. ASSUME NEW s, Goto(u, s) PROVE pc'[t] = pc[t]
  BY <1>0, <1>1 DEF Goto, TypeOK
<1>2. ASSUME NEW l, Set(u, l) PROVE loc'[t] = loc[t]
  BY <1>0, <1>2 DEF Set, TypeOK
<1>3. CASE Request(u)
  BY <1>1, <1>2, <1>3, RequestMoves
<1>4. CASE Inspect(u) \/ ReadPrev(u) \/ DestroyOld(u) \/ CreateRouting(u) \/ PointOutput(u)
  BY <1>1, <1>2, <1>4 DEF Inspect, ReadPrev, DestroyOld, CreateRouting, PointOutput
<1>5. CASE \/ FindSource(u) \/ OpenDevice(u) \/ KeepDevice(u) \/ Commit(u) \/ FailPutBack(u)
           \/ FailRemove(u)
  BY <1>1, <1>2, <1>5 DEF FindSource, OpenDevice, KeepDevice, Commit, FailPutBack, FailRemove
<1>6. CASE \/ HaltDevice(u) \/ ReleaseDevice(u) \/ TakePrev(u) \/ PutBack(u) \/ Unroute(u)
           \/ Forget(u) \/ Finish(u)
  BY <1>1, <1>2, <1>6 DEF HaltDevice, ReleaseDevice, TakePrev, PutBack, Unroute, Forget, Finish
<1>7. CASE Panic(u) \/ Exit(u)
  BY <1>1, <1>2, <1>7 DEF Panic, Exit, Dies, Phases
<1> QED
  BY <1>3, <1>4, <1>5, <1>6, <1>7 DEF HandlerStep, StartStep, StopStep

\* Ctrl-c is never lost on the way: whatever handlers, other signals, a launch,
\* a hello that panics and the person at the mac do meanwhile, where the signal
\* goroutine goes from a step of stopStream is the next one or the end of the
\* process (restore.go:92-98).
THEOREM SignalIsHeard == Spec => SignalGoesOn
<1>1. Init => SignalsStop
  BY DEF Init, SignalsStop, StopSteps, Threads
<1>2. TypeOK /\ SignalsStop /\ [Next]_vars
        => SignalsStop' /\ [\A t \in Signals : pc[t] # "idle" => On(t)]_vars
  <2> SUFFICES ASSUME TypeOK, SignalsStop, [Next]_vars
               PROVE  SignalsStop' /\ \A t \in Signals : pc[t] # "idle" => On(t)
    OBVIOUS
  <2>1. ASSUME NEW how \in Phases, Dies(how) PROVE SignalsStop'
    BY <2>1 DEF Dies, SignalsStop, StopSteps, Threads
  <2>2. ASSUME NEW u \in Threads, Request(u) \/ HandlerStep(u),
               ~(phase' \in {"off", "dead"} /\ \E how \in Phases : Dies(how)),
               NEW t \in Signals
        PROVE  /\ pc'[t] \in StopSteps
               /\ pc'[t] \in {"halt", "release"} => loc'[t].task = "stop"
               /\ pc[t] # "idle" => On(t)
    <3>1. CASE u # t
      <4>1. pc'[t] = pc[t] /\ loc'[t] = loc[t]
        BY <2>2, <3>1, SignalsWait
      <4> QED
        BY <4>1 DEF SignalsStop, On
    <3>2. CASE u = t
      <4>1. CASE pc[t] = "idle" /\ Goto(t, "halt") /\ loc'[t].task = "stop"
        <5>1. pc'[t] = "halt"
          BY <4>1, OthersWait DEF Threads, Steps
        <5> QED
          BY <4>1, <5>1 DEF StopSteps
      <4>2. CASE /\ \E s \in Steps : Goto(t, s) /\ <<pc[t], s>> \in Onward
                 /\ pc'[t] = "release" => loc'[t] = loc[t]
        <5>1. <<pc[t], pc'[t]>> \in Onward
          BY <4>2, OthersWait DEF Threads
        <5>2. /\ pc'[t] \in StopSteps /\ pc'[t] # "halt"
              /\ pc'[t] = "release" => pc[t] = "halt"
          BY <5>1 DEF Onward, StopSteps
        <5> QED
          BY <4>2, <5>1, <5>2 DEF SignalsStop, On
      <4> QED
        BY <2>2, <3>2, <4>1, <4>2, SignalsNext
    <3> QED
      BY <3>1, <3>2
  <2>3. ASSUME NEW u \in Threads, Request(u) \/ HandlerStep(u)
        PROVE  SignalsStop' /\ \A t \in Signals : pc[t] # "idle" => On(t)
    <3>1. CASE phase' \in {"off", "dead"} /\ \E how \in Phases : Dies(how)
      BY <2>1, <3>1 DEF On
    <3>2. CASE ~(phase' \in {"off", "dead"} /\ \E how \in Phases : Dies(how))
      BY <2>2, <2>3, <3>2 DEF SignalsStop
    <3> QED
      BY <3>1, <3>2
  <2>4. CASE Crash
    BY <2>1, <2>4 DEF Crash, Dies, Phases, On
  <2>5. CASE \/ Launch \/ Recovery \/ (\E d \in Speakers : UserSelects(d)) \/ InstallDriver
             \/ HelloPanics \/ UNCHANGED vars
    <3>1. \A t \in Signals : pc'[t] = pc[t] /\ loc'[t] = loc[t]
      BY <2>5, ThreadsAssumption DEF Launch, Recovery, RestoreOutput, DiscardFile, CleanRouting,
            UserSelects, InstallDriver, HelloPanics, vars, Threads
    <3> QED
      BY <3>1 DEF SignalsStop, On
  <2> QED
    BY <2>3, <2>4, <2>5 DEF Next
<1> QED
  BY <1>1, <1>2, TypeCorrect, PTL DEF Spec, SignalGoesOn
=============================================================================
