-------------------------- MODULE MCStreamFindings --------------------------
(* What comments, the Makefile and the README say of the output, without    *)
(* the exceptions of StreamControl's promises.  TLC refutes each property,  *)
(* on the goroutines README.md names.                                       *)
EXTENDS StreamControl

\* "the previous output is written to disk the moment it is changed"
\* (restore.go:13-14): whenever taal dies with the mac pointed at its device,
\* the file is there.  startStream opens the capture device in between
\* (session.go:393-424).
WrittenWhenChanged == phase = "dead" /\ output = Routing => restore # None

\* "prevOut: system output before taal changed it" (session.go:57): between
\* handlers, the output a stop will put back is not taal's own device.  A
\* start while streaming reads currentOutputName() when taal holds it.
PrevOutIsTheOwners == AllIdle /\ streaming => prevOut # Routing

\* "SIGTERM rather than kill, so it puts the audio output back on the way
\* out" (Makefile:49): a process that ended through its signal handler left
\* neither its device nor the output behind.  The handler may run in the
\* middle of a start.
SignalPutsBack == phase = "off" => output \in Speakers /\ routing = {}

\* "if taal is killed rather than stopped, the next start notices, puts the
\* output back" (README.md:97-98): once recoverFromCrash has returned the mac
\* is not left on the loopback, where nobody hears it.  It compares the output
\* with the routing device only, and startStream may have fallen back to the
\* loopback itself.
NextStartPutsBack ==
  phase = "up" /\ (\A t \in Launchers : pc[t] = "launch") => output # Loopback

\* "decides whether the mac speakers stay live while streaming" (README.md:100-101):
\* while a stream that was asked to be audible runs, none of the events of
\* spoilt having happened, the speakers its owner chose play it.  buildRouting
\* goes on without speakers it does not find, and startStream without a
\* routing device.
AudibleIsHeard == ~spoilt /\ AllIdle /\ streaming /\ keepAudible => home \in routing

\* The sentence of Makefile:49 again: a signal always ends in an exit.  A
\* hello that panicked keeps the lock stopStream needs.
SignalAlwaysEnds == \A t \in Signals : (pc[t] = "halt") ~> (phase \in {"off", "dead"})
=============================================================================
