# A TLA+ model of taal

taal captures what a mac is playing and has every phone in the room play it, in
sync. This directory holds TLA+ modules of the parts where a mistake is
invisible to a unit test, the TLC configurations that check them on small
instances, and proofs that TLAPS checks for every instance.

`PROJECT.json` lists the components, the runs, the mutants each property is
tried against, the source lines each definition stands for, the hazards of the
code and the theorems.

## The system

One Go process on the mac; a web page on every other device.

| Part | State it keeps | Operations | Interacts with |
|---|---|---|---|
| stream control (`session.go`) | `streaming`, `prevOut`, `keepAudible`, `source` | `startStream`, `stopStream` | capture, routing, restore file; called by any reader, by main, by the signal goroutine |
| capture device (`capture.go`) | `dev`, `sink`, `seq` | `start`, `stop`, the audio callback | CoreAudio; calls `onChunk` from its own thread |
| output and routing (`output_darwin.go`, `routing_darwin.go`) | the system output, one device with a fixed uid; both outlive the process | `setOutput`, `buildRouting`, `removeRouting` | macOS, the person at the mac |
| audio setup (`setup.go`) | none | `inspectAudio`, `realSpeakers` | reads the devices |
| crash recovery (`restore.go`) | `restore.json` | `rememberOutput`, `forgetOutput`, `recoverFromCrash`, `cleanupOnSignal` | output and routing, at the next launch |
| launch (`main.go`) | how far the process is | `main`, `anotherTaalIsStreaming` | all of the above |
| client registry (`session.go`) | `clients`, a queue per connection, id, place and volume | `handleWS`, `readPump`, `writePump`, `hello`, `drop`, `setGain`, `rosterMsg`, `fanout` | pages, through two goroutines per connection |
| timeline (`session.go`, `stream.go`) | `epoch`, `delayMs` | `onChunk`, `setDelay` | capture thread, audio queues |
| clock and player (`web/sync.js`) | offset, best sample; anchor | `ping`, `accept`; `push` | socket, Web Audio clock |
| speaker page (`web/app.js`, `web/awake.js`) | socket, joined, left, wake lock | `connect`, join, leave, `acquire`, `release` | registry, player |
| host page (`web/host.js`) | rows, streaming | mixer, start, stop, delay | registry |
| listener (`listen.go`) | two channels, to Accept and for its error | `loop`, `classify`, `redirect`, `Accept` | network, net/http |
| certificate (`tls.go`) | `cert.pem`, `key.pem` | `ensureCert`, `covers`, `localIPs` | main, listener, the disk |
| routes, QR, page layout, `tools/offset.py`, Makefile | none | stateless | |

What is hard here: `startStream` and `stopStream` are not critical sections,
and what they change outlives the process; a connection's fields outlive its
registration; messages are dropped when a queue is full; the audio thread runs
beside everything else; a phone may be gone without a word; and every clock in
the room is a different one.

What makes each part correct:

* stream control, routing, recovery: the owner's output always comes back, and
  nothing is left behind, whatever fails or is killed on the way; while taal
  streams, one capture device is open and it delivers.
* registry: one row per device, at its place and volume, whatever overlaps;
  no send on a closed channel; the mixer shows what the server holds; whoever
  is gone leaves.
* pages: what a page shows is what the server does, what its user asked for
  last is what happens, a speaker's page comes back after every loss and stays
  away after a leave, and says that the screen stays on only when it does.
* listener and certificate: nobody's silence keeps another out; a launch serves
  a pair of files that match, for the address it printed.
* timeline and player: consecutive chunks are stamped back to back, so that
  every speaker places a sample at the same moment; what is late is dropped,
  never played out of place.

## Modules

### StreamControl

Models `startStream`, `stopStream`, `capture.start`, `capture.stop`,
`buildRouting`, `removeRouting`, `setOutput`, `inspectAudio`, the restore file,
`recoverFromCrash`, the signal goroutine and the order in `main`.

The state has three parts. What belongs to macOS and the disk survives a death
of the process: `output`, `routing` (the devices the routing device feeds),
`driver`, `restore`. What belongs to the process does not: `phase` (how far
main is), `mu` (who holds the server lock across steps), the fields of `server`
and `capture`. Each goroutine (`Pages`, `Launchers`, `Signals`) has a step `pc`
and the local variables `loc` of the handler it is in. An action is one step of
one goroutine with at most one effect another goroutine or the next process can
see: the code releases the lock between them, so anything may happen in
between. A critical section is one action, except the failure path of
`startStream`, which makes two CoreAudio calls under the lock: there a death may
come in between, and `mu` keeps the others out.

CoreAudio is outside the repository. A call may refuse (`buildRouting`,
opening the capture device, finding it), a destroyed default output falls back
to some real device, and a second device with the same uid is refused. The
speakers may be gone when the routing device is built: it is then built without
them, and `keepAudible` says otherwise (`AudibleIsHeard` below). That CoreAudio
makes a device that exists the default output is assumed: `setOutput` ignores
the answer (output_darwin.go:169-172), and a refusal would void every promise
about the output.
`UserSelects` is the person at the mac, who may choose another output whenever
no handler is at work; `InstallDriver` is the driver's installer.

`capture.dev` is read and written without a lock. `HaltDevice` and
`ReleaseDevice` are separate steps that read it anew, so that it may have become
nil in between: `Panic`, which net/http recovers on a page's goroutine and which
ends the process on any other. A double `Uninit` is undefined in the C library;
here it closes the device once.

A hello that panics with `server.mu` held (see Hub) leaves it held until the
process ends: `HelloPanics`, which may happen whenever the lock is free, sets
`stuck`, and every step that takes the lock (`Free`) is disabled from then on. A
`capture.stop` may wait as well, for a callback that waits in `onChunk`
(`MayHang`).

Two history variables serve the properties: `home`, the output the owner chose,
and `spoilt`, which records that one of four events has happened after which the
code does not keep its promise: two handlers overlap, a start finds the stream
running, the process is killed between `setOutput` and `rememberOutput`, or
killed while it plays into the loopback directly. Without any one of the four,
TLC refutes a promise (`SignalPutsBack`, `PrevOutIsTheOwners`,
`WrittenWhenChanged` and `NextStartPutsBack` in the table of refuted sentences),
so the restriction is as weak as the code allows.

### OutputLoan

What the owner of the mac is promised, with no word about how: the output is on
loan. It is lent as it stands, may be moved while it is, and every loan ends
with the output where its owner last put it; taal never decides whose it is.
StreamControl implements it (`LoanIsKept == Loan!Spec`): the owner is the ghost
`home`, and the loan stands from the first step of a handler, or of
`recoverFromCrash`, to its last, and for as long as taal streams or lies dead
(`Standing`). A loan is `lost` when one of the four events has spoilt it.
`Keep` is the one step where the owner changes by itself: the process dies, and
whoever moved the output off taal's device meanwhile keeps that choice.

### Hub

Models the connections, each with a reader and a writer goroutine and the
bounded queue `client.send`; `hello`, `drop`, `setGain`, `setDelay`'s fanout,
`rosterMsg`, `trySend`. A handler runs under the lock from its first line to
its last, so it is one action; but the reader takes the message off the socket
before (`Receive`), and in between its connection may be retired by another
hello. A hello then panics on the closed channel with the lock held: `stuck`.
The drop its reader deferred runs before net/http could recover the panic, and
waits for that lock for ever. A `sync` message panics the same way without the
lock; the drop runs, and net/http recovers.

The queue is a count (`queued`); what the messages say is kept in ghost
variables, as of the last message accepted: `shown` (the rows of the last
roster), `vol` (the volume the page plays at), `missed` (a roster found the
queue full). A connection is used once: a page that comes back opens another.
A page's network may vanish (`Vanish`: no close frame, noticed by the read
deadline) or close. Volumes are percentages. An id the server makes up is the
number in it; a device's id is a model value.

### Room

What the mixer promises the people in a room, with no word about queues, locks
and goroutines: a device in the room has one row, at a place nobody else holds.
Another connection may come to speak for it, and finds place and volume as they
are; the row goes when the connection that speaks for it ends, not an earlier
one. Hub implements it (`RoomIsKept == Mixer!Spec`): `rows` are the rows of the
registered speaker pages (`MixerRows`), `last` is `lastSeq`, and a connection is
over when its reader is gone (`Over`). The host page takes a place as well
(`Pass`) and has no row. A row that ends is forgotten, volume and all: Room says
what the code does there, not what README.md:194-195 says (see below).

### Timeline

Models the audio thread (the data callback of `capture.start`, `onChunk`,
`trySendBinary`), `setDelay`, and the steps of `startStream` and `stopStream`
that touch the capture and the epoch. One tick is one chunk: 20 ms, so samples
and time have the same unit. `due` counts the periods the driver has recorded
and the callback has not seen; `hand` is the chunk the callback has numbered
(under `capture.mu`) and not yet delivered to `onChunk` (under `server.mu`).
Between the two, everything else may happen.

`LockHeld` says whether the goroutine in `startStream` or `stopStream` holds
`server.mu` over a step the callback would wait for. It is never true, because
the code calls the capture outside the lock; the mutant of it is a `stopStream`
that does not.

Assumed of the outside: closing the device waits for a running callback (the
audio library does); the audio thread is never more than `Jitter` periods late
(a driver that overruns and loses periods is not modelled); the sample clock
and the wall clock run at the same rate. `SetClock` is the mac's clock being
set while taal runs. Ghosts: `frame` (the last frame stamped), `base` (when the
device was opened), `adrift` (the clock was set after the epoch was taken).

### ClockSync

Models `class Clock` of `web/sync.js` and the server's answer to a `sync`
message: bursts of pings, answers that take any time on either way or are
dropped, and a host whose clock may be set in between. The socket keeps the
order on each way. Half a round trip is a fraction, so the model keeps twice the
offset. The two clocks run at the same rate; what they drift apart within a
round is not modelled. Ghosts: `truth` (the difference of the clocks when the
answer in force was stamped), `heard`, `round`, `leapt`, `newest`, `settled`.

### Player

Models `LivePlayer.push`, `unlock`, `resume` and `setNudge`: where a chunk is
placed on the page's audio clock, from an estimate that is off by up to `MaxErr`
(what ClockSync bounds), while the browser suspends the context and its clock
stands still (`lag`), chunks are lost, and the host moves the delay or starts
anew (what Timeline does to the stamps: `NeighboursButt` there is what the player
takes for granted here, that a chunk is due at the epoch plus its number). `nudge` stands for the slider plus the
device's output latency, which enter the same sum. Ghosts: `last` (the chunk
scheduled last), `aim` (where sample 0 belonged when the player anchored). The
resampling, the routing of the audio graph, its fallback, the volume ramp and
the counters on the page are left out: no property is about them.

### Listener

Models `splitListener` and `redirect` under `http.Server.Serve`: the accept
loop, a goroutine per connection that waits for the first byte (`Classify`,
`PeekFails`, `Expire` at the deadline), the unbuffered channel to Accept
(`HandOver`), the channel with room for one error (`AcceptFails`, `TakeError`).
What a client has sent is one of four words: nothing, the first byte of a
handshake, another first byte, a whole request. net/http's `Serve` is outside:
it takes what Accept returns, tries again after a temporary error, and ends the
process through `log.Fatal` after any other.

### HostPage

Models `web/host.js` with the server's side of each message: the socket and its
retry, the button, the box *audible* with the 400 ms timer of its restart, the
delay slider, what the page shows, and `readPump`, `startStream`, `stopStream`
and `stateMsg` as far as a page can tell them apart. `startStream` is one step at
its end, where it changes and announces the state under one lock; `stopStream` is
two (`Stopped`, `Announce`), because it does so under two. The start at launch
runs on a goroutine of its own while the pages are served (`launch`, `Launch`):
it ends in the same ways, whatever the pages have asked meanwhile. That
`server.mu` is let go is taken for granted, here as in Timeline and SpeakerPage;
what keeps it for ever is in Hub. `ws.send` throws while
a socket connects (the rest of the click is then lost) and drops what it is
given after it has closed. A connection is used once. Mixer rows and volumes are
in Hub. Ghost `wants` is what was last asked for, `None` while that is unclear:
two pages have asked at once, a page has asked while the start at launch was
under way, a start has failed, a connection ended with a request on its way, or
the button was clicked while the switch waits for its timer. An error message is not modelled: one that comes with a failed start is
overwritten by the state message right behind it (session.go:413-414), one of a
mac that is not ready (`NotReady`) changes no state.

### SpeakerPage

Models `web/app.js` and `web/awake.js` in a browser that has wake locks:
`connect` with its new clock and player, `onopen`, `onclose` and the two-second
retry, join with its two awaits, leave, and `Awake.acquire` and `release` with
requests that are granted late, refused, or taken back. Several joins and
acquires may be under way (`joins`, `asked`). The server is its row for this
device: of this connection, of an old one not yet dropped, or none. The two
other reports of `awake.js` (insecure, unsupported) never change while a page is
open and are left out. Ghost `refused`: the browser said no since the page last
asked.

### Certificate

Models `ensureCert`, `covers`, `localIPs` and the pair `serveTLSWithRedirect`
loads, over launches that may end (killed, or by an error that `log.Fatal`
reports) between any two steps: a file opened for writing is empty until it is
written. A certificate is its key, a number, and the set of names it is good
for. The mac changes networks at any time (`Lease`), `TAAL_HOST` may give a name,
certificates expire. Two launches at the same moment, a power failure that keeps
one file and loses the other, and a key file the owner removes are not modelled;
they lead to the pair that does not match, which a kill already leads to.

### Proof modules

`StreamControlProofs`, `HubProofs`, `TimelineProofs`, `ClockSyncProofs`,
`PlayerProofs`, `ServeTLSProofs` (of Certificate and Listener, the two halves of
`serveTLSWithRedirect`), `HostPageProofs` and `SpeakerPageProofs` hold the theorems; see *What is proved*.

### Model-checking modules

`MCStreamControl`, `MCHub`, `MCTimeline`, `MCClockSync`, `MCPlayer` and
`MCHostPage` give the constants their meaning; Listener, SpeakerPage and
Certificate need no more than their configuration. `MCStreamFindings`,
`MCHubFindings`, `MCTimelineFindings`, `MCPlayerFindings`, `MCHostFindings`,
`MCSpeakerFindings` and `MCCertificateFindings` state what comments and the README
claim and the code refutes.

## What is checked

Run `tlc -config <cfg> <module>`.

| Run | Module, cfg | Instance | Shows |
|---|---|---|---|
| OutputLoan | MCStreamControl | 2 pages, the launch, 1 signal; 3 speakers; 2 handles | `GivenBack`, `Recoverable`, `StreamIsWhole`: the owner's output is borrowed and given back, over any number of starts, failures, stops, kills and relaunches, as long as none of the four spoiling events happens (constraint `Unspoilt`); while it streams, the routing device feeds no speakers but the owner's, and those only if asked to; `LoanIsKept`: all of it implements OutputLoan |
| StreamShutdown | MCStreamControl, StreamShutdown | 1 page, 1 signal, 1 speaker; every overlap allowed | `FreshStart`: a launch starts clean after any history; `SignalEnds`: a signal always ends the process, unless a hello has panicked with the lock |
| HubMixer | MCHub | host page, 2 connections of a phone, queues of 3 | `RegisteredIsOpen`, `RosterIsTrue`; `RowKeepsPlaceAndVolume`: what the host set a device to lasts across its reconnections; `RoomIsKept`: the registry implements Room |
| HubLeaves | MCHub, HubLeaves | 2 connections of a phone, two hellos each, queues of 3 | `OneRowPerDevice`, `RowOutlivesStaleDrop`; `GoneLeaves`: whoever vanished or closed leaves the mixer and both goroutines end, unless the lock is stuck |
| ChunkTimes | MCTimeline | delays 1 to 3, queue of 1, thread up to 1 period late, clock set by -1 or 2, 5 ticks | `LeadIsDelay`, `NoneLeftBehind`; `NeighboursButt`: consecutive chunks are stamped back to back; `StopReturns` |
| ClockRounds | MCClockSync | 3 rounds of 2 pings, 3 ticks, clock set by 1 | `ErrorIsBounded`, `LeastDelayed`, `FollowsTheHost` |
| Placement | MCPlayer | 5 ticks, threshold 2, error 1, nudges 0 and 1, lead 4, suspended for up to 1 | `Together`, `Seamless`, `LateIsLate` |
| Listener | Listener | 3 connections | `SpeakerIsServed`: a client that begins a handshake is served, whatever the others leave undone; `EndIsNoticed`: a lasting error ends the process |
| HostPage | MCHostPage, HostPage | 2 pages, one of which comes back once; the start at launch or none; queues of 2; 2 clicks | `ShownIsTrue`: a page shows what the server does; `Settled`, `Obeyed`: with nothing under way the stream is as it was last asked to be, and it ends up so; what is asked beside another page, or beside the start at launch, is not clear and promised nothing |
| SpeakerPage | SpeakerPage | 4 locks, 2 handlers of a kind at once | `AwakeIsTrue`, `TakenAgain`, `ComesBack`, `LeavesTheRoom` |
| Certificate | Certificate | 2 networks, a `TAAL_HOST`, 3 certificates | `PairIsWhole`: the key on disk is the certificate's; `AddressIsServed`; `AskedOnce`: phones are asked again only for a reason |
| FindStuck | MCHubFindings | 2 connections of a phone, two hellos each | `NeverStuck` violated |

Each module's type invariant is checked in one of its runs, but for those of
Timeline, ClockSync, Player and Listener, which are proved. Every
property has a mutant in `PROJECT.json`: a change of one definition, of a kind
somebody could make to the code, under which TLC finds the property violated.

**Bounds.** Two handles are the device the server holds and one that overlapping
starts have leaked; a third would be one more of the latter. Three speakers: the owner's, the one macOS falls back to,
and the one the owner changes to meanwhile. Two connections of one device are
the overlap a reconnection makes; HubMixer adds the host page, whose row-less
connection the mixer is sent to and which mutes the phone. A queue of 3 takes one hello's messages and is
full at the next. In Timeline the delays go from as long as the queue to three
times that (in the code, from 100 to 2000 ms around half a second), and the
thread may be late by as much as the shortest delay. Three rounds of pings are one before the clock
is set, the first after, and the one that must know; a burst of two has one
answer that beats another. In Player the delay can move by more than threshold
and error together while a chunk waits, and a nudge or a suspension moves the
line by less than the threshold. In HostPage two clicks are the fewest that
make a history (a switch and a stop, a start on either page); a queue of two
drops the third state that is announced while a page does not read, and the
third connection is a page that comes back. Three clients of the listener are
the silent one, the speaker and one that waits behind both. In SpeakerPage four
locks are two per kind of request. Three certificates are the one that was
accepted, one for another network, and the one made on the way back; a third
network adds another name and no other case.

**Views.** Two runs tell states apart by a view (`Told` in MCHub and in MCPlayer)
that leaves out what no guard and no property reads any more: the volume a page
plays at, the hellos of a connection that is over, the roster of a speaker's page
that missed a later one; the last chunk once its neighbour has passed, and the
place an anchor was meant for once the anchor is gone.

**Stopping.** `CHECK_DEADLOCK FALSE` is set in the StreamControl and Hub runs
because the program may rest: the process has ended and nobody starts it, every
connection is over, or a panic has left the lock held. So may the listener (its
process has ended), the pages (nobody clicks, and every connection is used up)
and Certificate (the bound on certificates is reached). In the ClockSync and
Player runs the model ends when the rounds or the horizon are used up. Timeline
is checked for deadlock.

**Fairness.** StreamControl: strong fairness of every goroutine inside a
handler, because it competes for `server.mu` with others, and `sync.Mutex`
hands the lock to a goroutine that has waited for a millisecond; weak fairness
of the steps of recovery and of the launch, which compete with nobody. None of a
`capture.stop` whose callback may wait for a lock that a panic has left held. No
fairness of pages, people, kills, signals or panics. Hub: weak fairness of each
connection's reader and writer, which are goroutines the scheduler runs; none of
pages, except that a read with a deadline returns. Timeline: weak fairness of
the callback and of the goroutine inside a start or stop; time itself may stop.
Listener: weak fairness of the accept loop, of every goroutine and of Serve; none
of clients, and none of deadlines, so that nothing rests on a neighbour being
timed out; Go serves blocked
senders of a channel in their order, and `select` picks among ready channels at
random. HostPage: weak fairness of timers, of each reader and of the start at launch;
none of clicks or networks, and no state message has to arrive. SpeakerPage: weak fairness of the timer, of
a closing socket, of the browser's answers and of the server; strong fairness of
`Open` and of a hello that arrives on an open socket, because `ComesBack` is
about a network that does come back: if a page tries again and again, one of its
tries succeeds. Certificate states none and no liveness.

## What is proved

TLAPS proves these for every number of pages, connections, devices, every
capacity, delay, threshold and error the assumptions of the modules allow; the
bounds `Horizon`, `MaxRounds`, `MaxHellos`, `MaxActs` and `MaxAsks` may be any
number too.

| Module | Theorems | Inductive invariant, and why it is needed |
|---|---|---|
| StreamControlProofs | `TypeCorrect`, `OutputIsGivenBack`, `KillsAreRecoverable`, `StreamsAreWhole`, `LoanIsImplemented`, `LaunchIsClean`, `SignalIsHeard` | `Solo` (unspoilt means that at most one handler is at work), and for each step of `startStream` and `stopStream` what has been moved and saved so far (`StartOK`, `StopOK`); `DownOK` for a process that is down and `IdleOK` for one at rest. The promises speak of rest only; the invariant says what each step owes. `LoanIsImplemented` shows from the same invariant that every step is one of OutputLoan or a stutter: the last step of a handler gives back because the step before left the owner's output in place. `LaunchIsClean` needs no such restriction, only that recovery runs before anything but a stop (`OnlyStops`). Nor does `SignalIsHeard`: `SignalsStop` (a signal's goroutine is in stopStream and nowhere else) holds for every overlap and every death. |
| HubProofs | `TypeCorrect`, `OneRow`, `OpenChannels`, `TrueRoster`, `RowOutlives`, `RowIsKept`, `RoomIsImplemented`, `GoneStaysAway` | `IdsMatch` and `PlacesMatch`: an id or place handed out belongs to one registration, so that a hello that retires its namesake leaves ids and places distinct. `OneRowPerDevice` alone is not inductive: it says nothing of the numbers yet to be handed out. `RoomIsImplemented` needs `UsedOnce` as well (a connection that has ended, or not begun, is not registered), so that a hello never speaks for a connection that is over. |
| TimelineProofs | `TypeCorrect`, `LeadIsKept`, `DeviceIsOver`, `StampsAreOneLine` | `Counted` (samples numbered plus samples pending are the time since the device was opened), `Closed` (nothing is pending when no device is), `Anchored` (the epoch is the delay ahead of `base`, up to the lateness of the first chunk). The stamp of a chunk is then two latenesses away from exact, in opposite directions. For `StampsAreOneLine`, `OneLine`: the last frame lies on the epoch, and the next chunk, in hand or not yet numbered, is its neighbour or the first of a new device. |
| ClockSyncProofs | `TypeCorrect`, `BoundedError`, `LeastInForce`, `HostIsFollowed` | `Stamped` (what an answer on its way says of when it was stamped), `Ordered` (rounds do not decrease along the wire, so that an answer to a later round means no earlier one is left), `Fresh` (an answer to a ping of a round after the clock was set has the present difference). |
| PlayerProofs | `TypeCorrect`, `PlayedTogether`, `PlayedSeamlessly`, `OnlyLateIsDropped` | `AnchorLine` (the anchor is within the error of where sample 0 belonged), `OnLine` and `Gap` (while the line has not moved, the anchor's chunk is not ahead of the last one, which lies on the anchor's line). |
| ServeTLSProofs | `TypeCorrect`, `PairStaysWhole`, `AddressStaysServed`, `PhonesAreAskedOnce`; `PortTypeCorrect`, `ConnectionsSorted`, `ErrorStaysKept` | Of the certificate: `Written` (what a launch is writing, and that the certificate is on disk before the key is opened), `NamesServed` (each certificate on its way is for the address that was printed) and `Kept` (as long as the accepted certificate does, it is the one on disk and none is being made). Of the port: the channel of errors is empty while the loop accepts, so that its one error never blocks, and holds it until Serve ends with it. |
| HostPageProofs | `TypeCorrect`, `PagesShowTheTruth`, `LastRequestDecides` | `Heard` (the last state under way to a page, or what it shows when there is none, is the server's, unless a stop has yet to announce itself), `OneSocket` (a page listens to one connection) and `Unknown` (the server knows no connection that is not open). For `LastRequestDecides`, `Clear`: while it is known what is wanted, at most one connection has a start or stop to be done (`OneAsks`), the last of them is what is wanted (`LastAsk`), while the start at launch is under way nobody else does (`Launching`), a timer waits only on an open socket while nobody else asks (`Waiting`), and no request is left on a connection that has ended (`Alive`). |
| SpeakerPageProofs | `TypeCorrect`, `ReportsAreHonest`, `LockIsSought`, `WayBackIsKept`, `LeavingLasts` | `Fresh`: the handle is of a lock that is live, so that an acquire that finds one may report it. `Asking` (who wants the lock and is seen has it, waits for it or was refused) is inductive beside it; the other two hold of every step. |

Each module proves `Init => IInv`, one lemma per action for `IInv`'s
preservation, and the theorem from them. The action properties follow from
`IInv` in the state before the step.

Only model-checked: the liveness properties (`SignalEnds`, `GoneLeaves`,
`StopReturns`, `SpeakerIsServed`, `EndIsNoticed`, `Obeyed`,
`TakenAgain`, `ComesBack`, `LeavesTheRoom`), which rest on fairness and are out of
the prover's reach. Of most of them the safety half is proved, so that what is
left to TLC is that steps which stay possible are taken: `LastRequestDecides` for
`Obeyed`, `ErrorStaysKept` for `EndIsNoticed`, `GoneStaysAway` for `GoneLeaves`,
`SignalIsHeard` for `SignalEnds`, and `LockIsSought`,
`WayBackIsKept` and `LeavingLasts` for the three of the speaker's page.

## Where the code and what is said of it part

`PROJECT.json` has `NeverStuck` as a finding, with the run that shows it. TLC
refutes each of the others the same way: add the definition, as an INVARIANT or
PROPERTY, to the configuration of its component (MCStreamControl.cfg or StreamShutdown.cfg, MCHub.cfg,
MCTimeline.cfg, MCPlayer.cfg, HostPage.cfg, SpeakerPage.cfg, Certificate.cfg), in
place of what is checked there and with the constants named here, and run it on
the module with `Findings` in its name. StreamControl's need the constraint
removed; MCHostFindings has an `Init` and `Next` of its own.

| Property | Said | Done |
|---|---|---|
| `PrevOutIsTheOwners` (MCStreamFindings, one page) | session.go:57, prevOut is the "system output before taal changed it" | A start while streaming stores taal's own device (session.go:387), and a later stop sets the output to the device it destroys. |
| `NeverStuck` | session.go:191, "one stuck client never stalls the hub" | A hello of a connection that another hello retired meanwhile sends on its closed channel and panics with the lock held (session.go:264); the deferred drop (session.go:125) waits for it, and so does everybody else, for ever. |
| `KeepsBehind` (MCTimelineFindings, queue of 2, 6 ticks) | capture.go:19, "how far behind the source every speaker plays" | The epoch is wall-clock time and stays when that clock is set; set forward by more than the delay, every chunk is late until somebody moves the delay (session.go:477). |
| `NudgeMoves` (MCPlayerFindings, error 0) | README.md:137, "Slide it until the echo collapses into one sound" | The player keeps to its anchor until 50 ms have come together (web/sync.js:221). |
| `WrittenWhenChanged` (MCStreamFindings, the launch only) | restore.go:13-14, "written to disk the moment it is changed" | The file is written after the capture device has opened (session.go:424); killed in between, nothing says where to go back to. |
| `SignalPutsBack` (the launch and a signal) | Makefile:49, "puts the audio output back on the way out" | In the middle of a start `prevOut` is still empty, and the signal's `stopStream` puts nothing back (restore.go:94). |
| `NextStartPutsBack` (the launch only) | README.md:97-98, "the next start notices, puts the output back" | Not when the fallback had pointed it at the loopback itself (session.go:397, restore.go:68). |
| `SignalAlwaysEnds` (MCStreamFindings, with StreamShutdown.cfg) | Makefile:49, the same sentence | After a hello has panicked with the lock (`NeverStuck`), the signal's `stopStream` waits for it at session.go:435, or before in `capture.stop`, and taal does not end. |
| `AudibleIsHeard` (MCStreamFindings, with StreamShutdown.cfg) | README.md:100-101, audible "decides whether the mac speakers stay live while streaming" | Speakers that are not found when the routing device is built are left out of it (routing_darwin.go:104), and a start without a routing device plays into the loopback (session.go:397); `keepAudible` and the page say audible (session.go:421). |
| `PlaysAtItsVolume` (MCHubFindings, host page and 2 connections) | session.go:233-235, "carries its volume across" | To the row, not to the page, which plays at full (session.go:264). |
| (the volume of a row that comes back after its drop, in the same instance) | README.md:194-195, "reclaims its row and its volume" | A page whose old socket was seen to close has no row to reclaim: it is a new one at full volume (session.go:274). |
| `StampsAdvance` (MCTimelineFindings) | server_test.go:160-161, stamps are monotonic | Lowering the delay brings them back (session.go:477). |
| `QueuedMovesWithDelay` | session.go:460-461, queued audio moves with the delay | It is encoded already (session.go:462). |
| `DroppedIsLate` | session.go:199-200, what does not fit "is already too late" | It is the chunk due last (session.go:202). |
| `InsideAnEcho` (MCPlayerFindings, error 2) | README.md:132-133, sync is well inside 20 to 30 ms | A player that anchored on a poor first answer stays up to 50 ms off (web/sync.js:221). |
| `SwitchTakesEffect` (MCHostFindings) | host.js:150-151, the switch rebuilds the routing "rather than leaving a setting that silently does nothing" | The stop is announced within the 400 ms, and its state message sets the box back to what it was; the timer then reads the box and starts with the old setting (host.js:49, 154). |
| `StopIsObeyed` (MCHostFindings) | README.md:91-92, "puts everything back the way it was when you stop" | The start at launch (main.go:85) may still be under way when a page has started the stream and stops it; it then ends in `streaming = true` (session.go:418), and taal streams though the last click was on stop. |
| `JoinedIsHeard` (MCSpeakerFindings) | README.md:3, "whatever your mac is playing comes out of every phone" | After a reconnection the page shows 'playing' with a new player whose audio context nobody unlocks: join is hidden (app.js:33, 135). |
| `LeavingIsFinal` | app.js:140-141, "leaving is explicit" and keeps no slot | Left in the two seconds before a retry, the page connects all the same and has its row back (app.js:52). |
| `JoiningConnects` | app.js:123-138, join shows 'waiting for the host' | After a leave the socket is closed, and join does not open another. |
| `LeavingLetsGo` | awake.js:2-3, "reports honestly" | A lock granted after a leave, or second while another is held, has no handle that a release would find (awake.js:50). |
| `KeyIsThere` (MCCertificateFindings) | tls.go:36, "generating them if missing" | covers() looks for the certificate only: killed before key.pem is written, taal fails at every launch until the address changes (tls.go:43). |
| `StaysValid` | tls.go:68-69, "stays valid when the wifi hands out a different lease" | It covers the addresses held when it was made; a different lease makes a different certificate, for every phone to accept. |

Three more, read off the code while modelling it and without a definition:

* main.go:117, a second copy "must not steal the audio device": recovery leaves
  the device alone, but the start at launch (main.go:85-89) then builds it anew;
  and a first copy on a port that is neither 8225 nor the second's is not seen.
* listen.go:52-57: after a temporary error of `accept` (too many open files) the
  loop has returned for good while `Serve` sleeps and calls Accept again: taal
  keeps running and accepts nobody. `EndIsNoticed` is about lasting errors.
* listen.go:71: the read deadline is lifted before `redirect` reads the request,
  so half a plain request keeps its goroutine for ever (and nobody else's:
  `SpeakerIsServed`).

## Not modelled

* The CoreAudio calls of `output_darwin.go` and `routing_darwin.go`, the audio
  library and the Web Audio graph: outside the program. The models say what the
  code needs of them.
* `http` handlers, QR code, page layout, `tools/offset.py`, the Makefile: no
  state that outlives a call. The setup panel of the host page asks the server
  and shows what it says.
* Encoding of frames and messages: the tests of `stream.go` compare bytes.
* Two taals on one mac: what the second does is decided by a port probe of
  300 ms against whatever step the first is in, and both then own one device with
  one uid and one restore file; StreamControl would have to be doubled, and the
  sentences about it are refuted without a model (above).

## Plan

What could come next is `Playback`, the composition of Timeline, ClockSync and
Player over one queue: what a speaker hears of a chunk, end to end. Its three
parts meet in the stamps, of which Timeline bounds the lead and ClockSync the
error that Player assumes.
