------------------------------ MODULE HostPage ------------------------------
(***************************************************************************)
(* The host page and its switches (web/host.js), with the part of the      *)
(* server it talks to: start and stop as the page can tell them apart      *)
(* (session.go: readPump, startStream, stopStream, stateMsg; what they do  *)
(* to the mac is in StreamControl).                                        *)
(*                                                                         *)
(* A page asks over its own connection, whose reader handles one request   *)
(* after the other; every page is told the state, over a queue that takes  *)
(* SendCap messages and drops the rest.  A connection is used once.  The   *)
(* start at launch has a goroutine of its own (main.go) and may be under   *)
(* way for as long as it takes.  That s.mu is let go is taken for granted  *)
(* here: what keeps it for ever is in Hub.                                 *)
(***************************************************************************)
EXTENDS Integers, Sequences

CONSTANTS
  Conns,     \* connections
  PageOf,    \* the page that may open each
  SendCap,   \* capacity of client.send (16 in the code)
  MaxActs,   \* clicks of all users: a bound for TLC
  None

ASSUME HostAssumption == SendCap \in Nat /\ MaxActs \in Nat

Pages == {PageOf[c] : c \in Conns}

VARIABLES
  \* the page
  ws,         \* its socket
  retry,      \* onclose's timer is pending
  streaming,  \* what it shows: its copy of the server's flag,
  checked,    \*   and the box 'audible'
  timers,     \* pending timers of the audible switch
  \* the network
  conn,       \* "new", "connecting", "open", "closed"
  up, down,   \* requests and states under way
  \* the server
  reader,     \* readPump: "none", "reading", "starting", "stopping", "stopped", "gone"
  audible,    \* argument of the start it handles
  clients,    \* s.clients
  live,       \* s.streaming
  keepAudible,
  launch,     \* the goroutine of main that starts the stream has not returned
  \* what the users asked for
  missed,     \* the last state found the queue full
  acts,
  wants       \* what was last asked: TRUE to stream, FALSE to stop; None once two
              \* have asked at once (main at launch is one), a start has failed, or a
              \* request may be lost

pageVars == <<ws, retry, streaming, checked, timers>>
netVars  == <<conn, up, down>>
hubVars  == <<reader, audible, clients, live, keepAudible, launch, missed>>
userVars == <<acts, wants>>
vars == <<pageVars, netVars, hubVars, userVars>>

Requests == [type : {"hello", "stop", "delay"}] \cup [type : {"start"}, audible : BOOLEAN]
States   == [streaming : BOOLEAN, audible : BOOLEAN]

TypeOK ==
  /\ ws \in [Pages -> Conns] /\ \A p \in Pages : PageOf[ws[p]] = p
  /\ retry \in [Pages -> BOOLEAN] /\ streaming \in [Pages -> BOOLEAN]
  /\ checked \in [Pages -> BOOLEAN] /\ timers \in [Pages -> 0 .. MaxActs]
  /\ conn \in [Conns -> {"new", "connecting", "open", "closed"}]
  /\ up \in [Conns -> Seq(Requests)] /\ down \in [Conns -> Seq(States)]
  /\ \A c \in Conns : Len(down[c]) <= SendCap
  /\ reader \in [Conns -> {"none", "reading", "starting", "stopping", "stopped", "gone"}]
  /\ audible \in [Conns -> BOOLEAN] /\ missed \in [Conns -> BOOLEAN]
  /\ clients \subseteq Conns /\ live \in BOOLEAN /\ keepAudible \in BOOLEAN
  /\ launch \in BOOLEAN
  /\ acts \in 0 .. MaxActs /\ wants \in BOOLEAN \cup {None}

\* Every page is being loaded, while main starts the stream, or does not (-http).
Init ==
  /\ ws = [p \in Pages |-> CHOOSE c \in Conns : PageOf[c] = p]
  /\ retry = [p \in Pages |-> FALSE] /\ streaming = [p \in Pages |-> FALSE]
  /\ checked = [p \in Pages |-> FALSE] /\ timers = [p \in Pages |-> 0]
  /\ conn = [c \in Conns |-> IF c = ws[PageOf[c]] THEN "connecting" ELSE "new"]
  /\ up = [c \in Conns |-> <<>>] /\ down = [c \in Conns |-> <<>>]
  /\ reader = [c \in Conns |-> "none"] /\ audible = [c \in Conns |-> FALSE]
  /\ clients = {} /\ live = FALSE /\ keepAudible = FALSE /\ launch \in BOOLEAN
  /\ missed = [c \in Conns |-> FALSE]
  /\ acts = 0 /\ wants = launch

(***************************************************************************)
(* The page.  ws.send throws while the socket connects, and drops what it  *)
(* is given once the socket has closed.                                    *)
(***************************************************************************)
Socket(p) == conn[ws[p]]
Sent(p, request) ==
  IF Socket(p) = "open" THEN [up EXCEPT ![ws[p]] = Append(@, request)] ELSE up

Busy(c) == reader[c] \in {"starting", "stopping", "stopped"} \/ up[c] # <<>>
Alone(p) ==
  /\ Socket(p) = "open" /\ ~launch
  /\ \A c \in Conns \ {ws[p]} : ~Busy(c)
  /\ \A q \in Pages \ {p} : timers[q] = 0

Act == acts < MaxActs /\ acts' = acts + 1

\* What is wanted next, if the request is clear.
Asked(what, clear) == wants' = IF clear /\ wants # None THEN what ELSE None

\* the button: start or stop, whichever the page does not show
Power(p) ==
  /\ Act
  /\ up' = Sent(p, IF streaming[p] THEN [type |-> "stop"]
                   ELSE [type |-> "start", audible |-> checked[p]])
  /\ Asked(~streaming[p], Alone(p) /\ timers[p] = 0)
  /\ UNCHANGED <<pageVars, conn, down, hubVars>>

\* the box: its change stops a stream now and starts it 400 ms later
Audible(p) ==
  /\ Act
  /\ checked' = [checked EXCEPT ![p] = ~@]
  /\ IF streaming[p]
       THEN /\ up' = Sent(p, [type |-> "stop"])
            /\ timers' = [timers EXCEPT ![p] = IF Socket(p) = "connecting" THEN @ ELSE @ + 1]
            /\ Asked(TRUE, Alone(p) /\ wants = TRUE)
       ELSE UNCHANGED <<up, timers, wants>>
  /\ UNCHANGED <<ws, retry, streaming, conn, down, hubVars>>

\* Mutant of Restart: it starts only what the page still shows as running.
RestartShown(p) ==
  /\ timers[p] > 0
  /\ timers' = [timers EXCEPT ![p] = @ - 1]
  /\ up' = IF streaming[p] THEN Sent(p, [type |-> "start", audible |-> checked[p]]) ELSE up
  /\ UNCHANGED <<ws, retry, streaming, checked, conn, down, hubVars, userVars>>

\* The timer reads the box, and the socket, as they are by then.
Restart(p) ==
  /\ timers[p] > 0
  /\ timers' = [timers EXCEPT ![p] = @ - 1]
  /\ up' = Sent(p, [type |-> "start", audible |-> checked[p]])
  /\ UNCHANGED <<ws, retry, streaming, checked, conn, down, hubVars, userVars>>

\* the slider of the delay, the effect of which is in Timeline
Delay(p) ==
  /\ Act
  /\ up' = Sent(p, [type |-> "delay"])
  /\ UNCHANGED <<pageVars, conn, down, hubVars, wants>>

\* onmessage: the page shows what it is told, its controls included.
ApplyState(c) ==
  LET p == PageOf[c] IN
  /\ conn[c] = "open" /\ down[c] # <<>>
  /\ down' = [down EXCEPT ![c] = Tail(@)]
  /\ streaming' = [streaming EXCEPT ![p] = Head(down[c]).streaming]
  /\ checked' = [checked EXCEPT ![p] = Head(down[c]).audible]
  /\ UNCHANGED <<ws, retry, timers, conn, up, hubVars, userVars>>

\* onopen: hello
Open(c) ==
  /\ conn[c] = "connecting"
  /\ conn' = [conn EXCEPT ![c] = "open"]
  /\ up' = [up EXCEPT ![c] = <<[type |-> "hello"]>>]
  /\ reader' = [reader EXCEPT ![c] = "reading"]
  /\ UNCHANGED <<pageVars, down, audible, clients, live, keepAudible, launch, missed, userVars>>

\* What is still under way from a connection that ends may be lost.
Ends(c) ==
  /\ conn[c] \in {"connecting", "open"}
  /\ down' = [down EXCEPT ![c] = <<>>]
  /\ Asked(wants, up[c] = <<>> /\ timers[PageOf[c]] = 0)

\* onclose, and two seconds later connect()
Lose(c) ==
  /\ Ends(c)
  /\ conn' = [conn EXCEPT ![c] = "closed"]
  /\ retry' = [retry EXCEPT ![PageOf[c]] = TRUE]
  /\ UNCHANGED <<ws, streaming, checked, timers, up, hubVars, acts>>

Connect(c) ==
  LET p == PageOf[c] IN
  /\ retry[p] /\ conn[c] = "new"
  /\ conn' = [conn EXCEPT ![c] = "connecting"]
  /\ ws' = [ws EXCEPT ![p] = c]
  /\ retry' = [retry EXCEPT ![p] = FALSE]
  /\ UNCHANGED <<streaming, checked, timers, up, down, hubVars, userVars>>

\* The tab is reloaded, or closed and opened: timers and copies are gone.
Reload(c) ==
  LET p == PageOf[c] IN
  /\ conn[c] = "new"
  /\ Ends(ws[p])
  /\ conn' = [conn EXCEPT ![ws[p]] = "closed", ![c] = "connecting"]
  /\ ws' = [ws EXCEPT ![p] = c]
  /\ streaming' = [streaming EXCEPT ![p] = FALSE] /\ checked' = [checked EXCEPT ![p] = FALSE]
  /\ timers' = [timers EXCEPT ![p] = 0]
  /\ UNCHANGED <<retry, up, hubVars, acts>>

(***************************************************************************)
(* The server.                                                             *)
(***************************************************************************)

\* Mutant of Tell: no message is dropped.
TellAll(cs, s) ==
  /\ down' = [c \in Conns |-> IF c \in cs /\ conn[c] = "open"
                              THEN Append(down[c], s) ELSE down[c]]
  /\ UNCHANGED missed

\* fanout: the state s to all of cs
Tell(cs, s) ==
  /\ down' = [c \in Conns |-> IF c \in cs /\ conn[c] = "open" /\ Len(down[c]) < SendCap
                              THEN Append(down[c], s) ELSE down[c]]
  /\ missed' = [c \in Conns |-> IF c \in cs THEN Len(down[c]) >= SendCap ELSE missed[c]]

\* stateMsg
StateMsg == [streaming |-> live, audible |-> keepAudible]

\* Mutant of NextRequest: each request has a goroutine of its own.
AnyRequest(c) == 1 .. Len(up[c])

\* readPump takes the requests in the order they were sent.
NextRequest(c) == {i \in 1 .. Len(up[c]) : i = 1}

Read(c) ==
  /\ reader[c] = "reading"
  /\ \E i \in NextRequest(c) :
       LET r == up[c][i] IN
       /\ up' = [up EXCEPT ![c] = SubSeq(@, 1, i - 1) \o SubSeq(@, i + 1, Len(@))]
       /\ reader' = [reader EXCEPT ![c] = CASE r.type = "start" -> "starting"
                                            [] r.type = "stop" -> "stopping"
                                            [] OTHER -> "reading"]
       /\ audible' = [audible EXCEPT ![c] = r.type = "start" /\ r.audible]
       \* hello and setDelay, each under the lock
       /\ clients' = IF r.type = "hello" THEN clients \cup {c} ELSE clients
       /\ CASE r.type = "hello" -> Tell({c}, StateMsg)
            [] r.type = "delay" -> Tell(clients, StateMsg)
            [] OTHER -> UNCHANGED <<down, missed>>
  /\ UNCHANGED <<pageVars, conn, live, keepAudible, launch, userVars>>

Back(c) == /\ reader' = [reader EXCEPT ![c] = "reading"]
           /\ audible' = [audible EXCEPT ![c] = FALSE]

\* the end of startStream: the state changes and is announced,
Started(c) ==
  /\ reader[c] = "starting"
  /\ live' = TRUE /\ keepAudible' = audible[c]
  /\ Tell(clients, [streaming |-> TRUE, audible |-> audible[c]])
  /\ Back(c)
  /\ UNCHANGED <<pageVars, conn, up, clients, launch, userVars>>

\* or capture does not start,
Failed(c) ==
  /\ reader[c] = "starting"
  /\ live' = FALSE
  /\ Tell(clients, [streaming |-> FALSE, audible |-> keepAudible])
  /\ Back(c)
  /\ Asked(live, FALSE)
  /\ UNCHANGED <<pageVars, conn, up, clients, keepAudible, launch, acts>>

\* or the mac is not ready, and the pages are told why.
NotReady(c) ==
  /\ reader[c] = "starting"
  /\ Back(c)
  /\ Asked(live, FALSE)
  /\ UNCHANGED <<pageVars, netVars, clients, live, keepAudible, launch, missed, acts>>

\* stopStream changes the state, puts the output back, and announces the
\* state as it is by then.
Stopped(c) ==
  /\ reader[c] = "stopping"
  /\ live' = FALSE
  /\ reader' = [reader EXCEPT ![c] = "stopped"]
  /\ UNCHANGED <<pageVars, netVars, audible, clients, keepAudible, launch, missed, userVars>>

\* Mutant of Announce: the message was made before the output was put back.
AnnounceStale(c) ==
  /\ reader[c] = "stopped"
  /\ Tell(clients, [streaming |-> FALSE, audible |-> keepAudible])
  /\ Back(c)
  /\ UNCHANGED <<pageVars, conn, up, clients, live, keepAudible, launch, userVars>>

Announce(c) ==
  /\ reader[c] = "stopped"
  /\ Tell(clients, StateMsg)
  /\ Back(c)
  /\ UNCHANGED <<pageVars, conn, up, clients, live, keepAudible, launch, userVars>>

\* ReadMessage fails, with or without the rest of what was sent.
Drop(c) ==
  /\ reader[c] = "reading" /\ conn[c] = "closed"
  /\ reader' = [reader EXCEPT ![c] = "gone"]
  /\ clients' = clients \ {c}
  /\ up' = [up EXCEPT ![c] = <<>>]
  /\ missed' = [missed EXCEPT ![c] = FALSE]
  /\ UNCHANGED <<pageVars, conn, down, audible, live, keepAudible, launch, userVars>>

Handle(c) ==
  Read(c) \/ Started(c) \/ Failed(c) \/ NotReady(c) \/ Stopped(c) \/ Announce(c) \/ Drop(c)

\* The start at launch, audible, ends in the same three ways, beside whatever
\* the pages ask.
LaunchStarts ==
  /\ live' = TRUE /\ keepAudible' = TRUE
  /\ Tell(clients, [streaming |-> TRUE, audible |-> TRUE])
  /\ UNCHANGED wants
LaunchFails ==
  /\ live' = FALSE
  /\ Tell(clients, [streaming |-> FALSE, audible |-> keepAudible])
  /\ Asked(live, FALSE)
  /\ UNCHANGED keepAudible
LaunchNotReady ==
  /\ Asked(live, FALSE)
  /\ UNCHANGED <<live, keepAudible, down, missed>>
Launch ==
  /\ launch
  /\ launch' = FALSE
  /\ LaunchStarts \/ LaunchFails \/ LaunchNotReady
  /\ UNCHANGED <<pageVars, conn, up, reader, audible, clients, acts>>

Next ==
  \/ \E p \in Pages : Power(p) \/ Audible(p) \/ Restart(p) \/ Delay(p)
  \/ \E c \in Conns : \/ ApplyState(c) \/ Open(c) \/ Lose(c) \/ Connect(c) \/ Reload(c)
                      \/ Handle(c)
  \/ Launch

\* Timers fire and goroutines run.  No state has to arrive at a page, and
\* nobody has to click.
Fairness ==
  /\ \A p \in Pages : WF_vars(Restart(p))
  /\ \A c \in Conns : WF_vars(Handle(c))
  /\ WF_vars(Launch)

Spec == Init /\ [][Next]_vars /\ Fairness

(***************************************************************************)
(* Properties.                                                             *)
(***************************************************************************)

\* host.js:9: "The server holds the truth about whether audio is flowing".  A
\* page that has said hello and has heard all it was sent shows it, whichever
\* starts and stops of other pages overlap, unless its queue was full or a
\* stop is still putting the output back.
ShownIsTrue ==
  \A p \in Pages :
    LET c == ws[p] IN
    (/\ c \in clients /\ conn[c] = "open" /\ down[c] = <<>> /\ ~missed[c]
     /\ \A d \in Conns : reader[d] # "stopped")
      => streaming[p] = live

Asks(r) == r.type \in {"start", "stop"}
Pending(c) ==
  reader[c] \in {"starting", "stopping"} \/ \E i \in 1 .. Len(up[c]) : Asks(up[c][i])

\* Whenever no start or stop is under way or being handled, that of the launch
\* included, and no timer of the audible switch waits, the stream is as it was
\* last asked to be: however the requests of one page follow each other and its
\* connections come and go, the last one decides (host.js:130-156,
\* session.go:124-166).  What a page asks while the start at launch is still
\* under way is not clear: its stop may be followed by that start
\* (StopIsObeyed of MCHostFindings).
Settled ==
  (wants # None /\ ~launch /\ (\A p \in Pages : timers[p] = 0) /\ \A c \in Conns : ~Pending(c))
    => live = wants

\* The stream ends up as it was last asked to be: in particular the audible
\* switch, which stops it and starts it again, leaves it running.  Excepted
\* are two pages that ask at once, a page that asks while the start at launch
\* is under way, a start that fails, a request lost with its connection, and a
\* click of the button while the switch waits.
Obeyed ==
  \A on \in BOOLEAN : <>[](wants = on) => <>[](live = on)
=============================================================================
