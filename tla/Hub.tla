-------------------------------- MODULE Hub --------------------------------
(***************************************************************************)
(* The room: which connections are registered with the server, under which *)
(* id, in which order and at which volume, and what the pages are told     *)
(* about it (session.go: handleWS, readPump, writePump, hello, drop,       *)
(* setGain, rosterMsg, fanout, trySend).                                   *)
(*                                                                         *)
(* Each connection is served by two goroutines, a reader and a writer,     *)
(* joined by a bounded channel.  The reader takes a message off the socket *)
(* and then handles it under server.mu, as one step: between the two,      *)
(* other readers handle theirs, and may retire this connection.  A         *)
(* connection is used once; a page that comes back opens another one.      *)
(***************************************************************************)
EXTENDS Integers, FiniteSets

CONSTANTS
  Conns,      \* connections
  Page,       \* the page that opens each: a device's speaker page, or the host page
  Devices,    \* ids that speaker pages keep in localStorage
  Host,       \* the host page: its hello brings no id
  Gains,      \* volumes the mixer asks for, in percent
  SendCap,    \* capacity of client.send (16 in the code)
  MaxHellos,  \* hellos a page sends on one connection: 1 when it opens, 1 when its user joins
  None        \* no id, no message

ASSUME HubAssumption ==
  /\ Page \in [Conns -> Devices \cup {Host}]
  /\ Host \notin Devices /\ None \notin Devices /\ None # Host
  /\ Devices \cap Nat = {} /\ None \notin Nat
  /\ Gains \subseteq Int
  /\ SendCap \in Nat \ {0} /\ MaxHellos \in Nat \ {0}

VARIABLES
  \* the network
  sock,      \* "new", "open", "lost": the far end vanished, "shut": one end closed it
  hellos,    \* hellos read from the connection
  \* goroutines
  reader,    \* readPump: "none", "reading", "handling", "dropping" (deferred), "gone"
  msg,       \* the message it handles
  writer,    \* writePump: "none", "on", "off"
  \* client
  open,      \* is client.send open?
  queued,    \* messages in client.send
  id, seq, gain, guest,
  \* server
  clients,   \* s.clients
  lastSeq,   \* s.seq
  stuck,     \* a goroutine died holding s.mu
  \* what the queued messages tell the page, once it has read them all
  shown,     \* rows of the last roster
  vol,       \* volume the page plays at
  missed     \* a message found the queue full

netVars    == <<sock, hellos>>
threadVars == <<reader, msg, writer>>
rowVars    == <<id, seq, gain, guest>>
hubVars    == <<clients, lastSeq, stuck>>
toldVars   == <<queued, shown, vol, missed>>
vars == <<netVars, threadVars, open, rowVars, hubVars, toldVars>>

Full == 100
Ids  == Devices \cup Nat     \* "s<n>", given to a page without an id, is n

Messages == [type : {"hello", "sync", "delay"}] \cup [type : {"gain"}, id : Ids \cup {None}, gain : Gains]
Rows     == [id : Ids \cup {None}, seq : Nat, gain : 0 .. Full]

TypeOK ==
  /\ sock \in [Conns -> {"new", "open", "lost", "shut"}]
  /\ hellos \in [Conns -> 0 .. MaxHellos]
  /\ reader \in [Conns -> {"none", "reading", "handling", "dropping", "gone"}]
  /\ msg \in [Conns -> Messages \cup {None}]
  /\ writer \in [Conns -> {"none", "on", "off"}]
  /\ open \in [Conns -> BOOLEAN] /\ queued \in [Conns -> 0 .. SendCap]
  /\ id \in [Conns -> Ids \cup {None}] /\ seq \in [Conns -> Nat]
  /\ gain \in [Conns -> 0 .. Full] /\ guest \in [Conns -> BOOLEAN]
  /\ clients \subseteq Conns /\ lastSeq \in Nat /\ stuck \in BOOLEAN
  /\ shown \in [Conns -> SUBSET Rows] /\ vol \in [Conns -> 0 .. Full]
  /\ missed \in [Conns -> BOOLEAN]

Init ==
  /\ sock = [c \in Conns |-> "new"]
  /\ hellos = [c \in Conns |-> 0]
  /\ reader = [c \in Conns |-> "none"] /\ msg = [c \in Conns |-> None]
  /\ writer = [c \in Conns |-> "none"]
  /\ open = [c \in Conns |-> TRUE] /\ queued = [c \in Conns |-> 0]
  /\ id = [c \in Conns |-> None] /\ seq = [c \in Conns |-> 0]
  /\ gain = [c \in Conns |-> 0] /\ guest = [c \in Conns |-> FALSE]
  /\ clients = {} /\ lastSeq = 0 /\ stuck = FALSE
  /\ shown = [c \in Conns |-> {}] /\ vol = [c \in Conns |-> Full]
  /\ missed = [c \in Conns |-> FALSE]

(***************************************************************************)
(* Messages to the pages.                                                  *)
(***************************************************************************)
Clamp(g) == IF g < 0 THEN 0 ELSE IF g > Full THEN Full ELSE g

\* rosterMsg, for given registrations: the guests, in the order of their seq
Roster(cs, i, s, g, gu) ==
  {[id |-> i[c], seq |-> s[c], gain |-> g[c]] : c \in {d \in cs : gu[d]}}

\* Mutant of Took: the send blocks until there is room, so the queue is as
\* long as it needs to be.
TookAll(q, n) == q + n

\* trySend: the queue q takes n more messages as far as it has room
Took(q, n) == IF q + n > SendCap THEN SendCap ELSE q + n

\* Every registered connection is sent the roster, c after k messages of its
\* own.  What is put in a channel whose writer has ended reaches nobody.
Tell(cs, roster, c, k) ==
  LET reached    == {d \in cs : writer[d] = "on"}
      before(d)  == queued[d] + (IF d = c THEN k ELSE 0)
      accepted   == {d \in reached : before(d) < SendCap}
  IN
  /\ queued' = [d \in Conns |-> IF d \in reached THEN Took(before(d), 1) ELSE queued[d]]
  /\ shown' = [d \in Conns |-> IF d \notin cs THEN {}
                               ELSE IF d \in accepted THEN roster ELSE shown[d]]
  /\ missed' = [d \in Conns |-> d \in cs \ accepted]

(***************************************************************************)
(* Pages and the network.                                                  *)
(***************************************************************************)

\* handleWS: a page connects; both goroutines start.
Connect(c) ==
  /\ sock[c] = "new"
  /\ sock' = [sock EXCEPT ![c] = "open"]
  /\ reader' = [reader EXCEPT ![c] = "reading"]
  /\ writer' = [writer EXCEPT ![c] = "on"]
  /\ UNCHANGED <<hellos, msg, open, rowVars, hubVars, toldVars>>

\* What a page may send next: hello first; then the mixer sets the volume of
\* a row it shows, or the delay, and a speaker says hello again when its user
\* joins, or asks for the time.
Sendable(c) ==
  (IF hellos[c] = 0 \/ (Page[c] # Host /\ hellos[c] < MaxHellos)
     THEN {[type |-> "hello"]} ELSE {})
  \cup (IF hellos[c] = 0 THEN {}
        ELSE IF Page[c] = Host
               THEN {[type |-> "delay"]}
                    \cup {[type |-> "gain", id |-> r.id, gain |-> g] : r \in shown[c], g \in Gains}
               ELSE {[type |-> "sync"]})

\* ReadMessage returns a message.  Whatever the page sent before it closed or
\* vanished has been received before Close or Vanish here; of what is left in
\* the buffer of a connection the server closes, one message may be in msg.
Receive(c) ==
  /\ reader[c] = "reading" /\ sock[c] = "open"
  /\ \E m \in Sendable(c) :
       /\ msg' = [msg EXCEPT ![c] = m]
       /\ hellos' = [hellos EXCEPT ![c] = IF m.type = "hello" THEN @ + 1 ELSE @]
  /\ reader' = [reader EXCEPT ![c] = "handling"]
  /\ UNCHANGED <<sock, writer, open, rowVars, hubVars, toldVars>>

\* ReadMessage fails: the socket is closed, or no pong came for pongTimeout.
ReadFails(c) ==
  /\ reader[c] = "reading" /\ sock[c] \in {"lost", "shut"}
  /\ reader' = [reader EXCEPT ![c] = "dropping"]
  /\ UNCHANGED <<netVars, msg, writer, open, rowVars, hubVars, toldVars>>

\* a phone sleeps, loses wifi or is swiped away
Vanish(c) ==
  /\ sock[c] = "open"
  /\ sock' = [sock EXCEPT ![c] = "lost"]
  /\ UNCHANGED <<hellos, threadVars, open, rowVars, hubVars, toldVars>>

\* a tab is closed or reloaded, or its user leaves
Close(c) ==
  /\ sock[c] = "open"
  /\ sock' = [sock EXCEPT ![c] = "shut"]
  /\ UNCHANGED <<hellos, threadVars, open, rowVars, hubVars, toldVars>>

(***************************************************************************)
(* The reader's handlers, each under s.mu from its first line to its last. *)
(***************************************************************************)
Handles(c, type) == reader[c] = "handling" /\ msg[c].type = type
Return(c) == /\ reader' = [reader EXCEPT ![c] = "reading"]
             /\ msg' = [msg EXCEPT ![c] = None]
\* a panic runs the deferred drop first; net/http recovers it once that has
\* returned, which it never does when the panic kept the lock
Panic(c)  == /\ reader' = [reader EXCEPT ![c] = "dropping"]
             /\ msg' = [msg EXCEPT ![c] = None]

\* the id a hello brings: the host page has none
Want(c) == IF Page[c] = Host THEN None ELSE Page[c]

\* Mutant of Old: a reconnecting device is not recognised.
NeverOld(c) == {}

\* the registered connection, if any, that holds the id this hello wants
Old(c) == {d \in clients \ {c} : Want(c) # None /\ id[d] = Want(c)}

\* Mutant of GainFor: the volume is not carried across.
ForgetsGain(c) == Full

\* Mutant of SeqFor: the place is not carried across.
ForgetsSeq(c) == seq[c]

\* the volume and the place in the mixer that are carried across; a hello on
\* a connection that is its own row keeps the place only
GainFor(c) == IF Old(c) # {} THEN gain[CHOOSE d \in Old(c) : TRUE] ELSE Full
SeqFor(c)  == IF Old(c) # {} THEN seq[CHOOSE d \in Old(c) : TRUE] ELSE seq[c]

\* hello: the old connection is retired, and a page without an id or a place
\* is given one.
Register(c) ==
  LET fresh == IF Want(c) # None THEN SeqFor(c) = 0 ELSE id[c] = None
      next  == lastSeq + 1
  IN
  /\ lastSeq' = IF fresh THEN next ELSE lastSeq
  /\ seq' = [seq EXCEPT ![c] = IF fresh THEN next ELSE SeqFor(c)]
  /\ gain' = [gain EXCEPT ![c] = GainFor(c)]
  /\ guest' = [guest EXCEPT ![c] = Page[c] # Host]
  /\ id' = [id EXCEPT ![c] = IF Want(c) # None THEN Want(c) ELSE IF fresh THEN next ELSE @]
  /\ clients' = (clients \ Old(c)) \cup {c}
  /\ open' = [d \in Conns |-> open[d] /\ d \notin Old(c)]
  /\ sock' = [d \in Conns |-> IF d \in Old(c) THEN "shut" ELSE sock[d]]

\* The connection is told its id and the state, and everyone the roster.  On
\* a connection that was itself retired meanwhile the first trySend panics
\* with the mutex held, and the deferred drop waits for that mutex for ever.
Hello(c) ==
  /\ Handles(c, "hello") /\ ~stuck
  /\ Register(c)
  /\ \/ /\ open[c]
        /\ Tell(clients', Roster(clients', id', seq', gain', guest'), c, 2)
        /\ Return(c)
        /\ UNCHANGED stuck
     \/ /\ ~open[c]
        /\ stuck' = TRUE
        /\ Panic(c)
        /\ UNCHANGED <<queued, shown, missed>>
  /\ UNCHANGED <<hellos, writer, vol>>

\* setGain: the speaker is told its volume, and everyone the roster.
SetGain(c) ==
  /\ Handles(c, "gain") /\ ~stuck
  /\ LET g     == Clamp(msg[c].gain)
         named == {d \in clients : id[d] = msg[c].id /\ guest[d]}
         d     == CHOOSE d \in named : TRUE
     IN IF named = {}
          THEN /\ Tell(clients, Roster(clients, id, seq, gain, guest), c, 0)
               /\ UNCHANGED <<gain, vol>>
          ELSE /\ gain' = [gain EXCEPT ![d] = g]
               /\ vol' = [vol EXCEPT ![d] = IF queued[d] < SendCap THEN g ELSE vol[d]]
               /\ Tell(clients, Roster(clients, id, seq, gain', guest), d, 1)
  /\ Return(c)
  /\ UNCHANGED <<netVars, writer, open, id, seq, guest, hubVars>>

\* setDelay, and startStream and stopStream alike: everyone is told the state.
Announce(c) ==
  /\ Handles(c, "delay") /\ ~stuck
  /\ queued' = [d \in Conns |-> IF d \in clients /\ writer[d] = "on"
                                THEN Took(queued[d], 1) ELSE queued[d]]
  /\ Return(c)
  /\ UNCHANGED <<netVars, writer, open, rowVars, hubVars, shown, vol, missed>>

\* case "sync": answered without the lock
Sync(c) ==
  /\ Handles(c, "sync")
  /\ IF open[c]
       THEN /\ queued' = [queued EXCEPT ![c] = IF writer[c] = "on" THEN Took(@, 1) ELSE @]
            /\ Return(c)
       ELSE Panic(c) /\ UNCHANGED queued
  /\ UNCHANGED <<netVars, writer, open, rowVars, hubVars, shown, vol, missed>>

\* The deferred drop of c: left stays registered and is told of the rows of
\* told.  The client's fields are not read again, nor is its page there to be
\* told anything.
DropTo(c, left, told) ==
  /\ reader[c] = "dropping" /\ ~stuck
  /\ reader' = [reader EXCEPT ![c] = "gone"]
  /\ clients' = left
  /\ open' = [open EXCEPT ![c] = @ /\ c \notin clients]
  /\ Tell(left, Roster(told, id, seq, gain, guest), c, 0)
  /\ id' = [id EXCEPT ![c] = None] /\ seq' = [seq EXCEPT ![c] = 0]
  /\ gain' = [gain EXCEPT ![c] = 0] /\ guest' = [guest EXCEPT ![c] = FALSE]
  /\ hellos' = [hellos EXCEPT ![c] = 0] /\ vol' = [vol EXCEPT ![c] = Full]
  /\ UNCHANGED <<sock, msg, writer, lastSeq, stuck>>

\* Mutants of Drop: the channels are closed and the connection stays
\* registered; the roster is built before the row is gone; every connection
\* with the same id goes.
DropForgetsDelete(c) == DropTo(c, clients, clients)
DropTellsFirst(c)    == DropTo(c, clients \ {c}, clients)
DropById(c)          == LET left == {d \in clients : id[d] # id[c]} IN DropTo(c, left, left)

\* drop: a connection that is not registered, never or no more, only repeats
\* the roster.
Drop(c) == DropTo(c, clients \ {c}, clients \ {c})

(***************************************************************************)
(* The writer.                                                             *)
(***************************************************************************)

\* A message is written; into a lost connection, for a while, too.
Write(c) ==
  /\ writer[c] = "on" /\ queued[c] > 0 /\ sock[c] \in {"open", "lost"}
  /\ queued' = [queued EXCEPT ![c] = @ - 1]
  /\ UNCHANGED <<netVars, threadVars, open, rowVars, hubVars, shown, vol, missed>>

\* Mutant of WriterEnds: a failed write is ignored.
IgnoresWriteErrors(c) ==
  /\ writer[c] = "on"
  /\ ~open[c]
  /\ writer' = [writer EXCEPT ![c] = "off"]
  /\ sock' = [sock EXCEPT ![c] = "shut"]
  /\ queued' = [queued EXCEPT ![c] = 0]
  /\ UNCHANGED <<hellos, reader, msg, open, rowVars, hubVars, shown, vol, missed>>

\* A write or a ping fails, or the channels are closed: the writer closes the
\* connection and ends.  What is still queued in client.send may be written
\* before, or not: select may see first that client.audio is closed.
WriterEnds(c) ==
  /\ writer[c] = "on"
  /\ sock[c] \in {"lost", "shut"} \/ ~open[c]
  /\ writer' = [writer EXCEPT ![c] = "off"]
  /\ sock' = [sock EXCEPT ![c] = "shut"]
  /\ queued' = [queued EXCEPT ![c] = 0]
  /\ UNCHANGED <<hellos, reader, msg, open, rowVars, hubVars, shown, vol, missed>>

Handle(c) == Hello(c) \/ SetGain(c) \/ Announce(c) \/ Sync(c)
Reader(c) == ReadFails(c) \/ Handle(c) \/ Drop(c)
Writer(c) == Write(c) \/ WriterEnds(c)

Next ==
  \E c \in Conns :
    \/ Connect(c)
    \/ Receive(c) \/ Vanish(c) \/ Close(c)
    \/ Reader(c) \/ Writer(c)

\* Goroutines are scheduled, timeouts expire; pages are free to do nothing.
Fairness == \A c \in Conns : WF_vars(Reader(c)) /\ WF_vars(Writer(c))

Spec == Init /\ [][Next]_vars /\ Fairness

(***************************************************************************)
(* Properties.                                                             *)
(***************************************************************************)

\* One row per device, whatever reconnects, renames and drops overlap (the
\* "three-Oppos bug" of server_test.go): no two registered connections have
\* the same id, nor the same place in the mixer's order.
OneRowPerDevice ==
  \A c, d \in clients : c # d => id[c] # id[d] /\ seq[c] # seq[d]

\* Nothing is ever sent on a closed channel by a fanout: while the lock can
\* be taken, every registered connection's channel is open.
RegisteredIsOpen == ~stuck => \A c \in clients : open[c]

\* The mixer is not behind: the last roster a registered page was sent is
\* what the server holds, unless its queue was full then.
RosterIsTrue ==
  ~stuck => \A c \in clients :
              missed[c] \/ shown[c] = Roster(clients, id, seq, gain, guest)

\* A row leaves the mixer only when its own connection ends; that of a
\* connection retired before does not take it along.
RowOutlivesStaleDrop ==
  [][\A c \in clients :
       \/ \E d \in clients' : id'[d] = id[c]
       \/ reader[c] = "dropping" /\ reader'[c] = "gone"]_vars

\* As long as a device is in the room its place does not change, and when
\* another connection takes over, its volume does not either.
RowKeepsPlaceAndVolume ==
  [][\A c \in clients, d \in clients' :
       id[c] = id'[d] => /\ seq'[d] = seq[c]
                         /\ c # d => gain'[d] = gain[c]]_vars

\* A peer that is gone leaves the mixer and both its goroutines end, as long
\* as the lock can be taken.
GoneLeaves ==
  \A c \in Conns :
    sock[c] \in {"lost", "shut"}
      ~> (stuck \/ (c \notin clients /\ reader[c] = "gone" /\ writer[c] = "off"))

\* What Room speaks of: the rows of the mixer, and the connections that are over.
RowOf(c)  == [device |-> id[c], place |-> seq[c], volume |-> gain[c], by |-> c]
MixerRows == {RowOf(c) : c \in {d \in clients : Page[d] # Host}}
Over      == {c \in Conns : reader[c] = "gone"}

Mixer == INSTANCE Room WITH rows <- MixerRows, last <- lastSeq, ended <- Over

\* The mixer keeps what Room promises, whatever hellos, volumes and ends of
\* connections overlap, and also when a hello has died holding the lock.
RoomIsKept == Mixer!Spec
=============================================================================
