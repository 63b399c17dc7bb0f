----------------------------- MODULE HubProofs -----------------------------
(***************************************************************************)
(* Proofs about Hub, for any number of connections, devices and volumes    *)
(* and any queue length.  What makes the registry right is a fact about    *)
(* ids and places that holds of every connection, registered or not,       *)
(* because the fields of a connection outlive its registration: two        *)
(* connections have the same place only if they have the same id.  That and*)
(* what is true of a connection that has ended show that Hub implements    *)
(* Room.                                                                   *)
(***************************************************************************)
EXTENDS Hub, TLAPS

(***************************************************************************)
(* The inductive invariant.                                                *)
(***************************************************************************)

\* a reader at work has a message
Handling == \A c \in Conns : reader[c] = "handling" => msg[c] \in Messages

\* An id comes with a place; a speaker page's id is the device's, a host
\* page's is the number of its place.
IdsMatch ==
  \A c \in Conns :
    /\ seq[c] <= lastSeq
    /\ id[c] = None <=> seq[c] = 0
    /\ Page[c] # Host => id[c] \in {None, Page[c]}
    /\ Page[c] = Host => id[c] \in {None, seq[c]}

\* One place, one id; the place of a host page is its own.
PlacesMatch ==
  \A c, d \in Conns :
    seq[c] = seq[d] /\ seq[c] # 0 =>
      /\ id[c] = id[d]
      /\ Page[c] = Host => c = d

Named == \A c \in clients : id[c] # None
OneId == \A c, d \in clients : id[c] = id[d] => c = d

Places == IdsMatch /\ PlacesMatch /\ Named /\ OneId
TypeInv == TypeOK /\ Handling
IInv == TypeInv /\ Places /\ RegisteredIsOpen /\ RosterIsTrue

(***************************************************************************)
(* Type correctness.                                                       *)
(***************************************************************************)

\* Clamp yields a volume.
LEMMA ClampTyped ==
  ASSUME NEW g \in Int
  PROVE  Clamp(g) \in 0 .. Full
BY DEF Clamp, Full

\* Took never fills a queue past its capacity.
LEMMA TookTyped ==
  ASSUME NEW q \in Nat, NEW n \in Nat
  PROVE  Took(q, n) \in 0 .. SendCap
BY HubAssumption DEF Took

\* A roster is a set of rows.
LEMMA RosterTyped ==
  ASSUME NEW cs \in SUBSET Conns, NEW i \in [Conns -> Ids \cup {None}],
         NEW s \in [Conns -> Nat], NEW g \in [Conns -> 0 .. Full],
         NEW gu \in [Conns -> BOOLEAN]
  PROVE  Roster(cs, i, s, g, gu) \in SUBSET Rows
BY DEF Roster, Rows

\* Telling the connections a roster keeps the types.
LEMMA TellTyped ==
  ASSUME TypeOK, NEW cs \in SUBSET Conns, NEW roster \in SUBSET Rows,
         NEW c \in Conns, NEW k \in Nat, Tell(cs, roster, c, k)
  PROVE  /\ queued' \in [Conns -> 0 .. SendCap]
         /\ shown' \in [Conns -> SUBSET Rows]
         /\ missed' \in [Conns -> BOOLEAN]
<1> DEFINE before(d) == queued[d] + (IF d = c THEN k ELSE 0)
           reached   == {d \in cs : writer[d] = "on"}
           accepted  == {d \in reached : before(d) < SendCap}
<1>1. \A d \in Conns : queued[d] \in 0 .. SendCap /\ before(d) \in Nat
  BY HubAssumption DEF TypeOK
<1>2. \A d \in Conns : Took(before(d), 1) \in 0 .. SendCap
  BY <1>1, TookTyped
<1>3. queued' = [d \in Conns |-> IF d \in reached THEN Took(before(d), 1) ELSE queued[d]]
  BY DEF Tell
<1>4. queued' \in [Conns -> 0 .. SendCap]
  <2> HIDE DEF before, reached
  <2> QED BY <1>1, <1>2, <1>3
<1>5. shown' = [d \in Conns |-> IF d \notin cs THEN {}
                                ELSE IF d \in accepted THEN roster ELSE shown[d]]
  BY DEF Tell
<1>6. \A d \in Conns : shown[d] \in SUBSET Rows
  BY DEF TypeOK
<1>7. shown' \in [Conns -> SUBSET Rows]
  <2> HIDE DEF accepted
  <2> QED BY <1>5, <1>6
<1>8. missed' \in [Conns -> BOOLEAN]
  BY DEF Tell
<1> QED
  BY <1>4, <1>7, <1>8

\* A handler that returns leaves the reader typed, and so does a panic.
LEMMA ReaderMoves ==
  ASSUME TypeInv, NEW c \in Conns, Return(c) \/ Panic(c)
  PROVE  /\ reader' \in [Conns -> {"none", "reading", "handling", "dropping", "gone"}]
         /\ msg' \in [Conns -> Messages \cup {None}]
         /\ Handling'
BY DEF TypeInv, TypeOK, Handling, Return, Panic

\* A gain message carries a volume.
LEMMA GainMessage ==
  ASSUME NEW m \in Messages, m.type = "gain"
  PROVE  m.gain \in Gains
BY DEF Messages

\* Initially the types are right.
LEMMA TypeInit == Init => TypeInv
<1> SUFFICES ASSUME Init PROVE TypeInv
  OBVIOUS
<1>1. 0 \in 0 .. MaxHellos /\ 0 \in 0 .. SendCap /\ 0 \in 0 .. Full /\ Full \in 0 .. Full
  BY HubAssumption DEF Full
<1>2. /\ sock \in [Conns -> {"new", "open", "lost", "shut"}]
      /\ hellos \in [Conns -> 0 .. MaxHellos]
      /\ reader \in [Conns -> {"none", "reading", "handling", "dropping", "gone"}]
      /\ msg \in [Conns -> Messages \cup {None}]
      /\ writer \in [Conns -> {"none", "on", "off"}]
      /\ open \in [Conns -> BOOLEAN] /\ queued \in [Conns -> 0 .. SendCap]
  BY <1>1 DEF Init
<1>3. /\ id \in [Conns -> Ids \cup {None}] /\ seq \in [Conns -> Nat]
      /\ gain \in [Conns -> 0 .. Full] /\ guest \in [Conns -> BOOLEAN]
      /\ clients \subseteq Conns /\ lastSeq \in Nat /\ stuck \in BOOLEAN
      /\ shown \in [Conns -> SUBSET Rows] /\ vol \in [Conns -> 0 .. Full]
      /\ missed \in [Conns -> BOOLEAN]
  BY <1>1 DEF Init
<1>4. Handling
  BY DEF Init, Handling
<1> QED
  BY <1>2, <1>3, <1>4 DEF TypeInv, TypeOK

\* What a page may send is a message, and its hellos are numbered.
LEMMA SendableTyped ==
  ASSUME TypeOK, NEW c \in Conns, NEW m \in Sendable(c)
  PROVE  m \in Messages
<1>1. CASE m \in {[type |-> "hello"], [type |-> "delay"], [type |-> "sync"]}
  BY <1>1 DEF Messages
<1>2. CASE m \in {[type |-> "gain", id |-> r.id, gain |-> g] : r \in shown[c], g \in Gains}
  <2>1. PICK r \in shown[c], g \in Gains : m = [type |-> "gain", id |-> r.id, gain |-> g]
    BY <1>2
  <2>2. r.id \in Ids \cup {None}
    BY DEF TypeOK, Rows
  <2> QED BY <2>1, <2>2 DEF Messages
<1> QED
  BY <1>1, <1>2 DEF Sendable

\* Connections come and go, and their readers take messages.
LEMMA NetTyped ==
  ASSUME TypeInv, NEW c \in Conns,
         Connect(c) \/ Receive(c) \/ Vanish(c) \/ Close(c) \/ ReadFails(c)
  PROVE  TypeInv'
<1> USE DEF TypeInv, TypeOK, Handling, netVars, threadVars, rowVars, hubVars, toldVars
<1>1. CASE Connect(c)
  BY <1>1 DEF Connect
<1>2. CASE Receive(c)
  <2>1. PICK m \in Sendable(c) :
          /\ msg' = [msg EXCEPT ![c] = m]
          /\ hellos' = [hellos EXCEPT ![c] = IF m.type = "hello" THEN @ + 1 ELSE @]
    BY <1>2 DEF Receive
  <2>2. m \in Messages
    BY SendableTyped
  <2>3. m.type = "hello" => hellos[c] + 1 \in 0 .. MaxHellos
    BY HubAssumption DEF Sendable
  <2>4. hellos' \in [Conns -> 0 .. MaxHellos]
    BY <2>1, <2>3
  <2>5. /\ msg' \in [Conns -> Messages \cup {None}]
        /\ reader' \in [Conns -> {"none", "reading", "handling", "dropping", "gone"}]
        /\ Handling'
    BY <1>2, <2>1, <2>2 DEF Receive
  <2>6. UNCHANGED <<sock, writer, open, rowVars, hubVars, toldVars>>
    BY <1>2 DEF Receive
  <2> QED
    BY <2>4, <2>5, <2>6
<1>3. CASE Vanish(c)
  BY <1>3 DEF Vanish
<1>4. CASE Close(c)
  BY <1>4 DEF Close
<1>5. CASE ReadFails(c)
  BY <1>5 DEF ReadFails
<1> QED
  BY <1>1, <1>2, <1>3, <1>4, <1>5

\* The volume and the place a hello gets are of the right types, and of the
\* connections it retires it is not one.
LEMMA OldTyped ==
  ASSUME TypeOK, NEW c \in Conns
  PROVE  /\ Old(c) \subseteq clients \ {c}
         /\ GainFor(c) \in 0 .. Full /\ SeqFor(c) \in Nat
         /\ Want(c) \in Devices \cup {None}
<1>1. Old(c) \subseteq clients \ {c}
  BY DEF Old
<1>2. Old(c) # {} => (CHOOSE d \in Old(c) : TRUE) \in Conns
  BY <1>1 DEF TypeOK
<1>3. GainFor(c) \in 0 .. Full
  BY <1>2 DEF GainFor, TypeOK, Full
<1>4. SeqFor(c) \in Nat
  BY <1>2 DEF SeqFor, TypeOK
<1>5. Want(c) \in Devices \cup {None}
  BY HubAssumption DEF Want
<1> QED
  BY <1>1, <1>3, <1>4, <1>5

\* The fields a hello sets are typed.
LEMMA RegisterTyped ==
  ASSUME TypeOK, NEW c \in Conns, Register(c)
  PROVE  /\ lastSeq' \in Nat /\ seq' \in [Conns -> Nat]
         /\ gain' \in [Conns -> 0 .. Full] /\ guest' \in [Conns -> BOOLEAN]
         /\ id' \in [Conns -> Ids \cup {None}]
         /\ clients' \in SUBSET Conns
         /\ open' \in [Conns -> BOOLEAN]
         /\ sock' \in [Conns -> {"new", "open", "lost", "shut"}]
<1> USE OldTyped DEF TypeOK
<1>1. lastSeq' \in Nat /\ lastSeq + 1 \in Nat
  BY DEF Register
<1>2. seq' \in [Conns -> Nat]
  BY <1>1 DEF Register
<1>3. gain' \in [Conns -> 0 .. Full] /\ guest' \in [Conns -> BOOLEAN]
  BY DEF Register
<1>4. id' \in [Conns -> Ids \cup {None}]
  BY <1>1 DEF Register, Ids
<1>5. clients' \in SUBSET Conns
  BY DEF Register
<1>6. /\ open' \in [Conns -> BOOLEAN]
      /\ sock' \in [Conns -> {"new", "open", "lost", "shut"}]
  BY DEF Register
<1> QED
  BY <1>1, <1>2, <1>3, <1>4, <1>5, <1>6

\* Hello keeps the types.
LEMMA HelloTyped ==
  ASSUME TypeInv, NEW c \in Conns, Hello(c)
  PROVE  TypeInv'
<1>1. TypeOK /\ Register(c) /\ UNCHANGED <<hellos, writer, vol>>
  BY DEF TypeInv, Hello
<1>2. /\ lastSeq' \in Nat /\ seq' \in [Conns -> Nat]
      /\ gain' \in [Conns -> 0 .. Full] /\ guest' \in [Conns -> BOOLEAN]
      /\ id' \in [Conns -> Ids \cup {None}]
      /\ clients' \in SUBSET Conns
      /\ open' \in [Conns -> BOOLEAN]
      /\ sock' \in [Conns -> {"new", "open", "lost", "shut"}]
  BY <1>1, RegisterTyped
<1>3. Return(c) \/ Panic(c)
  BY DEF Hello
<1>4. /\ reader' \in [Conns -> {"none", "reading", "handling", "dropping", "gone"}]
      /\ msg' \in [Conns -> Messages \cup {None}]
      /\ Handling'
  BY <1>3, ReaderMoves
<1>5. stuck' \in BOOLEAN
  BY <1>1 DEF Hello, TypeOK
<1>6. /\ queued' \in [Conns -> 0 .. SendCap]
      /\ shown' \in [Conns -> SUBSET Rows]
      /\ missed' \in [Conns -> BOOLEAN]
  <2>1. CASE open[c]
    <3>1. Tell(clients', Roster(clients', id', seq', gain', guest'), c, 2)
      BY <2>1 DEF Hello
    <3>2. Roster(clients', id', seq', gain', guest') \in SUBSET Rows
      BY <1>2, RosterTyped
    <3> QED
      BY <1>1, <1>2, <3>1, <3>2, TellTyped
  <2>2. CASE ~open[c]
    BY <1>1, <2>2 DEF Hello, TypeOK
  <2> QED
    BY <2>1, <2>2
<1> QED
  BY <1>1, <1>2, <1>4, <1>5, <1>6 DEF TypeInv, TypeOK

\* SetGain keeps the types.
LEMMA SetGainTyped ==
  ASSUME TypeInv, NEW c \in Conns, SetGain(c)
  PROVE  TypeInv'
<1> DEFINE g     == Clamp(msg[c].gain)
           named == {d \in clients : id[d] = msg[c].id /\ guest[d]}
           d     == CHOOSE e \in named : TRUE
<1>1. TypeOK /\ UNCHANGED <<netVars, writer, open, id, seq, guest, hubVars>> /\ Return(c)
  BY DEF TypeInv, SetGain
<1>2. g \in 0 .. Full
  <2>1. msg[c] \in Messages /\ msg[c].type = "gain"
    BY DEF TypeInv, Handling, SetGain, Handles
  <2>2. msg[c].gain \in Int
    BY <2>1, GainMessage, HubAssumption
  <2> QED
    BY <2>2, ClampTyped
<1>3. named \in SUBSET Conns /\ clients \in SUBSET Conns
  BY <1>1 DEF TypeOK
<1>4. named # {} => d \in Conns
  BY <1>3
<1>5. gain' \in [Conns -> 0 .. Full] /\ vol' \in [Conns -> 0 .. Full]
  <2>1. CASE named = {}
    <3>1. UNCHANGED <<gain, vol>>
      BY <2>1 DEF SetGain
    <3> QED
      BY <1>1, <3>1 DEF TypeOK
  <2>2. CASE named # {}
    <3>1. /\ gain' = [gain EXCEPT ![d] = g]
          /\ vol' = [vol EXCEPT ![d] = IF queued[d] < SendCap THEN g ELSE vol[d]]
      BY <2>2 DEF SetGain
    <3>2. d \in Conns
      BY <1>4, <2>2
    <3> HIDE DEF d, g, named
    <3> QED
      BY <1>1, <1>2, <3>1, <3>2 DEF TypeOK
  <2> QED
    BY <2>1, <2>2
<1>6. /\ queued' \in [Conns -> 0 .. SendCap]
      /\ shown' \in [Conns -> SUBSET Rows]
      /\ missed' \in [Conns -> BOOLEAN]
  <2>1. CASE named = {}
    <3>1. Tell(clients, Roster(clients, id, seq, gain, guest), c, 0)
      BY <2>1 DEF SetGain
    <3>2. Roster(clients, id, seq, gain, guest) \in SUBSET Rows
      BY <1>1, RosterTyped DEF TypeOK
    <3> QED
      BY <1>1, <1>3, <3>1, <3>2, TellTyped
  <2>2. CASE named # {}
    <3>1. Tell(clients, Roster(clients, id, seq, gain', guest), d, 1)
      BY <2>2 DEF SetGain
    <3>2. Roster(clients, id, seq, gain', guest) \in SUBSET Rows
      BY <1>1, <1>5, RosterTyped DEF TypeOK
    <3>3. d \in Conns
      BY <1>4, <2>2
    <3> HIDE DEF d, g, named
    <3> QED
      BY <1>1, <1>3, <3>1, <3>2, <3>3, TellTyped
  <2> QED
    BY <2>1, <2>2
<1>7. /\ reader' \in [Conns -> {"none", "reading", "handling", "dropping", "gone"}]
      /\ msg' \in [Conns -> Messages \cup {None}]
      /\ Handling'
  BY <1>1, ReaderMoves
<1> HIDE DEF d, g, named
<1> QED
  BY <1>1, <1>5, <1>6, <1>7 DEF TypeInv, TypeOK, netVars, hubVars

\* Announce and Sync keep the types.
LEMMA AnnounceTyped ==
  ASSUME TypeInv, NEW c \in Conns, Announce(c) \/ Sync(c)
  PROVE  TypeInv'
<1>1. /\ TypeOK /\ (Return(c) \/ Panic(c))
      /\ UNCHANGED <<netVars, writer, open, rowVars, hubVars, shown, vol, missed>>
  BY DEF TypeInv, Announce, Sync
<1>2. /\ reader' \in [Conns -> {"none", "reading", "handling", "dropping", "gone"}]
      /\ msg' \in [Conns -> Messages \cup {None}]
      /\ Handling'
  BY <1>1, ReaderMoves
<1>3. \A d \in Conns : Took(queued[d], 1) \in 0 .. SendCap /\ queued[d] \in 0 .. SendCap
  <2>1. \A d \in Conns : queued[d] \in 0 .. SendCap /\ queued[d] \in Nat
    BY <1>1, HubAssumption DEF TypeOK
  <2>2. 1 \in Nat
    OBVIOUS
  <2> QED
    BY <2>1, <2>2, TookTyped
<1>4. queued' \in [Conns -> 0 .. SendCap]
  BY <1>1, <1>3 DEF Announce, Sync, TypeOK
<1> QED
  BY <1>1, <1>2, <1>4 DEF TypeInv, TypeOK, netVars, rowVars, hubVars

\* Drop keeps the types.
LEMMA DropTyped ==
  ASSUME TypeInv, NEW c \in Conns, Drop(c)
  PROVE  TypeInv'
<1> DEFINE left == clients \ {c}
<1>1. TypeOK /\ DropTo(c, left, left)
  BY DEF TypeInv, Drop
<1>2. left \in SUBSET Conns
  BY <1>1 DEF TypeOK
<1>3. Roster(left, id, seq, gain, guest) \in SUBSET Rows
  BY <1>1, <1>2, RosterTyped DEF TypeOK
<1>4. /\ queued' \in [Conns -> 0 .. SendCap]
      /\ shown' \in [Conns -> SUBSET Rows]
      /\ missed' \in [Conns -> BOOLEAN]
  <2>1. Tell(left, Roster(left, id, seq, gain, guest), c, 0)
    BY <1>1 DEF DropTo
  <2> HIDE DEF left
  <2> QED
    BY <1>1, <1>2, <1>3, <2>1, TellTyped
<1>5. 0 \in 0 .. MaxHellos /\ 0 \in 0 .. Full /\ Full \in 0 .. Full
  BY HubAssumption DEF Full
<1>6. /\ id' \in [Conns -> Ids \cup {None}] /\ seq' \in [Conns -> Nat]
      /\ gain' \in [Conns -> 0 .. Full] /\ guest' \in [Conns -> BOOLEAN]
      /\ hellos' \in [Conns -> 0 .. MaxHellos] /\ vol' \in [Conns -> 0 .. Full]
  BY <1>1, <1>5 DEF DropTo, TypeOK
<1>7. /\ reader' \in [Conns -> {"none", "reading", "handling", "dropping", "gone"}]
      /\ open' \in [Conns -> BOOLEAN] /\ clients' \in SUBSET Conns
      /\ UNCHANGED <<sock, msg, writer, lastSeq, stuck>>
  BY <1>1, <1>2 DEF DropTo, TypeOK
<1>8. Handling'
  BY <1>1 DEF DropTo, TypeOK, TypeInv, Handling
<1> QED
  BY <1>1, <1>4, <1>6, <1>7, <1>8 DEF TypeInv, TypeOK

\* The writer keeps the types.
LEMMA WriterTyped ==
  ASSUME TypeInv, NEW c \in Conns, Writer(c)
  PROVE  TypeInv'
<1> USE DEF TypeInv, TypeOK, Handling, netVars, threadVars, rowVars, hubVars
<1>1. CASE Write(c)
  <2>1. queued[c] - 1 \in 0 .. SendCap
    BY <1>1, HubAssumption DEF Write
  <2> QED
    BY <1>1, <2>1 DEF Write
<1>2. CASE WriterEnds(c)
  <2>1. 0 \in 0 .. SendCap
    BY HubAssumption
  <2> QED
    BY <1>2, <2>1 DEF WriterEnds
<1> QED
  BY <1>1, <1>2 DEF Writer

\* Every step keeps the types, one action after the other.
LEMMA TypeStep == TypeInv /\ [Next]_vars => TypeInv'
<1> SUFFICES ASSUME TypeInv, [Next]_vars PROVE TypeInv'
  OBVIOUS
<1>1. CASE UNCHANGED vars
  BY <1>1 DEF vars, netVars, threadVars, rowVars, hubVars, toldVars, TypeInv, TypeOK, Handling
<1>2. ASSUME NEW c \in Conns, Connect(c) \/ Receive(c) \/ Vanish(c) \/ Close(c) \/ ReadFails(c)
      PROVE  TypeInv'
  BY <1>2, NetTyped
<1>3. ASSUME NEW c \in Conns, Handle(c) PROVE TypeInv'
  BY <1>3, HelloTyped, SetGainTyped, AnnounceTyped DEF Handle
<1>4. ASSUME NEW c \in Conns, Drop(c) \/ Writer(c) PROVE TypeInv'
  BY <1>4, DropTyped, WriterTyped
<1> QED
  BY <1>1, <1>2, <1>3, <1>4 DEF Next, Reader

\* The types are right in every reachable state.
THEOREM TypeCorrect == Spec => []TypeOK
<1>1. TypeInv => TypeOK
  BY DEF TypeInv
<1> QED
  BY <1>1, TypeInit, TypeStep, PTL DEF Spec

(***************************************************************************)
(* Ids and places.                                                         *)
(***************************************************************************)

\* What a hello makes of the id and the place of its connection.
LEMMA Registered ==
  ASSUME TypeOK, NEW c \in Conns, Register(c)
  PROVE  /\ \A d \in Conns \ {c} : id'[d] = id[d] /\ seq'[d] = seq[d] /\ gain'[d] = gain[d]
         /\ clients' = (clients \ Old(c)) \cup {c}
         /\ gain'[c] = GainFor(c)
         /\ Page[c] # Host =>
              /\ id'[c] = Page[c]
              /\ SeqFor(c) = 0  => seq'[c] = lastSeq + 1 /\ lastSeq' = lastSeq + 1
              /\ SeqFor(c) # 0  => seq'[c] = SeqFor(c) /\ lastSeq' = lastSeq
         /\ Page[c] = Host =>
              /\ id[c] = None   => /\ id'[c] = lastSeq + 1 /\ seq'[c] = lastSeq + 1
                                   /\ lastSeq' = lastSeq + 1
              /\ id[c] # None   => /\ id'[c] = id[c] /\ seq'[c] = seq[c]
                                   /\ lastSeq' = lastSeq
<1> DEFINE fresh == IF Want(c) # None THEN SeqFor(c) = 0 ELSE id[c] = None
<1>1. Page[c] # Host => Want(c) = Page[c] /\ Want(c) # None
  BY HubAssumption DEF Want
<1>2. Page[c] = Host => Want(c) = None /\ Old(c) = {} /\ SeqFor(c) = seq[c]
  BY DEF Want, Old, SeqFor
<1>3. /\ lastSeq' = IF fresh THEN lastSeq + 1 ELSE lastSeq
      /\ seq' = [seq EXCEPT ![c] = IF fresh THEN lastSeq + 1 ELSE SeqFor(c)]
      /\ gain' = [gain EXCEPT ![c] = GainFor(c)]
      /\ id' = [id EXCEPT ![c] = IF Want(c) # None THEN Want(c)
                                 ELSE IF fresh THEN lastSeq + 1 ELSE @]
      /\ clients' = (clients \ Old(c)) \cup {c}
  BY DEF Register
<1>4. /\ seq'[c] = IF fresh THEN lastSeq + 1 ELSE SeqFor(c)
      /\ gain'[c] = GainFor(c)
      /\ id'[c] = IF Want(c) # None THEN Want(c) ELSE IF fresh THEN lastSeq + 1 ELSE id[c]
      /\ \A d \in Conns \ {c} : id'[d] = id[d] /\ seq'[d] = seq[d] /\ gain'[d] = gain[d]
  BY <1>3 DEF TypeOK
<1> QED
  BY <1>1, <1>2, <1>3, <1>4

\* The place and the volume a hello gets are those of the one registered
\* connection with its id, or its own place.
LEMMA TakenOver ==
  ASSUME TypeOK, Places, NEW c \in Conns, Page[c] # Host
  PROVE  /\ \A d \in clients \ {c} : d \in Old(c) <=> id[d] = Page[c]
         /\ \A d \in Old(c) : SeqFor(c) = seq[d] /\ GainFor(c) = gain[d]
         /\ Old(c) = {} => SeqFor(c) = seq[c]
         /\ SeqFor(c) # 0 => \E d \in Conns : SeqFor(c) = seq[d] /\ id[d] = Page[c]
<1>1. Want(c) = Page[c] /\ Want(c) # None
  BY HubAssumption DEF Want
<1>2. \A d \in clients \ {c} : d \in Old(c) <=> id[d] = Page[c]
  BY <1>1 DEF Old
<1>3. Old(c) \subseteq clients /\ clients \subseteq Conns
  BY DEF Old, TypeOK
<1>4. \A d \in Old(c) : Old(c) = {d}
  BY <1>1 DEF Old, Places, OneId
<1>5. \A d \in Old(c) : SeqFor(c) = seq[d] /\ GainFor(c) = gain[d]
  <2> TAKE d \in Old(c)
  <2>1. (CHOOSE e \in Old(c) : TRUE) = d
    BY <1>4
  <2> QED
    BY <2>1 DEF SeqFor, GainFor
<1>6. Old(c) = {} => SeqFor(c) = seq[c]
  BY DEF SeqFor
<1>7. SeqFor(c) # 0 => \E d \in Conns : SeqFor(c) = seq[d] /\ id[d] = Page[c]
  <2>1. CASE Old(c) = {}
    BY <2>1, <1>6 DEF Places, IdsMatch
  <2>2. CASE Old(c) # {}
    BY <2>2, <1>1, <1>3, <1>5 DEF Old
  <2> QED
    BY <2>1, <2>2
<1> QED
  BY <1>2, <1>5, <1>6, <1>7

\* Initially ids and places match.
LEMMA PlacesInit == Init => Places
BY DEF Init, Places, IdsMatch, PlacesMatch, Named, OneId

\* A hello of a speaker page keeps ids and places matched ...
LEMMA SpeakerHelloPlaces ==
  ASSUME TypeOK, TypeOK', Places, NEW c \in Conns, Register(c), Page[c] # Host
  PROVE  Places'
<1>1. /\ \A d \in Conns \ {c} : id'[d] = id[d] /\ seq'[d] = seq[d]
      /\ clients' = (clients \ Old(c)) \cup {c} /\ id'[c] = Page[c]
      /\ SeqFor(c) = 0  => seq'[c] = lastSeq + 1 /\ lastSeq' = lastSeq + 1
      /\ SeqFor(c) # 0  => seq'[c] = SeqFor(c) /\ lastSeq' = lastSeq
  BY Registered
<1>2. /\ \A d \in clients \ {c} : d \in Old(c) <=> id[d] = Page[c]
      /\ SeqFor(c) # 0 => \E d \in Conns : SeqFor(c) = seq[d] /\ id[d] = Page[c]
  BY TakenOver
<1>3. Page[c] # None /\ Page[c] \notin Nat
  BY HubAssumption
<1>4. /\ lastSeq \in Nat /\ \A d \in Conns : seq[d] \in Nat
      /\ \A d \in Conns : seq'[d] \in Nat
  BY DEF TypeOK
<1>5. IdsMatch'
  <2>1. lastSeq <= lastSeq' /\ seq'[c] <= lastSeq' /\ seq'[c] # 0
    BY <1>1, <1>2, <1>4 DEF Places, IdsMatch
  <2>2. \A d \in Conns \ {c} : seq'[d] <= lastSeq'
    BY <1>1, <1>4, <2>1 DEF Places, IdsMatch
  <2>3. lastSeq' \in Nat
    BY <1>1, <1>4
  <2> QED
    BY <1>1, <1>3, <2>1, <2>2 DEF Places, IdsMatch
<1>6. \A d \in Conns \ {c} : seq[d] = seq'[c] /\ seq[d] # 0 => id[d] = Page[c] /\ Page[d] # Host
  <2> SUFFICES ASSUME NEW d \in Conns \ {c}, seq[d] = seq'[c], seq[d] # 0
               PROVE  id[d] = Page[c] /\ Page[d] # Host
    OBVIOUS
  <2>1. seq[d] <= lastSeq
    BY DEF Places, IdsMatch
  <2>2. SeqFor(c) # 0
    BY <1>1, <1>4, <2>1
  <2>3. PICK e \in Conns : seq'[c] = seq[e] /\ id[e] = Page[c]
    BY <1>1, <1>2, <2>2
  <2>4. id[d] = Page[c]
    BY <2>3 DEF Places, PlacesMatch
  <2>5. id[d] # None /\ id[d] # seq[d]
    BY <1>3, <1>4, <2>4
  <2> QED
    BY <2>4, <2>5 DEF Places, IdsMatch
<1>7. PlacesMatch'
  BY <1>1, <1>6 DEF Places, PlacesMatch
<1>8. Named' /\ OneId'
  BY <1>1, <1>2, <1>3 DEF Places, Named, OneId, TypeOK
<1> QED
  BY <1>5, <1>7, <1>8 DEF Places

\* ... and so does one of a host page.
LEMMA HostHelloPlaces ==
  ASSUME TypeOK, TypeOK', Places, NEW c \in Conns, Register(c), Page[c] = Host
  PROVE  Places'
<1>1. /\ \A d \in Conns \ {c} : id'[d] = id[d] /\ seq'[d] = seq[d]
      /\ id[c] = None => /\ id'[c] = lastSeq + 1 /\ seq'[c] = lastSeq + 1
                         /\ lastSeq' = lastSeq + 1
      /\ id[c] # None => id'[c] = id[c] /\ seq'[c] = seq[c] /\ lastSeq' = lastSeq
  BY Registered
<1>2. clients' = clients \cup {c}
  BY Registered DEF Old, Want
<1>3. /\ lastSeq \in Nat /\ \A d \in Conns : seq[d] \in Nat
      /\ \A d \in Conns : seq[d] <= lastSeq
      /\ None \notin Nat
  BY HubAssumption DEF TypeOK, Places, IdsMatch
<1>4. /\ lastSeq <= lastSeq' /\ seq'[c] <= lastSeq' /\ seq'[c] # 0 /\ seq'[c] \in Nat
      /\ id'[c] = seq'[c]
  BY <1>1, <1>3 DEF Places, IdsMatch
<1>5. IdsMatch'
  BY <1>1, <1>3, <1>4 DEF Places, IdsMatch, TypeOK
<1>6. \A d \in Conns \ {c} : seq[d] # seq'[c]
  BY <1>1, <1>3 DEF Places, IdsMatch, PlacesMatch
<1>7. PlacesMatch'
  BY <1>1, <1>6 DEF Places, PlacesMatch
<1>8. \A d \in Conns \ {c} : id[d] # id'[c]
  <2> SUFFICES ASSUME NEW d \in Conns \ {c}, id[d] = id'[c] PROVE FALSE
    OBVIOUS
  <2>1. id[d] \in Nat /\ id[d] # None
    BY <1>3, <1>4
  <2>2. Page[d] \in Devices \cup {Host}
    BY HubAssumption
  <2>3. CASE Page[d] = Host
    BY <1>4, <1>6, <2>1, <2>3 DEF Places, IdsMatch
  <2>4. CASE Page[d] # Host
    BY <2>1, <2>2, <2>4, HubAssumption DEF Places, IdsMatch
  <2> QED
    BY <2>3, <2>4
<1>9. Named' /\ OneId'
  BY <1>1, <1>2, <1>3, <1>4, <1>8 DEF Places, Named, OneId, TypeOK
<1> QED
  BY <1>5, <1>7, <1>9 DEF Places

\* A drop clears the id and the place of its own connection only.
LEMMA DropPlaces ==
  ASSUME TypeOK, Places, NEW c \in Conns, Drop(c)
  PROVE  Places'
<1>1. /\ id' = [id EXCEPT ![c] = None] /\ seq' = [seq EXCEPT ![c] = 0]
      /\ clients' = clients \ {c} /\ lastSeq' = lastSeq
  BY DEF Drop, DropTo
<1>2. /\ id'[c] = None /\ seq'[c] = 0
      /\ \A d \in Conns \ {c} : id'[d] = id[d] /\ seq'[d] = seq[d]
  BY <1>1 DEF TypeOK
<1>3. IdsMatch'
  BY <1>1, <1>2 DEF Places, IdsMatch, TypeOK
<1>4. PlacesMatch'
  BY <1>2 DEF Places, PlacesMatch
<1>5. Named' /\ OneId'
  BY <1>1, <1>2 DEF Places, Named, OneId, TypeOK
<1> QED
  BY <1>3, <1>4, <1>5 DEF Places

\* Whatever is not a hello or a drop leaves ids, places and the registry alone.
LEMMA OthersKeepRows ==
  ASSUME NEW c \in Conns,
         \/ Connect(c) \/ Receive(c) \/ Vanish(c) \/ Close(c) \/ ReadFails(c)
         \/ SetGain(c) \/ Announce(c) \/ Sync(c) \/ Writer(c)
  PROVE  UNCHANGED <<id, seq, guest, clients, lastSeq, stuck, open>>
BY DEF Connect, Receive, Vanish, Close, ReadFails, SetGain, Announce, Sync, Writer, Write,
       WriterEnds, netVars, rowVars, hubVars

\* The actions, one by one.
LEMMA Cases ==
  ASSUME Next
  PROVE  \E c \in Conns :
           \/ Hello(c) \/ Drop(c)
           \/ Connect(c) \/ Receive(c) \/ Vanish(c) \/ Close(c) \/ ReadFails(c)
           \/ SetGain(c) \/ Announce(c) \/ Sync(c) \/ Writer(c)
BY DEF Next, Reader, Handle

\* Every step keeps ids and places matched.
LEMMA PlacesStep == TypeInv /\ Places /\ [Next]_vars => Places'
<1> SUFFICES ASSUME TypeInv, Places, [Next]_vars PROVE Places'
  OBVIOUS
<1>1. TypeOK /\ TypeOK'
  BY TypeStep DEF TypeInv
<1>2. ASSUME UNCHANGED <<id, seq, clients, lastSeq>> PROVE Places'
  BY <1>2 DEF Places, IdsMatch, PlacesMatch, Named, OneId
<1>3. CASE UNCHANGED vars
  BY <1>2, <1>3 DEF vars, rowVars, hubVars
<1>4. CASE Next
  <2>1. PICK c \in Conns :
           \/ Hello(c) \/ Drop(c)
           \/ Connect(c) \/ Receive(c) \/ Vanish(c) \/ Close(c) \/ ReadFails(c)
           \/ SetGain(c) \/ Announce(c) \/ Sync(c) \/ Writer(c)
    BY <1>4, Cases
  <2>2. CASE Hello(c)
    BY <1>1, <2>2, SpeakerHelloPlaces, HostHelloPlaces DEF Hello
  <2>3. CASE Drop(c)
    BY <1>1, <2>3, DropPlaces
  <2> QED
    BY <1>2, <2>1, <2>2, <2>3, OthersKeepRows
<1> QED
  BY <1>3, <1>4

\* One id per row, and with it one place.
LEMMA PlacesGiveOneRow == TypeOK /\ Places => OneRowPerDevice
BY DEF TypeOK, Places, IdsMatch, PlacesMatch, Named, OneId, OneRowPerDevice

\* No two rows of the mixer are the same device or have the same place.
THEOREM OneRow == Spec => []OneRowPerDevice
<1>1. Init => TypeInv /\ Places
  BY TypeInit, PlacesInit
<1>2. TypeInv /\ Places /\ [Next]_vars => (TypeInv /\ Places)'
  BY TypeStep, PlacesStep
<1>3. TypeInv /\ Places => OneRowPerDevice
  BY PlacesGiveOneRow DEF TypeInv
<1> QED
  BY <1>1, <1>2, <1>3, PTL DEF Spec

(***************************************************************************)
(* Channels and rosters.                                                   *)
(***************************************************************************)

\* A registered connection's channels are open: a hello that panics holds the
\* lock for ever, and a drop closes what it takes out.
LEMMA OpenStep == TypeInv /\ RegisteredIsOpen /\ [Next]_vars => RegisteredIsOpen'
<1> SUFFICES ASSUME TypeInv, RegisteredIsOpen, [Next]_vars PROVE RegisteredIsOpen'
  OBVIOUS
<1>1. ASSUME UNCHANGED <<clients, stuck, open>> PROVE RegisteredIsOpen'
  BY <1>1 DEF RegisteredIsOpen
<1>2. CASE UNCHANGED vars
  BY <1>1, <1>2 DEF vars, hubVars
<1>3. ASSUME NEW c \in Conns, Hello(c) PROVE RegisteredIsOpen'
  <2>1. CASE open[c]
    <3>1. /\ clients' = (clients \ Old(c)) \cup {c}
          /\ open' = [d \in Conns |-> open[d] /\ d \notin Old(c)]
          /\ ~stuck
      BY <1>3 DEF Hello, Register
    <3>2. c \notin Old(c) /\ clients \subseteq Conns
      BY DEF Old, TypeInv, TypeOK
    <3> QED
      BY <2>1, <3>1, <3>2 DEF RegisteredIsOpen
  <2>2. CASE ~open[c]
    BY <1>3, <2>2 DEF Hello, RegisteredIsOpen
  <2> QED
    BY <2>1, <2>2
<1>4. ASSUME NEW c \in Conns, Drop(c) PROVE RegisteredIsOpen'
  <2>1. /\ clients' = clients \ {c} /\ open' = [open EXCEPT ![c] = @ /\ c \notin clients]
        /\ stuck' = stuck
    BY <1>4 DEF Drop, DropTo
  <2> QED
    BY <2>1 DEF RegisteredIsOpen, TypeInv, TypeOK
<1> QED
  BY <1>1, <1>2, <1>3, <1>4, Cases, OthersKeepRows

\* No fanout sends on a closed channel.
THEOREM OpenChannels == Spec => []RegisteredIsOpen
<1>1. Init => TypeInv /\ RegisteredIsOpen
  BY TypeInit DEF Init, RegisteredIsOpen
<1>2. TypeInv /\ RegisteredIsOpen /\ [Next]_vars => (TypeInv /\ RegisteredIsOpen)'
  BY TypeStep, OpenStep
<1> QED
  BY <1>1, <1>2, PTL DEF Spec

\* Whoever is told a roster is shown it, or its queue was full.
LEMMA Told ==
  ASSUME NEW cs \in SUBSET Conns, NEW roster, NEW c \in Conns, NEW k, Tell(cs, roster, c, k)
  PROVE  \A d \in cs : missed'[d] \/ shown'[d] = roster
<1> DEFINE accepted == {d \in {e \in cs : writer[e] = "on"} :
                          queued[d] + (IF d = c THEN k ELSE 0) < SendCap}
<1>1. /\ shown' = [d \in Conns |-> IF d \notin cs THEN {}
                                   ELSE IF d \in accepted THEN roster ELSE shown[d]]
      /\ missed' = [d \in Conns |-> d \in cs \ accepted]
  BY DEF Tell
<1> HIDE DEF accepted
<1> QED
  BY <1>1

\* A roster reads the fields of the registered connections only.
LEMMA RosterOf ==
  ASSUME NEW cs \in SUBSET Conns, NEW i, NEW s, NEW g, NEW gu, NEW j, NEW t, NEW h, NEW hu,
         \A c \in cs : i[c] = j[c] /\ s[c] = t[c] /\ g[c] = h[c] /\ gu[c] = hu[c]
  PROVE  Roster(cs, i, s, g, gu) = Roster(cs, j, t, h, hu)
BY DEF Roster

\* Hello sends the roster it has just made.
LEMMA HelloTells ==
  ASSUME TypeInv, TypeInv', NEW c \in Conns, Hello(c)
  PROVE  RosterIsTrue'
<1>1. CASE open[c]
  <2>1. Tell(clients', Roster(clients', id', seq', gain', guest'), c, 2)
    BY <1>1 DEF Hello
  <2>2. clients' \in SUBSET Conns
    BY DEF TypeInv, TypeOK
  <2> QED
    BY <2>1, <2>2, Told DEF RosterIsTrue
<1>2. CASE ~open[c]
  BY <1>2 DEF Hello, RosterIsTrue
<1> QED
  BY <1>1, <1>2

\* SetGain sends the roster with the new volume.
LEMMA SetGainTells ==
  ASSUME TypeInv, NEW c \in Conns, SetGain(c)
  PROVE  RosterIsTrue'
<1> DEFINE named == {d \in clients : id[d] = msg[c].id /\ guest[d]}
           d     == CHOOSE e \in named : TRUE
<1>1. /\ UNCHANGED <<id, seq, guest, clients>>
      /\ clients \in SUBSET Conns
  BY DEF SetGain, hubVars, TypeInv, TypeOK
<1>2. CASE named = {}
  <2>1. Tell(clients, Roster(clients, id, seq, gain, guest), c, 0) /\ gain' = gain
    BY <1>2 DEF SetGain
  <2> QED
    BY <1>1, <2>1, Told DEF RosterIsTrue
<1>3. CASE named # {}
  <2>1. Tell(clients, Roster(clients, id, seq, gain', guest), d, 1)
    BY <1>3 DEF SetGain
  <2>2. d \in Conns
    BY <1>1, <1>3
  <2> HIDE DEF d, named
  <2> QED
    BY <1>1, <2>1, <2>2, Told DEF RosterIsTrue
<1> QED
  BY <1>2, <1>3

\* Drop sends the roster without the row.
LEMMA DropTells ==
  ASSUME TypeInv, NEW c \in Conns, Drop(c)
  PROVE  RosterIsTrue'
<1> DEFINE left == clients \ {c}
<1>1. /\ Tell(left, Roster(left, id, seq, gain, guest), c, 0) /\ clients' = left
      /\ id' = [id EXCEPT ![c] = None] /\ seq' = [seq EXCEPT ![c] = 0]
      /\ gain' = [gain EXCEPT ![c] = 0] /\ guest' = [guest EXCEPT ![c] = FALSE]
  BY DEF Drop, DropTo
<1>2. left \in SUBSET Conns
  BY DEF TypeInv, TypeOK
<1>3. \A d \in left : /\ id[d] = id'[d] /\ seq[d] = seq'[d]
                      /\ gain[d] = gain'[d] /\ guest[d] = guest'[d]
  BY <1>1, <1>2 DEF TypeInv, TypeOK
<1> HIDE DEF left
<1>4. Roster(left, id, seq, gain, guest) = Roster(left, id', seq', gain', guest')
  BY <1>2, <1>3, RosterOf
<1> QED
  BY <1>1, <1>2, <1>4, Told DEF RosterIsTrue

\* Nobody is shown a stale roster without knowing.
LEMMA RosterStep == TypeInv /\ RosterIsTrue /\ [Next]_vars => RosterIsTrue'
<1> SUFFICES ASSUME TypeInv, RosterIsTrue, [Next]_vars PROVE RosterIsTrue'
  OBVIOUS
<1>1. ASSUME UNCHANGED <<clients, stuck, id, seq, gain, guest, shown, missed>>
      PROVE  RosterIsTrue'
  BY <1>1 DEF RosterIsTrue
<1>2. CASE UNCHANGED vars
  BY <1>1, <1>2 DEF vars, rowVars, hubVars, toldVars
<1>3. ASSUME NEW c \in Conns,
             \/ Connect(c) \/ Receive(c) \/ Vanish(c) \/ Close(c) \/ ReadFails(c)
             \/ Announce(c) \/ Sync(c) \/ Writer(c)
      PROVE  RosterIsTrue'
  BY <1>1, <1>3 DEF Connect, Receive, Vanish, Close, ReadFails, Announce, Sync, Writer,
                    Write, WriterEnds, netVars, rowVars, hubVars, toldVars
<1>4. ASSUME NEW c \in Conns, Hello(c) \/ SetGain(c) \/ Drop(c) PROVE RosterIsTrue'
  BY <1>4, TypeStep, HelloTells, SetGainTells, DropTells
<1> QED
  BY <1>2, <1>3, <1>4, Cases

\* The mixer is behind only where a queue was full.
THEOREM TrueRoster == Spec => []RosterIsTrue
<1>1. Init => TypeInv /\ RosterIsTrue
  BY TypeInit DEF Init, RosterIsTrue
<1>2. TypeInv /\ RosterIsTrue /\ [Next]_vars => (TypeInv /\ RosterIsTrue)'
  BY TypeStep, RosterStep
<1> QED
  BY <1>1, <1>2, PTL DEF Spec

(***************************************************************************)
(* What a step may never do to a row.                                      *)
(***************************************************************************)

\* A hello keeps every row, at its place, and one that takes over its volume.
LEMMA HelloKeepsRows ==
  ASSUME TypeOK, Places, NEW c \in Conns, Register(c)
  PROVE  /\ \A e \in clients : \E d \in clients' : id'[d] = id[e]
         /\ \A e \in clients, d \in clients' :
              id[e] = id'[d] => seq'[d] = seq[e] /\ (e # d => gain'[d] = gain[e])
<1>1. /\ \A d \in Conns \ {c} : id'[d] = id[d] /\ seq'[d] = seq[d] /\ gain'[d] = gain[d]
      /\ clients' = (clients \ Old(c)) \cup {c} /\ gain'[c] = GainFor(c)
  BY Registered
<1>2. /\ clients \subseteq Conns /\ lastSeq \in Nat /\ \A d \in Conns : seq[d] \in Nat
      /\ None \notin Nat
  BY HubAssumption DEF TypeOK
<1>3. \A e \in clients, d \in clients' \ {c} :
        id[e] = id'[d] => seq'[d] = seq[e] /\ (e # d => gain'[d] = gain[e])
  BY <1>1, <1>2 DEF Places, OneId
<1>4. CASE Page[c] # Host
  <2>1. /\ id'[c] = Page[c]
        /\ SeqFor(c) # 0 => seq'[c] = SeqFor(c)
    BY <1>4, Registered
  <2>2. /\ \A d \in clients \ {c} : d \in Old(c) <=> id[d] = Page[c]
        /\ \A d \in Old(c) : SeqFor(c) = seq[d] /\ GainFor(c) = gain[d]
        /\ Old(c) = {} => SeqFor(c) = seq[c]
    BY <1>4, TakenOver
  <2>3. \A e \in clients : seq[e] # 0 /\ (e = c => id[e] = Page[c])
    BY <1>2, <1>4 DEF Places, IdsMatch, Named
  <2>4. \A e \in clients : \E d \in clients' : id'[d] = id[e]
    BY <1>1, <1>2, <2>1, <2>2, <2>3
  <2>5. \A e \in clients : id[e] = Page[c] =>
           seq'[c] = seq[e] /\ (e # c => gain'[c] = gain[e])
    <3> SUFFICES ASSUME NEW e \in clients, id[e] = Page[c]
                 PROVE  seq'[c] = seq[e] /\ (e # c => gain'[c] = gain[e])
      OBVIOUS
    <3>1. CASE e = c
      <4>1. Old(c) = {}
        BY <3>1, <2>2 DEF Places, OneId, Old
      <4> QED
        BY <3>1, <4>1, <2>1, <2>2, <2>3
    <3>2. CASE e # c
      <4>1. e \in Old(c)
        BY <3>2, <2>2
      <4> QED
        BY <4>1, <1>1, <2>1, <2>2, <2>3
    <3> QED
      BY <3>1, <3>2
  <2> QED
    BY <1>3, <2>1, <2>4, <2>5
<1>5. CASE Page[c] = Host
  <2>1. /\ id[c] = None => id'[c] = lastSeq + 1
        /\ id[c] # None => id'[c] = id[c] /\ seq'[c] = seq[c]
    BY <1>5, Registered
  <2>2. Old(c) = {}
    BY <1>5 DEF Old, Want
  <2>3. \A e \in clients : id[e] # None /\ id[e] # lastSeq + 1
    <3> SUFFICES ASSUME NEW e \in clients, id[e] = lastSeq + 1 PROVE FALSE
      BY DEF Places, Named
    <3>1. id[e] \in Nat /\ id[e] # None /\ id[e] # seq[e]
      BY <1>2 DEF Places, IdsMatch
    <3>2. Page[e] # Host /\ id[e] = Page[e]
      BY <1>2, <3>1 DEF Places, IdsMatch
    <3> QED
      BY <1>2, <3>1, <3>2, HubAssumption
  <2>4. \A e \in clients : \E d \in clients' : id'[d] = id[e]
    BY <1>1, <1>2, <2>1, <2>2, <2>3
  <2>5. \A e \in clients : id[e] = id'[c] => e = c /\ seq'[c] = seq[e]
    <3> SUFFICES ASSUME NEW e \in clients, id[e] = id'[c]
                 PROVE  e = c /\ seq'[c] = seq[e]
      OBVIOUS
    <3>1. id[c] # None /\ id[e] = id[c] /\ seq'[c] = seq[c]
      BY <2>1, <2>3
    <3>2. id[c] = seq[c] /\ seq[c] # 0
      BY <1>5, <3>1 DEF Places, IdsMatch
    <3>3. id[e] \in Nat /\ Page[e] \in Devices \cup {Host}
      BY <1>2, <3>1, <3>2, HubAssumption
    <3>4. id[e] = seq[e]
      BY <1>2, <3>1, <3>3, HubAssumption DEF Places, IdsMatch
    <3> QED
      BY <1>2, <1>5, <3>1, <3>2, <3>4 DEF Places, PlacesMatch
  <2> QED
    BY <1>3, <2>4, <2>5
<1> QED
  BY <1>4, <1>5

\* What every step does to the rows.
LEMMA RowsStep ==
  ASSUME TypeInv, Places, Next
  PROVE  /\ \A c \in clients :
              \/ \E d \in clients' : id'[d] = id[c]
              \/ reader[c] = "dropping" /\ reader'[c] = "gone"
         /\ \A c \in clients, d \in clients' :
              id[c] = id'[d] => seq'[d] = seq[c] /\ (c # d => gain'[d] = gain[c])
<1> DEFINE Kept == /\ \A c \in clients :
                        \/ \E d \in clients' : id'[d] = id[c]
                        \/ reader[c] = "dropping" /\ reader'[c] = "gone"
                   /\ \A c \in clients, d \in clients' :
                        id[c] = id'[d] => seq'[d] = seq[c] /\ (c # d => gain'[d] = gain[c])
<1>1. ASSUME UNCHANGED <<id, seq, clients>> PROVE Kept
  BY <1>1 DEF Places, OneId
<1>2. ASSUME NEW c \in Conns, Hello(c) PROVE Kept
  BY <1>2, HelloKeepsRows DEF TypeInv, Hello
<1>3. ASSUME NEW c \in Conns, Drop(c) PROVE Kept
  <2>1. /\ clients' = clients \ {c} /\ reader[c] = "dropping"
        /\ reader' = [reader EXCEPT ![c] = "gone"]
        /\ id' = [id EXCEPT ![c] = None] /\ seq' = [seq EXCEPT ![c] = 0]
        /\ gain' = [gain EXCEPT ![c] = 0]
    BY <1>3 DEF Drop, DropTo
  <2>2. /\ reader'[c] = "gone" /\ clients \subseteq Conns
        /\ \A d \in Conns \ {c} : id'[d] = id[d] /\ seq'[d] = seq[d] /\ gain'[d] = gain[d]
    BY <2>1 DEF TypeInv, TypeOK
  <2>3. \A d \in clients : d # c => d \in clients' /\ id'[d] = id[d]
    BY <2>1, <2>2
  <2>4. \A e \in clients, d \in clients' : id[e] = id'[d] => e = d
    BY <2>1, <2>2 DEF Places, OneId
  <2> QED
    BY <2>1, <2>2, <2>3, <2>4
<1> HIDE DEF Kept
<1>4. Kept
  BY <1>1, <1>2, <1>3, Cases, OthersKeepRows
<1> QED
  BY <1>4 DEF Kept

\* A drop that comes late takes no row along but its own connection's.
THEOREM RowOutlives == Spec => RowOutlivesStaleDrop
<1>1. Init => TypeInv /\ Places
  BY TypeInit, PlacesInit
<1>2. TypeInv /\ Places /\ [Next]_vars => (TypeInv /\ Places)'
  BY TypeStep, PlacesStep
<1>3. TypeInv /\ Places /\ [Next]_vars =>
        [\A c \in clients :
           \/ \E d \in clients' : id'[d] = id[c]
           \/ reader[c] = "dropping" /\ reader'[c] = "gone"]_vars
  BY RowsStep
<1> QED
  BY <1>1, <1>2, <1>3, PTL DEF Spec, RowOutlivesStaleDrop

\* A row keeps its place, and across a reconnection its volume.
THEOREM RowIsKept == Spec => RowKeepsPlaceAndVolume
<1>1. Init => TypeInv /\ Places
  BY TypeInit, PlacesInit
<1>2. TypeInv /\ Places /\ [Next]_vars => (TypeInv /\ Places)'
  BY TypeStep, PlacesStep
<1>3. TypeInv /\ Places /\ [Next]_vars =>
        [\A c \in clients, d \in clients' :
           id[c] = id'[d] => /\ seq'[d] = seq[c]
                             /\ c # d => gain'[d] = gain[c]]_vars
  BY RowsStep
<1> QED
  BY <1>1, <1>2, <1>3, PTL DEF Spec, RowKeepsPlaceAndVolume

(***************************************************************************)
(* Hub implements Room.                                                    *)
(***************************************************************************)

\* A connection is used once: who has not connected yet has no reader, no writer
\* and no registration.
UsedOnce ==
  \A c \in Conns :
    /\ sock[c] = "new" <=> reader[c] = "none"
    /\ c \in clients \/ writer[c] = "on" => reader[c] # "none"

\* Every step keeps it so.
LEMMA UsedOnceStep == TypeInv /\ UsedOnce /\ [Next]_vars => UsedOnce'
<1> SUFFICES ASSUME TypeInv, UsedOnce, [Next]_vars PROVE UsedOnce'
  OBVIOUS
<1> USE DEF TypeInv, TypeOK, UsedOnce
<1>1. CASE UNCHANGED vars
  BY <1>1 DEF vars, netVars, threadVars, hubVars
<1>2. ASSUME NEW c \in Conns, Hello(c) PROVE UsedOnce'
  <2>1. /\ reader[c] = "handling" /\ reader'[c] \in {"reading", "dropping"}
        /\ \A d \in Conns \ {c} : reader'[d] = reader[d]
    BY <1>2 DEF Hello, Handles, Return, Panic
  <2>2. sock' = [d \in Conns |-> IF d \in Old(c) THEN "shut" ELSE sock[d]]
    BY <1>2 DEF Hello, Register
  <2>3. clients' = (clients \ Old(c)) \cup {c} /\ Old(c) \subseteq clients
    BY <1>2 DEF Hello, Register, Old
  <2>4. ASSUME NEW d \in Conns
        PROVE  /\ sock'[d] = "new" <=> reader'[d] = "none"
               /\ d \in clients' \/ writer'[d] = "on" => reader'[d] # "none"
    <3>1. writer' = writer
      BY <1>2 DEF Hello
    <3> QED
      BY <2>1, <2>2, <2>3, <3>1
  <2> QED
    BY <2>4
<1>3. ASSUME NEW c \in Conns, Drop(c) PROVE UsedOnce'
  BY <1>3 DEF Drop, DropTo
<1>4. ASSUME NEW c \in Conns,
             \/ Connect(c) \/ Receive(c) \/ Vanish(c) \/ Close(c) \/ ReadFails(c)
             \/ SetGain(c) \/ Announce(c) \/ Sync(c) \/ Writer(c)
      PROVE  UsedOnce'
  <2>1. CASE Connect(c) \/ Receive(c) \/ Vanish(c) \/ Close(c) \/ ReadFails(c)
    BY <2>1 DEF Connect, Receive, Vanish, Close, ReadFails, netVars, threadVars, hubVars
  <2>2. CASE SetGain(c) \/ Announce(c) \/ Sync(c)
    <3>1. UNCHANGED <<sock, clients, writer>> /\ reader[c] = "handling" /\ (Return(c) \/ Panic(c))
      BY <2>2, Zenon DEF SetGain, Announce, Sync, Handles, netVars, hubVars
    <3> QED
      BY <3>1 DEF Return, Panic
  <2>3. CASE Writer(c)
    BY <2>3 DEF Writer, Write, WriterEnds, netVars, threadVars, hubVars
  <2> QED
    BY <1>4, <2>1, <2>2, <2>3
<1> QED
  BY <1>1, <1>2, <1>3, <1>4, Cases

\* A registered speaker has its device's id and a place that was given to nobody
\* of another device.
LEMMA SpeakersPlaces ==
  ASSUME TypeOK, Places, NEW d \in clients
  PROVE  /\ d \in Conns /\ seq[d] \in 1 .. lastSeq
         /\ Page[d] # Host => Page[d] \in Devices /\ id[d] = Page[d]
         /\ Page[d] = Host => id[d] \notin Devices
         /\ \A e \in Conns : seq[e] = seq[d] => id[e] = id[d]
<1>1. d \in Conns /\ seq[d] \in Nat /\ lastSeq \in Nat /\ seq[d] <= lastSeq /\ id[d] # None /\ seq[d] # 0
  BY DEF TypeOK, Places, IdsMatch, Named
<1>2. Page[d] # Host => Page[d] \in Devices /\ id[d] = Page[d]
  BY <1>1, HubAssumption DEF Places, IdsMatch
<1>3. Page[d] = Host => id[d] \notin Devices
  BY <1>1, HubAssumption DEF Places, IdsMatch
<1>4. \A e \in Conns : seq[e] = seq[d] => id[e] = id[d]
  BY <1>1 DEF Places, PlacesMatch
<1> QED
  BY <1>1, <1>2, <1>3, <1>4

\* The rows after a step that concerns one connection.
LEMMA RowsOfOthers ==
  ASSUME NEW c \in Conns, clients \subseteq Conns,
         \A d \in Conns \ {c} : id'[d] = id[d] /\ seq'[d] = seq[d] /\ gain'[d] = gain[d]
  PROVE  /\ \A d \in Conns \ {c} : RowOf(d)' = RowOf(d)
         /\ \A d \in Conns : RowOf(d).by = d /\ RowOf(d)'.by = d
  BY DEF RowOf

\* A hello lets a device in, or has it come back, or passes.
LEMMA HelloMixes ==
  ASSUME TypeOK, TypeOK', Places, NEW c \in Conns, Register(c), Over' = Over, c \notin Over
  PROVE  [Mixer!Next]_<<MixerRows, lastSeq, Over>>
<1> DEFINE Speakers == {d \in clients : Page[d] # Host}
<1>1. /\ \A d \in Conns \ {c} : id'[d] = id[d] /\ seq'[d] = seq[d] /\ gain'[d] = gain[d]
      /\ clients' = (clients \ Old(c)) \cup {c} /\ gain'[c] = GainFor(c)
  BY Registered
<1>2. clients \subseteq Conns /\ lastSeq \in Nat /\ seq[c] \in Nat /\ seq'[c] \in Nat
  BY DEF TypeOK
<1>3. /\ \A d \in Conns \ {c} : RowOf(d)' = RowOf(d)
      /\ \A d \in Conns : RowOf(d).by = d /\ RowOf(d)'.by = d
  BY <1>1, <1>2, RowsOfOthers
<1>4. CASE Page[c] = Host
  <2>1. Old(c) = {}
    BY <1>4 DEF Old, Want
  <2>2. MixerRows' = MixerRows
    BY <1>1, <1>2, <1>3, <1>4, <2>1 DEF MixerRows
  <2>3. lastSeq' = lastSeq \/ lastSeq' = lastSeq + 1
    BY <1>4, Registered
  <2> QED
    BY <2>2, <2>3 DEF Mixer!Next, Mixer!Pass
<1>5. CASE Page[c] # Host
  <2>1. /\ id'[c] = Page[c] /\ Page[c] \in Devices
        /\ SeqFor(c) = 0  => seq'[c] = lastSeq + 1 /\ lastSeq' = lastSeq + 1
        /\ SeqFor(c) # 0  => seq'[c] = SeqFor(c) /\ lastSeq' = lastSeq
    BY <1>5, Registered, HubAssumption
  <2>2. /\ \A d \in clients \ {c} : d \in Old(c) <=> id[d] = Page[c]
        /\ \A d \in Old(c) : SeqFor(c) = seq[d] /\ GainFor(c) = gain[d]
        /\ Old(c) = {} => SeqFor(c) = seq[c]
    BY <1>5, TakenOver
  <2>3. Old(c) \subseteq clients \ {c}
    BY DEF Old
  <2>4. ASSUME NEW o \in Old(c) PROVE Mixer!Next
    <3>1. /\ o \in clients /\ o \in Conns /\ o # c /\ id[o] = Page[c] /\ Page[o] # Host
          /\ seq[o] \in 1 .. lastSeq
      BY <1>2, <2>1, <2>2, <2>3, <2>4, SpeakersPlaces
    <3>2. c \notin clients /\ Old(c) = {o}
      <4>1. \A d \in clients : id[d] = Page[c] => d = o
        BY <3>1 DEF Places, OneId
      <4>2. c \in clients => id[c] = Page[c]
        BY <1>5, SpeakersPlaces
      <4> QED
        BY <2>2, <2>3, <3>1, <4>1, <4>2
    <3>3. seq'[c] = seq[o] /\ lastSeq' = lastSeq /\ gain'[c] = gain[o]
      BY <1>1, <2>1, <2>2, <2>4, <3>1
    <3>4. RowOf(c)' = [RowOf(o) EXCEPT !.by = c]
      BY <2>1, <3>1, <3>3 DEF RowOf
    <3>5. MixerRows' = (MixerRows \ {RowOf(o)}) \cup {RowOf(c)'}
      BY <1>1, <1>2, <1>3, <1>5, <3>1, <3>2 DEF MixerRows
    <3>6. RowOf(o) \in MixerRows /\ MixerRows' # MixerRows /\ RowOf(o).by = o
      <4>1. RowOf(c)' \in MixerRows'
        BY <3>5
      <4>2. \A r \in MixerRows : r.by # c
        BY <1>2, <1>3, <3>2 DEF MixerRows
      <4>3. RowOf(o) \in MixerRows
        BY <3>1 DEF MixerRows
      <4> QED
        BY <1>3, <3>1, <4>1, <4>2, <4>3
    <3>7. Mixer!TakeOver(RowOf(o), c)
      BY <3>1, <3>3, <3>4, <3>5, <3>6 DEF Mixer!TakeOver, Mixer!Replace
    <3> QED
      BY <3>6, <3>7 DEF Mixer!Next
  <2>5. CASE Old(c) = {} /\ c \in clients
    <3>1. seq[c] \in 1 .. lastSeq /\ id[c] = Page[c]
      BY <1>5, <2>5, SpeakersPlaces
    <3>2. seq'[c] = seq[c] /\ lastSeq' = lastSeq /\ gain'[c] = Full
      BY <1>1, <1>2, <2>1, <2>2, <2>5, <3>1 DEF GainFor
    <3>3. RowOf(c)' = [RowOf(c) EXCEPT !.volume = Full]
      BY <2>1, <3>1, <3>2 DEF RowOf
    <3>4. MixerRows' = (MixerRows \ {RowOf(c)}) \cup {RowOf(c)'} /\ RowOf(c) \in MixerRows
      BY <1>1, <1>2, <1>3, <1>5, <2>5 DEF MixerRows
    <3>5. Mixer!Again(RowOf(c))
      BY <3>2, <3>3, <3>4 DEF Mixer!Again, Mixer!Replace
    <3> QED
      BY <3>2, <3>4, <3>5 DEF Mixer!Next
  <2>6. CASE Old(c) = {} /\ c \notin clients
    <3>1. seq'[c] \in 1 .. lastSeq + 1
      BY <1>2, <2>1, <2>2, <2>6 DEF Places, IdsMatch
    <3>2. lastSeq' = IF seq'[c] > lastSeq THEN seq'[c] ELSE lastSeq
      BY <1>2, <2>1, <2>2, <2>6 DEF Places, IdsMatch
    <3>3. ASSUME NEW d \in clients, Page[d] # Host PROVE id[d] # Page[c] /\ seq[d] # seq'[c]
      <4>1. id[d] # Page[c]
        BY <2>2, <2>6, <3>3
      <4>2. seq[d] \in 1 .. lastSeq /\ d \in Conns
        BY SpeakersPlaces
      <4>3. CASE seq[c] = 0
        BY <1>2, <2>1, <2>2, <2>6, <4>2, <4>3
      <4>4. CASE seq[c] # 0
        <5>1. seq'[c] = seq[c] /\ id[c] = Page[c]
          BY <1>5, <2>1, <2>2, <2>6, <4>4 DEF Places, IdsMatch
        <5> QED
          BY <4>1, <5>1, SpeakersPlaces
      <4> QED
        BY <4>1, <4>3, <4>4
    <3>4. \A r \in MixerRows : r.device # Page[c] /\ r.place # seq'[c]
      BY <3>3 DEF MixerRows, RowOf
    <3>5. RowOf(c)' = [device |-> Page[c], place |-> seq'[c], volume |-> Full, by |-> c]
      BY <1>1, <2>1, <2>6 DEF RowOf, GainFor
    <3>6. MixerRows' = MixerRows \cup {RowOf(c)'}
      BY <1>1, <1>2, <1>3, <1>5, <2>6 DEF MixerRows
    <3>7. MixerRows' # MixerRows
      BY <1>2, <1>3, <2>6, <3>6 DEF MixerRows
    <3>8. Mixer!Join(Page[c], c)
      BY <3>1, <3>2, <3>4, <3>5, <3>6 DEF Mixer!Join
    <3> QED
      BY <2>1, <3>7, <3>8 DEF Mixer!Next
  <2> QED
    BY <2>4, <2>5, <2>6
<1> QED
  BY <1>4, <1>5

\* The mixer turns a row, or one that has gone.
LEMMA SetGainMixes ==
  ASSUME TypeInv, TypeInv', Places, NEW c \in Conns, SetGain(c)
  PROVE  [Mixer!Next]_<<MixerRows, lastSeq, Over>>
<1> DEFINE named == {d \in clients : id[d] = msg[c].id /\ guest[d]}
<1>1. /\ UNCHANGED <<id, seq, clients, lastSeq>> /\ clients \subseteq Conns
      /\ \/ gain' = gain
         \/ /\ named # {}
            /\ gain' = [gain EXCEPT ![CHOOSE e \in named : TRUE] = Clamp(msg[c].gain)]
  BY DEF SetGain, hubVars, TypeInv, TypeOK
<1>2. Over' = Over
  BY DEF SetGain, Handles, Return, Over, TypeInv, TypeOK
<1>3. CASE gain' = gain
  BY <1>1, <1>2, <1>3 DEF MixerRows, RowOf
<1>4. CASE named # {} /\ gain' = [gain EXCEPT ![CHOOSE e \in named : TRUE] = Clamp(msg[c].gain)]
  <2>1. PICK d \in clients : gain' = [gain EXCEPT ![d] = Clamp(msg[c].gain)]
    <3>1. (CHOOSE e \in named : TRUE) \in clients
      BY <1>4
    <3> QED
      BY <1>4, <3>1
  <2>2. d \in Conns /\ gain'[d] \in 0 .. Full
    BY <1>1, <2>1 DEF TypeInv, TypeOK
  <2>3. \A e \in Conns \ {d} : id'[e] = id[e] /\ seq'[e] = seq[e] /\ gain'[e] = gain[e]
    BY <1>1, <2>1 DEF TypeInv, TypeOK
  <2>4. /\ \A e \in Conns \ {d} : RowOf(e)' = RowOf(e)
        /\ \A e \in Conns : RowOf(e).by = e /\ RowOf(e)'.by = e
    BY <1>1, <2>2, <2>3, RowsOfOthers
  <2>5. CASE Page[d] = Host
    <3>1. MixerRows' = MixerRows
      BY <1>1, <2>4, <2>5 DEF MixerRows
    <3> QED
      BY <1>1, <1>2, <3>1
  <2>6. CASE Page[d] # Host
    <3>1. RowOf(d)' = [RowOf(d) EXCEPT !.volume = gain'[d]]
      BY <1>1 DEF RowOf
    <3>2. MixerRows' = (MixerRows \ {RowOf(d)}) \cup {RowOf(d)'} /\ RowOf(d) \in MixerRows
      BY <1>1, <2>1, <2>2, <2>4, <2>6 DEF MixerRows
    <3>3. Mixer!Turn(RowOf(d), gain'[d])
      BY <1>1, <1>2, <3>1, <3>2 DEF Mixer!Turn, Mixer!Replace
    <3> QED
      BY <1>1, <1>2, <2>2, <3>2, <3>3 DEF Mixer!Next
  <2> QED
    BY <2>5, <2>6
<1> QED
  BY <1>1, <1>3, <1>4

\* The row of a connection that is over goes, and no other.
LEMMA DropMixes ==
  ASSUME TypeInv, NEW c \in Conns, Drop(c)
  PROVE  Mixer!Next
<1>1. /\ clients' = clients \ {c} /\ clients \subseteq Conns /\ lastSeq' = lastSeq
      /\ \A d \in Conns \ {c} : id'[d] = id[d] /\ seq'[d] = seq[d] /\ gain'[d] = gain[d]
  BY DEF Drop, DropTo, TypeInv, TypeOK
<1>2. c \notin Over /\ Over' = Over \cup {c}
  <2>1. reader[c] = "dropping" /\ reader' = [reader EXCEPT ![c] = "gone"]
    BY DEF Drop, DropTo
  <2> QED
    BY <2>1 DEF Over, TypeInv, TypeOK
<1>3. /\ \A d \in Conns \ {c} : RowOf(d)' = RowOf(d)
      /\ \A d \in Conns : RowOf(d).by = d /\ RowOf(d)'.by = d
  BY <1>1, RowsOfOthers
<1>4. MixerRows' = {r \in MixerRows : r.by # c}
  BY <1>1, <1>3 DEF MixerRows
<1> QED
  BY <1>1, <1>2, <1>4 DEF Mixer!Next, Mixer!End

\* Every step of Hub is one of Room, or changes nothing Room speaks of.
LEMMA MixerStep ==
  ASSUME TypeInv, TypeInv', Places, UsedOnce, [Next]_vars
  PROVE  [Mixer!Next]_<<MixerRows, lastSeq, Over>>
<1>1. CASE UNCHANGED vars
  BY <1>1 DEF vars, threadVars, rowVars, hubVars, MixerRows, RowOf, Over
<1>2. ASSUME NEW c \in Conns, Hello(c) PROVE [Mixer!Next]_<<MixerRows, lastSeq, Over>>
  <2>1. c \notin Over /\ Over' = Over
    BY <1>2 DEF Hello, Handles, Return, Panic, Over, TypeInv, TypeOK
  <2> QED
    BY <1>2, <2>1, HelloMixes DEF Hello, TypeInv
<1>3. ASSUME NEW c \in Conns,
             \/ Connect(c) \/ Receive(c) \/ Vanish(c) \/ Close(c) \/ ReadFails(c)
             \/ Announce(c) \/ Sync(c) \/ Writer(c)
      PROVE  UNCHANGED <<MixerRows, lastSeq, Over>>
  <2>1. UNCHANGED <<id, seq, clients, lastSeq>>
    BY <1>3, OthersKeepRows
  <2>2. gain' = gain
    BY <1>3 DEF Connect, Receive, Vanish, Close, ReadFails, Announce, Sync, Writer, Write,
                WriterEnds, rowVars
  <2>3. Over' = Over
    <3>1. CASE Connect(c)
      <4>1. reader[c] = "none" /\ reader' = [reader EXCEPT ![c] = "reading"]
        BY <3>1 DEF Connect, UsedOnce
      <4> QED
        BY <4>1 DEF Over, TypeInv, TypeOK
    <3>2. CASE Receive(c) \/ Vanish(c) \/ Close(c) \/ ReadFails(c)
      BY <3>2 DEF Receive, Vanish, Close, ReadFails, threadVars, Over, TypeInv, TypeOK
    <3>3. CASE Announce(c) \/ Sync(c)
      BY <3>3 DEF Announce, Sync, Handles, Return, Panic, Over, TypeInv, TypeOK
    <3>4. CASE Writer(c)
      BY <3>4 DEF Writer, Write, WriterEnds, threadVars, Over
    <3> QED
      BY <1>3, <3>1, <3>2, <3>3, <3>4
  <2> QED
    BY <2>1, <2>2, <2>3 DEF MixerRows, RowOf
<1> QED
  BY <1>1, <1>2, <1>3, SetGainMixes, DropMixes, Cases

\* For any number of connections and devices, the mixer keeps what Room promises:
\* place and volume across a reconnection, and a row until its own connection ends.
THEOREM RoomIsImplemented == Spec => RoomIsKept
<1>1. Init => Mixer!Init
  BY DEF Init, Mixer!Init, MixerRows, Over
<1>2. Init => TypeInv /\ Places /\ UsedOnce
  BY TypeInit, PlacesInit DEF Init, UsedOnce
<1>3. TypeInv /\ Places /\ UsedOnce /\ [Next]_vars => (TypeInv /\ Places /\ UsedOnce)'
  BY TypeStep, PlacesStep, UsedOnceStep
<1>4. TypeInv /\ TypeInv' /\ Places /\ UsedOnce /\ [Next]_vars
        => [Mixer!Next]_<<MixerRows, lastSeq, Over>>
  BY MixerStep
<1> QED
  BY <1>1, <1>2, <1>3, <1>4, PTL DEF Spec, RoomIsKept, Mixer!Spec

(***************************************************************************)
(* Who has left.                                                           *)
(***************************************************************************)

\* The safety half of GoneLeaves: a connection whose reader has ended is not
\* registered, and what overlaps its end does not register it again.
GoneIsGone == \A c \in Conns : reader[c] = "gone" => c \notin clients

\* A registration is made by a reader at work, and ended by its last step.
LEMMA GoneStep == TypeInv /\ UsedOnce /\ GoneIsGone /\ [Next]_vars => GoneIsGone'
<1> SUFFICES ASSUME TypeInv, UsedOnce, GoneIsGone, [Next]_vars PROVE GoneIsGone'
  OBVIOUS
<1>1. CASE UNCHANGED vars
  BY <1>1 DEF vars, threadVars, hubVars, GoneIsGone
<1>2. ASSUME NEW c \in Conns, Hello(c) PROVE GoneIsGone'
  <2>1. /\ reader[c] = "handling" /\ reader'[c] # "gone"
        /\ \A d \in Conns \ {c} : reader'[d] = reader[d]
    BY <1>2 DEF Hello, Handles, Return, Panic, TypeInv, TypeOK
  <2>2. clients' \subseteq clients \cup {c}
    BY <1>2 DEF Hello, Register
  <2> QED
    BY <2>1, <2>2 DEF GoneIsGone
<1>3. ASSUME NEW c \in Conns, Drop(c) PROVE GoneIsGone'
  BY <1>3 DEF Drop, DropTo, GoneIsGone, TypeInv, TypeOK
<1>4. ASSUME NEW c \in Conns,
             \/ Connect(c) \/ Receive(c) \/ Vanish(c) \/ Close(c) \/ ReadFails(c)
             \/ SetGain(c) \/ Announce(c) \/ Sync(c) \/ Writer(c)
      PROVE  GoneIsGone'
  <2>1. clients' = clients
    BY <1>4, OthersKeepRows
  <2>2. \A d \in Conns : reader'[d] = "gone" => reader[d] = "gone"
    <3>1. CASE Connect(c) \/ Receive(c) \/ Vanish(c) \/ Close(c) \/ ReadFails(c)
      BY <3>1 DEF Connect, Receive, Vanish, Close, ReadFails, threadVars, TypeInv, TypeOK
    <3>2. CASE SetGain(c) \/ Announce(c) \/ Sync(c)
      <4>1. Return(c) \/ Panic(c)
        BY <3>2, Zenon DEF SetGain, Announce, Sync
      <4> QED
        BY <4>1 DEF Return, Panic, TypeInv, TypeOK
    <3>3. CASE Writer(c)
      BY <3>3 DEF Writer, Write, WriterEnds, threadVars
    <3> QED
      BY <1>4, <3>1, <3>2, <3>3
  <2> QED
    BY <2>1, <2>2 DEF GoneIsGone
<1> QED
  BY <1>1, <1>2, <1>3, <1>4, Cases

\* Whoever has left the mixer for good has no row in it (session.go:drop).
THEOREM GoneStaysAway == Spec => []GoneIsGone
<1>1. Init => TypeInv /\ UsedOnce /\ GoneIsGone
  BY TypeInit DEF Init, UsedOnce, GoneIsGone
<1>2. TypeInv /\ UsedOnce /\ GoneIsGone /\ [Next]_vars => (TypeInv /\ UsedOnce /\ GoneIsGone)'
  BY TypeStep, UsedOnceStep, GoneStep
<1> QED
  BY <1>1, <1>2, PTL DEF Spec
=============================================================================
