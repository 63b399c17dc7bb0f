--------------------------- MODULE HostPageProofs ---------------------------
(***************************************************************************)
(* For any number of pages and connections, and queues of any length: what *)
(* a host page shows is true, and the request that was made last decides.  *)
(* The invariant says what the last state under way to a page says, that a *)
(* page has one connection at a time, and that a start or a stop that was  *)
(* asked for while nothing else was stays the last one.                    *)
(***************************************************************************)
EXTENDS HostPage, SequenceTheorems, TLAPS

\* The sockets of a page: one at a time, and the server knows none before it
\* is open.
OneSocket ==
  /\ \A c \in Conns : conn[c] \in {"connecting", "open"} => ws[PageOf[c]] = c
  /\ \A p \in Pages : retry[p] => conn[ws[p]] = "closed"
Unknown ==
  \A c \in Conns : conn[c] \in {"new", "connecting"} => c \notin clients /\ reader[c] = "none"

\* What page c will show once it has heard all that is under way.
WillShow(c) == IF down[c] = <<>> THEN streaming[PageOf[c]] ELSE down[c][Len(down[c])].streaming
Putting == \E d \in Conns : reader[d] = "stopped"
Heard(c) == c \in clients /\ conn[c] = "open" /\ ~missed[c] /\ ~Putting => WillShow(c) = live

Timed == \A p \in Pages : timers[p] <= acts

IInv == TypeOK /\ Timed /\ OneSocket /\ Unknown /\ \A c \in Conns : Heard(c)

\* Every connection has its page.
LEMMA HasPage == \A c \in Conns : PageOf[c] \in Pages
  BY DEF Pages

(***************************************************************************)
(* Types.                                                                  *)
(***************************************************************************)

\* What Append leaves.
LEMMA Appended ==
  ASSUME NEW S, NEW q \in Seq(S), NEW e \in S
  PROVE  /\ Append(q, e) \in Seq(S) /\ Append(q, e) # <<>>
         /\ Len(Append(q, e)) = Len(q) + 1 /\ Len(q) \in Nat
         /\ Append(q, e)[Len(q) + 1] = e
  OBVIOUS

\* A request that was sent is one more request under way.
LEMMA SentTyped ==
  ASSUME TypeOK, NEW p \in Pages, NEW r \in Requests
  PROVE  Sent(p, r) \in [Conns -> Seq(Requests)]
<1>1. ws[p] \in Conns /\ Append(up[ws[p]], r) \in Seq(Requests)
  BY DEF TypeOK
<1> QED
  BY <1>1 DEF Sent, TypeOK

\* The requests of a page.
LEMMA RequestsAre ==
  /\ [type |-> "stop"] \in Requests /\ [type |-> "delay"] \in Requests
  /\ [type |-> "hello"] \in Requests
  /\ \A a \in BOOLEAN : [type |-> "start", audible |-> a] \in Requests
  BY DEF Requests

\* fanout leaves queues of states, none longer than it may be.
LEMMA TellTyped ==
  ASSUME TypeOK, NEW cs \in SUBSET Conns, NEW s \in States, Tell(cs, s)
  PROVE  /\ down' \in [Conns -> Seq(States)] /\ \A c \in Conns : Len(down'[c]) <= SendCap
         /\ missed' \in [Conns -> BOOLEAN]
<1>1. \A c \in Conns : /\ down[c] \in Seq(States)
                       /\ Append(down[c], s) \in Seq(States)
                       /\ Len(Append(down[c], s)) = Len(down[c]) + 1
                       /\ Len(down[c]) \in Nat /\ Len(down[c]) <= SendCap
  BY Appended DEF TypeOK
<1>2. down' \in [Conns -> Seq(States)]
  BY <1>1 DEF Tell
<1>3. \A c \in Conns : Len(down'[c]) <= SendCap
  BY <1>1, HostAssumption DEF Tell
<1>4. missed' \in [Conns -> BOOLEAN]
  <2>1. \A c \in Conns : missed[c] \in BOOLEAN
    BY DEF TypeOK
  <2>2. ASSUME NEW n, NEW m PROVE (n >= m) \in BOOLEAN
    OBVIOUS
  <2> QED
    BY <2>1, <2>2, Zenon DEF Tell
<1> QED
  BY <1>2, <1>3, <1>4

\* wants is a wish, or none.
LEMMA AskedTyped ==
  ASSUME NEW what \in BOOLEAN \cup {None}, NEW clear \in BOOLEAN, Asked(what, clear)
  PROVE  wants' \in BOOLEAN \cup {None}
  BY DEF Asked

\* The clicks of the page, and its timers.
LEMMA ClickTyped ==
  ASSUME TypeOK, Timed, NEW p \in Pages, Power(p) \/ Audible(p) \/ Restart(p) \/ Delay(p)
  PROVE  TypeOK' /\ Timed'
<1> USE HostAssumption
<1>1. CASE Power(p)
  <2>1. up' \in [Conns -> Seq(Requests)]
    BY <1>1, SentTyped, RequestsAre DEF Power, TypeOK
  <2>2. acts' \in 0 .. MaxActs /\ Timed'
    BY <1>1 DEF Power, Act, TypeOK, Timed, pageVars
  <2>3. wants' \in BOOLEAN \cup {None}
    BY <1>1, AskedTyped DEF Power, TypeOK, Alone
  <2> QED
    BY <1>1, <2>1, <2>2, <2>3 DEF Power, TypeOK, pageVars, hubVars
<1>2. CASE Audible(p)
  <2>1. up' \in [Conns -> Seq(Requests)]
    <3>1. up' = up \/ up' = Sent(p, [type |-> "stop"])
      BY <1>2 DEF Audible
    <3> QED
      BY <3>1, SentTyped, RequestsAre DEF TypeOK
  <2>2. acts' \in 0 .. MaxActs /\ acts' = acts + 1
    BY <1>2 DEF Audible, Act, TypeOK
  <2>3. timers' \in [Pages -> 0 .. MaxActs] /\ Timed'
    <3>1. timers[p] \in 0 .. MaxActs /\ timers[p] + 1 <= acts + 1 /\ acts + 1 <= MaxActs
      BY <2>2 DEF TypeOK, Timed
    <3>2. timers' = timers \/ timers' = [timers EXCEPT ![p] = timers[p]]
            \/ timers' = [timers EXCEPT ![p] = timers[p] + 1]
      BY <1>2 DEF Audible
    <3>3. timers' \in [Pages -> 0 .. MaxActs]
      BY <3>1, <3>2 DEF TypeOK
    <3>4. \A q \in Pages : timers[q] \in Nat /\ timers[q] <= acts /\ acts \in Nat
      BY DEF TypeOK, Timed
    <3>5. \A q \in Pages : timers'[q] <= acts + 1
      <4>1. ASSUME NEW q \in Pages
            PROVE  timers'[q] = timers[q] \/ (q = p /\ timers'[q] = timers[p] + 1)
        BY <3>2 DEF TypeOK
      <4> QED
        BY <3>1, <3>4, <4>1
    <3> QED
      BY <2>2, <3>3, <3>5 DEF Timed
  <2>4. wants' \in BOOLEAN \cup {None}
    BY <1>2, AskedTyped DEF Audible, TypeOK, Alone
  <2>5. checked' \in [Pages -> BOOLEAN]
    BY <1>2 DEF Audible, TypeOK
  <2> QED
    BY <1>2, <2>1, <2>2, <2>3, <2>4, <2>5 DEF Audible, TypeOK, hubVars
<1>3. CASE Restart(p)
  <2>1. up' \in [Conns -> Seq(Requests)]
    BY <1>3, SentTyped, RequestsAre DEF Restart, TypeOK
  <2>2. timers' \in [Pages -> 0 .. MaxActs] /\ Timed'
    BY <1>3 DEF Restart, TypeOK, Timed, userVars
  <2> QED
    BY <1>3, <2>1, <2>2 DEF Restart, TypeOK, hubVars, userVars
<1>4. CASE Delay(p)
  <2>1. up' \in [Conns -> Seq(Requests)]
    BY <1>4, SentTyped, RequestsAre DEF Delay, TypeOK
  <2>2. acts' \in 0 .. MaxActs /\ Timed'
    BY <1>4 DEF Delay, Act, TypeOK, Timed, pageVars
  <2> QED
    BY <1>4, <2>1, <2>2 DEF Delay, TypeOK, pageVars, hubVars
<1> QED
  BY <1>1, <1>2, <1>3, <1>4

\* The sockets of the page.
LEMMA SocketTyped ==
  ASSUME TypeOK, Timed, NEW c \in Conns,
         ApplyState(c) \/ Open(c) \/ Lose(c) \/ Connect(c) \/ Reload(c)
  PROVE  TypeOK' /\ Timed'
<1> DEFINE p == PageOf[c]
<1> USE HostAssumption, HasPage
<1>1. CASE ApplyState(c)
  <2>1. /\ Head(down[c]) \in States /\ Tail(down[c]) \in Seq(States)
        /\ Len(Tail(down[c])) <= SendCap
    BY <1>1 DEF ApplyState, TypeOK
  <2>2. down' \in [Conns -> Seq(States)] /\ \A d \in Conns : Len(down'[d]) <= SendCap
    BY <1>1, <2>1 DEF ApplyState, TypeOK
  <2>3. Head(down[c]).streaming \in BOOLEAN /\ Head(down[c]).audible \in BOOLEAN
    BY <2>1 DEF States
  <2>4. streaming' \in [Pages -> BOOLEAN] /\ checked' \in [Pages -> BOOLEAN]
    BY <1>1, <2>3 DEF ApplyState, TypeOK
  <2> QED
    BY <1>1, <2>2, <2>4 DEF ApplyState, TypeOK, Timed, hubVars, userVars
<1>2. CASE Open(c)
  <2>1. up' \in [Conns -> Seq(Requests)]
    BY <1>2, RequestsAre DEF Open, TypeOK
  <2>2. conn' \in [Conns -> {"new", "connecting", "open", "closed"}]
    BY <1>2 DEF Open, TypeOK
  <2>3. reader' \in [Conns -> {"none", "reading", "starting", "stopping", "stopped", "gone"}]
    BY <1>2 DEF Open, TypeOK
  <2> QED
    BY <1>2, <2>1, <2>2, <2>3 DEF Open, TypeOK, Timed, pageVars, userVars
<1>3. ASSUME NEW d \in Conns, Ends(d)
      PROVE  /\ down' \in [Conns -> Seq(States)] /\ \A e \in Conns : Len(down'[e]) <= SendCap
             /\ wants' \in BOOLEAN \cup {None}
  <2>1. <<>> \in Seq(States) /\ Len(<<>>) = 0
    BY DEF States
  <2>2. down' \in [Conns -> Seq(States)] /\ \A e \in Conns : Len(down'[e]) <= SendCap
    BY <1>3, <2>1 DEF Ends, TypeOK
  <2>3. wants' \in BOOLEAN \cup {None}
    BY <1>3, AskedTyped DEF Ends, TypeOK
  <2> QED
    BY <2>2, <2>3
<1>4. CASE Lose(c)
  <2>1. conn' \in [Conns -> {"new", "connecting", "open", "closed"}]
    BY <1>4 DEF Lose, TypeOK
  <2>2. retry' \in [Pages -> BOOLEAN]
    BY <1>4 DEF Lose, TypeOK
  <2> QED
    BY <1>3, <1>4, <2>1, <2>2 DEF Lose, TypeOK, Timed, hubVars
<1>5. CASE Connect(c)
  <2>1. conn' \in [Conns -> {"new", "connecting", "open", "closed"}]
    BY <1>5 DEF Connect, TypeOK
  <2>2. retry' \in [Pages -> BOOLEAN]
    BY <1>5 DEF Connect, TypeOK
  <2>3. ws' \in [Pages -> Conns] /\ \A q \in Pages : PageOf[ws'[q]] = q
    BY <1>5 DEF Connect, TypeOK
  <2> QED
    BY <1>5, <2>1, <2>2, <2>3 DEF Connect, TypeOK, Timed, hubVars, userVars
<1>6. CASE Reload(c)
  <2>1. conn' \in [Conns -> {"new", "connecting", "open", "closed"}]
    BY <1>6 DEF Reload, TypeOK
  <2>2. ws' \in [Pages -> Conns] /\ \A q \in Pages : PageOf[ws'[q]] = q
    BY <1>6 DEF Reload, TypeOK
  <2>3. streaming' \in [Pages -> BOOLEAN] /\ checked' \in [Pages -> BOOLEAN]
    BY <1>6 DEF Reload, TypeOK
  <2>4. timers' \in [Pages -> 0 .. MaxActs] /\ Timed'
    BY <1>6 DEF Reload, TypeOK, Timed
  <2>5. ws[p] \in Conns
    BY DEF TypeOK
  <2>6. /\ down' \in [Conns -> Seq(States)] /\ \A e \in Conns : Len(down'[e]) <= SendCap
        /\ wants' \in BOOLEAN \cup {None}
    BY <1>3, <1>6, <2>5 DEF Reload
  <2> QED
    BY <1>6, <2>1, <2>2, <2>3, <2>4, <2>6 DEF Reload, TypeOK, hubVars
<1> QED
  BY <1>1, <1>2, <1>4, <1>5, <1>6

\* What the server does with a request, and the end of a connection.
LEMMA HandleTyped ==
  ASSUME TypeOK, Timed, NEW c \in Conns, Handle(c)
  PROVE  TypeOK' /\ Timed'
<1> DEFINE Readers == {"none", "reading", "starting", "stopping", "stopped", "gone"}
<1> USE HostAssumption
<1>1. ASSUME Back(c) PROVE reader' \in [Conns -> Readers] /\ audible' \in [Conns -> BOOLEAN]
  BY <1>1 DEF Back, TypeOK
<1>2. CASE Read(c)
  <2>1. PICK i \in NextRequest(c) :
          LET r == up[c][i] IN
          /\ up' = [up EXCEPT ![c] = SubSeq(@, 1, i - 1) \o SubSeq(@, i + 1, Len(@))]
          /\ reader' = [reader EXCEPT ![c] = CASE r.type = "start" -> "starting"
                                               [] r.type = "stop" -> "stopping"
                                               [] OTHER -> "reading"]
          /\ audible' = [audible EXCEPT ![c] = r.type = "start" /\ r.audible]
          /\ clients' = IF r.type = "hello" THEN clients \cup {c} ELSE clients
          /\ CASE r.type = "hello" -> Tell({c}, StateMsg)
               [] r.type = "delay" -> Tell(clients, StateMsg)
               [] OTHER -> UNCHANGED <<down, missed>>
    BY <1>2 DEF Read
  <2> DEFINE r == up[c][i]
  <2>2. i = 1 /\ Len(up[c]) >= 1 /\ up[c] \in Seq(Requests)
    BY DEF NextRequest, TypeOK
  <2>3. SubSeq(up[c], 1, i - 1) \o SubSeq(up[c], i + 1, Len(up[c])) \in Seq(Requests)
    <3>1. SubSeq(up[c], 1, i - 1) \in Seq(Requests)
      BY <2>2
    <3>2. SubSeq(up[c], i + 1, Len(up[c])) \in Seq(Requests)
      BY <2>2
    <3> QED
      BY <3>1, <3>2, ConcatProperties
  <2>4. up' \in [Conns -> Seq(Requests)]
    BY <2>1, <2>3 DEF TypeOK
  <2>5. reader' \in [Conns -> Readers]
    BY <2>1 DEF TypeOK
  <2>6. audible' \in [Conns -> BOOLEAN]
    <3>1. (r.type = "start" /\ r.audible) \in BOOLEAN
      OBVIOUS
    <3>2. audible' = [audible EXCEPT ![c] = r.type = "start" /\ r.audible]
      BY <2>1
    <3> QED
      BY <3>1, <3>2 DEF TypeOK
  <2>7. clients' \subseteq Conns
    BY <2>1 DEF TypeOK
  <2>8. /\ down' \in [Conns -> Seq(States)] /\ \A e \in Conns : Len(down'[e]) <= SendCap
        /\ missed' \in [Conns -> BOOLEAN]
    <3>1. StateMsg \in States /\ {c} \in SUBSET Conns /\ clients \in SUBSET Conns
      BY DEF StateMsg, States, TypeOK
    <3>2. Tell({c}, StateMsg) \/ Tell(clients, StateMsg) \/ UNCHANGED <<down, missed>>
      BY <2>1
    <3> QED
      BY <3>1, <3>2, TellTyped DEF TypeOK
  <2> QED
    BY <1>2, <2>4, <2>5, <2>6, <2>7, <2>8 DEF Read, TypeOK, Timed, pageVars, userVars
<1>3. ASSUME NEW s \in States, Tell(clients, s)
      PROVE  /\ down' \in [Conns -> Seq(States)] /\ \A e \in Conns : Len(down'[e]) <= SendCap
             /\ missed' \in [Conns -> BOOLEAN]
  <2>1. clients \in SUBSET Conns
    BY DEF TypeOK
  <2> QED
    BY <1>3, <2>1, TellTyped
<1>4. CASE Started(c)
  <2>1. [streaming |-> TRUE, audible |-> audible[c]] \in States /\ audible[c] \in BOOLEAN
    BY DEF States, TypeOK
  <2> QED
    BY <1>1, <1>3, <1>4, <2>1 DEF Started, TypeOK, Timed, pageVars, userVars
<1>5. CASE Failed(c)
  <2>1. [streaming |-> FALSE, audible |-> keepAudible] \in States
    BY DEF States, TypeOK
  <2>2. wants' \in BOOLEAN \cup {None}
    BY <1>5, AskedTyped DEF Failed, TypeOK
  <2> QED
    BY <1>1, <1>3, <1>5, <2>1, <2>2 DEF Failed, TypeOK, Timed, pageVars
<1>6. CASE NotReady(c)
  <2>1. wants' \in BOOLEAN \cup {None}
    BY <1>6, AskedTyped DEF NotReady, TypeOK
  <2> QED
    BY <1>1, <1>6, <2>1 DEF NotReady, TypeOK, Timed, pageVars, netVars
<1>7. CASE Stopped(c)
  <2>1. reader' \in [Conns -> Readers]
    BY <1>7 DEF Stopped, TypeOK
  <2> QED
    BY <1>7, <2>1 DEF Stopped, TypeOK, Timed, pageVars, netVars, userVars
<1>8. CASE Announce(c)
  <2>1. StateMsg \in States
    BY DEF StateMsg, States, TypeOK
  <2> QED
    BY <1>1, <1>3, <1>8, <2>1 DEF Announce, TypeOK, Timed, pageVars, userVars
<1>9. CASE Drop(c)
  <2>1. /\ reader' \in [Conns -> Readers] /\ clients' \subseteq Conns
        /\ up' \in [Conns -> Seq(Requests)] /\ missed' \in [Conns -> BOOLEAN]
    BY <1>9 DEF Drop, TypeOK
  <2> QED
    BY <1>9, <2>1 DEF Drop, TypeOK, Timed, pageVars, userVars
<1> QED
  BY <1>2, <1>4, <1>5, <1>6, <1>7, <1>8, <1>9 DEF Handle

\* The end of the start at launch.
LEMMA LaunchTyped ==
  ASSUME TypeOK, Timed, Launch
  PROVE  TypeOK' /\ Timed'
<1>1. /\ [streaming |-> TRUE, audible |-> TRUE] \in States
      /\ [streaming |-> FALSE, audible |-> keepAudible] \in States
      /\ clients \in SUBSET Conns
  BY DEF States, TypeOK
<1>2. /\ down' \in [Conns -> Seq(States)] /\ \A e \in Conns : Len(down'[e]) <= SendCap
      /\ missed' \in [Conns -> BOOLEAN]
  <2>1. \/ \E s \in States : Tell(clients, s)
        \/ UNCHANGED <<down, missed>>
    BY <1>1 DEF Launch, LaunchStarts, LaunchFails, LaunchNotReady
  <2> QED
    BY <1>1, <2>1, TellTyped DEF TypeOK
<1>3. live' \in BOOLEAN /\ keepAudible' \in BOOLEAN /\ launch' \in BOOLEAN
  BY DEF Launch, LaunchStarts, LaunchFails, LaunchNotReady, TypeOK
<1>4. wants' \in BOOLEAN \cup {None}
  BY AskedTyped DEF Launch, LaunchStarts, LaunchFails, LaunchNotReady, TypeOK
<1> QED
  BY <1>2, <1>3, <1>4 DEF Launch, TypeOK, Timed, pageVars

\* Every step keeps the types.
LEMMA TypeStep ==
  ASSUME TypeOK, Timed, [Next]_vars PROVE TypeOK' /\ Timed'
<1>1. CASE UNCHANGED vars
  BY <1>1 DEF vars, pageVars, netVars, hubVars, userVars, TypeOK, Timed
<1> QED
  BY <1>1, ClickTyped, SocketTyped, HandleTyped, LaunchTyped DEF Next

(***************************************************************************)
(* A page has one connection at a time.                                    *)
(***************************************************************************)

\* Every step keeps the sockets of the pages in order.
LEMMA SocketStep ==
  ASSUME IInv, [Next]_vars
  PROVE  OneSocket' /\ Unknown'
<1> USE HasPage
<1>1. ASSUME NEW p \in Pages, Power(p) \/ Audible(p) \/ Restart(p) \/ Delay(p)
      PROVE  UNCHANGED <<ws, retry, conn, clients, reader>>
  BY <1>1 DEF Power, Audible, Restart, Delay, pageVars, hubVars
<1>2. ASSUME NEW c \in Conns, ApplyState(c) \/ NotReady(c) \/ Started(c) \/ Failed(c) \/ Stopped(c)
                              \/ Announce(c) \/ Read(c) \/ Drop(c)
      PROVE  OneSocket' /\ Unknown'
  <2>1. UNCHANGED <<ws, retry, conn>>
    BY <1>2 DEF ApplyState, NotReady, Started, Failed, Stopped, Announce, Read, Drop, pageVars,
                netVars
  <2>2. OneSocket'
    BY <2>1 DEF IInv, OneSocket
  <2>3. /\ clients' \subseteq clients \cup {c} /\ \A d \in Conns \ {c} : reader'[d] = reader[d]
        /\ c \in clients' \ clients => reader[c] # "none"
        /\ reader'[c] # reader[c] => reader[c] # "none"
    <3>1. CASE ApplyState(c)
      BY <3>1 DEF ApplyState, hubVars
    <3>2. CASE NotReady(c) \/ Started(c) \/ Failed(c) \/ Stopped(c) \/ Announce(c)
      BY <3>2 DEF NotReady, Started, Failed, Stopped, Announce, Back, IInv, TypeOK
    <3>3. CASE Read(c)
      BY <3>3 DEF Read, IInv, TypeOK
    <3>4. CASE Drop(c)
      BY <3>4 DEF Drop, IInv, TypeOK
    <3> QED
      BY <1>2, <3>1, <3>2, <3>3, <3>4
  <2> QED
    BY <2>1, <2>2, <2>3 DEF IInv, Unknown
<1>3. ASSUME NEW c \in Conns, Open(c) PROVE OneSocket' /\ Unknown'
  <2>1. /\ conn[c] = "connecting" /\ conn'[c] = "open" /\ reader'[c] = "reading"
        /\ \A d \in Conns \ {c} : conn'[d] = conn[d] /\ reader'[d] = reader[d]
        /\ UNCHANGED <<ws, retry, clients>>
    BY <1>3 DEF Open, IInv, TypeOK, pageVars
  <2>2. \A q \in Pages : retry[q] => ws[q] # c
    BY <2>1 DEF IInv, OneSocket
  <2>3. \A q \in Pages : ws[q] \in Conns
    BY DEF IInv, TypeOK
  <2>4. OneSocket'
    <3>1. \A d \in Conns : conn'[d] \in {"connecting", "open"} => ws'[PageOf[d]] = d
      BY <2>1 DEF IInv, OneSocket
    <3>2. \A q \in Pages : retry'[q] => conn'[ws'[q]] = "closed"
      BY <2>1, <2>2, <2>3 DEF IInv, OneSocket
    <3> QED
      BY <3>1, <3>2 DEF OneSocket
  <2>5. Unknown'
    BY <2>1 DEF IInv, Unknown
  <2> QED
    BY <2>4, <2>5
<1>4. ASSUME NEW c \in Conns, Lose(c) PROVE OneSocket' /\ Unknown'
  <2>1. /\ conn[c] \in {"connecting", "open"} /\ conn'[c] = "closed"
        /\ \A d \in Conns \ {c} : conn'[d] = conn[d]
        /\ UNCHANGED <<ws, reader, clients>>
        /\ \A q \in Pages \ {PageOf[c]} : retry'[q] = retry[q]
    BY <1>4 DEF Lose, Ends, IInv, TypeOK, hubVars
  <2>2. ws[PageOf[c]] = c
    BY <2>1 DEF IInv, OneSocket
  <2>3. \A q \in Pages \ {PageOf[c]} : ws[q] \in Conns \ {c}
    BY DEF IInv, TypeOK
  <2>4. OneSocket'
    <3>1. \A d \in Conns : conn'[d] \in {"connecting", "open"} => ws'[PageOf[d]] = d
      BY <2>1 DEF IInv, OneSocket
    <3>2. \A q \in Pages : retry'[q] => conn'[ws'[q]] = "closed"
      BY <2>1, <2>2, <2>3 DEF IInv, OneSocket
    <3> QED
      BY <3>1, <3>2 DEF OneSocket
  <2>5. Unknown'
    BY <2>1 DEF IInv, Unknown
  <2> QED
    BY <2>4, <2>5
<1>5. ASSUME NEW c \in Conns, Connect(c) PROVE OneSocket' /\ Unknown'
  <2> DEFINE p == PageOf[c]
  <2>1. /\ retry[p] /\ conn[c] = "new" /\ conn'[c] = "connecting" /\ ws'[p] = c /\ ~retry'[p]
        /\ \A d \in Conns \ {c} : conn'[d] = conn[d]
        /\ \A q \in Pages \ {p} : ws'[q] = ws[q] /\ retry'[q] = retry[q]
        /\ UNCHANGED <<reader, clients>>
    BY <1>5 DEF Connect, IInv, TypeOK, hubVars
  <2>2. conn[ws[p]] = "closed"
    BY <2>1 DEF IInv, OneSocket
  <2>3. \A d \in Conns : conn[d] \in {"connecting", "open"} => PageOf[d] # p
    BY <2>2 DEF IInv, OneSocket
  <2>4. OneSocket'
    <3>1. \A d \in Conns : conn'[d] \in {"connecting", "open"} => ws'[PageOf[d]] = d
      BY <2>1, <2>3 DEF IInv, OneSocket
    <3>2. \A q \in Pages \ {p} : ws[q] \in Conns \ {c}
      BY DEF IInv, TypeOK
    <3>3. \A q \in Pages : retry'[q] => conn'[ws'[q]] = "closed"
      BY <2>1, <3>2 DEF IInv, OneSocket
    <3> QED
      BY <3>1, <3>3 DEF OneSocket
  <2>5. Unknown'
    BY <2>1 DEF IInv, Unknown
  <2> QED
    BY <2>4, <2>5
<1>6. ASSUME NEW c \in Conns, Reload(c) PROVE OneSocket' /\ Unknown'
  <2> DEFINE p == PageOf[c]
  <2>1. /\ conn[c] = "new" /\ conn[ws[p]] \in {"connecting", "open"} /\ ws[p] \in Conns
        /\ conn' = [conn EXCEPT ![ws[p]] = "closed", ![c] = "connecting"]
        /\ ws'[p] = c
        /\ \A q \in Pages \ {p} : ws'[q] = ws[q]
        /\ UNCHANGED <<reader, clients, retry>>
    BY <1>6 DEF Reload, Ends, IInv, TypeOK, hubVars
  <2>2. /\ conn'[c] = "connecting" /\ conn'[ws[p]] = "closed"
        /\ \A d \in Conns \ {c, ws[p]} : conn'[d] = conn[d]
    BY <2>1 DEF IInv, TypeOK
  <2>3. /\ ~retry[p]
        /\ \A d \in Conns : conn[d] \in {"connecting", "open"} /\ PageOf[d] = p => d = ws[p]
    BY <2>1 DEF IInv, OneSocket
  <2>4. \A q \in Pages \ {p} : ws[q] # c /\ ws[q] # ws[p]
    BY DEF IInv, TypeOK
  <2>5. OneSocket'
    <3>1. \A d \in Conns : conn'[d] \in {"connecting", "open"} => ws'[PageOf[d]] = d
      BY <2>1, <2>2, <2>3 DEF IInv, OneSocket
    <3>2. \A q \in Pages \ {p} : ws[q] \in Conns \ {c, ws[p]}
      BY <2>4 DEF IInv, TypeOK
    <3>3. \A q \in Pages : retry'[q] => conn'[ws'[q]] = "closed"
      <4>1. ASSUME NEW q \in Pages \ {p}, retry'[q] PROVE conn'[ws'[q]] = "closed"
        <5>1. ws'[q] = ws[q] /\ retry[q] /\ conn'[ws[q]] = conn[ws[q]]
          BY <2>1, <2>2, <3>2, <4>1
        <5> QED
          BY <5>1 DEF IInv, OneSocket
      <4> QED
        BY <2>1, <2>3, <4>1
    <3> QED
      BY <3>1, <3>3 DEF OneSocket
  <2>6. Unknown'
    BY <2>1, <2>2 DEF IInv, Unknown
  <2> QED
    BY <2>5, <2>6
<1>7. CASE UNCHANGED <<ws, retry, conn, clients, reader>>
  BY <1>7 DEF IInv, OneSocket, Unknown
<1>8. CASE UNCHANGED vars
  BY <1>7, <1>8 DEF vars, pageVars, netVars, hubVars
<1>9. CASE Launch
  BY <1>7, <1>9 DEF Launch, pageVars
<1> QED
  BY <1>1, <1>2, <1>3, <1>4, <1>5, <1>6, <1>7, <1>8, <1>9 DEF Next, Handle

(***************************************************************************)
(* What is under way to a page.                                            *)
(***************************************************************************)

\* A page that is told a state, and whose queue has room, will show it.
LEMMA ToldWillShow ==
  ASSUME TypeOK, NEW cs \in SUBSET Conns, NEW s \in States, Tell(cs, s), NEW c \in Conns,
         conn[c] = "open"
  PROVE  /\ c \in cs /\ ~missed'[c] => WillShow(c)' = s.streaming
         /\ c \notin cs => down'[c] = down[c] /\ missed'[c] = missed[c]
<1>1. down[c] \in Seq(States)
  BY DEF TypeOK
<1>2. /\ Append(down[c], s) # <<>> /\ Append(down[c], s)[Len(Append(down[c], s))] = s
      /\ Len(down[c]) \in Nat
  BY <1>1, Appended
<1>3. ASSUME c \in cs, ~missed'[c] PROVE down'[c] = Append(down[c], s)
  <2>1. ~(Len(down[c]) >= SendCap)
    BY <1>3, Zenon DEF Tell
  <2>2. Len(down[c]) < SendCap
    BY <1>2, <2>1, HostAssumption
  <2> QED
    BY <1>3, <2>2 DEF Tell
<1>4. c \notin cs => down'[c] = down[c] /\ missed'[c] = missed[c]
  BY DEF Tell
<1> QED
  BY <1>2, <1>3, <1>4 DEF WillShow

\* A connection nothing happened to is told the truth as before.
LEMMA HeardStays ==
  ASSUME NEW d \in Conns, Heard(d), live' = live, Putting => Putting',
         d \in clients' => d \in clients, conn'[d] = "open" => conn[d] = "open",
         ~missed'[d] => ~missed[d], down'[d] = down[d],
         conn'[d] = "open" => streaming'[PageOf[d]] = streaming[PageOf[d]]
  PROVE  Heard(d)'
  BY DEF Heard, WillShow

\* Every state the server announces is its own.
LEMMA HandleHeard ==
  ASSUME IInv, NEW c \in Conns, Handle(c), NEW d \in Conns
  PROVE  Heard(d)'
<1> USE DEF IInv
<1>1. UNCHANGED <<streaming, conn>>
  BY DEF Handle, Read, Started, Failed, NotReady, Stopped, Announce, Drop, pageVars, netVars
<1>2. ASSUME NEW s \in States, Tell(clients, s), s.streaming = live', clients' = clients
      PROVE  Heard(d)'
  <2>1. clients \in SUBSET Conns
    BY DEF TypeOK
  <2> QED
    BY <1>1, <1>2, <2>1, ToldWillShow DEF Heard
<1>3. CASE Started(c)
  <2>1. /\ [streaming |-> TRUE, audible |-> audible[c]] \in States
        /\ [streaming |-> TRUE, audible |-> audible[c]].streaming = TRUE
    BY DEF States, TypeOK
  <2> QED
    BY <1>2, <1>3, <2>1 DEF Started
<1>4. CASE Failed(c)
  <2>1. /\ [streaming |-> FALSE, audible |-> keepAudible] \in States
        /\ [streaming |-> FALSE, audible |-> keepAudible].streaming = FALSE
    BY DEF States, TypeOK
  <2> QED
    BY <1>2, <1>4, <2>1 DEF Failed
<1>5. CASE Announce(c)
  <2>1. StateMsg \in States /\ StateMsg.streaming = live
    BY DEF StateMsg, States, TypeOK
  <2> QED
    BY <1>2, <1>5, <2>1 DEF Announce
<1>6. CASE Stopped(c)
  <2>1. reader'[c] = "stopped"
    BY <1>6 DEF Stopped, TypeOK
  <2> QED
    BY <2>1 DEF Heard, Putting
<1>7. CASE NotReady(c) \/ Drop(c)
  <2>1. /\ reader[c] # "stopped" /\ \A e \in Conns \ {c} : reader'[e] = reader[e]
        /\ live' = live /\ down' = down
    BY <1>7 DEF NotReady, Drop, Back, TypeOK, netVars
  <2>2. Putting => Putting'
    BY <2>1 DEF Putting
  <2>3. d \in clients' => d \in clients /\ missed'[d] = missed[d]
    BY <1>7 DEF NotReady, Drop, TypeOK
  <2> QED
    BY <1>1, <2>1, <2>2, <2>3 DEF Heard, WillShow
<1>8. CASE Read(c)
  <2>1. /\ reader[c] = "reading" /\ live' = live
        /\ \A e \in Conns \ {c} : reader'[e] = reader[e]
    BY <1>8 DEF Read, TypeOK
  <2>2. Putting => Putting'
    BY <2>1 DEF Putting
  <2>3. \/ clients' = clients \cup {c} /\ Tell({c}, StateMsg)
        \/ clients' = clients /\ Tell(clients, StateMsg)
        \/ clients' = clients /\ UNCHANGED <<down, missed>>
    BY <1>8 DEF Read
  <2>4. StateMsg \in States /\ StateMsg.streaming = live
    BY DEF StateMsg, States, TypeOK
  <2>5. CASE clients' = clients \cup {c} /\ Tell({c}, StateMsg)
    <3>1. CASE conn[d] = "open"
      <4>1. d = c /\ ~missed'[d] => WillShow(d)' = live
        BY <2>4, <2>5, <3>1, ToldWillShow
      <4>2. d # c => down'[d] = down[d] /\ missed'[d] = missed[d]
        BY <2>4, <2>5, <3>1, ToldWillShow
      <4>3. CASE d = c
        BY <2>1, <4>1, <4>3 DEF Heard
      <4>4. CASE d # c
        BY <1>1, <2>1, <2>2, <2>5, <4>2, <4>4 DEF Heard, WillShow
      <4> QED
        BY <4>3, <4>4
    <3>2. CASE conn[d] # "open"
      BY <1>1, <3>2 DEF Heard
    <3> QED
      BY <3>1, <3>2
  <2>6. CASE clients' = clients /\ Tell(clients, StateMsg)
    BY <1>2, <2>1, <2>4, <2>6
  <2>7. CASE clients' = clients /\ UNCHANGED <<down, missed>>
    BY <1>1, <2>1, <2>2, <2>7 DEF Heard, WillShow
  <2> QED
    BY <2>3, <2>5, <2>6, <2>7
<1> QED
  BY <1>3, <1>4, <1>5, <1>6, <1>7, <1>8 DEF Handle

\* So is what it announces at the end of the start at launch.
LEMMA LaunchHeard ==
  ASSUME IInv, Launch, NEW d \in Conns
  PROVE  Heard(d)'
<1> USE DEF IInv
<1>1. UNCHANGED <<streaming, conn, clients, reader>>
  BY DEF Launch, pageVars
<1>2. ASSUME NEW s \in States, Tell(clients, s), s.streaming = live'
      PROVE  Heard(d)'
  <2>1. clients \in SUBSET Conns
    BY DEF TypeOK
  <2> QED
    BY <1>1, <1>2, <2>1, ToldWillShow DEF Heard
<1>3. CASE LaunchStarts
  <2>1. /\ [streaming |-> TRUE, audible |-> TRUE] \in States
        /\ [streaming |-> TRUE, audible |-> TRUE].streaming = TRUE
    BY DEF States
  <2> QED
    BY <1>2, <1>3, <2>1 DEF LaunchStarts
<1>4. CASE LaunchFails
  <2>1. /\ [streaming |-> FALSE, audible |-> keepAudible] \in States
        /\ [streaming |-> FALSE, audible |-> keepAudible].streaming = FALSE
    BY DEF States, TypeOK
  <2> QED
    BY <1>2, <1>4, <2>1 DEF LaunchFails
<1>5. CASE LaunchNotReady
  BY <1>1, <1>5 DEF LaunchNotReady, Heard, WillShow, Putting
<1> QED
  BY <1>3, <1>4, <1>5 DEF Launch

\* A page shows what it hears; what it asks, and the fate of its connections,
\* change nothing of what it was told.
LEMMA PageHeard ==
  ASSUME IInv, NEW d \in Conns,
         \/ \E p \in Pages : Power(p) \/ Audible(p) \/ Restart(p) \/ Delay(p)
         \/ \E c \in Conns : ApplyState(c) \/ Open(c) \/ Lose(c) \/ Connect(c) \/ Reload(c)
         \/ UNCHANGED vars
  PROVE  Heard(d)'
<1> USE HasPage DEF IInv
<1>1. live' = live /\ clients' = clients /\ missed' = missed
  BY DEF Power, Audible, Restart, Delay, ApplyState, Open, Lose, Connect, Reload, vars, hubVars
<1>2. CASE \/ \E p \in Pages : Power(p) \/ Audible(p) \/ Restart(p) \/ Delay(p)
           \/ UNCHANGED vars
  <2>1. UNCHANGED <<streaming, conn, down, reader>>
    BY <1>2 DEF Power, Audible, Restart, Delay, pageVars, hubVars, netVars, vars
  <2> QED
    BY <1>1, <2>1 DEF Heard, WillShow, Putting
<1>3. ASSUME NEW c \in Conns, ApplyState(c) PROVE Heard(d)'
  <2>1. /\ conn[c] = "open" /\ down[c] # <<>> /\ down[c] \in Seq(States) /\ conn' = conn
        /\ down' = [down EXCEPT ![c] = Tail(down[c])] /\ reader' = reader
        /\ streaming' = [streaming EXCEPT ![PageOf[c]] = Head(down[c]).streaming]
    BY <1>3 DEF ApplyState, TypeOK, hubVars
  <2>2. CASE d = c
    <3>1. IF Tail(down[c]) = <<>> THEN Head(down[c]) = down[c][Len(down[c])]
                                  ELSE Tail(down[c])[Len(Tail(down[c]))] = down[c][Len(down[c])]
      BY <2>1
    <3>2. down'[c] = Tail(down[c]) /\ streaming'[PageOf[c]] = Head(down[c]).streaming
      BY <2>1 DEF TypeOK
    <3>3. WillShow(c)' = WillShow(c)
      BY <2>1, <3>1, <3>2 DEF WillShow
    <3> QED
      BY <1>1, <2>1, <2>2, <3>3 DEF Heard, Putting
  <2>3. CASE d # c
    <3>1. CASE conn[d] = "open"
      <4>1. PageOf[d] # PageOf[c]
        BY <2>1, <2>3, <3>1 DEF OneSocket
      <4>2. down'[d] = down[d] /\ streaming'[PageOf[d]] = streaming[PageOf[d]]
        BY <2>1, <2>3, <4>1 DEF TypeOK
      <4> QED
        BY <1>1, <2>1, <4>2 DEF Heard, WillShow, Putting
    <3>2. CASE conn[d] # "open"
      BY <2>1, <3>2 DEF Heard
    <3> QED
      BY <3>1, <3>2
  <2> QED
    BY <2>2, <2>3
<1>4. ASSUME NEW c \in Conns, Open(c) PROVE Heard(d)'
  <2>1. /\ c \notin clients /\ reader[c] = "none" /\ conn[c] = "connecting"
        /\ \A e \in Conns \ {c} : conn'[e] = conn[e] /\ reader'[e] = reader[e]
        /\ UNCHANGED <<streaming, down>>
    BY <1>4 DEF Open, Unknown, TypeOK, pageVars
  <2>2. Putting => Putting'
    BY <2>1 DEF Putting
  <2> QED
    BY <1>1, <2>1, <2>2 DEF Heard, WillShow
<1>5. ASSUME NEW c \in Conns, Lose(c) \/ Connect(c) PROVE Heard(d)'
  <2>1. /\ conn'[c] # "open" /\ UNCHANGED <<streaming, reader>>
        /\ \A e \in Conns \ {c} : conn'[e] = conn[e] /\ down'[e] = down[e]
    BY <1>5 DEF Lose, Connect, Ends, TypeOK, hubVars
  <2> QED
    BY <1>1, <2>1 DEF Heard, WillShow, Putting
<1>6. ASSUME NEW c \in Conns, Reload(c) PROVE Heard(d)'
  <2> DEFINE p == PageOf[c]
  <2>1. /\ conn[ws[p]] \in {"connecting", "open"} /\ ws[p] \in Conns
        /\ conn' = [conn EXCEPT ![ws[p]] = "closed", ![c] = "connecting"]
        /\ down' = [down EXCEPT ![ws[p]] = <<>>]
        /\ streaming' = [streaming EXCEPT ![p] = FALSE] /\ reader' = reader
    BY <1>6 DEF Reload, Ends, TypeOK, hubVars
  <2>2. CASE d \in {c, ws[p]}
    <3>1. conn'[d] # "open"
      BY <2>1, <2>2 DEF TypeOK
    <3> QED
      BY <3>1 DEF Heard
  <2>3. CASE d \notin {c, ws[p]}
    <3>1. conn'[d] = conn[d] /\ down'[d] = down[d]
      BY <2>1, <2>3 DEF TypeOK
    <3>2. conn[d] = "open" => PageOf[d] # p
      BY <2>3 DEF OneSocket
    <3>3. conn[d] = "open" => streaming'[PageOf[d]] = streaming[PageOf[d]]
      BY <2>1, <3>2 DEF TypeOK
    <3> QED
      BY <1>1, <2>1, <3>1, <3>3 DEF Heard, WillShow, Putting
  <2> QED
    BY <2>2, <2>3
<1> QED
  BY <1>2, <1>3, <1>4, <1>5, <1>6

(***************************************************************************)
(* The last request decides.                                               *)
(***************************************************************************)

\* The last start or stop under way, or else the one that is being handled, is
\* the one that was last asked for.
LastAsk(c) ==
  /\ \A i \in 1 .. Len(up[c]) :
       Asks(up[c][i]) /\ (\A j \in 1 .. Len(up[c]) : j > i => ~Asks(up[c][j]))
         => up[c][i].type = IF wants = TRUE THEN "start" ELSE "stop"
  /\ (\A i \in 1 .. Len(up[c]) : ~Asks(up[c][i])) /\ reader[c] \in {"starting", "stopping"}
       => reader[c] = IF wants = TRUE THEN "starting" ELSE "stopping"

Alive == \A c \in Conns : conn[c] # "open" => up[c] = <<>>
OneAsks == \A c, d \in Conns : Pending(c) /\ Pending(d) => c = d
\* A timer of the audible switch: the stream is to run, and nobody else asks.
Waiting(p) ==
  timers[p] > 0 => /\ wants = TRUE /\ conn[ws[p]] = "open"
                   /\ \A c \in Conns : Pending(c) => c = ws[p]
                   /\ \A q \in Pages : timers[q] > 0 => q = p
Decided ==
  (\A p \in Pages : timers[p] = 0) =>
    /\ \A c \in Conns : LastAsk(c)
    /\ ~launch /\ (\A c \in Conns : ~Pending(c)) => live = wants
\* As long as the start at launch is under way, nobody else has asked.
Launching ==
  launch => wants = TRUE /\ (\A c \in Conns : ~Pending(c)) /\ (\A p \in Pages : timers[p] = 0)

Clear ==
  wants # None =>
    Alive /\ OneAsks /\ (\A p \in Pages : Waiting(p)) /\ Decided /\ Launching

\* A request that is sent is the last one.
LEMMA LastSent ==
  ASSUME TypeOK, NEW c \in Conns, NEW r \in Requests,
         up'[c] = Append(up[c], r), reader'[c] = reader[c]
  PROVE  /\ Asks(r) => /\ Pending(c)'
                       /\ r.type = (IF wants' = TRUE THEN "start" ELSE "stop") => LastAsk(c)'
         /\ ~Asks(r) => /\ Pending(c)' <=> Pending(c)
                        /\ wants' = wants /\ LastAsk(c) => LastAsk(c)'
<1> DEFINE n == Len(up[c])
<1>1. /\ n \in Nat /\ Len(up'[c]) = n + 1 /\ up'[c][n + 1] = r
      /\ \A i \in 1 .. n : up'[c][i] = up[c][i]
  BY DEF TypeOK
<1> HIDE DEF n
<1>2. 1 .. n + 1 = (1 .. n) \cup {n + 1} /\ \A i \in 1 .. n : n + 1 > i
  BY <1>1
<1>3. CASE Asks(r)
  <2>1. Pending(c)'
    BY <1>1, <1>2, <1>3 DEF Pending
  <2>2. ASSUME r.type = (IF wants' = TRUE THEN "start" ELSE "stop") PROVE LastAsk(c)'
    BY <1>1, <1>2, <1>3, <2>2 DEF LastAsk
  <2> QED
    BY <1>3, <2>1, <2>2
<1>4. CASE ~Asks(r)
  <2>1. Pending(c)' <=> Pending(c)
    BY <1>1, <1>2, <1>4 DEF Pending, n
  <2>2. ASSUME wants' = wants, LastAsk(c) PROVE LastAsk(c)'
    <3>1. ASSUME NEW i \in 1 .. Len(up'[c]), Asks(up'[c][i]),
                 \A j \in 1 .. Len(up'[c]) : j > i => ~Asks(up'[c][j])
          PROVE  up'[c][i].type = IF wants' = TRUE THEN "start" ELSE "stop"
      <4>1. i \in 1 .. n /\ up'[c][i] = up[c][i]
        BY <1>1, <1>2, <1>4, <3>1
      <4>2. \A j \in 1 .. n : j > i => ~Asks(up[c][j])
        BY <1>1, <1>2, <3>1
      <4> QED
        BY <2>2, <3>1, <4>1, <4>2 DEF LastAsk, n
    <3>2. ASSUME \A i \in 1 .. Len(up'[c]) : ~Asks(up'[c][i]), reader'[c] \in {"starting", "stopping"}
          PROVE  reader'[c] = IF wants' = TRUE THEN "starting" ELSE "stopping"
      <4>1. \A i \in 1 .. n : ~Asks(up[c][i])
        BY <1>1, <1>2, <3>2
      <4> QED
        BY <2>2, <3>2, <4>1 DEF LastAsk, n
    <3> QED
      BY <3>1, <3>2 DEF LastAsk
  <2> QED
    BY <1>4, <2>1, <2>2
<1> QED
  BY <1>3, <1>4

\* readPump takes the first request: what was last asked for stays.
LEMMA LastTaken ==
  ASSUME TypeOK, NEW c \in Conns, Read(c)
  PROVE  /\ Pending(c)' <=> Pending(c)
         /\ LastAsk(c) => LastAsk(c)'
         /\ \A d \in Conns \ {c} : up'[d] = up[d] /\ reader'[d] = reader[d]
         /\ up[c] # <<>> /\ wants' = wants
<1> DEFINE n == Len(up[c])
           r == up[c][1]
<1>1. /\ up[c] \in Seq(Requests) /\ n \in Nat /\ n >= 1 /\ reader[c] = "reading"
      /\ up' = [up EXCEPT ![c] = SubSeq(up[c], 1, 0) \o SubSeq(up[c], 2, n)]
      /\ r.type = "start" => reader' = [reader EXCEPT ![c] = "starting"]
      /\ r.type = "stop" => reader' = [reader EXCEPT ![c] = "stopping"]
      /\ ~Asks(r) => reader' = [reader EXCEPT ![c] = "reading"]
      /\ wants' = wants
  <2>1. PICK i \in NextRequest(c) :
          LET q == up[c][i] IN
          /\ up' = [up EXCEPT ![c] = SubSeq(@, 1, i - 1) \o SubSeq(@, i + 1, Len(@))]
          /\ reader' = [reader EXCEPT ![c] = CASE q.type = "start" -> "starting"
                                               [] q.type = "stop" -> "stopping"
                                               [] OTHER -> "reading"]
    BY DEF Read
  <2>2. up[c] \in Seq(Requests) /\ n \in Nat
    BY DEF TypeOK
  <2>3. i = 1 /\ n >= 1
    BY <2>2 DEF NextRequest
  <2>4. up' = [up EXCEPT ![c] = SubSeq(up[c], 1, 0) \o SubSeq(up[c], 2, n)]
    BY <2>1, <2>3
  <2>5. /\ r.type = "start" => reader' = [reader EXCEPT ![c] = "starting"]
        /\ r.type = "stop" => reader' = [reader EXCEPT ![c] = "stopping"]
        /\ ~Asks(r) => reader' = [reader EXCEPT ![c] = "reading"]
    BY <2>1, <2>3, Zenon DEF Asks
  <2>6. reader[c] = "reading" /\ wants' = wants
    BY DEF Read, userVars
  <2> QED
    BY <2>2, <2>3, <2>4, <2>5, <2>6
<1>2. /\ Len(up'[c]) = n - 1 /\ \A i \in 1 .. n - 1 : up'[c][i] = up[c][i + 1]
      /\ \A d \in Conns \ {c} : up'[d] = up[d] /\ reader'[d] = reader[d]
  <2>1. SubSeq(up[c], 1, 0) \o SubSeq(up[c], 2, Len(up[c])) = SubSeq(up[c], 2, Len(up[c]))
    BY <1>1
  <2>2. up'[c] = SubSeq(up[c], 2, n)
    BY <1>1, <2>1 DEF TypeOK
  <2>3. Len(up'[c]) = n - 1 /\ \A i \in 1 .. n - 1 : up'[c][i] = up[c][i + 1]
    <3> HIDE DEF n
    <3>1. up[c] \in Seq(Requests) /\ n \in Nat /\ n >= 1 /\ n = Len(up[c])
      BY <1>1 DEF n
    <3> QED
      BY <2>2, <3>1
  <2>4. \A d \in Conns \ {c} : up'[d] = up[d] /\ reader'[d] = reader[d]
    BY <1>1 DEF TypeOK, Asks
  <2> QED
    BY <2>3, <2>4
<1>3. /\ r.type = "start" => reader'[c] = "starting"
      /\ r.type = "stop" => reader'[c] = "stopping"
      /\ ~Asks(r) => reader'[c] = "reading"
  BY <1>1 DEF TypeOK
<1> HIDE DEF n
<1>4. \A i \in 1 .. n : i = 1 \/ (i - 1 \in 1 .. n - 1 /\ up[c][i] = up'[c][i - 1])
  BY <1>1, <1>2
<1>5. 1 \in 1 .. n /\ \A i \in 1 .. n - 1 : i + 1 \in 1 .. n
  BY <1>1
<1>6. reader'[c] \in {"starting", "stopping"} <=> Asks(r)
  BY <1>3 DEF Asks
<1>7. Pending(c)' <=> Pending(c)
  <2>1. ASSUME Pending(c) PROVE Pending(c)'
    <3>1. PICK i \in 1 .. n : Asks(up[c][i])
      BY <1>1, <2>1 DEF Pending, n
    <3> QED
      BY <1>2, <1>4, <1>6, <3>1 DEF Pending
  <2>2. ASSUME Pending(c)' PROVE Pending(c)
    BY <1>2, <1>5, <1>6, <2>2 DEF Pending, n
  <2> QED
    BY <2>1, <2>2
<1>8. ASSUME LastAsk(c) PROVE LastAsk(c)'
  <2>1. ASSUME NEW i \in 1 .. Len(up'[c]), Asks(up'[c][i]),
               \A j \in 1 .. Len(up'[c]) : j > i => ~Asks(up'[c][j])
        PROVE  up'[c][i].type = IF wants' = TRUE THEN "start" ELSE "stop"
    <3>1. i \in 1 .. n - 1 /\ i + 1 \in 1 .. n /\ up[c][i + 1] = up'[c][i]
      BY <1>2, <1>5
    <3>2. ASSUME NEW j \in 1 .. n, j > i + 1 PROVE ~Asks(up[c][j])
      <4>1. j - 1 \in 1 .. n - 1 /\ j - 1 > i /\ up'[c][j - 1] = up[c][j]
        <5>1. n \in Nat /\ i \in Int /\ i >= 1 /\ j \in Int
          BY <1>1, <3>1
        <5>2. j # 1 /\ j - 1 > i
          BY <3>2, <5>1
        <5> QED
          BY <1>4, <5>2
      <4>2. ~Asks(up'[c][j - 1])
        <5>1. j - 1 \in 1 .. Len(up'[c])
          BY <1>2, <4>1
        <5> QED
          BY <2>1, <4>1, <5>1, Zenon
      <4> QED
        BY <4>1, <4>2
    <3> QED
      BY <1>1, <1>8, <2>1, <3>1, <3>2 DEF LastAsk, n
  <2>2. ASSUME \A i \in 1 .. Len(up'[c]) : ~Asks(up'[c][i]), reader'[c] \in {"starting", "stopping"}
        PROVE  reader'[c] = IF wants' = TRUE THEN "starting" ELSE "stopping"
    <3>1. Asks(r) /\ \A j \in 1 .. n : j > 1 => ~Asks(up[c][j])
      BY <1>2, <1>4, <1>6, <2>2
    <3>2. r.type = IF wants = TRUE THEN "start" ELSE "stop"
      BY <1>5, <1>8, <3>1 DEF LastAsk, n
    <3> QED
      BY <1>1, <1>3, <3>1, <3>2 DEF Asks
  <2> QED
    BY <2>1, <2>2 DEF LastAsk
<1>9. up[c] # <<>>
  BY <1>1 DEF n
<1> QED
  BY <1>1, <1>2, <1>7, <1>8, <1>9

\* A step that answers nothing and asks nothing.
LEMMA ClearKept ==
  ASSUME TypeOK, Clear, UNCHANGED <<wants, live, launch, timers>>,
         \A c \in Conns : (Pending(c)' <=> Pending(c)) /\ (LastAsk(c) => LastAsk(c)'),
         wants # None => Alive',
         wants # None => \A p \in Pages : timers[p] > 0 => ws'[p] = ws[p] /\ conn'[ws[p]] = "open"
  PROVE  Clear'
<1> SUFFICES ASSUME wants # None
             PROVE  OneAsks' /\ (\A p \in Pages : Waiting(p)') /\ Decided' /\ Launching'
  BY DEF Clear
<1>1. OneAsks /\ (\A p \in Pages : Waiting(p)) /\ Decided /\ Launching
  BY DEF Clear
<1>2. OneAsks'
  BY <1>1 DEF OneAsks
<1>3. ASSUME NEW p \in Pages PROVE Waiting(p)'
  BY <1>1 DEF Waiting
<1>4. Decided' /\ Launching'
  BY <1>1 DEF Decided, Launching
<1> QED
  BY <1>2, <1>3, <1>4

\* What a connection with the same requests has been asked is the same.
LEMMA SameAsked ==
  ASSUME NEW c \in Conns, up'[c] = up[c], reader'[c] = reader[c], wants' = wants
  PROVE  (Pending(c)' <=> Pending(c)) /\ (LastAsk(c) => LastAsk(c)')
  BY DEF Pending, LastAsk

\* A click of the button or the switch is clear only while nothing else is asked.
LEMMA AskClear ==
  ASSUME IInv, Clear, NEW p \in Pages, Power(p) \/ Audible(p)
  PROVE  Clear'
<1> DEFINE c0 == ws[p]
<1> USE DEF IInv
<1>1. /\ c0 \in Conns /\ conn' = conn /\ ws' = ws /\ reader' = reader /\ live' = live
      /\ launch' = launch
  BY DEF TypeOK, Power, Audible, pageVars, hubVars
<1> SUFFICES ASSUME wants' # None PROVE Clear'
  BY DEF Clear
<1>2. ASSUME NEW r \in Requests, Asks(r), up' = Sent(p, r), Alone(p), wants # None
      PROVE  /\ Alive' /\ Pending(c0)' /\ \A c \in Conns : Pending(c)' => c = c0
             /\ r.type = (IF wants' = TRUE THEN "start" ELSE "stop") =>
                  \A c \in Conns : LastAsk(c)'
  <2>1. conn[c0] = "open" /\ up' = [up EXCEPT ![c0] = Append(up[c0], r)]
    BY <1>2 DEF Alone, Socket, Sent
  <2>2. up'[c0] = Append(up[c0], r) /\ \A c \in Conns \ {c0} : up'[c] = up[c]
    BY <1>1, <2>1 DEF TypeOK
  <2>3. \A c \in Conns \ {c0} : up'[c] = <<>> /\ reader'[c] \notin {"starting", "stopping"}
    BY <1>1, <1>2, <2>2 DEF Alone, Busy
  <2>4. \A c \in Conns \ {c0} : ~Pending(c)' /\ LastAsk(c)'
    <3>1. Len(<<>>) = 0 /\ 1 .. 0 = {}
      OBVIOUS
    <3> QED
      BY <2>3, <3>1 DEF Pending, LastAsk
  <2>5. /\ Pending(c0)'
        /\ r.type = (IF wants' = TRUE THEN "start" ELSE "stop") => LastAsk(c0)'
    BY <1>1, <1>2, <2>2, LastSent
  <2>6. Alive'
    BY <1>1, <1>2, <2>1, <2>2 DEF Alive, Clear
  <2>7. \A c \in Conns : Pending(c)' => c = c0
    BY <2>4
  <2>8. r.type = (IF wants' = TRUE THEN "start" ELSE "stop") => \A c \in Conns : LastAsk(c)'
    BY <1>1, <2>4, <2>5
  <2> QED
    BY <2>5, <2>6, <2>7, <2>8
<1>3. CASE Power(p)
  <2> DEFINE r == IF streaming[p] THEN [type |-> "stop"]
                  ELSE [type |-> "start", audible |-> checked[p]]
  <2>1. /\ up' = Sent(p, r) /\ timers' = timers /\ wants # None
        /\ Alone(p) /\ timers[p] = 0 /\ wants' = ~streaming[p]
    BY <1>3 DEF Power, Asked, pageVars
  <2>2. streaming[p] \in BOOLEAN /\ checked[p] \in BOOLEAN
    BY DEF TypeOK
  <2>3. r \in Requests /\ Asks(r) /\ r.type = (IF wants' = TRUE THEN "start" ELSE "stop")
    BY <2>1, <2>2, RequestsAre DEF Asks
  <2>4. /\ Alive' /\ Pending(c0)' /\ \A c \in Conns : Pending(c)' => c = c0
        /\ \A c \in Conns : LastAsk(c)'
    BY <1>2, <2>1, <2>3
  <2>5. \A q \in Pages : timers'[q] = 0
    BY <2>1 DEF Alone
  <2>6. OneAsks' /\ (\A q \in Pages : Waiting(q)') /\ Decided' /\ Launching'
    BY <1>1, <2>1, <2>4, <2>5 DEF OneAsks, Waiting, Decided, Launching, Alone
  <2> QED
    BY <2>4, <2>6 DEF Clear
<1>4. CASE Audible(p)
  <2>1. CASE streaming[p]
    <3> DEFINE r == [type |-> "stop"]
    <3>1. /\ up' = Sent(p, r) /\ wants # None /\ wants' = TRUE /\ wants = TRUE /\ Alone(p)
          /\ timers' = [timers EXCEPT ![p] = IF Socket(p) = "connecting" THEN @ ELSE @ + 1]
      BY <1>4, <2>1 DEF Audible, Asked
    <3>2. r \in Requests /\ Asks(r)
      BY RequestsAre DEF Asks
    <3>3. Alive' /\ Pending(c0)' /\ \A c \in Conns : Pending(c)' => c = c0
      BY <1>2, <3>1, <3>2
    <3>4. conn[c0] = "open" /\ timers[p] \in Nat
      BY <3>1 DEF Alone, Socket, TypeOK
    <3>5. timers'[p] > 0 /\ \A q \in Pages \ {p} : timers'[q] = 0
      BY <3>1, <3>4 DEF Alone, Socket, TypeOK
    <3>6. OneAsks' /\ Decided' /\ Launching'
      <4>1. OneAsks' /\ Decided'
        BY <3>3, <3>5 DEF OneAsks, Decided
      <4>2. ~launch /\ launch' = launch
        BY <1>1, <3>1 DEF Alone
      <4> QED
        BY <4>1, <4>2 DEF Launching
    <3>7. ASSUME NEW q \in Pages PROVE Waiting(q)'
      <4>1. \A x \in Pages : timers'[x] > 0 => x = p
        BY <3>5
      <4> QED
        BY <1>1, <3>1, <3>3, <3>4, <4>1 DEF Waiting
    <3> QED
      BY <3>3, <3>6, <3>7 DEF Clear
  <2>2. CASE ~streaming[p]
    <3>1. UNCHANGED <<up, timers, wants>>
      BY <1>4, <2>2 DEF Audible
    <3>2. Alive <=> Alive'
      BY <1>1, <3>1 DEF Alive
    <3>3. wants # None => \A q \in Pages : timers[q] > 0 => conn[ws[q]] = "open"
      BY DEF Clear, Waiting
    <3> QED
      BY <1>1, <3>1, <3>2, <3>3, ClearKept, SameAsked DEF Clear
  <2> QED
    BY <2>1, <2>2
<1> QED
  BY <1>3, <1>4

\* The timer asks for what is wanted; the delay asks for nothing.
LEMMA SendClear ==
  ASSUME IInv, Clear, NEW p \in Pages, Restart(p) \/ Delay(p)
  PROVE  Clear'
<1> DEFINE c0 == ws[p]
<1> USE DEF IInv
<1>1. /\ c0 \in Conns /\ conn' = conn /\ ws' = ws /\ reader' = reader /\ live' = live
      /\ wants' = wants /\ launch' = launch
  BY DEF TypeOK, Restart, Delay, pageVars, hubVars, userVars
<1> SUFFICES ASSUME wants # None PROVE Clear'
  BY <1>1 DEF Clear
<1>2. Alive /\ OneAsks /\ (\A q \in Pages : Waiting(q)) /\ Decided /\ Launching
  BY DEF Clear
<1>3. CASE Restart(p)
  <2> DEFINE r == [type |-> "start", audible |-> checked[p]]
  <2>1. /\ timers[p] > 0 /\ timers' = [timers EXCEPT ![p] = @ - 1] /\ up' = Sent(p, r)
    BY <1>3 DEF Restart
  <2>2. /\ wants = TRUE /\ conn[c0] = "open" /\ \A c \in Conns : Pending(c) => c = c0
        /\ \A q \in Pages : timers[q] > 0 => q = p
    BY <1>2, <2>1 DEF Waiting
  <2>3. r \in Requests /\ Asks(r) /\ r.type = "start"
    BY RequestsAre DEF Asks, TypeOK
  <2>4. up'[c0] = Append(up[c0], r) /\ \A c \in Conns \ {c0} : up'[c] = up[c]
    BY <1>1, <2>1, <2>2 DEF TypeOK, Sent, Socket
  <2>5. Pending(c0)' /\ LastAsk(c0)'
    BY <1>1, <2>2, <2>3, <2>4, LastSent
  <2>6. \A c \in Conns \ {c0} : ~Pending(c)'
    BY <1>1, <2>2, <2>4, SameAsked
  <2>7. \A c \in Conns \ {c0} : LastAsk(c)'
    <3>1. ASSUME NEW c \in Conns, ~Pending(c)' PROVE LastAsk(c)'
      BY <3>1 DEF Pending, LastAsk
    <3> QED
      BY <2>6, <3>1
  <2>8. Alive'
    BY <1>1, <1>2, <2>2, <2>4 DEF Alive
  <2>9. \A q \in Pages : timers'[q] > 0 => q = p
    BY <2>1, <2>2 DEF TypeOK
  <2>10. OneAsks' /\ (\A q \in Pages : Waiting(q)')
    BY <1>1, <2>2, <2>6, <2>9 DEF OneAsks, Waiting
  <2>11. Decided' /\ Launching'
    BY <1>1, <1>2, <2>1, <2>5, <2>6, <2>7 DEF Decided, Launching, TypeOK
  <2> QED
    BY <2>8, <2>10, <2>11 DEF Clear
<1>4. CASE Delay(p)
  <2> DEFINE r == [type |-> "delay"]
  <2>1. timers' = timers /\ up' = Sent(p, r)
    BY <1>4 DEF Delay, pageVars
  <2>2. r \in Requests /\ ~Asks(r)
    BY RequestsAre DEF Asks
  <2>3. \A c \in Conns : up'[c] = up[c] \/ (conn[c] = "open" /\ up'[c] = Append(up[c], r))
    BY <1>1, <2>1 DEF TypeOK, Sent, Socket
  <2>4. \A c \in Conns : (Pending(c)' <=> Pending(c)) /\ (LastAsk(c) => LastAsk(c)')
    BY <1>1, <2>2, <2>3, SameAsked, LastSent
  <2>5. Alive'
    BY <1>1, <1>2, <2>3 DEF Alive
  <2> QED
    BY <1>1, <1>2, <2>1, <2>4, <2>5, ClearKept DEF Waiting
<1> QED
  BY <1>3, <1>4

\* A connection that ends takes nothing with it, or nothing is wanted any more.
LEMMA SocketClear ==
  ASSUME IInv, Clear, NEW c \in Conns,
         ApplyState(c) \/ Open(c) \/ Lose(c) \/ Connect(c) \/ Reload(c)
  PROVE  Clear'
<1> DEFINE p == PageOf[c]
<1> USE HasPage DEF IInv
<1> SUFFICES ASSUME wants' # None PROVE Clear'
  BY DEF Clear
<1>1. wants' = wants /\ live' = live /\ launch' = launch
  BY DEF ApplyState, Open, Lose, Connect, Reload, Ends, Asked, hubVars, userVars
<1>2. Alive /\ OneAsks /\ (\A q \in Pages : Waiting(q)) /\ Decided /\ Launching
  BY <1>1 DEF Clear
<1>3. ASSUME UNCHANGED <<up, reader>>
      PROVE  \A d \in Conns : (Pending(d)' <=> Pending(d)) /\ (LastAsk(d) => LastAsk(d)')
  BY <1>1, <1>3, SameAsked
<1>4. CASE ApplyState(c)
  <2>1. UNCHANGED <<ws, timers, conn, up, reader>>
    BY <1>4 DEF ApplyState, hubVars
  <2>2. Alive'
    BY <1>2, <2>1 DEF Alive
  <2> QED
    BY <1>1, <1>2, <1>3, <2>1, <2>2, ClearKept DEF Waiting
<1>5. CASE Open(c)
  <2>1. /\ conn[c] = "connecting" /\ conn' = [conn EXCEPT ![c] = "open"] /\ reader[c] = "none"
        /\ up' = [up EXCEPT ![c] = <<[type |-> "hello"]>>] /\ reader' = [reader EXCEPT ![c] = "reading"]
        /\ UNCHANGED <<ws, timers>>
    BY <1>5 DEF Open, pageVars, Unknown
  <2>2. /\ conn'[c] = "open" /\ up'[c] = <<[type |-> "hello"]>> /\ reader'[c] = "reading"
        /\ \A d \in Conns \ {c} : conn'[d] = conn[d] /\ up'[d] = up[d] /\ reader'[d] = reader[d]
    BY <2>1 DEF TypeOK
  <2>3. up[c] = <<>>
    BY <1>2, <2>1 DEF Alive
  <2>4. ~Pending(c) /\ ~Pending(c)' /\ LastAsk(c)'
    <3>1. Len(<<>>) = 0 /\ 1 .. 0 = {}
      OBVIOUS
    <3>2. \A i \in 1 .. Len(up'[c]) : ~Asks(up'[c][i])
      BY <2>2 DEF Asks
    <3> QED
      BY <2>1, <2>2, <2>3, <3>1, <3>2 DEF Pending, LastAsk
  <2>5. \A d \in Conns : (Pending(d)' <=> Pending(d)) /\ (LastAsk(d) => LastAsk(d)')
    BY <1>1, <2>2, <2>4, SameAsked
  <2>6. Alive'
    BY <1>2, <2>2 DEF Alive
  <2>7. \A q \in Pages : timers[q] > 0 => ws'[q] = ws[q] /\ conn'[ws[q]] = "open"
    BY <1>1, <1>2, <2>1 DEF Waiting, TypeOK
  <2> QED
    BY <1>1, <2>1, <2>5, <2>6, <2>7, ClearKept
<1>6. CASE Lose(c)
  <2>1. /\ up[c] = <<>> /\ timers[p] = 0 /\ conn' = [conn EXCEPT ![c] = "closed"]
        /\ UNCHANGED <<ws, timers, up, reader>>
    BY <1>1, <1>6 DEF Lose, Ends, Asked, hubVars
  <2>2. Alive'
    BY <1>2, <2>1 DEF Alive, TypeOK
  <2>3. \A q \in Pages : timers[q] > 0 => ws'[q] = ws[q] /\ conn'[ws[q]] = "open"
    <3>1. \A q \in Pages : ws[q] = c => q = p
      BY DEF TypeOK
    <3> QED
      BY <1>2, <2>1, <3>1 DEF Waiting, TypeOK
  <2> QED
    BY <1>1, <1>3, <2>1, <2>2, <2>3, ClearKept
<1>7. CASE Connect(c)
  <2>1. /\ retry[p] /\ conn[c] = "new" /\ conn' = [conn EXCEPT ![c] = "connecting"]
        /\ ws' = [ws EXCEPT ![p] = c] /\ UNCHANGED <<timers, up, reader>>
    BY <1>7 DEF Connect, hubVars
  <2>2. Alive'
    BY <1>2, <2>1 DEF Alive, TypeOK
  <2>3. conn[ws[p]] = "closed"
    BY <2>1 DEF OneSocket
  <2>4. \A q \in Pages : timers[q] > 0 => ws'[q] = ws[q] /\ conn'[ws[q]] = "open"
    BY <1>2, <2>1, <2>3 DEF Waiting, TypeOK
  <2> QED
    BY <1>1, <1>3, <2>1, <2>2, <2>4, ClearKept
<1>8. CASE Reload(c)
  <2>1. /\ conn[c] = "new" /\ ws[p] \in Conns /\ PageOf[ws[p]] = p
        /\ conn' = [conn EXCEPT ![ws[p]] = "closed", ![c] = "connecting"]
        /\ ws' = [ws EXCEPT ![p] = c] /\ timers' = [timers EXCEPT ![p] = 0]
        /\ UNCHANGED <<up, reader>>
    BY <1>8 DEF Reload, hubVars, TypeOK
  <2>2. up[ws[p]] = <<>> /\ timers[p] = 0
    BY <1>1, <1>8, <2>1 DEF Reload, Ends, Asked
  <2>3. timers' = timers
    BY <2>1, <2>2 DEF TypeOK
  <2>4. Alive'
    BY <1>2, <2>1, <2>2 DEF Alive, TypeOK
  <2>5. \A q \in Pages : timers[q] > 0 => ws'[q] = ws[q] /\ conn'[ws[q]] = "open"
    <3>1. ASSUME NEW q \in Pages, timers[q] > 0 
          PROVE  q # p /\ ws[q] # ws[p] /\ conn[ws[q]] = "open" /\ ws[q] # c
      <4>1. q # p /\ PageOf[ws[q]] = q /\ p \in Pages
        BY <2>2, <3>1 DEF TypeOK
      <4>2. conn[ws[q]] = "open"
        BY <1>2, <3>1 DEF Waiting
      <4> QED
        BY <2>1, <4>1, <4>2
    <3> QED
      BY <2>1, <3>1 DEF TypeOK
  <2> QED
    BY <1>1, <1>3, <2>1, <2>3, <2>4, <2>5, ClearKept
<1> QED
  BY <1>4, <1>5, <1>6, <1>7, <1>8

\* The end of a start or a stop is as it was asked, unless another follows.
LEMMA HandleClear ==
  ASSUME IInv, Clear, NEW c \in Conns, Handle(c)
  PROVE  Clear'
<1> USE DEF IInv
<1> SUFFICES ASSUME wants' # None PROVE Clear'
  BY DEF Clear
<1>1. wants' = wants /\ ~Failed(c) /\ ~NotReady(c)
  BY DEF Handle, Read, Started, Failed, NotReady, Stopped, Announce, Drop, Asked, userVars
<1>2. Alive /\ OneAsks /\ (\A q \in Pages : Waiting(q)) /\ Decided /\ Launching
  BY <1>1 DEF Clear
<1>3. UNCHANGED <<ws, timers, conn, launch>>
  BY DEF Handle, Read, Started, Failed, NotReady, Stopped, Announce, Drop, pageVars, netVars
<1>4. CASE Read(c)
  <2>1. \A d \in Conns : (Pending(d)' <=> Pending(d)) /\ (LastAsk(d) => LastAsk(d)')
    BY <1>1, <1>4, LastTaken, SameAsked
  <2>2. Alive'
    BY <1>2, <1>3, <1>4, LastTaken DEF Alive
  <2>3. live' = live
    BY <1>4 DEF Read
  <2> QED
    BY <1>1, <1>2, <1>3, <2>1, <2>2, <2>3, ClearKept DEF Waiting
<1>5. CASE Announce(c) \/ Drop(c)
  <2>1. /\ reader[c] \in {"stopped", "reading"} /\ reader'[c] \in {"reading", "gone"} /\ live' = live
        /\ \A d \in Conns \ {c} : reader'[d] = reader[d]
    BY <1>5 DEF Announce, Drop, Back, TypeOK
  <2>2. up' = up
    <3>1. CASE Announce(c)
      BY <3>1 DEF Announce
    <3>2. CASE Drop(c)
      <4>1. conn[c] = "closed" /\ up' = [up EXCEPT ![c] = <<>>]
        BY <3>2 DEF Drop
      <4>2. up[c] = <<>>
        BY <1>2, <4>1 DEF Alive
      <4> QED
        BY <4>1, <4>2 DEF TypeOK
    <3> QED
      BY <1>5, <3>1, <3>2
  <2>3. (Pending(c)' <=> Pending(c)) /\ (LastAsk(c) => LastAsk(c)')
    BY <1>1, <2>1, <2>2 DEF Pending, LastAsk
  <2>4. \A d \in Conns : (Pending(d)' <=> Pending(d)) /\ (LastAsk(d) => LastAsk(d)')
    BY <1>1, <2>1, <2>2, <2>3, SameAsked
  <2>5. Alive'
    BY <1>2, <1>3, <2>2 DEF Alive
  <2> QED
    BY <1>1, <1>2, <1>3, <2>1, <2>4, <2>5, ClearKept DEF Waiting
<1>6. CASE Started(c) \/ Stopped(c)
  <2>1. /\ reader[c] \in {"starting", "stopping"} /\ reader'[c] \in {"reading", "stopped"}
        /\ reader[c] = "starting" => live' = TRUE
        /\ reader[c] = "stopping" => live' = FALSE
        /\ up' = up
        /\ \A d \in Conns \ {c} : reader'[d] = reader[d]
    BY <1>6 DEF Started, Stopped, Back, TypeOK, netVars
  <2>2. Pending(c) /\ (LastAsk(c) => LastAsk(c)')
    BY <1>1, <2>1 DEF Pending, LastAsk
  <2>3. \A d \in Conns \ {c} : ~Pending(d) /\ ~Pending(d)' /\ (LastAsk(d) => LastAsk(d)')
    BY <1>1, <1>2, <2>1, <2>2, SameAsked DEF OneAsks
  <2>4. Alive' /\ OneAsks' /\ (\A q \in Pages : Waiting(q)') /\ Launching'
    BY <1>1, <1>2, <1>3, <2>1, <2>2, <2>3 DEF Alive, OneAsks, Waiting, Launching
  <2>5. Decided'
    <3> SUFFICES ASSUME \A q \in Pages : timers[q] = 0 PROVE Decided'
      BY <1>3 DEF Decided
    <3>1. \A d \in Conns : LastAsk(d) /\ LastAsk(d)'
      BY <1>2, <2>2, <2>3 DEF Decided
    <3>2. ASSUME ~Pending(c)' PROVE live' = wants'
      <4>1. \A i \in 1 .. Len(up[c]) : ~Asks(up[c][i])
        BY <2>1, <3>2 DEF Pending
      <4>2. reader[c] = IF wants = TRUE THEN "starting" ELSE "stopping"
        BY <2>1, <3>1, <4>1 DEF LastAsk
      <4>3. wants \in BOOLEAN
        BY <1>1 DEF TypeOK
      <4> QED
        <5>1. CASE wants = TRUE
          BY <1>1, <2>1, <4>2, <5>1
        <5>2. CASE wants = FALSE
          BY <1>1, <2>1, <4>2, <5>2
        <5> QED
          BY <4>3, <5>1, <5>2
    <3> QED
      BY <3>1, <3>2 DEF Decided
  <2> QED
    BY <2>4, <2>5 DEF Clear
<1> QED
  BY <1>1, <1>4, <1>5, <1>6 DEF Handle

\* The start at launch is as it was asked, if nobody has asked meanwhile.
LEMMA LaunchClear ==
  ASSUME IInv, Clear, Launch
  PROVE  Clear'
<1> USE DEF IInv
<1> SUFFICES ASSUME wants' # None PROVE Clear'
  BY DEF Clear
<1>1. /\ launch /\ ~launch' /\ wants' = wants /\ live' = TRUE
      /\ UNCHANGED <<ws, timers, conn, up, reader>>
  BY DEF Launch, LaunchStarts, LaunchFails, LaunchNotReady, Asked, pageVars
<1>2. Alive /\ OneAsks /\ (\A q \in Pages : Waiting(q)) /\ Decided /\ Launching
  BY <1>1 DEF Clear
<1>3. \A c \in Conns : (Pending(c)' <=> Pending(c)) /\ (LastAsk(c) => LastAsk(c)')
  BY <1>1, SameAsked
<1>4. Alive' /\ OneAsks' /\ \A q \in Pages : Waiting(q)'
  BY <1>1, <1>2, <1>3 DEF Alive, OneAsks, Waiting
<1>5. wants' = TRUE /\ Decided' /\ Launching'
  BY <1>1, <1>2, <1>3 DEF Decided, Launching
<1> QED
  BY <1>4, <1>5 DEF Clear

(***************************************************************************)
(* The theorems.                                                           *)
(***************************************************************************)

\* While the pages are loading nobody was told anything.
LEMMA Loading == Init => IInv
<1> SUFFICES ASSUME Init PROVE IInv
  OBVIOUS
<1>1. \A p \in Pages : ws[p] \in Conns /\ PageOf[ws[p]] = p
  BY DEF Init, Pages
<1>2. TypeOK
  <2>1. <<>> \in Seq(Requests) /\ <<>> \in Seq(States) /\ Len(<<>>) = 0
    OBVIOUS
  <2>2. ws \in [Pages -> Conns] /\ \A p \in Pages : PageOf[ws[p]] = p
    BY <1>1 DEF Init
  <2>3. /\ retry \in [Pages -> BOOLEAN] /\ streaming \in [Pages -> BOOLEAN]
        /\ checked \in [Pages -> BOOLEAN]
    BY DEF Init
  <2>4. timers \in [Pages -> 0 .. MaxActs]
    <3>1. timers = [p \in Pages |-> 0]
      BY DEF Init
    <3>2. 0 \in 0 .. MaxActs
      BY HostAssumption
    <3> QED
      BY <3>1, <3>2
  <2>5. /\ conn \in [Conns -> {"new", "connecting", "open", "closed"}]
        /\ reader \in [Conns -> {"none", "reading", "starting", "stopping", "stopped", "gone"}]
    BY DEF Init
  <2>6. /\ up \in [Conns -> Seq(Requests)] /\ down \in [Conns -> Seq(States)]
        /\ \A c \in Conns : Len(down[c]) <= SendCap
    <3>1. up = [c \in Conns |-> <<>>] /\ down = [c \in Conns |-> <<>>]
      BY DEF Init
    <3> QED
      BY <2>1, <3>1, HostAssumption
  <2>7. audible \in [Conns -> BOOLEAN] /\ missed \in [Conns -> BOOLEAN]
    BY DEF Init
  <2>8. /\ clients \subseteq Conns /\ live \in BOOLEAN /\ keepAudible \in BOOLEAN
        /\ launch \in BOOLEAN
        /\ wants \in BOOLEAN \cup {None}
    BY DEF Init
  <2>9. acts \in 0 .. MaxActs
    <3>1. acts = 0
      BY DEF Init
    <3> QED
      BY <3>1, HostAssumption
  <2> QED
    BY <2>2, <2>3, <2>4, <2>5, <2>6, <2>7, <2>8, <2>9 DEF TypeOK
<1>3. Timed
  <2>1. acts = 0 /\ timers = [p \in Pages |-> 0]
    BY DEF Init
  <2> QED
    BY <2>1 DEF Timed
<1>4. OneSocket /\ Unknown
  BY HasPage DEF Init, OneSocket, Unknown
<1>5. \A c \in Conns : Heard(c)
  BY DEF Init, Heard
<1> QED
  BY <1>2, <1>3, <1>4, <1>5 DEF IInv

\* IInv holds in every behaviour.
LEMMA Invariance == Spec => []IInv
<1>1. Init => IInv
  BY Loading
<1>2. IInv /\ [Next]_vars => IInv'
  <2> SUFFICES ASSUME IInv, [Next]_vars PROVE IInv'
    OBVIOUS
  <2>1. TypeOK' /\ Timed'
    BY TypeStep DEF IInv
  <2>2. OneSocket' /\ Unknown'
    BY SocketStep
  <2>3. \A d \in Conns : Heard(d)'
    BY HandleHeard, PageHeard, LaunchHeard DEF Next
  <2> QED
    BY <2>1, <2>2, <2>3 DEF IInv
<1> QED
  BY <1>1, <1>2, PTL DEF Spec

\* The types of the host page and of the server it talks to: in particular no
\* queue of states is ever longer than client.send is (session.go:116-120).
THEOREM TypeCorrect == Spec => []TypeOK
<1>1. IInv => TypeOK
  BY DEF IInv
<1> QED
  BY <1>1, Invariance, PTL

\* A page that has heard all it was sent shows whether the stream runs, for
\* any number of pages whose requests and connections overlap (host.js:9).
THEOREM PagesShowTheTruth == Spec => []ShownIsTrue
<1>1. IInv => ShownIsTrue
  <2> SUFFICES ASSUME IInv, NEW p \in Pages,
                      ws[p] \in clients, conn[ws[p]] = "open", down[ws[p]] = <<>>,
                      ~missed[ws[p]], \A d \in Conns : reader[d] # "stopped"
               PROVE  streaming[p] = live
    BY DEF ShownIsTrue
  <2>1. ws[p] \in Conns /\ PageOf[ws[p]] = p
    BY DEF IInv, TypeOK
  <2>2. WillShow(ws[p]) = live
    BY <2>1 DEF IInv, Heard, Putting
  <2> QED
    BY <2>1, <2>2 DEF WillShow
<1> QED
  BY <1>1, Invariance, PTL

\* While the pages are loading nothing was asked, and every step of the pages
\* and of the server keeps what is asked clear.
LEMMA AskedClearly == Spec => []Clear
<1>1. Init => Clear
  <2> SUFFICES ASSUME Init PROVE Clear
    OBVIOUS
  <2>1. /\ \A c \in Conns : up[c] = <<>> /\ reader[c] = "none"
        /\ \A p \in Pages : timers[p] = 0
        /\ wants = launch /\ live = FALSE /\ launch \in BOOLEAN
    BY DEF Init
  <2>2. Len(<<>>) = 0 /\ 1 .. 0 = {}
    OBVIOUS
  <2>3. \A c \in Conns : ~Pending(c) /\ LastAsk(c)
    BY <2>1, <2>2 DEF Pending, LastAsk
  <2>4. (~launch => live = wants) /\ (launch => wants = TRUE)
    BY <2>1
  <2>5. Decided /\ Launching
    BY <2>1, <2>3, <2>4 DEF Decided, Launching
  <2> QED
    BY <2>1, <2>3, <2>5 DEF Clear, Alive, OneAsks, Waiting
<1>2. IInv /\ Clear /\ [Next]_vars => Clear'
  <2> SUFFICES ASSUME IInv, Clear, [Next]_vars PROVE Clear'
    OBVIOUS
  <2>1. CASE UNCHANGED vars
    <3>1. UNCHANGED <<ws, timers, conn, up, reader, live, launch, wants>>
      BY <2>1 DEF vars, pageVars, netVars, hubVars, userVars
    <3>2. Alive <=> Alive'
      BY <3>1 DEF Alive
    <3>3. wants # None => \A p \in Pages : timers[p] > 0 => conn[ws[p]] = "open"
      BY DEF Clear, Waiting
    <3> QED
      BY <3>1, <3>2, <3>3, ClearKept, SameAsked DEF IInv, Clear
  <2> QED
    BY <2>1, AskClear, SendClear, SocketClear, HandleClear, LaunchClear DEF Next
<1> QED
  BY <1>1, <1>2, Invariance, PTL DEF Spec

\* For any number of pages, connections and clicks, beside the start at launch:
\* with nothing under way and no timer waiting, the stream is as it was last
\* asked to be, if that was clear (host.js:130-156, main.go:85-89).
THEOREM LastRequestDecides == Spec => []Settled
<1>1. IInv /\ Clear => Settled
  BY DEF IInv, TypeOK, Clear, Decided, Settled
<1> QED
  BY <1>1, Invariance, AskedClearly, PTL
=============================================================================
