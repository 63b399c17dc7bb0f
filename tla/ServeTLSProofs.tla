--------------------------- MODULE ServeTLSProofs ---------------------------
(***************************************************************************)
(* Proofs about the two things serveTLSWithRedirect (listen.go) is made    *)
(* of.  The pair it loads: for any networks, names and number of           *)
(* certificates it is whole, is good for the address that was printed, and *)
(* stays.  The port it listens on: for any number of connections, every    *)
(* one is where its first byte sends it, and no error is lost.             *)
(***************************************************************************)
EXTENDS Certificate, TLAPS

(***************************************************************************)
(* The pair.                                                               *)
(***************************************************************************)
Writing == {"cert", "openKey", "key"}

\* What ensureCert is about to write, and has written: the certificate is on
\* disk before the key is opened.
Written ==
  /\ phase \in Writing => made # None
  /\ phase \in {"openKey", "key"} => certFile = made

\* Every certificate is for localhost; the one being written, and the one
\* about to be loaded, is for the address that was printed.
NamesServed ==
  /\ certFile # None => Localhost \in certFile.names
  /\ made # None => Localhost \in made.names
  /\ phase \in Writing => addr \in made.names
  /\ phase = "load" /\ certFile # None => addr \in certFile.names

\* As long as the certificate the phones accepted does for every launch, it
\* is the one on disk, and no other is being made.
Kept ==
  accepted # None /\ ~stale
    => certFile = accepted /\ phase \notin {"generate"} \cup Writing

IInv ==
  TypeOK /\ Written /\ NamesServed /\ Kept /\ PairIsWhole /\ AddressIsServed

\* A certificate is a record with a key and names, and is not None.
LEMMA CertsLemma ==
  /\ None \notin Certs
  /\ \A c \in Certs : c.key \in Keys /\ c.names \subseteq Names
BY CertificateAssumption DEF Certs

\* Nothing is on disk, nothing is served.
LEMMA InitInv == ASSUME Init PROVE IInv
BY DEF Init, IInv, TypeOK, Phases, Names, Writing, Written, NamesServed,
       Kept, PairIsWhole, AddressIsServed

\* The networks and time touch neither the files nor the process.
LEMMA WorldStep ==
  ASSUME IInv, Lease \/ \E k \in Keys : Expire(k) PROVE IInv'
<1>1. /\ UNCHANGED <<certFile, keyFile, phase, addr, made, served, torn, accepted, stale>>
      /\ held' \subseteq Addrs /\ expired' \subseteq Keys
  BY DEF IInv, TypeOK, Lease, Expire, disk
<1> QED
  BY <1>1 DEF IInv, TypeOK, Writing, Written, NamesServed, Kept, PairIsWhole,
              AddressIsServed

\* A launch prints an address it has, or was given.
LEMMA LaunchStep == ASSUME IInv, Launch PROVE IInv'
BY DEF Launch, lanIP, disk, IInv, TypeOK, Phases, Names,
       Writing, Written, NamesServed, Kept, PairIsWhole, AddressIsServed

\* The launch loads what covers its address, which is what was accepted; or it
\* makes another, because what was accepted does not do.
LEMMA CheckStep == ASSUME IInv, Check PROVE IInv'
<1>1. /\ UNCHANGED <<held, expired, certFile, keyFile, addr, made, served, torn, accepted>>
      /\ phase = "check" /\ phase' \in {"load", "generate"}
      /\ phase' = "load" <=> Does(certFile, addr)
      /\ stale' = (stale \/ ~Does(accepted, addr))
  BY DEF Check, disk, covers
<1>2. TypeOK' /\ PairIsWhole' /\ AddressIsServed'
  BY <1>1 DEF IInv, TypeOK, Phases, PairIsWhole, AddressIsServed
<1>3. Written' /\ NamesServed'
  BY <1>1 DEF IInv, Writing, Written, NamesServed, Does
<1>4. Kept'
  BY <1>1 DEF IInv, Kept, Writing
<1> QED BY <1>2, <1>3, <1>4 DEF IInv

\* A new certificate is for localhost and for the address.
LEMMA GenerateStep ==
  ASSUME IInv, Generate PROVE IInv'
<1>1. /\ UNCHANGED <<held, expired, keyFile, addr, served, torn, accepted, stale>>
      /\ phase = "generate" /\ phase' = "cert" /\ certFile' = None
      /\ made' = [key |-> LastKey + 1, names |-> held \cup {addr, Localhost}]
  BY DEF Generate, localIPs
<1>2. made' \in Certs
  <2>1. LastKey + 1 \in Keys
    <3>1. CASE made = None
      BY <3>1, CertificateAssumption DEF Generate, LastKey, Keys
    <3>2. CASE made # None
      <4>1. made.key \in 1 .. MaxCerts
        BY <3>2, CertsLemma DEF IInv, TypeOK, Keys
      <4> QED
        BY <3>2, <4>1, CertificateAssumption DEF Generate, LastKey, Keys
    <3> QED BY <3>1, <3>2
  <2>2. held \cup {addr, Localhost} \subseteq Names
    BY DEF IInv, TypeOK, Names
  <2> QED BY <1>1, <2>1, <2>2 DEF Certs
<1>3. made' # None /\ {addr, Localhost} \subseteq made'.names
  BY <1>1, <1>2, CertsLemma
<1>4. TypeOK' /\ PairIsWhole' /\ AddressIsServed'
  BY <1>1, <1>2 DEF IInv, TypeOK, Phases, PairIsWhole, AddressIsServed
<1>5. Written' /\ NamesServed' /\ Kept'
  BY <1>1, <1>3 DEF IInv, Writing, Written, NamesServed, Kept
<1> QED BY <1>4, <1>5 DEF IInv

\* The certificate is written, and after it the key: the pair is whole when
\* the second is, and whoever ends between the two is on record.
LEMMA WriteStep ==
  ASSUME IInv, WriteCert \/ OpenKey \/ WriteKey PROVE IInv'
<1>1. CASE WriteCert
  BY <1>1 DEF WriteCert, IInv, TypeOK, Phases, Writing, Written,
              NamesServed, Kept, PairIsWhole, AddressIsServed
<1>2. CASE OpenKey
  BY <1>2 DEF OpenKey, IInv, TypeOK, Phases, Writing, Written,
              NamesServed, Kept, PairIsWhole, AddressIsServed
<1>3. CASE WriteKey
  <2>1. /\ UNCHANGED <<held, expired, certFile, addr, made, served, accepted, stale>>
        /\ phase = "key" /\ phase' = "load" /\ keyFile' = made.key /\ torn' = FALSE
        /\ made # None /\ certFile = made /\ made \in Certs
    BY <1>3 DEF WriteKey, IInv, TypeOK, Written, Writing
  <2>2. made.key \in Keys
    BY <2>1, CertsLemma
  <2> QED
    BY <2>1, <2>2 DEF IInv, TypeOK, Phases, Writing, Written, NamesServed, Kept,
                      PairIsWhole, AddressIsServed
<1> QED BY <1>1, <1>2, <1>3

\* What is loaded is what is served, and accepted.
LEMMA LoadStep == ASSUME IInv, Load \/ Refused PROVE IInv'
<1>1. CASE Load
  BY <1>1 DEF Load, disk, IInv, TypeOK, Phases, Writing, Written,
              NamesServed, Kept, PairIsWhole, AddressIsServed
<1>2. CASE Refused
  BY <1>2 DEF Refused, disk, IInv, TypeOK, Phases, Writing, Written,
              NamesServed, Kept, PairIsWhole, AddressIsServed
<1> QED BY <1>1, <1>2

\* An end leaves the files as they are.
LEMMA EndStep == ASSUME IInv, Ends PROVE IInv'
BY DEF Ends, disk, IInv, TypeOK, Phases, Writing, Written, NamesServed,
       Kept, PairIsWhole, AddressIsServed

\* The invariant holds in every behaviour.
LEMMA Invariant == Spec => []IInv
<1>1. Init => IInv
  BY InitInv
<1>2. IInv /\ [Next]_vars => IInv'
  <2> SUFFICES ASSUME IInv, [Next]_vars PROVE IInv'
    OBVIOUS
  <2>1. CASE UNCHANGED vars
    BY <2>1 DEF vars, disk, IInv, TypeOK, Writing, Written, NamesServed, Kept,
                PairIsWhole, AddressIsServed
  <2>2. CASE Next
    BY <2>2, WorldStep, LaunchStep, CheckStep, GenerateStep, WriteStep, LoadStep, EndStep
       DEF Next
  <2> QED BY <2>1, <2>2
<1> QED BY <1>1, <1>2, PTL DEF Spec

\* The type invariant of the certificate.
THEOREM TypeCorrect == Spec => []TypeOK
BY Invariant, PTL DEF IInv

\* Whatever a launch is cut off from, the key on disk is the certificate's,
\* but for an end between the two files (tls.go:84-102).
THEOREM PairStaysWhole == Spec => []PairIsWhole
BY Invariant, PTL DEF IInv

\* What taal serves is good for the address it printed and for localhost
\* (main.go:38-50, tls.go:36-45).
THEOREM AddressStaysServed == Spec => []AddressIsServed
BY Invariant, PTL DEF IInv

\* The phones are asked once: a launch that serves another certificate than
\* the one they accepted had found that one over, or without the address
\* (tls.go:21-22).
THEOREM PhonesAreAskedOnce == Spec => AskedOnce
<1>1. IInv /\ [Next]_vars
        => [phase' = "serving" /\ phase # "serving" /\ accepted # None
              => accepted' = accepted \/ stale]_vars
  <2> SUFFICES ASSUME IInv, Next, phase' = "serving", phase # "serving",
                      accepted # None, ~stale
               PROVE  accepted' = accepted
    BY DEF AskedOnce
  <2>1. Load
    BY DEF Next, Lease, Expire, Launch, Check, Generate,
           WriteCert, OpenKey, WriteKey, Refused, Ends
  <2> QED BY <2>1 DEF Load, IInv, Kept
<1> QED BY <1>1, Invariant, PTL DEF Spec, AskedOnce

(***************************************************************************)
(* The port.                                                               *)
(***************************************************************************)
CONSTANT Clients
VARIABLES said, gone, at, loop, failed, serve

Port == INSTANCE Listener

\* The loop has one error to send, so it always finds room in l.failed; and
\* an error that lasts is there until Serve has ended with it.
ErrorIsKept ==
  /\ loop = "accepting" => failed = <<>>
  /\ loop = "lasting" => failed = <<"lasting">> \/ serve = "ended"

PortInv == Port!TypeOK /\ Port!Sorted /\ ErrorIsKept

\* A step of the accept loop or of Serve keeps the invariant.
LEMMA LoopSteps ==
  ASSUME PortInv, Port!Running,
         \/ \E c \in Clients : Port!Take(c) \/ Port!HandOver(c)
         \/ \E e \in Port!Errors : Port!AcceptFails(e)
         \/ Port!TakeError
  PROVE  PortInv'
<1>1. CASE \E c \in Clients : Port!Take(c) \/ Port!HandOver(c)
  BY <1>1 DEF PortInv, Port!TypeOK, Port!Sorted, ErrorIsKept, Port!Take, Port!HandOver,
              Port!Move, Port!Places, Port!Words
<1>2. CASE \E e \in Port!Errors : Port!AcceptFails(e)
  <2>1. PICK e \in Port!Errors : Port!AcceptFails(e)
    BY <1>2
  <2>2. failed' = <<e>>
    BY <2>1 DEF PortInv, ErrorIsKept, Port!AcceptFails
  <2> QED
    BY <2>1, <2>2 DEF PortInv, Port!TypeOK, Port!Sorted, ErrorIsKept, Port!AcceptFails,
                      Port!Errors
<1>3. CASE Port!TakeError
  <2>1. PICK e \in Port!Errors : failed = <<e>>
    BY <1>3 DEF PortInv, Port!TypeOK, Port!TakeError
  <2>2. failed' = <<>> /\ (e = "lasting" => serve' = "ended")
    BY <1>3, <2>1 DEF Port!TakeError
  <2> QED
    BY <1>3, <2>1, <2>2 DEF PortInv, Port!TypeOK, Port!Sorted, ErrorIsKept, Port!TakeError,
                            Port!Errors
<1> QED BY <1>1, <1>2, <1>3

\* So does one of a client, or of the goroutine of its connection.
LEMMA ClientSteps ==
  ASSUME PortInv, NEW c \in Clients,
         \/ Port!Dial(c) \/ Port!HangsUp(c) \/ \E word \in Port!Words : Port!Says(c, word)
         \/ Port!Goroutine(c) \/ Port!Expire(c)
  PROVE  PortInv'
<1>1. UNCHANGED <<loop, failed, serve>>
  BY DEF Port!Dial, Port!HangsUp, Port!Says, Port!Goroutine, Port!Expire, Port!Classify,
         Port!PeekFails, Port!Redirect
<1>2. Port!TypeOK' /\ Port!Sorted'
  <2>1. CASE Port!Dial(c)
    BY <2>1 DEF PortInv, Port!TypeOK, Port!Sorted, Port!Dial, Port!Move, Port!Places
  <2>2. CASE Port!HangsUp(c)
    BY <2>2 DEF PortInv, Port!TypeOK, Port!Sorted, Port!HangsUp
  <2>3. CASE \E word \in Port!Words : Port!Says(c, word)
    BY <2>3 DEF PortInv, Port!TypeOK, Port!Sorted, Port!Says, Port!Words
  <2>4. CASE Port!Classify(c)
    BY <2>4 DEF PortInv, Port!TypeOK, Port!Sorted, Port!Classify, Port!Move, Port!Words,
                Port!Places
  <2>5. CASE Port!PeekFails(c) \/ Port!Redirect(c) \/ Port!Expire(c)
    BY <2>5 DEF PortInv, Port!TypeOK, Port!Sorted, Port!PeekFails, Port!Redirect, Port!Expire,
                Port!Move, Port!Places
  <2> QED BY <2>1, <2>2, <2>3, <2>4, <2>5 DEF Port!Goroutine
<1> QED BY <1>1, <1>2 DEF PortInv, ErrorIsKept

\* The invariant of the port holds in every behaviour.
LEMMA PortInvariant == Port!Spec => []PortInv
<1>1. Port!Init => PortInv
  BY DEF Port!Init, PortInv, Port!TypeOK, Port!Sorted, ErrorIsKept, Port!Words, Port!Places
<1>2. PortInv /\ [Port!Next]_(Port!vars) => PortInv'
  <2> SUFFICES ASSUME PortInv, [Port!Next]_(Port!vars) PROVE PortInv'
    OBVIOUS
  <2>1. CASE UNCHANGED Port!vars
    BY <2>1 DEF Port!vars, PortInv, Port!TypeOK, Port!Sorted, ErrorIsKept
  <2>2. CASE Port!Next
    BY <2>2, LoopSteps, ClientSteps
       DEF Port!Next, Port!Take, Port!HandOver, Port!AcceptFails, Port!TakeError, Port!Move
  <2> QED BY <2>1, <2>2
<1> QED BY <1>1, <1>2, PTL DEF Port!Spec

\* The type invariant of the listener (Listener!TypeOK): in particular the
\* loop's one error always finds room in l.failed.
THEOREM PortTypeCorrect == Port!Spec => []Port!TypeOK
BY PortInvariant, PTL DEF PortInv

\* Every connection is where its first byte sends it (listen.go:72-82).
THEOREM ConnectionsSorted == Port!Spec => []Port!Sorted
BY PortInvariant, PTL DEF PortInv

\* An error that ends the accept loop for good is not lost on its way to Serve
\* (listen.go:54): what EndIsNoticed rests on, fairness apart.
THEOREM ErrorStaysKept == Port!Spec => []ErrorIsKept
BY PortInvariant, PTL DEF PortInv
=============================================================================
