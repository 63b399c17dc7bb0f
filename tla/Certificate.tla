---------------------------- MODULE Certificate ----------------------------
(***************************************************************************)
(* The self signed certificate: ensureCert, covers and localIPs (tls.go),  *)
(* the address main prints, and the pair serveTLSWithRedirect loads        *)
(* (listen.go).  A launch makes a certificate when the one on disk does    *)
(* not do, and writes it and its key to two files, one after the other;    *)
(* it may end between any two of its steps, killed or by an error of the   *)
(* disk, upon which main ends the process.  A file that was opened for     *)
(* writing is empty until it is written; half a block decodes no better.   *)
(*                                                                         *)
(* One launch at a time; -http, which needs no certificate, is left out.   *)
(***************************************************************************)

EXTENDS Integers

CONSTANTS
  Addrs,      \* the private addresses the networks hand out
  Given,      \* the names TAAL_HOST may give
  Localhost,  \* the name every certificate has
  MaxCerts,   \* bound: certificates made
  None        \* no file, no certificate

VARIABLES
  held,      \* the private addresses of this mac
  expired,   \* the certificates that are over, by their keys
  \* the files
  certFile,  \* what cert.pem says, or None
  keyFile,   \* the key in key.pem, or None
  \* the process
  phase,     \* see Phases
  addr,      \* the address main has printed
  made,      \* the certificate ensureCert is about to write
  served,    \* the certificate it serves
  \* history
  torn,      \* a launch ended between the writing of the two files
  accepted,  \* the certificate served last, which the phones have accepted
  stale      \* a launch since found that it does not do any more

disk == <<certFile, keyFile>>
vars == <<held, expired, certFile, keyFile, phase, addr, made, served,
          torn, accepted, stale>>

Names == Addrs \cup Given \cup {Localhost}
Keys == 1 .. MaxCerts
Certs == [key : Keys, names : SUBSET Names]
ASSUME CertificateAssumption == MaxCerts \in Nat /\ None \notin Certs
Phases == {"down", "check", "generate", "cert", "openKey", "key", "load",
           "serving"}

TypeOK ==
  /\ held \subseteq Addrs /\ expired \subseteq Keys
  /\ certFile \in Certs \cup {None} /\ keyFile \in Keys \cup {None}
  /\ phase \in Phases /\ addr \in Names
  /\ made \in Certs \cup {None} /\ served \in Certs \cup {None}
  /\ torn \in BOOLEAN /\ accepted \in Certs \cup {None} /\ stale \in BOOLEAN

Init ==
  /\ held \in SUBSET Addrs /\ expired = {}
  /\ certFile = None /\ keyFile = None
  /\ phase = "down" /\ addr = Localhost /\ made = None /\ served = None
  /\ torn = FALSE /\ accepted = None /\ stale = FALSE

\* Keys are random; here they are counted.
LastKey == IF made = None THEN 0 ELSE made.key

Does(c, host) == c # None /\ c.key \notin expired /\ host \in c.names

(***************************************************************************)
(* The network, and time.                                                  *)
(***************************************************************************)

Lease ==
  /\ held' \in SUBSET Addrs
  /\ UNCHANGED <<expired, disk, phase, addr, made, served, torn, accepted, stale>>

Expire(k) ==
  /\ made # None /\ k <= made.key /\ expired' = expired \cup {k}
  /\ UNCHANGED <<held, disk, phase, addr, made, served, torn, accepted, stale>>

(***************************************************************************)
(* A launch.                                                               *)
(***************************************************************************)

\* one of the addresses: which one, the order of the interfaces says (a system
\* that cannot tell its interfaces is left out, here and in localIPs)
lanIP == IF held = {} THEN {Localhost} ELSE held

\* main prints TAAL_HOST, or what lanIP says.
Launch ==
  /\ phase = "down" /\ phase' = "check"
  /\ addr' \in Given \cup lanIP
  /\ UNCHANGED <<held, expired, disk, made, served, torn, accepted, stale>>

\* Mutant of covers: the name does not count.
CoversAnyName == certFile # None /\ certFile.key \notin expired

\* Mutant of covers: nothing does.
CoversNothing == FALSE

\* covers() reads the certificate only.
covers == Does(certFile, addr)

Check ==
  /\ phase = "check" /\ phase' = IF covers THEN "load" ELSE "generate"
  /\ stale' = (stale \/ ~Does(accepted, addr))
  /\ UNCHANGED <<held, expired, disk, addr, made, served, torn, accepted>>

\* Mutant of localIPs: an interface without a private address adds one, too.
AnyIPs == held \cup {None}

localIPs == held

\* Makes the key and the certificate, and opens the file.
Generate ==
  /\ phase = "generate" /\ phase' = "cert" /\ LastKey < MaxCerts
  /\ made' = [key |-> LastKey + 1, names |-> localIPs \cup {addr, Localhost}]
  /\ certFile' = None
  /\ UNCHANGED <<held, expired, keyFile, addr, served, torn, accepted, stale>>

WriteCert ==
  /\ phase = "cert" /\ phase' = "openKey" /\ certFile' = made
  /\ UNCHANGED <<held, expired, keyFile, addr, made, served, torn, accepted, stale>>

\* Mutant of OpenKey: a key that is there is used again.
KeepsKey ==
  /\ phase = "openKey" /\ phase' = IF keyFile = None THEN "key" ELSE "load"
  /\ UNCHANGED <<held, expired, disk, addr, made, served, torn, accepted, stale>>

OpenKey ==
  /\ phase = "openKey" /\ phase' = "key" /\ keyFile' = None
  /\ UNCHANGED <<held, expired, certFile, addr, made, served, torn, accepted, stale>>

WriteKey ==
  /\ phase = "key" /\ phase' = "load"
  /\ keyFile' = made.key /\ torn' = FALSE
  /\ UNCHANGED <<held, expired, certFile, addr, made, served, accepted, stale>>

\* tls.LoadX509KeyPair refuses a key that is not the certificate's.
Load ==
  /\ phase = "load" /\ certFile # None /\ keyFile = certFile.key
  /\ phase' = "serving"
  /\ served' = certFile /\ accepted' = certFile /\ stale' = FALSE
  /\ UNCHANGED <<held, expired, disk, addr, made, torn>>

Refused ==
  /\ phase = "load" /\ (certFile = None \/ keyFile # certFile.key)
  /\ phase' = "down"
  /\ UNCHANGED <<held, expired, disk, addr, made, served, torn, accepted, stale>>

\* A kill, an error returned on the way, or a port that is taken.
Ends ==
  /\ phase # "down" /\ phase' = "down" /\ served' = None
  /\ torn' = (torn \/ phase \in {"openKey", "key"})
  /\ UNCHANGED <<held, expired, disk, addr, made, accepted, stale>>

Next ==
  \/ Lease \/ \E k \in Keys : Expire(k)
  \/ Launch \/ Check \/ Generate \/ WriteCert \/ OpenKey \/ WriteKey
  \/ Load \/ Refused \/ Ends

Spec == Init /\ [][Next]_vars

(***************************************************************************)
(* Properties.                                                             *)
(***************************************************************************)

\* Whatever a launch is cut off from, the certificate on disk has its own key
\* beside it, except after an end between the writing of the two (tls.go:89
\* to 102): an end before that leaves no certificate, which covers() finds
\* out, and the next launch that makes a pair makes a whole one.
PairIsWhole ==
  ~torn /\ certFile # None /\ phase \notin {"openKey", "key"}
    => keyFile = certFile.key

\* What taal serves is good for the address it printed and for localhost,
\* where the pages of this mac are, whatever addresses the mac had when the
\* certificate was made and has had since (main.go:38-50, tls.go:36-45).
AddressIsServed ==
  phase = "serving" => {addr, Localhost} \subseteq served.names

\* "The cert is kept between runs so the warning is a one time thing"
\* (tls.go:21-22): a phone is asked again only if the certificate it accepted
\* was over, or lacked the address, at one of the launches since.
AskedOnce ==
  [][phase' = "serving" /\ phase # "serving" /\ accepted # None
       => accepted' = accepted \/ stale]_vars
=============================================================================
