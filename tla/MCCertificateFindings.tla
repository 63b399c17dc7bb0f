----------------------- MODULE MCCertificateFindings -----------------------
(* What comments say of the certificate and a history refutes.  README.md   *)
(* names the instance.                                                      *)
EXTENDS Certificate

\* "returns cert and key paths, generating them if missing" (tls.go:36): a
\* launch that goes on to serve has a key.  covers() does not look for it
\* (tls.go:43), so that a launch killed between the two files is followed by
\* launches that all end here, until the certificate does not cover the
\* address any more.
KeyIsThere == phase = "load" => keyFile # None

\* "every private address this machine holds, so the cert stays valid when
\* the wifi hands out a different lease" (tls.go:68-69): what is served covers
\* the addresses the mac has.  The lease it is handed is not one it held.
StaysValid == served # None => held \subseteq served.names
=============================================================================
