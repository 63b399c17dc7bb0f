-------------------------- MODULE MCStreamControl --------------------------
(* A few goroutines on a mac with a few outputs.  The number of lives,      *)
(* requests, kills and user choices is not bounded: the model is finite as  *)
(* it stands.                                                               *)
EXTENDS StreamControl

\* The promises are made for histories without a spoiling event; what such
\* an event leads to is the business of the other runs.
Unspoilt == ~spoilt
=============================================================================
