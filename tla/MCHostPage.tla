----------------------------- MODULE MCHostPage -----------------------------
(***************************************************************************)
(* Two tabs of the host page: a, which comes back once, and b.             *)
(***************************************************************************)
EXTENDS HostPage

CONSTANTS a, b, a1, a2, b1

MCConns  == {a1, a2, b1}
MCPageOf == [c \in MCConns |-> IF c = b1 THEN b ELSE a]
=============================================================================
