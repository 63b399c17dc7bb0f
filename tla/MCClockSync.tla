---------------------------- MODULE MCClockSync ----------------------------
(* Three rounds of two pings: one before the clock is set, the first after  *)
(* it, and the one that must know.                                          *)
EXTENDS ClockSync

SetBy == {1}
=============================================================================
