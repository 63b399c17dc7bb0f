--------------------------- MODULE MCHubFindings ---------------------------
(* What comments and the README say of the room and TLC refutes, on the     *)
(* pages README.md names.                                                   *)
EXTENDS MCHub

\* "non-blocking so one stuck client never stalls the hub" (session.go:191):
\* no goroutine keeps s.mu for ever.  hello unlocks without defer, and panics
\* when its own connection was retired while it waited for the lock: two
\* tabs of one browser, one joining while the other connects.  The drop its
\* reader deferred then waits for the lock its own hello holds.
NeverStuck == ~stuck

\* "carries its volume across" (session.go:233-235), "coming back reclaims
\* its row and its volume" (README.md:194-195): a speaker plays at the volume
\* its row shows, unless the message was lost to a full queue.  hello copies
\* the gain into the row and never tells the page, which starts at full.
PlaysAtItsVolume ==
  ~stuck => \A c \in clients : guest[c] /\ ~missed[c] => vol[c] = gain[c]
=============================================================================
