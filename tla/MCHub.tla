------------------------------- MODULE MCHub -------------------------------
(* A few connections of the host page and of speaker pages.  Those of one   *)
(* page are interchangeable.                                                *)
EXTENDS Hub, TLC

CONSTANTS ofHost, ofPhone, ofTablet   \* connections of each page
CONSTANTS phone, tablet

PageOf == [c \in Conns |-> CASE c \in ofHost -> Host
                              [] c \in ofPhone -> phone
                              [] c \in ofTablet -> tablet]
\* What tells two states apart: how many hellos were read matters while more
\* can come, what a page shows while it is the host's or is true, and nothing
\* reads what it plays at.
Told == <<sock, [c \in Conns |-> IF sock[c] = "open" THEN hellos[c] ELSE 0],
          threadVars, open, rowVars, hubVars, queued,
          [c \in Conns |-> IF missed[c] /\ Page[c] # Host THEN {} ELSE shown[c]], missed>>

Sym == Permutations(ofPhone) \cup Permutations(ofHost) \cup Permutations(ofTablet)
=============================================================================
