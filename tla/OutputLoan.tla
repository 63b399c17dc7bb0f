----------------------------- MODULE OutputLoan -----------------------------
(***************************************************************************)
(* What taal promises the owner of a mac about its audio output, with no   *)
(* word about how: the output is on loan.  It may move while it is lent,   *)
(* and every loan ends with the output where its owner last put it.  Who   *)
(* that owner is, taal never decides: the owner's choice changes only when *)
(* somebody points the output at it.                                       *)
(*                                                                         *)
(* StreamControl implements this specification (LoanIsKept).               *)
(***************************************************************************)
CONSTANTS
  Devices, \* what the output may play into
  Choices  \* what an owner may choose among them

VARIABLES
  owner,   \* the output the owner chose
  output,  \* the system output device
  loan     \* "none", "lent", or "lost": the way back is not known any more

Init == owner \in Choices /\ output = owner /\ loan = "none"

\* System Settings, whether taal holds the output or not
Choose(d) ==
  /\ output' = d /\ owner' = d
  /\ UNCHANGED loan

\* The output is lent as it stands,
Lend ==
  /\ loan = "none" /\ loan' = "lent"
  /\ UNCHANGED <<owner, output>>

\* may be moved while it is,
Use ==
  /\ loan = "lent" /\ output' \in Devices
  /\ UNCHANGED <<owner, loan>>

\* becomes the owner's own if it was moved and nobody is left to move it back,
Keep ==
  /\ loan = "lent" /\ output \in Choices /\ owner' = output
  /\ UNCHANGED <<output, loan>>

\* and is the owner's again at the end.
GiveBack ==
  /\ loan = "lent" /\ loan' = "none" /\ output' = owner
  /\ UNCHANGED owner

Lose == loan' = "lost"

Next ==
  \/ \E d \in Choices : Choose(d)
  \/ Lend \/ Use \/ Keep \/ GiveBack \/ Lose

Spec == Init /\ [][Next]_<<owner, output, loan>>
=============================================================================
