SPECIFICATION Spec
CONSTANTS
  Pages = {p1, p2}
  Launchers = {auto}
  Signals = {sig}
  Speakers = {spk1, spk2, spk3}
  Loopback = loop
  Routing = taal
  Handles = {h1, h2}
  None = none
CONSTRAINT Unspoilt
PROPERTY LoanIsKept
INVARIANTS TypeOK GivenBack Recoverable StreamIsWhole
CHECK_DEADLOCK FALSE
