SPECIFICATION Spec
CONSTANTS
  a = a
  b = b
  a1 = a1
  a2 = a2
  b1 = b1
  Conns <- MCConns
  PageOf <- MCPageOf
  SendCap = 2
  MaxActs = 2
  None = None
INVARIANTS TypeOK ShownIsTrue Settled
PROPERTY Obeyed
CHECK_DEADLOCK FALSE
