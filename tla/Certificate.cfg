SPECIFICATION Spec
CONSTANTS
  Addrs = {home, office}
  Given = {docker}
  Localhost = localhost
  MaxCerts = 3
  None = None
INVARIANTS TypeOK PairIsWhole AddressIsServed
PROPERTY AskedOnce
CHECK_DEADLOCK FALSE
