INIT Init
NEXT Next
CONSTANTS
  Conns = {p1, p2}
  ofHost = {}
  ofPhone = {p1, p2}
  ofTablet = {}
  phone = phone
  tablet = tablet
  Page <- PageOf
  Devices = {phone}
  Host = host
  Gains = {0}
  SendCap = 3
  MaxHellos = 2
  None = none
INVARIANT NeverStuck
CHECK_DEADLOCK FALSE
