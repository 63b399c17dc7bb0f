SPECIFICATION Spec
CONSTANTS
  Conns = {p1, p2}
  ofHost = {}
  ofPhone = {p1, p2}
  ofTablet = {}
  phone = phone
  tablet = tablet
  Page <- PageOf
  Devices = {phone}
  Host = host
  Gains = {0}
  SendCap = 3
  MaxHellos = 2
  None = none
INVARIANTS OneRowPerDevice
PROPERTIES GoneLeaves RowOutlivesStaleDrop
CHECK_DEADLOCK FALSE
