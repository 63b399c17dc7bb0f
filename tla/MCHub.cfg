INIT Init
NEXT Next
CONSTANTS
  Conns = {h1, p1, p2}
  ofHost = {h1}
  ofPhone = {p1, p2}
  ofTablet = {}
  phone = phone
  tablet = tablet
  Page <- PageOf
  Devices = {phone}
  Host = host
  Gains = {0}
  SendCap = 3
  MaxHellos = 1
  None = none
SYMMETRY Sym
INVARIANTS TypeOK RegisteredIsOpen RosterIsTrue
PROPERTIES RoomIsKept RowKeepsPlaceAndVolume
VIEW Told
CHECK_DEADLOCK FALSE
