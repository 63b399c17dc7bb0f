SPECIFICATION Spec
CONSTANTS
  Pages = {p1}
  Launchers = {}
  Signals = {sig}
  Speakers = {spk1}
  Loopback = loop
  Routing = taal
  Handles = {h1, h2}
  None = none


PROPERTIES FreshStart SignalEnds
CHECK_DEADLOCK FALSE
