SPECIFICATION Spec
CONSTANTS
  Reseat = 2
  MaxErr = 1
  Nudges = {0, 1}
  Lead = 4
  MaxLag = 1
  Horizon = 5
  None = none
PROPERTIES Together Seamless LateIsLate
VIEW Told
CHECK_DEADLOCK FALSE
