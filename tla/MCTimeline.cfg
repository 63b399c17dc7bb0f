SPECIFICATION Spec
CONSTANTS
  Guests = {g1}
  AudioCap = 1
  Jitter = 2
  Asked <- AskedDelays
  LoDelay = 1
  HiDelay = 3
  DefaultDelay = 2
  Boot = 1
  Leaps <- SetBy
  Horizon = 5
PROPERTIES LeadIsDelay NoneLeftBehind NeighboursButt StopReturns
