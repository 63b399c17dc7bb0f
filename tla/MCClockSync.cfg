SPECIFICATION Spec
CONSTANTS
  Burst = 2
  Leaps <- SetBy
  MaxSkew = 1
  MaxRounds = 3
  Horizon = 3
INVARIANTS ErrorIsBounded LeastDelayed FollowsTheHost
CHECK_DEADLOCK FALSE
