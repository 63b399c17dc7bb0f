SPECIFICATION Spec
CONSTANTS
  Locks = {l1, l2, l3, l4}
  MaxAsks = 2
  None = None
INVARIANTS TypeOK AwakeIsTrue
PROPERTIES TakenAgain ComesBack LeavesTheRoom
CHECK_DEADLOCK FALSE
