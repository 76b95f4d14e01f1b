SPECIFICATION Spec
CONSTANTS
  MaxPosted = 5
  MaxThreads = 3
INVARIANTS
  TypeOK
  CountsUnits
PROPERTIES
  UnitsReachWaiters
CHECK_DEADLOCK FALSE
