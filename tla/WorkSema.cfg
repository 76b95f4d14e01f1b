SPECIFICATION Spec
CONSTANTS
  ee = ee
  mtvu = mtvu
  Producers = {ee, mtvu}
  Waiter = ee
  MaxWork = 2
INVARIANTS
  TypeOK
  SleepTokens
  EmptyTokens
  HonestEmpty
PROPERTIES
  ImplementsWorkQueue
  ImplementsWorkEvent
  NotifiedWorkGetsDone
CHECK_DEADLOCK FALSE
