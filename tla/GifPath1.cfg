SPECIFICATION Spec
CONSTANTS
  BuffSize = 5
  BuffLimit = 3
  MaxProgram = 2
  MaxPrograms = 3
  MaxHeld = 2
  RingMax = 1
INVARIANTS
  TypeOK
  OnePacketPerProgram
  PacketsIntact
PROPERTIES
  NoCircularWait
CHECK_DEADLOCK FALSE
