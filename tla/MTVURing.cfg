SPECIFICATION Spec
CONSTANTS
  BufferSize = 10
  Margin = 2
  Sizes = {1, 2, 4}
  IdMod = 2
INVARIANTS
  TypeOK
  PendingIntact
  WaitVUDrains
PROPERTIES
  RoomComes
CHECK_DEADLOCK FALSE
