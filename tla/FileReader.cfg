SPECIFICATION Spec
CONSTANTS
  Sectors = 3
  Buffers = 2
  Cap = 2
  Reissue = FALSE
INVARIANTS
  TypeOK
  DataIsRight
  NoLateWrite
  DecompressorExclusive
PROPERTIES
  CallsReturn
