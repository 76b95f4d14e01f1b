SPECIFICATION Spec
CONSTANTS
  RingBufferSize = 7
  VsyncPayload = 1
  SpinThreshold = 2
  TallyLimit = 1
  Weights = {0}
  VsyncQueueSize = 0
  IdMod = 2
  Requests = {"GSPacket", "Sync", "VSync", "WaitGS", "Reset",
              "BootReset"}
INVARIANTS
  TypeOK
  RingIntact
  RingSignalDiscipline
  FramesBounded
  WaitGSDrains
PROPERTIES
  EEGoesOn
CHECK_DEADLOCK FALSE
