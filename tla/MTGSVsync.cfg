SPECIFICATION Spec
CONSTANTS
  RingBufferSize = 5
  VsyncPayload = 1
  SpinThreshold = 2
  TallyLimit = 1
  Weights = {0}
  VsyncQueueSize = 1
  IdMod = 2
  Requests = {"VSync", "WaitGS"}
INVARIANTS
  NoEternalSleep
CHECK_DEADLOCK FALSE
