SPECIFICATION Spec
CONSTANTS
  RingSize = 2
  CursorMod = 4
  MaxDraw = 1
  MaxPayload = 2
  Units = 2
INVARIANTS
  TypeOK
  RingHoldsPending
  RecordsIntact
  NodesInOnePlace
  NothingLeft
PROPERTIES
  FrontGoesOn
