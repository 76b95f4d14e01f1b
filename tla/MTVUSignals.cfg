SPECIFICATION Spec
CONSTANTS
  Bits = {b1}
  Ends = {}
  IdMod = 3
INVARIANTS
  TypeOK
  LabelsArrive
  NoSilentOverwrite
PROPERTIES
  SignalsInOrder
  RaisedIsHandled
