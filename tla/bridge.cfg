SPECIFICATION Spec
CONSTANTS
  Size = 2
  PosMod = 4
  Byte = {b0, b1}
  Line = {"byte"}
  MaxLine <- LineBytes
  MaxPuts = 2
  MaxEarly = 2
INVARIANTS
  TypeOK
  ForwardsWhatArrives
  TakenByteLostOnlyToRival
  KeepsReceiving
  NoneStranded
  WithinCapacity1
PROPERTY
  BacklogIsFrozen
ACTION_CONSTRAINT ValuesFromLine0
SYMMETRY Symmetry
CHECK_DEADLOCK FALSE
