SPECIFICATION Spec
CONSTANTS
  Size = 2
  PosMod = 4
  Byte = {b0}
  Line = {"byte"}
  MaxLine <- LineBytes
  MaxPuts = 2
  MaxEarly = 2
INVARIANT
  WithinCapacity0
CHECK_DEADLOCK FALSE
