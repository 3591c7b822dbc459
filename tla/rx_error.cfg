SPECIFICATION Spec
CONSTANTS
  Size = 4
  PosMod = 8
  Byte = {b0}
  Ops = {"get"}
  Line = {"byte", "error"}
INVARIANT
  ReceptionAlive
