SPECIFICATION Spec
CONSTANTS
  Size = 4
  PosMod = 8
  Byte = {b0}
  Ops = {"put"}
  Line = {}
INVARIANT
  PutResultIsTrue
