SPECIFICATION FairSpec
CONSTANTS
  Size = 2
  PosMod = 4
  Byte = {b0}
  Ops = {"put", "get", "flush", "reopen"}
  Line = {"byte", "error"}
INVARIANTS
  FifosWithinCapacity
  NoByteStranded
