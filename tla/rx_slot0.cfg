SPECIFICATION Spec
CONSTANTS
  Size = 4
  PosMod = 8
  Byte = {b0, b1}
  Ops = {"get"}
  Line = {"byte"}
INVARIANT
  RxUnreadIntact
