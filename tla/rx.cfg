SPECIFICATION PollingSpec
CONSTANTS
  Size = 4
  PosMod = 8
  Byte = {b0, b1}
  Ops = {"get"}
  Line = {"byte"}
INVARIANTS
  TypeOK
  RequestsHaveRoom
  ReceptionAlive
  RxDamageOnlyInSlot0
PROPERTY
  OverflowEnds
