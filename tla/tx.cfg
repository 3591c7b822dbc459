SPECIFICATION FairSpec
CONSTANTS
  Size = 4
  PosMod = 8
  Byte = {b0, b1}
  Ops = {"put", "flush"}
  Line = {}
INVARIANT
  TxDamageOnlyInSlot0
PROPERTY
  QueuedByteLeaves
