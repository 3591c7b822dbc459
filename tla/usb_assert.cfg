SPECIFICATION DevicesSpec
CONSTANTS
  Parts = {"session"}
  Size = 4
  PosMod = 8
  Byte = {b0, b1}
  Event = {e0, e1}
  QueueSlots = 2
  Depth = 1
  MaxQueue = 2
  MaxPackets = 1
  PortEvents = 1
  TicksPerSecond = 2
  SecondsPerMinute = 2
  MinutesPerHour = 1
  HoursPerDay = 1
  Callback = {f}
  NULL = null
  MaxCalls = 1
  Load = 1
  TickMod = 2
  Delays = {0}
  MaxAge = 1
  MaxTransfers = 2
  Char = {a, b}
  MaxString = 1
  MaxHeard = 1
INVARIANT AssertionsHold
