SPECIFICATION DevicesFairSpec
CONSTANTS
  Parts = {"fifo", "spi", "queue", "session", "cdc", "rtc", "clock", "search"}
  Size = 4
  PosMod = 8
  Byte = {b0, b1}
  Event = {e0, e1}
  QueueSlots = 4
  Depth = 3
  MaxQueue = 2
  MaxPackets = 2
  PortEvents = 2
  TicksPerSecond = 2
  SecondsPerMinute = 2
  MinutesPerHour = 2
  HoursPerDay = 3
  Callback = {f, g}
  NULL = null
  MaxCalls = 3
  Load = 6
  TickMod = 3
  Delays = {0, 1, 2}
  MaxAge = 14
  MaxTransfers = 4
  Char = {a, b}
  MaxString = 4
  MaxHeard = 6
INVARIANTS
  TypeOK
  RoomForStores
  ClaimStillTrue
  DevicesTypeOK
  EventsIntact
  NoneLeftInvisible
  CalmAssertionsHold
  SettledFollowsCable
  AsleepOnlyOnSleepingBus
  NotStuckResuming
  OpenPortListens
  BusyMeansSending
  EchoStartsIntact
  SetTimeLosesAtMostACarry
  NullCalledOnlyMidCall
  AlarmRingsOncePerSetting
  MicrosIsTimely
  DelayLongEnough
  BusyExactlyWhileTransferring
  MultiFindsTheFirst
  FindMissesOnlyRepeats
PROPERTIES
  ImplementsQueue
  ImplementsEventQueue
  ArmedAlarmRings
CHECK_DEADLOCK FALSE
