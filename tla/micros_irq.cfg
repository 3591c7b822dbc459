SPECIFICATION ClockSpec
CONSTANTS
  Load = 6
  TickMod = 3
  Delays = {0}
  MaxAge = 14
INVARIANT
  InterruptCompatible
CHECK_DEADLOCK FALSE
