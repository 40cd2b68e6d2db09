SPECIFICATION FairSpec
CONSTANTS
  Periods = {1, 60}
  Watchdog = 50
  MaxKept = 1
  MaxPresses = 2
  MaxTouches = 2
INVARIANTS
  TimersNeverRun
  RestartsNeedTouches
PROPERTIES
  PressTakesEffect
  TouchIsDelivered
  ShutdownCompletes
CHECK_DEADLOCK FALSE
