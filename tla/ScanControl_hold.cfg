SPECIFICATION ControlSpec
CONSTANTS
  Requests = {r1}
  DayLength = 4
  Minute = 1
  Holidays = {1}
  LastHoliday = 1
  EarlyCloses = {2}
  PREMARKET_OPEN = 0
  REGULAR_OPEN = 1
  EARLY_CLOSE = 2
  REGULAR_CLOSE = 3
  CloseDelay = 0
  ProviderLags = {0}
  LastFireAt = 2
  MaxScan = 2
  MaxInstant = 3
  MaxCommands = 1
  MaxCrashes = 0
  MaxWatches = 1
PROPERTIES
  HoldBlocksNewScans
\* Time ends at MaxClock.
CHECK_DEADLOCK FALSE
