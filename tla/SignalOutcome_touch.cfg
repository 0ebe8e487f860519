\* One tick is five seconds: a chain is cached for 20 s, a minute has 12 ticks.
SPECIFICATION Spec
CONSTANTS
  Signals = {1}
  MinuteTicks = 12
  DayMinutes = 3
  SessionMinutes = 3
  Cutoff = 2
  MaxQuoteLag = 36
  ChainTTL = 4
  Lags = {0}
  Moves <- LateMoves
  LastTrackAt = 1
  MaxClock = 30
INVARIANTS
  BidAfterTouch
CHECK_DEADLOCK FALSE
