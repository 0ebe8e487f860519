SPECIFICATION FairSpec
CONSTANTS
  Signals = {1, 2}
  MinuteTicks = 2
  DayMinutes = 4
  SessionMinutes = 3
  Cutoff = 1
  MaxQuoteLag = 3
  ChainTTL = 2
  Lags = {0, 1}
  Moves <- MixedMoves
  LastTrackAt = 3
  MaxClock = 8
INVARIANTS
  TypeOK MarksSound
PROPERTIES
  OutcomesSound EntriesGetExits
\* Time ends at MaxClock.
CHECK_DEADLOCK FALSE
