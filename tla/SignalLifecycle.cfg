SPECIFICATION FairSpec
CONSTANTS
  Candidates <- AllCandidates
  Entrants = {e1, e2}
  DayMinutes = 3
  SessionLength = 2
  Lags = {0, 1}
  LastScanAt = 1
  MaxWait = 2
  MaxClock = 5
  MaxRows = 2
  MaxRestarts = 1
INVARIANTS
  TypeOK RowsExplained
PROPERTIES
  NeverRevived ActiveEnds
\* Time ends at MaxClock.
CHECK_DEADLOCK FALSE
