SPECIFICATION FairSpec
CONSTANTS
  DayLength = 3
  SessionLength = 2
  MaxClock = 4
  MaxGenerations = 3
INVARIANTS
  TypeOK OneLiveStream
PROPERTIES
  HistoryKept ThreadsFinish
\* The exploration ends at its bounds.
CHECK_DEADLOCK FALSE
