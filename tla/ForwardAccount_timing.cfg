SPECIFICATION FairSpec
CONSTANTS
  NMarks = 1
  StartingCash = 12
  MaxPositions = 1
  MaxEntry = 8
  OpenFee = 2
  CloseFee = 1
  Slippage = 1
  EntryDeadline = 2
  ExitDeadline = 1
  Latency = 1
  QuoteAge = 1
  MaxSpread = 30
  TrialStart = 1
  Prices <- TimingPrices
  DayLength = 6
  SessionLength = 5
  CalendarDays = 2
  StampLags = {0, 1}
  LastMarkAt = 3
  MaxClock = 7
  MaxStepBacks = 1
  MaxRollbacks = 1
INVARIANTS
  TypeOK LedgerSound
PROPERTIES
  FillsInTime NothingRewritten HonestEquity EverythingEnds
