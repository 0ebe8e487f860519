SPECIFICATION Spec
CONSTANTS
  NMarks = 2
  StartingCash = 12
  MaxPositions = 2
  MaxEntry = 8
  OpenFee = 2
  CloseFee = 1
  Slippage = 1
  EntryDeadline = 1
  ExitDeadline = 1
  Latency = 1
  QuoteAge = 0
  MaxSpread = 30
  TrialStart = 0
  Prices <- CashPrices
  DayLength = 4
  SessionLength = 4
  CalendarDays = 2
  StampLags = {0}
  LastMarkAt = 4
  MaxClock = 4
  MaxStepBacks = 0
  MaxRollbacks = 0
INVARIANTS
  WithinMeans
PROPERTIES
  ImplementsCashBook
