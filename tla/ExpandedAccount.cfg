SPECIFICATION Spec
CONSTANTS
  Marks = {1, 2}
  Expiry <- MCExpiry
  Legacy = {1}
  LegacyDebit = 4
  StartingCash = 10
  MaxPositions = 2
  MaxEntry = 6
  OpenFee = 1
  CloseFee = 1
  Slippage = 1
  MaxSpread = 10
  EntryDeadline = 1
  ExitDeadline = 1
  Latency = 1
  QuoteAge = 1
  DayTicks = 5
  Closing = 4
  Markets <- MCMarkets
  Arrivals <- MCArrivals
  Endings <- MCEndings
  Feeds = {"healthy"}
  Ages = {0}
  Refs = {1}
  MaxWait = 1
  MaxRequests = 2
  FirstRequestAt = 8
  LastMarkAt = 0
  MaxClock = 9
INVARIANTS TypeOK MoneyConserved RecordsInOrder ExitsEvidenced
CHECK_DEADLOCK FALSE
