SPECIFICATION Spec
CONSTANTS
  Opps = {1, 2}
  Setups <- MCSetups
  Costs <- MCCosts
  StartingCash = 12
  MaxPositions = 2
  MaxEntry = 7
  OpenFee = 1
  CloseFee = 1
  MaxSpread = 10
  MinuteTicks = 2
  DayMinutes = 9
  Opening = 1
  Cutoff = 5
  Closing = 8
  EntryDeadline = 3
  ExitDeadline = 2
  Latency = 1
  QuoteAge = 1
  RetestBars = 2
  Moves <- MCMoves
  Markets <- MCMarkets
  Ages = {0}
  Lags = {0}
  Finds <- MCFinds
  Breakable = {1}
  ScanGaps = {2, 3}
  StartGaps = {3}
  Activated = 1
  LastBuyAt = 5
  LastDriftAt = 5
  MaxClock = 20
INVARIANTS TypeOK EntriesEarned ExitsProven 
CHECK_DEADLOCK FALSE
