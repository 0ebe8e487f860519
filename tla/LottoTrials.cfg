SPECIFICATION Spec
CONSTANTS
  Policies <- MCPolicies
  Trackers = {1, 2}
  Symbol <- MCSymbol
  Markets <- MCMarkets
  EntryFee = 1
  ExitFee = 1
  Slippage = 1
  QuoteAge = 1
  EntryDeadline = 1
  ExitDeadline = 1
  EntryLead = 2
  ExitLead = 2
  MaxSpread = 30
  DayTicks = 6
  SessionTicks = 5
  Lags = {0, 2}
  Ages = {0}
  Activated = 0
  LastScanAt = 7
  MaxClock = 7
INVARIANTS TypeOK PairsAgree MoneyAccounted InTime
PROPERTIES MissedStaysMissed
CHECK_DEADLOCK FALSE
