SPECIFICATION DeskSpec
CONSTANTS
  Threads = {t1, t2}
  Contracts = {c1}
  Quotes <- MCQuotes
  EntryQuotes <- MCEntryQuotes
  Symbols = {s1, s2}
  WatchLimit = 1
  Tickers = {k1, k2}
  LastDay = 1
  MaxRequests = 3
  MaxScans = 1
  MaxPositions = 3
SYMMETRY MCSymmetry
INVARIANTS DeskTypeOK LimitsBound
PROPERTIES PositionsHonest
CHECK_DEADLOCK FALSE
