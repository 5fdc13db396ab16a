CONSTANTS
  Orders = {o1, o2}
  Symbols = {btc}
  Prices = {2, 3}
  Quotes = {2}
  Requests <- MixedRequests
  NoRequest = NoRequest
  NoPrice = NoPrice
  InitialBalance = 7
  MaxTradeRiskPct = 100
  MaxPositionPct = 200
  MaxExposurePct = 150
  MaxDailyDrawdownPct = 30
  MaxWeeklyDrawdownPct = 50
  CoolDown = 1
  SignificantLoss = 1
  MaxDailyTrades = 2
  MinOrderInterval = 0
  MaxTime = 1
  MaxRaises = 1
  MaxInFlight = 2
SPECIFICATION FairSpec
INVARIANTS
  BooksBalance
  FilledIffPosition
  ValueLacksHoldings
PROPERTIES
  ImplementsLedger
  EverySubmitEnds
CHECK_DEADLOCK FALSE
