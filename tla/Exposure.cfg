CONSTANTS
  Orders = {o1, o2, o3, o4}
  Symbols = {btc}
  Prices = {1}
  Quotes = {1}
  Requests <- LongRequests
  NoRequest = NoRequest
  NoPrice = NoPrice
  InitialBalance = 100
  MaxTradeRiskPct = 20
  MaxPositionPct = 50
  MaxExposurePct = 50
  MaxDailyDrawdownPct = 30
  MaxWeeklyDrawdownPct = 50
  CoolDown = 1
  SignificantLoss = 1
  MaxDailyTrades = 9
  MinOrderInterval = 0
  MaxTime = 1
  MaxRaises = 0
  MaxInFlight = 1
SPECIFICATION Spec
SYMMETRY OrderSymmetry
INVARIANT ExposureWithinLimit
CHECK_DEADLOCK FALSE
