CONSTANTS
  Orders = {o1, o2, o3}
  Symbols = {btc}
  Prices = {2}
  Quotes = {2}
  Requests <- TwoLongs
  NoRequest = NoRequest
  NoPrice = NoPrice
  InitialBalance = 30
  MaxTradeRiskPct = 100
  MaxPositionPct = 200
  MaxExposurePct = 150
  MaxDailyDrawdownPct = 30
  MaxWeeklyDrawdownPct = 50
  CoolDown = 1
  SignificantLoss = 1
  MaxDailyTrades = 1
  MinOrderInterval = 2
  MaxTime = 3
  MaxRaises = 1
  MaxInFlight = 2
SPECIFICATION Spec
SYMMETRY OrderSymmetry
INVARIANTS
  DailyFillBound
  FillPacing
CHECK_DEADLOCK FALSE
