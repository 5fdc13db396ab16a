CONSTANTS
  Trades = {t1, t2}
  Tags = {btc, eth}
  Profits = {gain, loss}
  MaxRows = 3
  MaxClock = 1
  Limits = {0, 1, 2, 5}
SPECIFICATION Spec
INVARIANTS
  TypeOK
  ReturnedIsDurable
  QueriesAreRight
PROPERTIES
  LoggedImmutably
SYMMETRY Symmetry
