CONSTANTS
  FastWindow = 1
  SlowWindow = 2
  RSIWindow = 1
  BandWindow = 2
  Strength = {75, 100}
  Prices = {2, 4}
  Bars <- BarsOfPrices
  Attachable <- OneMore
  AtStart <- FewFeatures
  Enabled <- AllEnabled
  Weights = {0, 2}
  StartWeight <- EvenWeights
  Engines = {"weighted", "majority"}
  MaxCandles = 3
  MaxInFlight = 2
  MaxChanges = 2
SPECIFICATION Spec
INVARIANTS
  TypeOK
  OnlyWarm
  StoreMirrorsFeatures
  ConsensusSound
  StopDrains
CHECK_DEADLOCK FALSE
