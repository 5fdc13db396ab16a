CONSTANTS
  FastWindow = 2
  SlowWindow = 3
  RSIWindow = 2
  BandWindow = 6
  Strength = {75, 100}
  Prices = {}
  Bars <- SeveralBars
  Attachable = {}
  AtStart <- EveryFeature
  Enabled <- AllEnabled
  Weights = {1, 2}
  StartWeight <- UnevenWeights
  Engines = {"weighted"}
  MaxCandles = 7
  MaxInFlight = 1
  MaxChanges = 0
SPECIFICATION Spec
INVARIANTS
  FeaturesAreRight
CHECK_DEADLOCK FALSE
