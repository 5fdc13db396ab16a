CONSTANTS
  Candles <- MCCandles
  MaxChunks = 3
  NoTime = NoTime
SPECIFICATION FairSpec
INVARIANTS
  MergedInOrder
  AtMostOneMore
PROPERTIES
  EveryReplayEnds
