CONSTANTS
  MaxSockets = 3
  Casts = {b1}
SPECIFICATION FairSpec
INVARIANTS
  TypeOK
  RendererFollows
PROPERTIES
  CastReachesAll
  Reconnects
CHECK_DEADLOCK FALSE
