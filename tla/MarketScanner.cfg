CONSTANTS
  Streams = {btc}
  MaxBackoff = 3
  MaxStamp = 2
  MaxTasks = 3
  StopCalls = {c1, c2}
  NoTask = NoTask
SPECIFICATION FairSpec
INVARIANTS
  TypeOK
  OneConnection
  StopStops
PROPERTIES
  NeverBackwards
  KeepsTrying
CHECK_DEADLOCK FALSE
