CONSTANTS
  MaxNames = 2
  MaxRecords = 3
  MaxLoops = 2
  Room = 2
  Stops = {s1}
SPECIFICATION SchedulerFairSpec
INVARIANTS
  SchedulerTypeOK
  OnlyMisuseDuplicates
PROPERTIES
  StopJoins
  LoopsGoOn
CHECK_DEADLOCK FALSE
