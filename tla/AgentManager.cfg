CONSTANTS
  logger = logger
  log2 = log2
  Agents = {echo, logger, log2}
  Ids = {echo, logger}
  IdOf <- SharedId
  MaxCalls = 4
  NoAgent = NoAgent
  echo = echo
SPECIFICATION FairSpec
INVARIANTS
  InitializedIsStarting
  RegistryIsLive
  OneWrapperPerStart
PROPERTIES
  EveryCallEnds
CHECK_DEADLOCK FALSE
