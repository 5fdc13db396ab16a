CONSTANTS
  Handlers = {h1, h2}
  Types = {tick}
  Messages = {m1, m2}
  tick = tick
  TypeOf <- AllTicks
  MaxHistory = 1
  MaxEpoch = 1
SPECIFICATION Spec
INVARIANTS
  TypeOK
  OncePerMessage
PROPERTIES
  OnlyRemovalsMislead
CHECK_DEADLOCK FALSE
