SPECIFICATION Spec
CONSTANTS
  MaxWrites = 1
  MaxInits = 1
  EarlyShutdown = FALSE
INVARIANTS
  OkMeansSent
CHECK_DEADLOCK FALSE
