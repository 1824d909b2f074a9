SPECIFICATION Spec
CONSTANTS
  Players = {p1}
  NoPlayer = NoPlayer
  MaxCalls = 2
  MaxFragments = 1
  MallocSlots = 3
  EarlyShutdown = FALSE
INVARIANTS
  QueueFits
CHECK_DEADLOCK FALSE
