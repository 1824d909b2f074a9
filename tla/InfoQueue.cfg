SPECIFICATION FairSpec
CONSTANTS
  Players = {p1, p2}
  NoPlayer = NoPlayer
  MaxCalls = 3
  MaxFragments = 2
  MallocSlots = 3
  EarlyShutdown = FALSE
INVARIANTS
  TypeOK
  RepliesReachTheirOwner
  BuffersUnmixed
  NoLostWakeup
  NoUseAfterFree
PROPERTIES
  ImplementsService
  EveryCallSettles
  ShutdownCloses
CHECK_DEADLOCK FALSE
