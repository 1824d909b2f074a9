SPECIFICATION FairSpec
CONSTANTS
  Videos = {v1, v2}
  Packets <- MCPackets
INVARIANTS
  MuxedOnceComplete
  MuxedInPace
  NoUseAfterFree
PROPERTIES
  EveryVideoSettles
CHECK_DEADLOCK FALSE
