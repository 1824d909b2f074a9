SPECIFICATION Spec
CONSTANTS
  ChunkSize = 3
  Lengths = {2}
  MaxRedirects = 1
INVARIANTS
  EventFinishedFirst
CHECK_DEADLOCK FALSE
