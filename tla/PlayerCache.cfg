SPECIFICATION Spec
CONSTANTS
  p1 = p1
  p2 = p2
  p3 = p3
  long = long
  Players <- MCPlayers
  Long <- MCLong
  MaxStarts = 4
SYMMETRY MCSymmetry
INVARIANTS
  SavedIsLoaded
  NothingInvented
CHECK_DEADLOCK FALSE
