SPECIFICATION FairSpec
CONSTANTS
  ChunkSize = 3
  Lengths <- MCLengths
  MaxRedirects = 2
INVARIANTS
  TypeOK
  DataIntact
  PastEndOnlyAtBoundary
  NoStaleUse
PROPERTIES
  DownloadSettles
  TeardownCloses
CHECK_DEADLOCK FALSE
