SPECIFICATION FairSpec
CONSTANTS
  Manifests <- MCManifests
  MaxPieces = 2
  EarlyShutdown = FALSE
INVARIANTS
  SegmentsInOrder
PROPERTIES
  StreamsSettle
  TeardownCloses
CHECK_DEADLOCK FALSE
