SPECIFICATION FairSpec
CONSTANTS
  MaxWrites = 3
  MaxInits = 2
  EarlyShutdown = FALSE
INVARIANTS
  TypeOK
  NoHandleMisuse
  QuietAfterClose
PROPERTIES
  ImplementsConnection
  ConnectSettles
  WritesSettle
  ShutdownCompletes
CHECK_DEADLOCK FALSE
