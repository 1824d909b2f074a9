SPECIFICATION Spec
CONSTANTS
  k1 = k1
  k2 = k2
  k3 = k3
  k4 = k4
  k5 = k5
  Keys <- MCKeys
  DataOf <- MCDataOf
  NULL = NULL
  Hashes <- MCHashes
  Capacities = {3, 4, 6}
  HASHMAP_SIZE_MIN = 4
  HASHMAP_SIZE_DEFAULT = 4
INVARIANTS
  TypeOK
  VisitsEach
  ReservationHolds
PROPERTIES
  ImplementsMap
CHECK_DEADLOCK FALSE
