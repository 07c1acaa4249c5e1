SPECIFICATION Spec
CONSTANTS
  MaxInt = 98
  Versions <- MCVersions
  Protos <- MCProtos
  MaxBumps = 5
INVARIANTS ComparesBySpec NeverBelowARelease
CHECK_DEADLOCK FALSE
