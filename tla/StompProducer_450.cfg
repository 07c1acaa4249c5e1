SPECIFICATION FairSpec
CONSTANTS
  MaxInFlight = 2
  BatchTarget = 2
  TimedAcquire = TRUE
  Faults = {"reject", "drop"}
  MaxMessages = 4
INVARIANTS TypeOK PermitsConserved ReceiptsAreRegistered CountedOnce
PROPERTIES ImplementsWindow Terminates
CHECK_DEADLOCK FALSE
