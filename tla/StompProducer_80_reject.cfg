SPECIFICATION FairSpec
CONSTANTS
  MaxInFlight = 2
  BatchTarget = 1
  TimedAcquire = FALSE
  Faults = {"reject"}
  MaxMessages = 5
PROPERTY RejectionReported
CHECK_DEADLOCK FALSE
