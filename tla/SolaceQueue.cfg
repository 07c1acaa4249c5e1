SPECIFICATION FairSpec
CONSTANTS
  Scripts = {"python", "node"}
  MaxCount = 3
  AdWindow = 1
  MaxDrops = 1
  MaxStops = 2
INVARIANTS TypeOK AckedIsSafe PendingIsUnanswered
PROPERTIES ImplementsDelivery EventuallyHandled Ends
CHECK_DEADLOCK FALSE
