SPECIFICATION FairSpec
CONSTANTS
  MaxSends = 2
  MaxRetries = 1
  MaxRecords = 3
  MaxStops = 2
INVARIANTS TypeOK ReportIsTrue CountedOnceUnlessKilled
PROPERTIES ImplementsDelivery EventuallyRead ProducerExits
CHECK_DEADLOCK FALSE
