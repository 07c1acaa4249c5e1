SPECIFICATION FairSpec
CONSTANTS
  Scripts = {"450MB", "80MB", "latency", "protobuf"}
  QueueMax = 2
  BatchTarget = 3
  PollEvery = 2
  MaxMessages = 4
INVARIANTS TypeOK Accounted ReportIsComplete
PROPERTIES ImplementsWindow PauseMakesRoom Terminates
CHECK_DEADLOCK FALSE
