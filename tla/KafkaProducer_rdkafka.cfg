SPECIFICATION Spec
CONSTANTS
  Scripts = {"rdkafka"}
  QueueMax = 2
  BatchTarget = 1
  PollEvery = 1
  MaxMessages = 3
PROPERTIES PauseMakesRoom
CHECK_DEADLOCK FALSE
