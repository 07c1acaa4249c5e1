SPECIFICATION Spec
CONSTANTS
  Scripts = {"python"}
  MaxCount = 2
  AdWindow = 1
  MaxDrops = 0
  MaxStops = 0
INVARIANTS AckMeansStored
CHECK_DEADLOCK FALSE
