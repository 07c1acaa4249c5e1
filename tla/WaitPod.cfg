SPECIFICATION FairSpec
CONSTANTS
  Pod = {1, 2}
  NoPod <- MC_NoPod
  MAX_RETRIES = 5
  MAX_WAIT_RETRIES = 3
INVARIANTS TypeOK ReadyForItsPod NoChildLeft
PROPERTY CallEnds
