\* Refuted: a failed pthread_create leaves the call in its loop for ever.
CONSTANTS
  Url = {u1}
  NoIP = NoIP
  MaxCalls = 1
  CreateMayFail = TRUE
SPECIFICATION FairSpec
CHECK_DEADLOCK FALSE
PROPERTIES
  LoopEnds
