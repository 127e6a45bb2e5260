CONSTANTS
  ReqMax = 0
  RespMax = 3
  Threshold = 1
  OutCap = 2
  InCap = 1
  SockCap = 1
  SigPipeIgnored = TRUE
SPECIFICATION Spec
INVARIANTS
  TypeOK
  PausedIsResumed
  OutputIsPolled
  NothingLost
PROPERTY PauseHolds
