CONSTANTS
  ReqMax = 2
  RespMax = 0
  Threshold = 0
  OutCap = 1
  InCap = 1
  SockCap = 1
  SigPipeIgnored = TRUE
SPECIFICATION Spec
INVARIANTS
  BodyReachesScript
CHECK_DEADLOCK FALSE
