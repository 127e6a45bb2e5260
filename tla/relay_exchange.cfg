CONSTANTS
  ReqMax = 1
  RespMax = 1
  Threshold = 0
  OutCap = 1
  InCap = 1
  SockCap = 1
  SigPipeIgnored = TRUE
SPECIFICATION FairSpec
INVARIANTS
  ActiveAgrees
  ReadsOffWhileRelaying
PROPERTIES
  KeepsPromise
  ExchangeEnds
CHECK_DEADLOCK FALSE
