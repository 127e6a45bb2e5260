SPECIFICATION FairSpec
CONSTANTS
  MaxSize = 5
  BufSize = 3
  HeadSize = 2
  SockCap = 2
CHECK_DEADLOCK FALSE
INVARIANTS
  TypeOK
  Conserved
  Framed
  NoDescriptorLeak
  StreamIsPolled
PROPERTIES
  StreamEnds
  KeepsAlive
