SPECIFICATION Spec
CONSTANTS
  p1 = p1
  p2 = p2
  p3 = p3
  c1 = c1
  c2 = c2
  k1 = k1
  k2 = k2
  Peers <- MCPeers
  Procs <- MCProcs
  Pids <- MCPids
  Nil = Nil
  FdLimit = 12
  Pipelined = FALSE
CHECK_DEADLOCK FALSE
SYMMETRY MCSymmetry
INVARIANTS
  TypeOK
  TablesAgree
  DescriptorsOwned
  NoOrphan
  ZombiesAnnounced
PROPERTIES
  SignalsByHolder
  ClosesOwnScript
