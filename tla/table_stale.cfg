SPECIFICATION Spec
CONSTANTS
  p1 = p1
  p2 = p2
  p3 = p3
  c1 = c1
  c2 = c2
  k1 = k1
  k2 = k2
  Peers <- MCThreePeers
  Procs <- MCOneProc
  Pids <- MCOnePid
  Nil = Nil
  FdLimit = 11
  Pipelined = FALSE
CHECK_DEADLOCK FALSE
SYMMETRY MCStaleSymmetry
PROPERTY QuietIsKept
