SPECIFICATION Spec
CONSTANTS
  a = a
  b = b
  t1 = t1
  t2 = t2
  t3 = t3
  Clients <- MCClients
  Tokens <- MCTokens
  NoToken = none
  MaxEntries = 2
  Ttl = 1
  MaxSamples = 2
  Retention = 1
  Minute = 1
  MaxRate = 1
  MaxTime = 3
  MaxRequests = 4
CHECK_DEADLOCK FALSE
SYMMETRY MCSymmetry
INVARIANTS TypeOK StoreBounded HistoryIsRecent
PROPERTIES OldestLeaves BypassIsEarned
