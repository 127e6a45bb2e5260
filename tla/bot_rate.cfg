SPECIFICATION Spec
CONSTANTS
  a = a
  b = b
  t1 = t1
  t2 = t2
  t3 = t3
  Clients <- MCOneClient
  Tokens <- MCTokens
  NoToken = none
  MaxEntries = 1
  Ttl = 1
  MaxSamples = 2
  Retention = 2
  Minute = 1
  MaxRate = 1
  MaxTime = 1
  MaxRequests = 4
CHECK_DEADLOCK FALSE
PROPERTY RateLimitHolds
