SPECIFICATION Spec
CONSTANTS
  N = 1
  Kinds = {"chunked"}
  Failing = {}
  Lines = {}
  Nested = {}
  SizeMax = 16
CHECK_DEADLOCK FALSE
INVARIANT ChunkedStored
