SPECIFICATION FairSpec
CONSTANTS
  N = 3
  Kinds = {"get", "upload"}
  Failing = {}
  Lines = {"upload"}
  Nested = {"upload"}
  SizeMax = 16
CHECK_DEADLOCK FALSE
INVARIANT OneAnswerEach
PROPERTY EachAnswered
