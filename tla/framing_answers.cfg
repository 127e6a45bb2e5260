SPECIFICATION Spec
CONSTANTS
  N = 3
  Kinds = {"get", "post", "big", "upload", "multi", "parts", "chunked",
           "badline", "badhead", "huge"}
  Failing = {"upload", "multi", "chunked"}
  Lines = {"post", "upload", "badhead"}
  Nested = {"post", "upload", "badhead"}
  SizeMax = 16
CONSTRAINT MCLast
CHECK_DEADLOCK FALSE
INVARIANTS
  TypeOK
  NoMisdelivery
  NoStall
  UploadsWhole
