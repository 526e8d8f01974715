CONSTANTS
  Files <- SmallFiles
  Content <- Itself
  UBUFFSIZE = 9
  CHUNK = 7
  TRIPLES = 2
  CHUNKS = 3
  Stack = {0, 55}
  ULONG = 65536
SPECIFICATION Spec
INVARIANTS  UserAverages BenchNeedsWholePage
CHECK_DEADLOCK FALSE
