CONSTANTS
  Files = {twelves}
  Content <- PageOfTwelves
  UBUFFSIZE = 9
  CHUNK = 256
  TRIPLES = 85
  CHUNKS = 16
  Stack = {0}
  ULONG = 1000000
SPECIFICATION Spec
INVARIANT BenchAverageIsTheMean
CHECK_DEADLOCK FALSE
