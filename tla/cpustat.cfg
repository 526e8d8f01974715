CONSTANTS
  Cpus = {0}
  MAX_CPU = 2
  MAX_CSTATE_ENTRIES = 2
  MAX_PSTATE_ENTRIES = 2
  cpu_opps <- MCOpps
  Frequencies = {208, 432, 999}
  Modes <- BothModes
  U32 = 256
  U64 = 1024
SPECIFICATION Spec
INVARIANTS IdleTimeWithinElapsed NoTimeCountedTwice PrintedWithinElapsed RowsAreSeparate
