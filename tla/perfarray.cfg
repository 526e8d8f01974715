CONSTANTS
  MAX_CNT = 8
  RingBytes = 192
  SAMPLE = 32
  LOST = 24
SPECIFICATION FairSpec
INVARIANTS EachCountedOnce NoRecordStranded PrintedOnce 
PROPERTY Finishes
CHECK_DEADLOCK FALSE
