CONSTANTS
  o = o
  p = p
  q = q
  Procs = {o, p}
  Owner = o
  UBUFFSIZE = 7
  Buf <- BufDistinct
  Pages <- MCPages
SPECIFICATION FairSpec
INVARIANTS ForeignReadsIntact AnswerIsMine NoSilentLoss
PROPERTY ReadsReturn
