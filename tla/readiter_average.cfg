CONSTANTS
  o = o
  p = p
  q = q
  Procs = {o, p, q}
  Owner = o
  UBUFFSIZE = 7
  Buf <- BufShared
  Pages <- MCPages
SPECIFICATION Spec
INVARIANT AverageGoesBackToTheUser
