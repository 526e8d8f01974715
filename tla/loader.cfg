CONSTANTS
  a = a
  b = b
  Loaders = {a, b}
  Scenes <- AloneOrPair
  MAX_PROGS = 4
  MaxStarts = 2
SPECIFICATION FairSpec
INVARIANTS TypeOK   UserAndProbesShareMaps LoadsAreIndependent ProbesWhereDeclared OldProbesAreGone
PROPERTY LoadReturns
CHECK_DEADLOCK FALSE
