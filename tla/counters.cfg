CONSTANTS
  Programs = {"open_tp", "sampleip", "sock"}
  Cpus = {c1, c2}
  Me = c1
  c1 = c1
  c2 = c2
  Ips <- MCIps
  MAX_IPS = 2
  Rounds = 2
  MaxHits = 2
SPECIFICATION FairSpec
INVARIANTS PrintFitsCounts OnlyOverlapLoses VerifyNeverComplains PrintIsFinal DropIsReported
PROPERTIES ImplementsTally UserEnds
CHECK_DEADLOCK FALSE
