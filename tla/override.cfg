CONSTANTS
  Programs = {"override_exec", "procfs_override"}
  Procs = {me, rival, other}
  Me = me
  me = me
  rival = rival
  other = other
  addr <- MCAddr
  Full = {rival, other}
  Once = {other}
  Files = {"empty", "text", "42x", "42a"}
  ITERATIONS = 2
  MaxReads = 1
SPECIFICATION FairSpec
INVARIANTS SuccessIsOverride CountIsExact EndAfterContents 
PROPERTIES ImplementsTally AllEnd
CHECK_DEADLOCK FALSE
