SPECIFICATION FairSpec
CONSTANTS
  Procs = {p1}
  RegTokens = {t1}
  MaxStarts = 2
  MaxFaults = 0
  MaxDeletes = 1
  None = None
PROPERTIES RejectedAgentExits
CHECK_DEADLOCK FALSE
