SPECIFICATION FairSpec
CONSTANTS
  Procs = {p1, p2}
  RegTokens = {t1, t2}
  MaxStarts = 3
  MaxFaults = 2
  MaxDeletes = 1
  None = None
INVARIANTS NoSecondRegister ReadyIsDurable DeregisteredIsPassive
PROPERTIES CredentialsKept FatalIsHopeless Settles
CHECK_DEADLOCK FALSE
