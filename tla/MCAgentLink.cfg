SPECIFICATION MCSpec
CONSTANTS
  UnreachableThreshold = 2
  RecoverThreshold = 1
  FailClosed = TRUE
  Readers = {r1}
  MaxTime = 10
  HeartbeatInterval = 1
  InitialBackoff = 1
  MaxBackoff = 2
  MaxCPChanges = 3
INVARIANTS TypeOK FastPathSound OutageDetected OutageHealed
PROPERTIES NoFalseUnreachable SnapshotLinearizable ImplementsCPLink
CHECK_DEADLOCK FALSE
