SPECIFICATION MCSpec
CONSTANTS
  Request = {r1, r2}
  MaxPool = 3
  MaxWeight = 3
  CounterSize = 8
  MaxTransfer = 2
  MaxBytes = 5
  Loaders = {l1, l2}
  Configs <- MCConfigs
  Classes = {"get", "post"}
  MaxChanges = 1
  None = None
  Sends = {s1, s2}
  Records <- MCRecords
  Literals = {"10.0.0.1"}
  TTL = 2
  MaxTime = 4
  NoEntry = NoEntry
INVARIANTS FairShare LeastBytesSpread
  UndisturbedRequestFollowsLists AddressFresh
CHECK_DEADLOCK FALSE
