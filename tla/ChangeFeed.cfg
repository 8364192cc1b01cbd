SPECIFICATION FairSpec
CONSTANTS
  Deployments = {TRUE, FALSE}
  BufferSize = 2
  MaxBuffer = 2
  Timers = {w1}
  MaxChanges = 3
  MaxFaults = 1
INVARIANT HintNeverLost
PROPERTY EventuallyConverges
CHECK_DEADLOCK FALSE
