SPECIFICATION Spec
CONSTANTS
  Deployments = {TRUE}
  BufferSize = 2
  MaxBuffer = 2
  Timers = {w1, w2}
  MaxChanges = 2
  MaxFaults = 0
INVARIANT ResyncClosesGaps
CHECK_DEADLOCK FALSE
