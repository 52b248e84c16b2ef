\* What the process says when the port is taken.
SPECIFICATION Spec
CONSTANTS
  Req = {r1, r2}
  Client = {c1}
  None = None
  Limit = 1
  PoolSize = 1
  MaxFaults = 2
  MaxSignals = 2
  MaxStarts = 1
INVARIANT RunningMeansListening
CHECK_DEADLOCK FALSE
