\* What the container's health check is answered.
SPECIFICATION Spec
CONSTANTS
  Req = {r1, r2}
  Client = {c1}
  None = None
  Limit = 1
  PoolSize = 1
  MaxFaults = 2
  MaxSignals = 2
  MaxStarts = 1
INVARIANT HealthCheckPasses
CHECK_DEADLOCK FALSE
