\* What a signal does to the requests that the handlers hold.
SPECIFICATION FairSpec
CONSTANTS
  Req = {r1, r2}
  Client = {c1}
  None = None
  Limit = 1
  PoolSize = 1
  MaxFaults = 2
  MaxSignals = 2
  MaxStarts = 1
PROPERTY GracefulShutdown
CHECK_DEADLOCK FALSE
