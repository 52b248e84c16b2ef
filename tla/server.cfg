\* The whole server: two requests, one connection, one hit per window, failures, signals, a restart.
SPECIFICATION FairSpec
CONSTANTS
  Req = {r1, r2}
  Client = {c1}
  None = None
  Limit = 1
  PoolSize = 1
  MaxFaults = 2
  MaxSignals = 2
  MaxStarts = 1
INVARIANTS TypeOK OkIsComplete HandlersAwaitQueries
PROPERTIES AnsweredOnce RequestsSettle ShutdownEnds
CHECK_DEADLOCK FALSE
