\* A database that is down, as the client sees it.
SPECIFICATION ErrorSpec
INVARIANT OutageIsServerError
CHECK_DEADLOCK FALSE
