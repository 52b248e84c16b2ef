\* Every kind of error through the middleware, and the calls of the adapters.
SPECIFICATION Spec
CONSTANTS
  MaxMails = 3
  Amounts = {0, 4, 5, 994, 1000, 10000, 12345}
  Paid = 1000
INVARIANTS TypeOK AppErrorsKeepTheirStatus ConstraintErrorsAreClientErrors BulkMailsInOrder
CHECK_DEADLOCK FALSE
