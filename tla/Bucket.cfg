SPECIFICATION Spec
CONSTANTS
  Buckets <- Both
  Requests <- SignIns
  Asks <- SignInAsks
  Missing = Missing
  Capacity = 4
  Cost = 3
  Skew = 1
  Delay = 1
  MaxTime = 8
  MaxCalls = 4
INVARIANTS TypeOK WithinBudget AdmittedHavePaid RetryIsClose
PROPERTIES ExpiryForgivesNothing
CHECK_DEADLOCK FALSE
