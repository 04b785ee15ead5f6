SPECIFICATION BoardSpec
CONSTANTS
  Workers = {"w1", "w2"}
  Heads = {"h1"}
  MaxRequests = 2
  MaxReports = 3
  MaxRounds = 1
  MaxDepth = 2
  FailureLimit = 2
  Budgets <- Scenarios
INVARIANT MessageInCustody
INVARIANT DoneIsDelivered
PROPERTY RequestsSettle
PROPERTY RoundsClose
PROPERTY OwnerIntegrates
CHECK_DEADLOCK FALSE
