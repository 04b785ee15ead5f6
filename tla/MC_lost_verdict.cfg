SPECIFICATION ReviewSpec
CONSTANTS
  Reviewers = {r1, r2}
  Issues = {"nit"}
  Blocking = {}
  None = None
  MaxRounds = 2
  MaxLevel = 0
  MaxRevisions = 1
  MaxAttempts = 1
  FailureLimit = 2
  Parked = {"in_progress"}
  Unavailable = {}
  CrashPoints = {}
  Scenarios <- BlindScenarios
PROPERTY ApprovalIsUnanimous
CHECK_DEADLOCK FALSE
