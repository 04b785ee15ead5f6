INIT ReviewInit
NEXT ReviewNext
CONSTANTS
  Reviewers = {r1, r2}
  Issues = {"crash"}
  Blocking = {"crash"}
  None = None
  MaxRounds = 2
  MaxLevel = 0
  MaxRevisions = 1
  MaxAttempts = 1
  FailureLimit = 2
  Parked = {"in_progress"}
  Unavailable = {}
  CrashPoints = {}
  Scenarios <- SafetyScenarios
SYMMETRY AnyReviewer
INVARIANT RevisionBudget
PROPERTY OneDecision
PROPERTY GateHolds
CHECK_DEADLOCK FALSE
