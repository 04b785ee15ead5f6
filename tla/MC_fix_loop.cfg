SPECIFICATION ReviewSpec
CONSTANTS
  Reviewers = {r1}
  Issues = {"crash"}
  Blocking = {"crash"}
  None = None
  MaxRounds = 5
  MaxLevel = 1
  MaxRevisions = 1
  MaxAttempts = 2
  FailureLimit = 2
  Parked = {"waiting_on_external"}
  Unavailable = {}
  CrashPoints = {}
  Scenarios <- FixScenarios
PROPERTY ReviewEnds
PROPERTY FixLoopEnds
CHECK_DEADLOCK FALSE
