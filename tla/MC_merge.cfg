SPECIFICATION MergeSpec
CONSTANTS
  Servers = {s1, s2}
  Heads = {h1, h2}
  None = None
  MaxWaits = 2
  MaxPolls = 2
  MaxAttempts = 2
  MaxAsks = 1
  Modes = {TRUE, FALSE}
  Commands <- AllCommands
  CrashPoints = {"post", "handle", "moved"}
  Budgets <- AnyTrouble
INVARIANT MergeTypeOK
INVARIANT DoneIsMerged
INVARIANT OneMergeWait
INVARIANT MergeIsFenced
INVARIANT OneRequest
PROPERTY IntentsStaySettled
PROPERTY WaitsResolveOnce
SYMMETRY Symmetric
CHECK_DEADLOCK FALSE
