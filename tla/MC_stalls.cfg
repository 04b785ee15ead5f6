SPECIFICATION Spec
CONSTANTS
  Cards = {c1}
  Agents = {a1}
  Workers = {w1, w2}
  Runs = {r1, r2}
  Beats = {h1, h2}
  None = None
  MaxConcurrent = 1
  MaxRetries = 2
  Outcomes = {"completed", "failed"}
  Finished = {"done"}
  Exhausted = {"needs_review"}
  Stalls = TRUE
  CrashPoints = {}
  MaxCrashes = 0
  MaxCommands = 0
  Commands = {}
SYMMETRY Interchangeable
INVARIANT LeaseInv
INVARIANT ExclusiveAuthority
PROPERTY ResultNeedsAuthority
PROPERTY ImplementsLease
