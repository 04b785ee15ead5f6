SPECIFICATION Spec
CONSTANTS
  Cards = {c1}
  Agents = {a1}
  Workers = {w1, w2}
  Runs = {r1, r2}
  Beats = {h1, h2}
  None = None
  MaxConcurrent = 1
  MaxRetries = 2
  Outcomes <- FencedOutcomes
  Finished = {"done"}
  Exhausted = {"needs_review", "blocked"}
  Stalls = FALSE
  CrashPoints = {}
  MaxCrashes = 0
  MaxCommands = 1
  Commands = {"cancel", "continue"}
SYMMETRY Interchangeable
INVARIANT ExclusiveAuthority
INVARIANT BeatInCustody
INVARIANT BusyInCustody
PROPERTY ResultNeedsAuthority
