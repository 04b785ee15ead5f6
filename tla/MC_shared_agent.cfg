SPECIFICATION Spec
CONSTANTS
  Cards = {c1, c2}
  Agents = {a1}
  Workers = {w1, w2}
  Runs = {r1, r2, r3}
  Beats = {h1, h2, h3}
  None = None
  MaxConcurrent = 1
  MaxRetries = 2
  Outcomes = {"completed", "progress", "failed", "unready", "deferred"}
  Finished = {"done"}
  Exhausted = {"needs_review"}
  Stalls = FALSE
  CrashPoints = {"claimed", "chosen", "executing"}
  MaxCrashes = 1
  MaxCommands = 0
  Commands = {}
SYMMETRY Interchangeable
INVARIANT CardInCustody
