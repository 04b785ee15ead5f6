SPECIFICATION Spec
CONSTANTS
  Cards = {c1, c2}
  Agents = {a1, a2}
  Workers = {w1, w2}
  Runs = {r1, r2, r3}
  Beats = {h1, h2, h3}
  None = None
  MaxConcurrent = 1
  MaxRetries = 2
  Outcomes <- AdmittedOutcomes
  Finished = {"done"}
  Exhausted = {"needs_review"}
  Stalls = FALSE
  CrashPoints = {}
  MaxCrashes = 0
  MaxCommands = 0
  Commands = {}
SYMMETRY Interchangeable
INVARIANT BeatInCustody
INVARIANT BusyInCustody
PROPERTY AuthorityKept
