SPECIFICATION FairSpec
CONSTANTS
  Cards = {c1}
  Agents = {a1}
  Workers = {w1, w2}
  Runs = {r1, r2, r3, r4}
  Beats = {h1, h2, h3, h4}
  None = None
  MaxConcurrent = 1
  MaxRetries = 2
  Outcomes = {"completed", "failed"}
  Finished = {"done"}
  Exhausted = {"needs_review"}
  Stalls = FALSE
  CrashPoints = {"executing"}
  MaxCrashes = 1
  MaxCommands = 0
  Commands = {}
INVARIANT RunInCustody
INVARIANT CardInCustody
 
PROPERTY RunsEnd
