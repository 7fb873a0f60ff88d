\* Two replicas, each with the run in its cache: one is asked to reject it, one to approve.
SPECIFICATION WorkflowSpec
CONSTANTS
  Replicas = {p1, p2}
  Requests = {c1, c2, c3}
  Runs = {r1}
  Keys = {}
  NoKey = NoKey
  Steps <- MCSteps
  Gates <- MCGates
  Entry = "assess"
  Succ <- MCSucc
  Branches = {"assess"}
  End = "end"
  MaxAttempts <- MCAttempts
  MaxSteps = 2
  CacheSize = 1
  Nothing = Nothing
  MaxRestarts = 0
  MaxFaults = 0
INVARIANTS RejectedNeverRuns
CHECK_DEADLOCK FALSE
