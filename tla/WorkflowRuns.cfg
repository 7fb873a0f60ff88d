\* Two replicas, three requests, a restart, a store call that fails, a cache of one run.
SPECIFICATION WorkflowSpec
CONSTANTS
  Replicas = {p1, p2}
  Requests = {c1, c2, c3}
  Runs = {r1, r2}
  Keys = {k1}
  NoKey = NoKey
  Steps <- MCSteps
  Gates <- MCGates
  Entry = "assess"
  Succ <- MCSucc
  Branches = {"assess"}
  End = "end"
  MaxAttempts <- MCAttempts
  MaxSteps = 2
  CacheSize = 1
  Nothing = Nothing
  MaxRestarts = 1
  MaxFaults = 1
INVARIANTS
  WorkflowTypeOK
  ApprovedOnly
  SoleCopyIsGated
  RecordIsAudited
  KeyHeldUnlessOvertaken
PROPERTIES
  EndedStands
SYMMETRY Symmetric
CHECK_DEADLOCK FALSE
