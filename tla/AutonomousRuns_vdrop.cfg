\* One store call fails: create_run is swallowed and the claim finds no row.
SPECIFICATION RunsSpec
CONSTANTS
  Runs = {r1}
  Workers = {w1}
  Slots = {s1}
  Clients = {c1}
  Keys = {}
  Junk = {}
  NoJob = NoJob
  NoKey = NoKey
  NoRun = NoRun
  NoSession = NoSession
  Lease = 1
  HeartbeatEvery = 1
  Punctual = TRUE
  MaxAttempts = 1
  MaxCrashes = 0
  ReclaimCrashes = FALSE
  MaxDrops = 0
  MaxFaults = 1
INVARIANTS NotDropped
