\* Two clients that may share an idempotency key, two slots, one crash, one lost request.
SPECIFICATION RunsSpec
CONSTANTS
  Runs = {r1, r2}
  Workers = {w1}
  Slots = {s1, s2}
  Clients = {c1, c2}
  Keys = {k1}
  Junk = {}
  NoJob = NoJob
  NoKey = NoKey
  NoRun = NoRun
  NoSession = NoSession
  Lease = 1
  HeartbeatEvery = 1
  Punctual = TRUE
  MaxAttempts = 1
  MaxCrashes = 1
  ReclaimCrashes = FALSE
  MaxDrops = 1
  MaxFaults = 0
INVARIANTS
  OneRunPerKey
  NotDropped
SYMMETRY Symmetric
