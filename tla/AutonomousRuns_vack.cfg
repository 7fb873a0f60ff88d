\* A worker that dies with a run in hand: its refused claim is acked.
SPECIFICATION RunsSpec
CONSTANTS
  Runs = {r1}
  Workers = {w1}
  Slots = {s1}
  Clients = {c1}
  Keys = {}
  Junk = {}
  NoJob = NoJob
  NoKey = NoKey
  NoRun = NoRun
  NoSession = NoSession
  Lease = 1
  HeartbeatEvery = 1
  Punctual = TRUE
  MaxAttempts = 1
  MaxCrashes = 1
  ReclaimCrashes = FALSE
  MaxDrops = 0
  MaxFaults = 0
INVARIANTS SafeToAck
