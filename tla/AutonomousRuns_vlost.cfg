\* Heartbeats stall: the sweeper writes between an upsert's load and its commit.
SPECIFICATION RunsSpec
CONSTANTS
  Runs = {r1}
  Workers = {w1}
  Slots = {s1}
  Clients = {c1}
  Keys = {}
  Junk = {}
  NoJob = NoJob
  NoKey = NoKey
  NoRun = NoRun
  NoSession = NoSession
  Lease = 1
  HeartbeatEvery = 1
  Punctual = FALSE
  MaxAttempts = 1
  MaxCrashes = 0
  ReclaimCrashes = FALSE
  MaxDrops = 0
  MaxFaults = 0
INVARIANTS CompletedHasNoError
