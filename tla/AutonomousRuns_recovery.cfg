\* One run, two workers that may die at any step and start again, punctual heartbeats: recovery, leases, liveness.
SPECIFICATION RunsFairSpec
CONSTANTS
  Runs = {r1}
  Workers = {w1, w2}
  Slots = {s1}
  Clients = {c1}
  Keys = {}
  Junk = {}
  NoJob = NoJob
  NoKey = NoKey
  NoRun = NoRun
  NoSession = NoSession
  Lease = 2
  HeartbeatEvery = 1
  Punctual = TRUE
  MaxAttempts = 1
  MaxCrashes = 2
  ReclaimCrashes = TRUE
  MaxDrops = 0
  MaxFaults = 0
INVARIANTS
  RunsTypeOK
  SingleActive
  LeaseHeld
  DoneIsSettled
PROPERTIES
  ImplementsLifecycle
  EveryRunSettles
