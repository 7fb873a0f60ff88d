\* Stalled heartbeats, a crash and two swallowed store errors.
SPECIFICATION RunsSpec
CONSTANTS
  Runs = {r1}
  Workers = {w1, w2}
  Slots = {s1}
  Clients = {c1}
  Keys = {}
  Junk = {}
  NoJob = NoJob
  NoKey = NoKey
  NoRun = NoRun
  NoSession = NoSession
  Lease = 1
  HeartbeatEvery = 1
  Punctual = FALSE
  MaxAttempts = 1
  MaxCrashes = 1
  ReclaimCrashes = FALSE
  MaxDrops = 0
  MaxFaults = 2
PROPERTIES
  NeverReopened
SYMMETRY Symmetric
