\* One worker with two slots that dies up to two times, three jobs and an entry that does not parse.
SPECIFICATION DeliverySpec
CONSTANTS
  Runs = {r1, r2, r3}
  Workers = {w1}
  Slots = {s1, s2}
  Junk = {junk}
  NoJob = NoJob
  MaxAttempts = 1
  MaxCrashes = 2
  ReclaimCrashes = FALSE
INVARIANTS
  DeliveryTypeOK
  AtLeastOnce
  Fifo
  OrphansAccounted
PROPERTIES
  EveryJobEnds
CHECK_DEADLOCK FALSE
