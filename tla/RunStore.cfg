\* Two runs, two executors with an upsert in flight each, one idempotency key.
SPECIFICATION Spec
CONSTANTS
  Runs = {r1, r2}
  Keys = {k1}
  NoKey = NoKey
  Callers = {c1, c2}
  NoSession = NoSession
  Lease = 1
INVARIANTS
  TypeOK
PROPERTIES
  NeverReopened
SYMMETRY Symmetric
