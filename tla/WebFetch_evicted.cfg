\* Two threads over a cache of one body: one evicts what the other has looked up.
SPECIFICATION FetchSpec
CONSTANTS
  Fetches = {f1, f2}
  Pages = {p1, p2}
  MaxRedirects = 1
  MaxBodies = 1
INVARIANT FetchNeverRaises
CHECK_DEADLOCK FALSE
