\* Two scheduled queries on one event table, batches of one row, one restart.
CONSTANTS
  q1 = q1
  q2 = q2
  s1 = s1
  s2 = s2
  NoQuery = NoQuery
  Queries = {q1, q2}
  Subscribers = {s1}
  Tables <- OneTable
  Delays = {0}
  Expiry = 1
  MaxBatches = 2
  Checkpoint = 2
  MaxRows = 1
  MaxEvents = 4
  MaxTime = 5
  MaxCrash = 1
SPECIFICATION Spec
SYMMETRY QuerySymmetry
INVARIANTS
  UnreadStaysVisible
  PointersBehindIds
  LoggedOnce
