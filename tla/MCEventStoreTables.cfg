\* A query that reads two event tables.
CONSTANTS
  q1 = q1
  q2 = q2
  s1 = s1
  s2 = s2
  NoQuery = NoQuery
  Queries = {q1}
  Subscribers = {s1, s2}
  Tables <- AllTables
  Delays = {0}
  Expiry = 1
  MaxBatches = 2
  Checkpoint = 2
  MaxRows = 1
  MaxEvents = 4
  MaxTime = 5
  MaxCrash = 0
SPECIFICATION Spec
INVARIANTS
  SkippedWasVisited
