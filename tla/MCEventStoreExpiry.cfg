\* Long enough for the expiry at the end of a query, batches of up to two rows, which
\* may jump over a checkpoint, event times up to a second late; no restart.
CONSTANTS
  q1 = q1
  q2 = q2
  s1 = s1
  s2 = s2
  NoQuery = NoQuery
  Queries = {q1, q2}
  Subscribers = {s1}
  Tables <- OneTable
  Delays = {0, 1}
  Expiry = 1
  MaxBatches = 1
  Checkpoint = 2
  MaxRows = 2
  MaxEvents = 4
  MaxTime = 5
  MaxCrash = 0
SPECIFICATION Spec
SYMMETRY QuerySymmetry
INVARIANTS
  UnreadStaysVisible
  BufferBounded
PROPERTY
  QueryExpiryOnlyDropsRead
