\* A pack query next to an event query, with numeric monitoring: results of live
\* queries expire after a tick.
CONSTANTS
  q1 = q1
  q2 = q2
  r1 = r1
  r2 = r2
  Queries = {q1, q2}
  EventQueries = {q2}
  ReportRemoved = {q1}
  PackQueries = {q1}
  Rows = {r1}
  NumericMonitoring = TRUE
  Week = 0
  MaxCopies = 2
  MaxTime = 2
  MaxCounter = 2
  MaxEpoch = 0
  MaxCrash = 0
  MaxFailure = 0
SPECIFICATION Spec
SYMMETRY RowSymmetry
CHECK_DEADLOCK FALSE
INVARIANTS
  ReplayMatchesSaved
