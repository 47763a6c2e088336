\* One query of "main": crash, failing write or logger, two epochs, expiry.
CONSTANTS
  q1 = q1
  q2 = q2
  r1 = r1
  r2 = r2
  Queries = {q1}
  EventQueries = {}
  ReportRemoved = {q1}
  PackQueries = {}
  Rows = {r1, r2}
  NumericMonitoring = FALSE
  Week = 1
  MaxCopies = 1
  MaxTime = 3
  MaxCounter = 2
  MaxEpoch = 1
  MaxCrash = 1
  MaxFailure = 1
SPECIFICATION Spec
SYMMETRY RowSymmetry
CHECK_DEADLOCK FALSE
INVARIANTS
  ReplayMatchesSaved
  LossShowsAsGap
  CounterZeroMarksReset
