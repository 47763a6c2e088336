\* Two requests with the same SQL, failing flushes, two crashes.
CONSTANTS
  a = a
  b = b
  c = c
  s1 = s1
  s2 = s2
  Ids = {a, b}
  Sqls = {s1}
  SqlOf <- MCSqlOf
  Duration = 1
  MaxTime = 5
  MaxCrash = 2
  MaxFailure = 1
SPECIFICATION FairSpec
INVARIANTS
  NoRequestForgotten
  DeniedOnlyAfterKill
  KilledIsNotReexecuted
PROPERTIES
  AcceptedIsAnswered
