\* Two lines, with indexes from 1 or around 10, at most one kept and one sent at a time,
\* sends that fail, one restart.
CONSTANTS
  LogMax = 1
  MaxLines = 1
  LogPeriod = 2
  MaxBackoff = 5
  FirstIndex = {0, 8}
  MaxWrites = 2
  MaxTime = 2
  MaxCrash = 1
SPECIFICATION FairSpec
INVARIANTS
  CountCoversBuffer
PROPERTIES
  KeepsPromise
  PurgesOldest
  LineIsTaken
