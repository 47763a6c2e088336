\* Two packs; a query over the CPU limit, one over the memory limit; one death of
\* the worker and one failure of the watcher's environment.
CONSTANTS
  q1 = q1
  q2 = q2
  Queries = {q1, q2}
  NoQuery = NoQuery
  PackOf <- MCPackOf
  Exempt = {q2}
  DenyTime = 2
  FirstTime = 2
  MaxTime = 5
  MaxDeaths = 1
  CpuHogs = {q1}
  MemoryHogs = {q2}
  LatencyLimit = 2
  RespawnLimit = 2
  RespawnDelay = 0
  MaxDelay = 1
  WatchdogDelay = 1
  AlarmTimeout = 0
  MaxFaults = 1
SPECIFICATION FairSpec
INVARIANTS
  StoppedForGood
  OnlyUnfinishedBlamed
PROPERTIES
  KilledStaysOut
  WorkerComesBack
  ShutdownEnds
