\* A carve of two blocks, two lines, a reset in every second step, one crash.
CONSTANTS
  c1 = c1
  t1 = t1
  t2 = t2
  NoCarve = NoCarve
  NoRelay = NoRelay
  Carves = {c1}
  Blocks = 2
  Relays = {t1, t2}
  MaxLines = 2
  ReloadEvery = 2
  FlushEvery = 1
  CarveEvery = 2
  Cycle = 2
  MaxCrash = 1
SPECIFICATION Spec
INVARIANTS
  CarvedOnce
  RelayedInOrder
PROPERTIES
  KeepsPromise
  SchedulerGoesOn
  BufferedIsRelayed
  ScheduledIsStarted
CHECK_DEADLOCK FALSE
