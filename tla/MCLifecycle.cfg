\* Two services that enroll without end, one publisher, two keys, one forgotten.
CONSTANTS
  s1 = s1
  s2 = s2
  p1 = p1
  Main = Main
  Nobody = Nobody
  NoClient = NoClient
  NoPublisher = NoPublisher
  Clients = {s1, s2}
  Services = {s1, s2}
  Publishers = {p1}
  Attempts = 2
  EnrollAttempts = 0
  DisableReenrollment = FALSE
  MaxKeys = 2
  MaxForgets = 1
SPECIFICATION Spec
INVARIANTS
  OneEnrollment
  RunsOnlyWhileUp
  DatabaseOutlivesThreads
  TornDownAtExit
PROPERTY
  ShutdownEnds
