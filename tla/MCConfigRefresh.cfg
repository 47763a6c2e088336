\* Two sources, content that does not parse and content that refers to packs, one
\* change, one update from an extension, one crash.
CONSTANTS
  s1 = s1
  s2 = s2
  c1 = c1
  c2 = c2
  bad = bad
  None = None
  Sources = {s1, s2}
  Contents = {c1, c2, bad}
  Valid = {c1, c2}
  Referring = {c1}
  EnableBackup = TRUE
  Answers <- SomeAnswers
  Pushes <- SomePushes
  MaxChanges = 1
  MaxUpdates = 1
  MaxCrash = 1
SPECIFICATION Spec
INVARIANTS
  HashedIsInForce
PROPERTIES
  RestoreOnlyBeforeAnswer
  ServedIsInForce
