SPECIFICATION Spec
CONSTANTS
  Writers = {w1, w2}
  Readers = {r1}
  Keep = 2
  MaxReports = 4
  MaxTime = 1
  MaxBack = 1
  MaxCrashes = 1
INVARIANTS
  OnlyOldReportsGo
  NamesFollowPasses
  StatusIsCurrent
PROPERTIES
  NeverReplaced
CHECK_DEADLOCK FALSE
