SPECIFICATION Spec
CONSTANTS
  search = search
  item = item
  s1 = s1
  i1 = i1
  i2 = i2
  Hosts <- MCHosts
  Urls <- MCUrls
  HostOf <- MCHostOf
  Callers = {c1, c2}
  Jobs = {j1, j2, j3}
  NoJob = none
  NoUrl = nowhere
  MinInterval = 2
  MaxAttempts = 3
  BaseDelay = 1
  MaxDelay = 1
SYMMETRY Symmetry
INVARIANTS
  TypeOK
  InflightIsCurrent
  RefusalIsFinal
  AnswersSurviveCancellation
PROPERTY PacedStarts
