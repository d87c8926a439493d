SPECIFICATION VisitsSpec
CONSTANTS
  item = item
  Hosts = {item}
  Urls = {i1, i2}
  NoUrl = nowhere
  HostOf <- MCHostOf
  Callers = {c1}
  Jobs = {j1}
  NoJob = none
  MinInterval = 2
  MaxAttempts = 1
  BaseDelay = 1
  MaxDelay = 1
PROPERTY VisitsPaced
