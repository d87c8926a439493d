SPECIFICATION FairSpec
CONSTANTS
  search = search
  item = item
  s1 = s1
  i1 = i1
  i2 = i2
  Hosts <- MCHosts
  Urls <- MCUrls
  HostOf <- MCHostOf
  Callers = {c1, c2}
  Jobs = {j1, j2}
  NoJob = none
  NoUrl = nowhere
  MinInterval = 1
  MaxAttempts = 2
  BaseDelay = 1
  MaxDelay = 1
PROPERTY EveryCallReturns
