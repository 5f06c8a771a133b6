SPECIFICATION FairSpec
CONSTANTS
  Owners = {o1}
  Workers = {w1}
  Closers = {}
  VMs = {v1,v2}
  Keys = {k1}
  States = {s1}
  None = None
  Cloning = TRUE
  MaxTotal = 2
  MaxIdle = 0
  MaxAffinity = 1
  AutoSeed = TRUE
  WarmLevels = {}
  Ttl = FALSE
  Faults = TRUE
PROPERTIES AcquireReturns SeedsEnd
CHECK_DEADLOCK FALSE
