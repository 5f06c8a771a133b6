SPECIFICATION Spec
CONSTANTS
  Owners = {o1}
  Workers = {w1,w2,w3}
  Closers = {}
  VMs = {v1,v2,v3,v4}
  Keys = {k1,k2}
  States = {s1}
  None = None
  Cloning = TRUE
  MaxTotal = 2
  MaxIdle = 0
  MaxAffinity = 1
  AutoSeed = TRUE
  WarmLevels = {}
  Ttl = FALSE
  Faults = TRUE
SYMMETRY Symmetry
VIEW View
INVARIANTS WithinCap OneWorkerPerClaim
CHECK_DEADLOCK FALSE
