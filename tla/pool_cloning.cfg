SPECIFICATION Spec
CONSTANTS
  Owners = {o1}
  Workers = {w1}
  Closers = {c1}
  VMs = {v1,v2,v3}
  Keys = {k1}
  States = {s1}
  None = None
  Cloning = TRUE
  MaxTotal = 2
  MaxIdle = 0
  MaxAffinity = 1
  AutoSeed = FALSE
  WarmLevels = {1}
  Ttl = TRUE
  Faults = TRUE
SYMMETRY Symmetry
VIEW View
INVARIANTS  IInv
PROPERTIES FloorKept
CHECK_DEADLOCK FALSE
