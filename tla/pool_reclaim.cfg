SPECIFICATION Spec
CONSTANTS
  Owners = {o1,o2}
  Workers = {}
  Closers = {}
  VMs = {v1,v2,v3}
  Keys = {k1}
  States = {s1}
  None = None
  Cloning = FALSE
  MaxTotal = 1
  MaxIdle = 1
  MaxAffinity = 0
  AutoSeed = FALSE
  WarmLevels = {}
  Ttl = TRUE
  Faults = TRUE
SYMMETRY Symmetry
VIEW View
INVARIANTS TypeOK SoleCustody NoCrossTalk LostStaysOut ParkedIsReset BoundToHolder
PROPERTIES CleanHandoff
CHECK_DEADLOCK FALSE
