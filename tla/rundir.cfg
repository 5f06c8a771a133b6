SPECIFICATION FairSpec
CONSTANTS
  Sweepers = {s1,s2}
  Rungs <- AllRungs
  Faults = TRUE
INVARIANTS TypeOK FrozenIsWhole 
PROPERTIES Spared Reaped
CHECK_DEADLOCK FALSE
