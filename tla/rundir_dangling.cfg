SPECIFICATION FairSpec
CONSTANTS
  Sweepers = {s1}
  Rungs <- Firecracker
  Faults = FALSE
PROPERTIES NoDangling
CHECK_DEADLOCK FALSE
