SPECIFICATION Spec
CONSTANTS
  Keys = {k1, k2}
  Vals = {a, b}
  None = None
  Unseen = Unseen
  Kinds <- WithFiles
  Execs = 2
  Ops = 3
  HostPuts = 1
  Overlay = TRUE
  Faults = TRUE
SYMMETRY Symmetry
INVARIANTS TypeOK ListingAgrees TwoStrikes
PROPERTIES OneTransaction NothingOutlives RetryOnUnmoved
CHECK_DEADLOCK FALSE
