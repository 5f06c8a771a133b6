SPECIFICATION Spec
CONSTANTS
  Keys = {k1}
  Vals = {a, b}
  None = None
  Unseen = Unseen
  Kinds <- ReadOnly
  Execs = 1
  Ops = 2
  HostPuts = 0
  Overlay = TRUE
  Faults = FALSE
PROPERTIES ReadonlyKeepsCache
CHECK_DEADLOCK FALSE
