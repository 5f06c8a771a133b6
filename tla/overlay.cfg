SPECIFICATION Spec
CONSTANTS
  Paths <- SmallPaths
  Target <- ToD
  Contents = {x}
  Modes = {m1,m2}
  Ignoring <- NoneOrBoth
INVARIANTS Parity
PROPERTIES ImplementsScan
