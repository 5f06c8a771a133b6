SPECIFICATION FairSpec
CONSTANTS
  Cancellers = {c1, c2}
  MaxId = 3
  MaxDepth = 4
  Reentrant = TRUE
  Faults = TRUE
INVARIANTS TypeOK FramesFit NeverBothWait BooksMatch
PROPERTIES CancelEnds KeepsPromise
CHECK_DEADLOCK FALSE
