SPECIFICATION FairSpec
CONSTANTS
  Calls = {h1, h2}
  Emits = {e1, e2}
  None = None
  Starts = 2
  RespCap = 2
  Kills = TRUE
  Stops = TRUE
INVARIANTS TypeOK OwnAnswerUnlessKilled EmitsDelivered PairOrNothing
PROPERTIES EveryCallEnds EndsWithScript CancelStops
CHECK_DEADLOCK FALSE
