SPECIFICATION FairSpec
CONSTANTS
  Workers = {w1, w2}
  Fibers = {f1, f2}
  None = none
  Room = 1
  MaxTurns = 1
  WalksAlone = TRUE
INVARIANTS InOnePlace OnePoller NoneLeftBehind RefsMatchHolders
PROPERTIES EveryFiberEnds FreeReturns
CHECK_DEADLOCK FALSE
