CONSTANTS
  f1 = f1  f2 = f2
  w1 = w1  w2 = w2  w3 = w3
  Fibers = {f1, f2}
  Workers = {w1, w2, w3}
  Owner = w1
  Capacity = 2
  MaxPush = 3
  NULL = NULL
SPECIFICATION FairSpec
INVARIANTS TakenInOrder
PROPERTIES EveryPushedIsTaken ImplementsFifo
CHECK_DEADLOCK FALSE
