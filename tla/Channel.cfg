SPECIFICATION FairSpec
CONSTANTS
  Fibers = {f1, f2}
  Threads = {t1}
  Anchor = anchor
  None = none
  Homes = {"main", "worker"}
  Capacity = 1
  MaxSends = 2
  MaxCalls = 1
  ThreadCalls = 1
INVARIANTS InOnePlace WakesGetThrough DestroyOutlastsUsers
PROPERTIES ImplementsQueue Delivered DestroyReturns
CHECK_DEADLOCK FALSE
