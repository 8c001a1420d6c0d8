CONSTANTS
  f1 = f1  f2 = f2
  t1 = t1
  d1 = d1  d2 = d2
  Fibers = {f1, f2}
  Threads = {t1}
  Doers = {d1, d2}
  Kinds = {"mutex", "rwlock", "waitgroup", "once"}
  MaxCalls = 2
SPECIFICATION FairSpec
INVARIANTS Exclusion NoLostWakeup DestroyOutlastsUsers
PROPERTIES OnceReturnsAfterBody CallsReturn DestroyReturns
CHECK_DEADLOCK FALSE
