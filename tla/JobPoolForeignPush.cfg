CONSTANTS
  c1 = c1
  N = 2
  Callers = {c1}
  MaxJobs = 1
  Capacity <- Sizes
  NULL = NULL
SPECIFICATION FairSpec
PROPERTIES EveryJobRuns
CHECK_DEADLOCK FALSE
