CONSTANTS
  c1 = c1
  N = 2
  Callers = {c1}
  MaxJobs = 4
  Capacity <- Sizes
  NULL = NULL
SPECIFICATION FairSpec
CONSTRAINT Undisturbed
INVARIANTS NoJobLost PendingCounts SleepersAreWoken
PROPERTIES EveryJobEnds
CHECK_DEADLOCK FALSE
