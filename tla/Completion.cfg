CONSTANTS
  Tiers = {"thread", "job", "fiber"}
  Clients = {"os", "fiber"}
  Ops = {"join", "detach", "try_join", "cancel", "select_thread", "select_job", "select_fiber", "home_exit"}
SPECIFICATION FairSpec
INVARIANTS RefsMatchHolders CleanedUpOnce JoinMeetsTheEnd NothingLeft
PROPERTIES JoinReturns Reclaimed
CHECK_DEADLOCK FALSE
