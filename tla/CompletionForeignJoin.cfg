CONSTANTS
  Tiers = {"thread", "job"}
  Clients = {"fiber"}
  Ops = {"join"}
SPECIFICATION FairSpec
PROPERTIES JoinAlwaysReturns
CHECK_DEADLOCK FALSE
