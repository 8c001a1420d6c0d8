SPECIFICATION Spec
CONSTANTS
    Kinds = {"value", "pointer"}
    Origins = {"local", "param"}
    Programs <- SmallBodies
    Shapes = {}
    MaxTurns = 2
INVARIANTS FreedOnce NeverDangles NothingLeaks
CHECK_DEADLOCK FALSE
