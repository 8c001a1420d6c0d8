SPECIFICATION Spec
CONSTANTS
  Ops = {"for_range", "map_int", "reduce_int", "for_each", "map", "reduce", "filter", "scan", "scan_bytes"}
  Starts = {0, 23}
  Lens = {0, 1, 4, 5}
  Cores = {0, 2, 5}
  Limit = 4
  IntMax = 31
  Neutral = TRUE
  Representable = TRUE
  InitValue = init
  Zero = zero
  Garbage = garbage
INVARIANTS EachItemOnce SameAsSequential RecordsKept
