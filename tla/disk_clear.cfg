SPECIFICATION Spec
CONSTANTS
  w1 = w1
  w2 = w2
  c1 = c1
  p1 = p1
  Windows = {w1, w2}
  Unaware = {w1, w2}
  Conns = {c1}
  Prefetches = {"prefetch"}
  Relations = {}
  Parts = {p1}
  LeaseIds = {"l1", "l2", "l3", "l4", "l5"}
  MaxFence = 2
  MaxGeneration = 2
  MaxTime = 2
  MaxCrashes = 1
  MaxStalls = 0
SYMMETRY Symmetry
INVARIANTS
  ClearedStaysCleared
  MetadataVouch
PROPERTIES
  FreshSnapshotsSurvive
CHECK_DEADLOCK FALSE
