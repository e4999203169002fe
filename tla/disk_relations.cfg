SPECIFICATION FairSpec
CONSTANTS
  w1 = w1
  w2 = w2
  c1 = c1
  Windows = {w1, w2}
  Unaware = {}
  Conns = {c1}
  Prefetches = {"prefetch"}
  Relations = {"relations"}
  Parts = {}
  LeaseIds = {"l1", "l2", "l3", "l4", "l5"}
  MaxFence = 3
  MaxGeneration = 1
  MaxTime = 2
  MaxCrashes = 0
  MaxStalls = 1
PROPERTIES
  NoOlderSnapshot
  LeasesReturn
CHECK_DEADLOCK FALSE
