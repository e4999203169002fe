SPECIFICATION Spec
CONSTANTS
  l1 = l1
  l2 = l2
  s1 = s1
  s2 = s2
  s3 = s3
  i1 = i1
  i2 = i2
  i3 = i3
  d1 = d1
  d2 = d2
  Lanes <- OneLane
  Shared <- OneS
  Independent <- OneI
  Direct <- OneD
  LaneOf <- AllInOneLane
  Limits <- OneLimit
  Operations = {"cancel", "recover", "close", "pause"}
INVARIANTS PlacesMatchLeases
PROPERTIES GrantedOnSafeSession OnlyOwnerReleases PausedLaneStartsNothing StartInOrder
CHECK_DEADLOCK FALSE
