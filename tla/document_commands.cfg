SPECIFICATION Spec
CONSTANTS
  r1 = r1
  r2 = r2
  Runs = {r1, r2}
  Kinds <- AnyOfEach
  Statements = 2
  MaxCancels = 3
INVARIANTS
  CommandReachable
  CancelIsReported
  FreshRunNotBlocked
PROPERTIES
  LoneRunStops
CHECK_DEADLOCK FALSE
