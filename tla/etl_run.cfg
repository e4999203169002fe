SPECIFICATION Spec
CONSTANTS
  a = a
  b = b
  c = c
  d = d
  x = x
  y = y
  NodeOrder <- Order
  Containers <- TwoContainers
  Root = "root"
  Parent <- Placed
  Projects <- AllProjects
INVARIANTS TasksFollowResults EveryTaskAccounted FailureSurfaces
PROPERTIES StartsOnceBeforeStop
CHECK_DEADLOCK FALSE
