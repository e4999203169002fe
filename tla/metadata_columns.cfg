SPECIFICATION Spec
CONSTANTS
  Databases <- DatabasesOfFour
  External = {"d2"}
  LastRunner = 2
  Others = {11}
  DeadBefore = {"d1"}
  Limit = 1
INVARIANTS
  CompleteMeansFetched
  SessionsAreSerial
  NoLostWakeup
PROPERTIES
  EndsWithoutConnections
CHECK_DEADLOCK FALSE
