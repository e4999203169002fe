SPECIFICATION Spec
CONSTANTS
  e1 = e1
  e2 = e2
  Executions <- OneExecution
  StatementCount = 2
  Requests <- AllRequests
  ObserverErrors <- NoErrors
  BackendCancels = TRUE
  LateCallbacks = FALSE
  MaxCallbacks = 1
INVARIANTS TypeOK TerminalAgreesWithLog CancellationStaysVisible
PROPERTIES NoReplayAfterStop ImplementsContract
CHECK_DEADLOCK FALSE
