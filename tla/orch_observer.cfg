SPECIFICATION FairSpec
CONSTANTS
  e1 = e1
  e2 = e2
  Executions <- OneExecution
  StatementCount = 1
  Requests <- AllRequests
  ObserverErrors <- SomeErrors
  BackendCancels = FALSE
  LateCallbacks = TRUE
  MaxCallbacks = 1
INVARIANTS ClosedExactlyOnce CancelledCommandIsStopped
PROPERTIES OnlyClosingAfterCancel DisposeCompletes CancellationEnds
CHECK_DEADLOCK FALSE
