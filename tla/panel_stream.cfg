SPECIFICATION Spec
CONSTANTS
  Budgets <- EachOfThem
INVARIANTS RowsInOrder CompleteMeansAll QuietPanelIsCurrent NoSyncForgotten
CHECK_DEADLOCK FALSE
