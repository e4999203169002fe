SPECIFICATION Spec
CONSTANTS
  Budgets <- StatementsOnly
INVARIANTS OneResultPerStatement
CHECK_DEADLOCK FALSE
