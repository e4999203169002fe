-------------------------- MODULE MCResultPanelStream --------------------------
(* Budgets for TLC, by executions, statements, rows, backlog, disturbances.*)
EXTENDS ResultPanelStream

Of(e, s, r, b, d) == [executions |-> e, statements |-> s, rows |-> r, backlog |-> b,
                      disturbances |-> d, kinds |-> Kinds, opened |-> TRUE]

LongResult == Of(1, 1, 3, 1, 1)
TwoDisturbances == Of(1, 1, 2, 0, 2)
TwoStatements == Of(1, 2, 1, 1, 1)
FirstQuery == [Of(1, 1, 1, 1, 1) EXCEPT !.opened = FALSE]

(* A reload lets messages pile up: with two executions that is too much.   *)
TwoExecutions == [Of(2, 2, 1, 0, 1) EXCEPT !.kinds = Kinds \ {"reload"}]
TwoInARow == Of(2, 2, 1, 1, 0)

EachOfThem == {LongResult, TwoDisturbances, TwoStatements, FirstQuery,
               TwoExecutions, TwoInARow}
StatementsOnly == {[TwoStatements EXCEPT !.kinds = {"close"}]}
================================================================================
