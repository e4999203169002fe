------------------------ MODULE MCExecutionOrchestrator ------------------------
(* Small instances of ExecutionOrchestrator for TLC.                       *)
EXTENDS ExecutionOrchestrator

CONSTANTS e1, e2

OneExecution == {e1}

(* A retryable read on a persistent connection under a timeout.            *)
RetryableRead == [persistent |-> TRUE, retryPolicy |-> TRUE, safeSql |-> TRUE,
                  continueOnError |-> FALSE, hasTimeout |-> TRUE]
(* A batch of writes that goes on after errors, never retried.             *)
WriteBatch == [persistent |-> TRUE, retryPolicy |-> TRUE, safeSql |-> FALSE,
               continueOnError |-> TRUE, hasTimeout |-> FALSE]
(* A run on a transient connection.                                        *)
TransientRun == [persistent |-> FALSE, retryPolicy |-> FALSE, safeSql |-> TRUE,
                 continueOnError |-> FALSE, hasTimeout |-> TRUE]

AllRequests == {RetryableRead, WriteBatch, TransientRun}
NoErrors == {}
SomeErrors == {"other", "broken"}
================================================================================
