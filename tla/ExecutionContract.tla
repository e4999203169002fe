--------------------------- MODULE ExecutionContract ---------------------------
(***************************************************************************)
(* What an observer of one query execution is promised: the order in which *)
(* the lifecycle events of packages/contracts/src/queryExecution.ts may    *)
(* follow one another.  The abstract state is the log of events emitted so *)
(* far; position i of the log is the event with sequence number i.         *)
(*                                                                         *)
(* ExecutionOrchestrator implements this specification (the runs check it  *)
(* with log <- emitted[e]).                                                *)
(***************************************************************************)
EXTENDS Naturals, Sequences

CONSTANT StatementCount   \* number of statements in the request

VARIABLE log

Statements == 1 .. StatementCount

(* Event types of a statement, in the order of the ExecutionEvent union.   *)
StatementEventTypes == {"statement-started", "columns", "rows", "progress",
                        "statement-completed", "statement-failed", "retrying"}
ExecutionEventTypes == {"execution-started", "execution-terminal", "batch-completed"}

(* One event; the events of the whole execution carry stmt 0, as the code  *)
(* omits the statement index from their context (their attempt is data).   *)
Event == [type : StatementEventTypes \union ExecutionEventTypes,
          stmt : 0 .. StatementCount, attempt : {0, 1}]

EventOf(t, s, a) == [type |-> t, stmt |-> s, attempt |-> a]

OutcomeTypes == {"statement-completed", "statement-failed"}

Logged(types, s) == \E i \in DOMAIN log : log[i].type \in types /\ log[i].stmt = s

Begun == log # << >>
Ended == \E i \in DOMAIN log : log[i].type = "batch-completed"
Resolved(s) == Logged(OutcomeTypes, s)

(* The statement whose turn it is: all earlier ones have an outcome.       *)
Turn(s) == ~Resolved(s) /\ \A t \in 1 .. s - 1 : Resolved(t)

Started(s) == Logged({"statement-started"}, s)

(* The attempt whose callbacks may still be heard: 1 once a retry is out.  *)
LiveAttempt(s) == IF Logged({"retrying"}, s) THEN 1 ELSE 0

--------------------------------------------------------------------------------
Begin ==
  /\ ~Begun
  /\ log' = << EventOf("execution-started", 0, 0) >>

StartStatement(s) ==
  /\ Turn(s) /\ ~Started(s)
  /\ log' = Append(log, EventOf("statement-started", s, 0))

DeliverColumns(s) ==
  /\ Turn(s) /\ Started(s)
  /\ log' = Append(log, EventOf("columns", s, LiveAttempt(s)))

DeliverRows(s) ==
  /\ Turn(s) /\ Started(s)
  /\ log' = log \o << EventOf("rows", s, LiveAttempt(s)),
                      EventOf("progress", s, LiveAttempt(s)) >>

(* One retry, and none once the consumer has seen a row of the statement.  *)
Retry(s) ==
  /\ Turn(s) /\ Started(s)
  /\ ~Logged({"rows", "retrying"}, s)
  /\ log' = Append(log, EventOf("retrying", s, 0))

Complete(s) ==
  /\ Turn(s) /\ Started(s)
  /\ log' = Append(log, EventOf("statement-completed", s, LiveAttempt(s)))

(* A statement cancelled before its first attempt fails without a start.   *)
Fail(s) ==
  /\ Turn(s)
  /\ \E a \in {0, 1} :
       /\ a = 1 => Logged({"retrying"}, s)
       /\ log' = Append(log, EventOf("statement-failed", s, a))

(* The two closing events leave together, in this order, exactly once.     *)
Terminate ==
  /\ Begun
  /\ \A s \in Statements : Started(s) => Resolved(s)
  /\ log' = log \o << EventOf("execution-terminal", 0, 0),
                      EventOf("batch-completed", 0, 0) >>

Init == log = << >>

Next ==
  /\ ~Ended
  /\ \/ Begin
     \/ Begun /\ \E s \in Statements :
                   \/ StartStatement(s) \/ DeliverColumns(s) \/ DeliverRows(s)
                   \/ Retry(s) \/ Complete(s) \/ Fail(s)
     \/ Terminate

Spec == Init /\ [][Next]_log
================================================================================
