------------------------- MODULE ExecutionOrchestrator -------------------------
(***************************************************************************)
(* packages/database-runtime/src/execution.ts: the instance-owned owner of *)
(* ordering, cancellation, timeout, retry and terminal state for every     *)
(* query execution, single or batch.                                       *)
(*                                                                         *)
(* `run`, `runStatement` and `finish` form one asynchronous thread per     *)
(* execution.  pc[e] names the await that thread is suspended at; each     *)
(* action below is the synchronous code from one await to the next, so     *)
(* everything else (cancel, timeout, observer deliveries, driver           *)
(* callbacks, runtime disposal) can fall between two actions and nowhere   *)
(* else.  The backend is external: its promises settle nondeterministically*)
(***************************************************************************)
EXTENDS Naturals, Sequences, FiniteSets

CONSTANTS
  Executions,       \* identities of execution records
  StatementCount,   \* statements per request
  Requests,         \* the requests callers may submit, a subset of Request
  ObserverErrors,   \* kinds of error an observer may throw ({} : never throws)
  BackendCancels,   \* TRUE iff the backend has cancel and isCancellationRequested
  LateCallbacks,    \* TRUE iff a driver may call back after execute has settled
  MaxCallbacks      \* bound on column and row callbacks per execution

(* How the code classifies an error: a broken connection, a cancellation,  *)
(* or anything else (defaultIsCancellationError, connectionBroken).        *)
ErrorKinds == {"broken", "cancellation", "other"}

Request == [persistent : BOOLEAN,       \* connectionMode = 'persistent'
            retryPolicy : BOOLEAN,      \* 'safe-read-only-on-broken-connection'
            safeSql : BOOLEAN,          \* safeToRetry of both SQL texts
            continueOnError : BOOLEAN,
            hasTimeout : BOOLEAN]       \* timeoutSeconds > 0

ASSUME StatementCountAssumption == StatementCount \in Nat \ {0}
ASSUME RequestsAssumption == Requests \subseteq Request
ASSUME ObserverErrorsAssumption == ObserverErrors \subseteq ErrorKinds
ASSUME FlagsAssumption == BackendCancels \in BOOLEAN /\ LateCallbacks \in BOOLEAN
ASSUME MaxCallbacksAssumption == MaxCallbacks \in Nat

VARIABLES
  pc, stmt, attempt, rowsDelivered, status,              \* the thread's frame
  request, phase, cancelRequested, timedOut, timer,      \* InternalExecution
  terminal, command, commandCancel, hadFailure,
  emitted, processed, awaited, observerError, detached,  \* its event queue
  cancelJobs,                                            \* queued cancel calls
  dispatched, announced, cancelled, backendAborted,      \* the backend's side
  disposed, stopsAwaited, allClosed                      \* the orchestrator

frameVars == << pc, stmt, attempt, rowsDelivered, status >>
eventVars == << emitted, processed, awaited, observerError, detached >>
backendVars == << dispatched, announced, cancelled, backendAborted >>
disposeVars == << disposed, stopsAwaited, allClosed >>
vars == << frameVars, eventVars, backendVars, disposeVars, request, phase,
           cancelRequested, timedOut, timer, terminal, command, commandCancel,
           hadFailure, cancelJobs >>

Contract(e) == INSTANCE ExecutionContract WITH log <- emitted[e]

Statements == 1 .. StatementCount
Attempts == {0, 1}
Commands == Statements \X Attempts     \* one driver command per dispatch
NoCommand == << 0, 0 >>
NoError == "none"
Phases == {"preparing", "running", "retrying", "cancelling"}
TerminalStatuses == {"success", "error", "cancelled"}

StatementEventTypes == {"statement-started", "columns", "rows", "progress",
                        "statement-completed", "statement-failed", "retrying"}
ExecutionEventTypes == {"execution-started", "execution-terminal", "batch-completed"}
Event == [type : StatementEventTypes \union ExecutionEventTypes,
          stmt : 0 .. StatementCount, attempt : Attempts]
EventOf(t, s, a) == [type |-> t, stmt |-> s, attempt |-> a]

(* The awaits: of the event queue after an event (drains), of the backend, *)
(* and of the cleanup.                                                     *)
DrainPoints == {"startDrain", "stmtDrain", "executedDrain", "completedDrain",
                "cancelDrain", "failDrain", "retryDrain", "terminalDrain"}
CleanupPoints == {"disposingResources", "cleaning"}
PCs == DrainPoints \union CleanupPoints
       \union {"none", "executing", "reconnecting", "dropping", "settled"}

Active(e) == pc[e] \notin {"none", "settled"}
Cancellable(e) == Active(e) /\ terminal[e] = NoError

(* The promise awaited by drainEvents covers the events enqueued so far.   *)
Drained(e) == processed[e] >= awaited[e]

(* callbacksOpen is cleared when execute resolves and by the finally block;*)
(* while the catch block awaits, the attempt's callbacks are still open.   *)
CatchPoints == {"retryDrain", "reconnecting", "dropping"}
CallbacksOpen(e) == pc[e] \in {"executing"} \union CatchPoints
MayCallBack(e) == pc[e] = "executing" \/ LateCallbacks

Current(e) == << stmt[e], attempt[e] >>

CallbacksSoFar(e) ==
  Cardinality({i \in DOMAIN emitted[e] : emitted[e][i].type \in {"columns", "rows"}})

--------------------------------------------------------------------------------
(* Pieces of the thread.  Each is a conjunction of primed assignments used *)
(* as the tail of the actions below.                                       *)

Emit(e, events) == emitted' = [emitted EXCEPT ![e] = @ \o events]

(* Enqueue the events and await their delivery.                            *)
EmitAndDrain(e, events, at) ==
  /\ Emit(e, events)
  /\ awaited' = [awaited EXCEPT ![e] = Len(emitted[e]) + Len(events)]
  /\ pc' = [pc EXCEPT ![e] = at]

(* The finally block of runStatement.                                      *)
ReleaseCommand(e) ==
  /\ command' = [command EXCEPT ![e] = NoCommand]
  /\ commandCancel' = [commandCancel EXCEPT ![e] = FALSE]

(* finish, up to the await of the resource scope.                          *)
BeginFinish(e, s) ==
  /\ status' = [status EXCEPT ![e] = s]
  /\ timer' = [timer EXCEPT ![e] = FALSE]
  /\ pc' = [pc EXCEPT ![e] = "disposingResources"]
  /\ UNCHANGED << emitted, awaited >>

(* How a stopped execution ends: a timeout is an error.                    *)
StoppedStatusIgnoringTimeout(e) == "cancelled"   \* mutant
StoppedStatus(e) == IF timedOut[e] THEN "error" ELSE "cancelled"

(* The catch block of run: an exception that escaped runStatement.         *)
Escape(e, kind) ==
  /\ BeginFinish(e, IF timedOut[e] THEN "error"
                    ELSE IF cancelRequested[e] \/ kind = "cancellation" THEN "cancelled"
                    ELSE "error")
  /\ UNCHANGED << stmt, attempt, rowsDelivered, phase, hadFailure, dispatched >>

(* runStatement returns 'cancelled'; run emits statement-failed.           *)
StatementCancelled(e, s, a) ==
  /\ stmt' = [stmt EXCEPT ![e] = s]
  /\ EmitAndDrain(e, << EventOf("statement-failed", s, a) >>, "cancelDrain")
  /\ UNCHANGED << attempt, rowsDelivered, status, timer, phase, hadFailure, dispatched >>

(* runStatement returns 'error'; run emits statement-failed.               *)
StatementErrored(e) ==
  /\ hadFailure' = [hadFailure EXCEPT ![e] = @ \/ request[e].continueOnError]
  /\ EmitAndDrain(e, << EventOf("statement-failed", stmt[e], attempt[e]) >>, "failDrain")
  /\ UNCHANGED << stmt, attempt, rowsDelivered, status, timer, phase, dispatched >>

(* The loop of run is past its last statement.                             *)
LoopEndsLate(s) == s > StatementCount + 1         \* mutant
LoopEnds(s) == s > StatementCount

(* The head of the loop in run for statement s, then the first attempt of  *)
(* runStatement as far as the await of its statement-started event.        *)
EnterStatement(e, s, failed) ==
  \/ /\ LoopEnds(s)
     /\ BeginFinish(e, IF failed THEN "error" ELSE "success")
     /\ UNCHANGED << stmt, attempt, rowsDelivered, phase, hadFailure, dispatched >>
  \/ /\ ~LoopEnds(s) /\ cancelRequested[e]
     /\ BeginFinish(e, StoppedStatus(e))
     /\ UNCHANGED << stmt, attempt, rowsDelivered, phase, hadFailure, dispatched >>
  \/ /\ ~LoopEnds(s) /\ ~cancelRequested[e] /\ backendAborted[e]
     /\ StatementCancelled(e, s, 0)
  \/ /\ ~LoopEnds(s) /\ ~cancelRequested[e] /\ ~backendAborted[e]
     /\ stmt' = [stmt EXCEPT ![e] = s]
     /\ attempt' = [attempt EXCEPT ![e] = 0]
     /\ rowsDelivered' = [rowsDelivered EXCEPT ![e] = FALSE]
     /\ phase' = [phase EXCEPT ![e] = "running"]
     /\ EmitAndDrain(e, << EventOf("statement-started", s, 0) >>, "stmtDrain")
     /\ UNCHANGED << status, timer, hadFailure, dispatched >>

(* Call backend.execute for attempt a of the current statement.            *)
Dispatch(e, a) ==
  /\ attempt' = [attempt EXCEPT ![e] = a]
  /\ dispatched' = [dispatched EXCEPT ![e] = @ \union {<< stmt[e], a >>}]
  /\ pc' = [pc EXCEPT ![e] = "executing"]
  /\ UNCHANGED << stmt, rowsDelivered, status, timer, hadFailure, emitted, awaited >>

CanRetryTwice(e, kind) ==                         \* mutant
  /\ request[e].persistent /\ request[e].retryPolicy /\ request[e].safeSql
  /\ ~rowsDelivered[e] /\ kind = "broken"
CanRetry(e, kind) ==
  /\ attempt[e] = 0
  /\ request[e].persistent /\ request[e].retryPolicy /\ request[e].safeSql
  /\ ~rowsDelivered[e]
  /\ kind = "broken"

(* The error ends the statement as cancelled rather than failed.           *)
CaughtCancellationError(e, kind) == kind = "cancellation"   \* mutant
CaughtCancellation(e, kind) == cancelRequested[e] \/ kind = "cancellation"

(* The catch block of runStatement, as far as its first await.             *)
Caught(e, kind) ==
  \/ /\ CaughtCancellation(e, kind)
     /\ StatementCancelled(e, stmt[e], attempt[e])
     /\ ReleaseCommand(e)
  \/ /\ ~CaughtCancellation(e, kind) /\ CanRetry(e, kind)
     /\ phase' = [phase EXCEPT ![e] = "retrying"]
     /\ EmitAndDrain(e, << EventOf("retrying", stmt[e], 0) >>, "retryDrain")
     /\ UNCHANGED << stmt, attempt, rowsDelivered, status, timer, hadFailure,
                     dispatched, command, commandCancel >>
  \/ /\ ~CaughtCancellation(e, kind) /\ kind = "broken" /\ ~CanRetry(e, kind)
     /\ request[e].persistent
     /\ pc' = [pc EXCEPT ![e] = "dropping"]
     /\ UNCHANGED << stmt, attempt, rowsDelivered, status, timer, phase, hadFailure,
                     dispatched, emitted, awaited, command, commandCancel >>
  \/ /\ ~CaughtCancellation(e, kind)
     /\ ~(kind = "broken" /\ request[e].persistent)
     /\ StatementErrored(e)
     /\ ReleaseCommand(e)

(* What no step of the thread touches.                                     *)
ThreadFrame == UNCHANGED << request, cancelRequested, timedOut, processed,
                            observerError, detached, cancelJobs, announced,
                            cancelled, disposeVars >>

--------------------------------------------------------------------------------
(* start refuses a disposed runtime and an id that is already active.      *)
AcceptsStart(e) == pc[e] = "none" /\ ~disposed

(* start: register the record, arm the timeout and run to the first await. *)
Start(e) ==
  /\ AcceptsStart(e)
  /\ phase' = [phase EXCEPT ![e] = "running"]
  /\ timer' = [timer EXCEPT ![e] = request[e].hasTimeout]
  /\ EmitAndDrain(e, << EventOf("execution-started", 0, 0) >>, "startDrain")
  /\ UNCHANGED << stmt, attempt, rowsDelivered, status, request, cancelRequested,
                  timedOut, terminal, command, commandCancel, hadFailure, processed,
                  observerError, detached, cancelJobs, backendVars, disposeVars >>

(* The event queue runs the observer on the next event.                    *)
DeliverEvent(e) ==
  /\ processed[e] < Len(emitted[e])
  /\ processed' = [processed EXCEPT ![e] = @ + 1]
  /\ \/ UNCHANGED observerError
     \/ \E kind \in ObserverErrors :
          /\ ~detached[e]
          /\ observerError' = [observerError EXCEPT ![e] = IF @ = NoError THEN kind ELSE @]
  /\ UNCHANGED << frameVars, request, phase, cancelRequested, timedOut, timer,
                  terminal, command, commandCancel, hadFailure, emitted, awaited,
                  detached, cancelJobs, backendVars, disposeVars >>

AfterStartDrain(e) ==
  /\ pc[e] = "startDrain" /\ Drained(e)
  /\ IF observerError[e] = NoError
     THEN EnterStatement(e, 1, FALSE) ELSE Escape(e, observerError[e])
  /\ ThreadFrame
  /\ UNCHANGED << terminal, command, commandCancel, backendAborted >>

AfterStatementDrain(e) ==
  /\ pc[e] = "stmtDrain" /\ Drained(e)
  /\ \/ /\ observerError[e] # NoError
        /\ Escape(e, observerError[e])
        /\ UNCHANGED << command, commandCancel >>
     \/ /\ observerError[e] = NoError /\ backendAborted[e]
        /\ StatementCancelled(e, stmt[e], 0)
        /\ UNCHANGED << command, commandCancel >>
     \/ /\ observerError[e] = NoError /\ ~backendAborted[e]
        /\ Dispatch(e, 0)
        /\ ReleaseCommand(e)
        /\ UNCHANGED phase
  /\ ThreadFrame
  /\ UNCHANGED << terminal, backendAborted >>

(* backend.execute resolves: the callbacks close and their events drain.   *)
ExecuteSucceeds(e) ==
  /\ pc[e] = "executing"
  /\ EmitAndDrain(e, << >>, "executedDrain")
  /\ ThreadFrame
  /\ UNCHANGED << stmt, attempt, rowsDelivered, status, timer, phase, terminal,
                  command, commandCancel, hadFailure, dispatched, backendAborted >>

(* backend.execute rejects.  Stopping the command may consume the          *)
(* backend's pending abort flag.                                           *)
ExecuteFails(e, kind) ==
  /\ pc[e] = "executing"
  /\ Caught(e, kind)
  /\ \/ UNCHANGED backendAborted
     \/ kind = "cancellation" /\ backendAborted' = [backendAborted EXCEPT ![e] = FALSE]
  /\ ThreadFrame
  /\ UNCHANGED terminal

AfterExecutedDrain(e) ==
  /\ pc[e] = "executedDrain" /\ Drained(e)
  /\ \/ /\ observerError[e] # NoError
        /\ Caught(e, observerError[e])
     \/ /\ observerError[e] = NoError /\ (backendAborted[e] \/ cancelRequested[e])
        /\ StatementCancelled(e, stmt[e], attempt[e])
        /\ ReleaseCommand(e)
     \/ /\ observerError[e] = NoError /\ ~backendAborted[e] /\ ~cancelRequested[e]
        /\ EmitAndDrain(e, << EventOf("statement-completed", stmt[e], attempt[e]) >>,
                        "completedDrain")
        /\ UNCHANGED << stmt, attempt, rowsDelivered, status, timer, phase,
                        hadFailure, dispatched, command, commandCancel >>
  /\ ThreadFrame
  /\ UNCHANGED << terminal, backendAborted >>

AfterCompletedDrain(e) ==
  /\ pc[e] = "completedDrain" /\ Drained(e)
  /\ IF observerError[e] = NoError
     THEN EnterStatement(e, stmt[e] + 1, hadFailure[e]) /\ ReleaseCommand(e)
     ELSE Caught(e, observerError[e])
  /\ ThreadFrame
  /\ UNCHANGED << terminal, backendAborted >>

(* Persistent connection dropped after an error that may not be retried;   *)
(* a failure of the drop itself is only logged.                            *)
AfterDrop(e) ==
  /\ pc[e] = "dropping"
  /\ StatementErrored(e)
  /\ ReleaseCommand(e)
  /\ ThreadFrame
  /\ UNCHANGED << terminal, backendAborted >>

AfterRetryDrain(e) ==
  /\ pc[e] = "retryDrain" /\ Drained(e)
  /\ \/ /\ observerError[e] # NoError
        /\ Escape(e, observerError[e]) /\ ReleaseCommand(e)
     \/ /\ observerError[e] = NoError /\ cancelRequested[e]
        /\ StatementCancelled(e, stmt[e], 0) /\ ReleaseCommand(e)
     \/ /\ observerError[e] = NoError /\ ~cancelRequested[e]
        /\ pc' = [pc EXCEPT ![e] = "reconnecting"]
        /\ UNCHANGED << stmt, attempt, rowsDelivered, status, timer, phase, hadFailure,
                        dispatched, emitted, awaited, command, commandCancel >>
  /\ ThreadFrame
  /\ UNCHANGED << terminal, backendAborted >>

ReconnectFails(e) ==
  /\ pc[e] = "reconnecting"
  /\ StatementErrored(e)
  /\ ReleaseCommand(e)
  /\ ThreadFrame
  /\ UNCHANGED << terminal, backendAborted >>

(* The checks between the reconnect and the replay.                        *)
ReplayStoppedByBackend(e) == backendAborted[e]    \* mutant
ReplayStopped(e) == backendAborted[e] \/ cancelRequested[e]

(* After the reconnect, the checks at the end of the catch block and at the*)
(* head of the attempt loop, then the replay.                              *)
ReconnectSucceeds(e) ==
  /\ pc[e] = "reconnecting"
  /\ \/ /\ ReplayStopped(e)
        /\ StatementCancelled(e, stmt[e], IF backendAborted[e] THEN 0 ELSE 1)
     \/ /\ ~ReplayStopped(e)
        /\ Dispatch(e, 1)
        /\ phase' = [phase EXCEPT ![e] = "running"]
  /\ ReleaseCommand(e)
  /\ ThreadFrame
  /\ UNCHANGED << terminal, backendAborted >>

AfterCancelDrain(e) ==
  /\ pc[e] = "cancelDrain" /\ Drained(e)
  /\ IF observerError[e] = NoError
     THEN /\ BeginFinish(e, StoppedStatus(e))
          /\ UNCHANGED << stmt, attempt, rowsDelivered, phase, hadFailure, dispatched >>
     ELSE Escape(e, observerError[e])
  /\ ThreadFrame
  /\ UNCHANGED << terminal, command, commandCancel, backendAborted >>

AfterFailDrain(e) ==
  /\ pc[e] = "failDrain" /\ Drained(e)
  /\ \/ /\ observerError[e] # NoError
        /\ Escape(e, observerError[e])
     \/ /\ observerError[e] = NoError /\ request[e].continueOnError
        /\ EnterStatement(e, stmt[e] + 1, hadFailure[e])
     \/ /\ observerError[e] = NoError /\ ~request[e].continueOnError
        /\ BeginFinish(e, "error")
        /\ UNCHANGED << stmt, attempt, rowsDelivered, phase, hadFailure, dispatched >>
  /\ ThreadFrame
  /\ UNCHANGED << terminal, command, commandCancel, backendAborted >>

(* A failing resource or backend cleanup turns a success into an error.    *)
CleanupOutcome(e) ==
  \/ UNCHANGED status
  \/ status' = [status EXCEPT ![e] = IF @ = "success" THEN "error" ELSE @]

AfterResourcesDisposed(e) ==
  /\ pc[e] = "disposingResources"
  /\ pc' = [pc EXCEPT ![e] = "cleaning"]
  /\ CleanupOutcome(e)
  /\ ThreadFrame
  /\ UNCHANGED << stmt, attempt, rowsDelivered, timer, phase, terminal, command,
                  commandCancel, hadFailure, emitted, awaited, dispatched, backendAborted >>

AfterCleanup(e) ==
  /\ pc[e] = "cleaning"
  /\ CleanupOutcome(e)
  /\ terminal' = [terminal EXCEPT ![e] = status'[e]]
  /\ EmitAndDrain(e, << EventOf("execution-terminal", 0, 0),
                        EventOf("batch-completed", 0, 0) >>, "terminalDrain")
  /\ ThreadFrame
  /\ UNCHANGED << stmt, attempt, rowsDelivered, timer, phase, command, commandCancel,
                  hadFailure, dispatched, backendAborted >>

AfterTerminalDrainThrowing(e) ==                  \* mutant
  /\ pc[e] = "terminalDrain" /\ Drained(e) /\ cancelJobs[e] = {}
  /\ IF observerError[e] # NoError THEN Escape(e, observerError[e])
     ELSE /\ pc' = [pc EXCEPT ![e] = "settled"]
          /\ UNCHANGED << stmt, attempt, rowsDelivered, status, timer, phase, hadFailure,
                          emitted, awaited, dispatched >>
  /\ ThreadFrame
  /\ UNCHANGED << terminal, command, commandCancel, backendAborted >>

(* The record is deleted and `settled` resolves, even if the observer      *)
(* failed on the closing events.  A job queued by cancelRecord was queued  *)
(* before the terminal status was set, so it has started by now; the call  *)
(* it made may still be unanswered.                                        *)
AfterTerminalDrain(e) ==
  /\ pc[e] = "terminalDrain" /\ Drained(e) /\ cancelJobs[e] = {}
  /\ pc' = [pc EXCEPT ![e] = "settled"]
  /\ ThreadFrame
  /\ UNCHANGED << stmt, attempt, rowsDelivered, status, timer, phase, terminal, command,
                  commandCancel, hadFailure, emitted, awaited, dispatched, backendAborted >>

--------------------------------------------------------------------------------
(* A row or column callback is heard only from a live, uncancelled attempt.*)
CallbackHeardAfterCancel(e) == CallbacksOpen(e) /\ terminal[e] = NoError   \* mutant
CallbackHeard(e) == CallbacksOpen(e) /\ ~cancelRequested[e] /\ terminal[e] = NoError

OnColumnsOrRows(e) ==
  /\ MayCallBack(e) /\ CallbackHeard(e)
  /\ CallbacksSoFar(e) < MaxCallbacks
  /\ \/ /\ Emit(e, << EventOf("columns", stmt[e], attempt[e]) >>)
        /\ UNCHANGED rowsDelivered
     \/ /\ Emit(e, << EventOf("rows", stmt[e], attempt[e]),
                      EventOf("progress", stmt[e], attempt[e]) >>)
        /\ rowsDelivered' = [rowsDelivered EXCEPT ![e] = TRUE]
  /\ ThreadFrame
  /\ UNCHANGED << pc, stmt, attempt, status, timer, phase, terminal, command,
                  commandCancel, hadFailure, awaited, dispatched, backendAborted >>

(* A command that arrives after the cancellation is stopped on arrival.    *)
NeverStopOnArrival(e) == FALSE                    \* mutant
StopOnArrival(e) == cancelRequested[e] /\ ~commandCancel[e]

(* The driver announces the command of an attempt: too late, and it is     *)
(* cancelled; otherwise it is kept, and cancelled if nothing else was.     *)
OnCommand(e, c) ==
  /\ c \in dispatched[e] \ announced[e]
  /\ (c = Current(e) /\ pc[e] = "executing") \/ LateCallbacks
  /\ announced' = [announced EXCEPT ![e] = @ \union {c}]
  /\ \/ /\ c # Current(e) \/ ~CallbacksOpen(e) \/ terminal[e] # NoError
        /\ cancelled' = [cancelled EXCEPT ![e] = @ \union {c}]
        /\ UNCHANGED << command, commandCancel >>
     \/ /\ c = Current(e) /\ CallbacksOpen(e) /\ terminal[e] = NoError
        /\ command' = [command EXCEPT ![e] = c]
        /\ IF StopOnArrival(e)
           THEN /\ commandCancel' = [commandCancel EXCEPT ![e] = TRUE]
                /\ cancelled' = [cancelled EXCEPT ![e] = @ \union {c}]
           ELSE UNCHANGED << commandCancel, cancelled >>
  /\ UNCHANGED << frameVars, eventVars, disposeVars, request, phase, cancelRequested,
                  timedOut, timer, terminal, hadFailure, cancelJobs, dispatched,
                  backendAborted >>

--------------------------------------------------------------------------------
(* cancelRecord for the set of executions being cancelled: what each call  *)
(* does at once.  The call it makes runs one promise job later.            *)
CancelRecords(C) ==
  LET stopping == {e \in C : Cancellable(e)}
      job(e) == IF command[e] # NoCommand THEN {"command"}
                ELSE IF BackendCancels THEN {"backend"} ELSE {}
  IN /\ cancelRequested' = [e \in Executions |-> cancelRequested[e] \/ e \in stopping]
     /\ phase' = [e \in Executions |-> IF e \in stopping THEN "cancelling" ELSE phase[e]]
     /\ commandCancel' = [e \in Executions |->
          commandCancel[e] \/ (e \in stopping /\ job(e) # {})]
     /\ cancelJobs' = [e \in Executions |->
          IF e \in stopping /\ ~commandCancel[e] THEN cancelJobs[e] \union job(e)
          ELSE cancelJobs[e]]

CancelFrame == UNCHANGED << frameVars, eventVars, backendVars, request, terminal,
                            command, hadFailure >>

Cancel(e) ==
  /\ Cancellable(e)
  /\ CancelRecords({e})
  /\ CancelFrame
  /\ UNCHANGED << timedOut, timer, disposeVars >>

TimeoutFires(e) ==
  /\ timer[e] /\ Cancellable(e)
  /\ timer' = [timer EXCEPT ![e] = FALSE]
  /\ timedOut' = [timedOut EXCEPT ![e] = TRUE]
  /\ CancelRecords({e})
  /\ CancelFrame
  /\ UNCHANGED disposeVars

(* The queued promise job starts: it cancels the command registered by     *)
(* then.  When that call is answered is seen by dispose alone, StopSettles.*)
RunCancelJob(e, job) ==
  /\ job \in cancelJobs[e]
  /\ cancelJobs' = [cancelJobs EXCEPT ![e] = @ \ {job}]
  /\ IF job = "backend"
     THEN backendAborted' = [backendAborted EXCEPT ![e] = TRUE] /\ UNCHANGED cancelled
     ELSE /\ cancelled' = [cancelled EXCEPT ![e] = @ \union ({command[e]} \ {NoCommand})]
          /\ UNCHANGED backendAborted
  /\ UNCHANGED << frameVars, eventVars, disposeVars, request, phase, cancelRequested,
                  timedOut, timer, terminal, command, commandCancel, hadFailure,
                  dispatched, announced >>

(* The product cancels at the backend, past the orchestrator.              *)
ExternalAbort(e) ==
  /\ BackendCancels /\ Active(e) /\ ~backendAborted[e]
  /\ backendAborted' = [backendAborted EXCEPT ![e] = TRUE]
  /\ UNCHANGED << frameVars, eventVars, disposeVars, request, phase, cancelRequested,
                  timedOut, timer, terminal, command, commandCancel, hadFailure,
                  cancelJobs, dispatched, announced, cancelled >>

DetachObserver(e) ==
  /\ Active(e) /\ ~detached[e]
  /\ detached' = [detached EXCEPT ![e] = TRUE]
  /\ UNCHANGED << frameVars, backendVars, disposeVars, request, phase, cancelRequested,
                  timedOut, timer, terminal, command, commandCancel, hadFailure,
                  emitted, processed, awaited, observerError, cancelJobs >>

--------------------------------------------------------------------------------
DisposeWithoutCancelling ==                       \* mutant
  /\ ~disposed
  /\ disposed' = TRUE
  /\ CancelRecords({})
  /\ stopsAwaited' = {}
  /\ CancelFrame
  /\ UNCHANGED << timedOut, timer, allClosed >>

(* dispose: no more starts, every active execution is cancelled at once.   *)
(* It awaits the cancellation each record holds from now on, be it its own *)
(* or an earlier one; a cancellation the record holds no longer (the       *)
(* finally block dropped it) is awaited by nobody.                         *)
Dispose ==
  /\ ~disposed
  /\ disposed' = TRUE
  /\ CancelRecords(Executions)
  /\ stopsAwaited' = {e \in Executions : Cancellable(e) /\ commandCancel'[e]}
  /\ CancelFrame
  /\ UNCHANGED << timedOut, timer, allClosed >>

(* The cancellation of e that dispose awaits is answered or fails.         *)
StopSettles(e) ==
  /\ e \in stopsAwaited /\ cancelJobs[e] = {}
  /\ stopsAwaited' = stopsAwaited \ {e}
  /\ CancelFrame
  /\ UNCHANGED << cancelRequested, phase, commandCancel, cancelJobs, timedOut, timer,
                  disposed, allClosed >>

(* The backend closes once the awaited cancellations have settled and the  *)
(* executions have.                                                        *)
CloseAll ==
  /\ disposed /\ ~allClosed
  /\ stopsAwaited = {} /\ \A e \in Executions : ~Active(e)
  /\ allClosed' = TRUE
  /\ UNCHANGED << frameVars, eventVars, backendVars, disposed, stopsAwaited, request,
                  phase, cancelRequested, timedOut, timer, terminal, command,
                  commandCancel, hadFailure, cancelJobs >>

--------------------------------------------------------------------------------
Init ==
  /\ pc = [e \in Executions |-> "none"]
  /\ stmt = [e \in Executions |-> 0]
  /\ attempt = [e \in Executions |-> 0]
  /\ rowsDelivered = [e \in Executions |-> FALSE]
  /\ status = [e \in Executions |-> "success"]
  /\ request \in [Executions -> Requests]
  /\ phase = [e \in Executions |-> "preparing"]
  /\ cancelRequested = [e \in Executions |-> FALSE]
  /\ timedOut = [e \in Executions |-> FALSE]
  /\ timer = [e \in Executions |-> FALSE]
  /\ terminal = [e \in Executions |-> NoError]
  /\ command = [e \in Executions |-> NoCommand]
  /\ commandCancel = [e \in Executions |-> FALSE]
  /\ hadFailure = [e \in Executions |-> FALSE]
  /\ emitted = [e \in Executions |-> << >>]
  /\ processed = [e \in Executions |-> 0]
  /\ awaited = [e \in Executions |-> 0]
  /\ observerError = [e \in Executions |-> NoError]
  /\ detached = [e \in Executions |-> FALSE]
  /\ cancelJobs = [e \in Executions |-> {}]
  /\ dispatched = [e \in Executions |-> {}]
  /\ announced = [e \in Executions |-> {}]
  /\ cancelled = [e \in Executions |-> {}]
  /\ backendAborted = [e \in Executions |-> FALSE]
  /\ disposed = FALSE
  /\ stopsAwaited = {}
  /\ allClosed = FALSE

(* The thread's own steps: promise continuations.                          *)
Resume(e) ==
  \/ AfterStartDrain(e) \/ AfterStatementDrain(e) \/ AfterExecutedDrain(e)
  \/ AfterCompletedDrain(e) \/ AfterRetryDrain(e) \/ AfterCancelDrain(e)
  \/ AfterFailDrain(e) \/ AfterTerminalDrain(e)

(* Answers of the backend other than to execute.                           *)
BackendAnswers(e) ==
  \/ AfterDrop(e) \/ ReconnectFails(e) \/ ReconnectSucceeds(e)
  \/ AfterResourcesDisposed(e) \/ AfterCleanup(e)

ExecuteSettles(e) == ExecuteSucceeds(e) \/ \E kind \in ErrorKinds : ExecuteFails(e, kind)

Next ==
  \/ \E e \in Executions :
       \/ Start(e)
       \/ DeliverEvent(e) \/ Resume(e) \/ BackendAnswers(e) \/ ExecuteSettles(e)
       \/ OnColumnsOrRows(e) \/ \E c \in Commands : OnCommand(e, c)
       \/ Cancel(e) \/ TimeoutFires(e) \/ \E job \in {"backend", "command"} : RunCancelJob(e, job)
       \/ ExternalAbort(e) \/ DetachObserver(e) \/ StopSettles(e)
  \/ Dispose \/ CloseAll

Spec == Init /\ [][Next]_vars

(* A stop has reached the backend for the attempt in flight.               *)
StopReached(e) == backendAborted[e] \/ Current(e) \in cancelled[e]

(* Promise continuations and queued jobs run, the observer's and the       *)
(* backend's promises settle, except that execute need settle only once it *)
(* has been told to stop: a query may run for ever.                        *)
Fairness ==
  \A e \in Executions :
    /\ WF_vars(DeliverEvent(e))
    /\ WF_vars(Resume(e))
    /\ WF_vars(BackendAnswers(e))
    /\ WF_vars(StopReached(e) /\ ExecuteSettles(e))
    /\ WF_vars(\E job \in {"backend", "command"} : RunCancelJob(e, job))
    /\ WF_vars(pc[e] = "executing" /\ OnCommand(e, Current(e)))
    /\ WF_vars(TimeoutFires(e))
    /\ WF_vars(StopSettles(e))
  
FairSpec == Spec /\ Fairness /\ WF_vars(CloseAll)

--------------------------------------------------------------------------------
(* Every variable has its type, and an execution awaits no more events than*)
(* it has emitted.                                                         *)
TypeOK ==
  /\ pc \in [Executions -> PCs]
  /\ stmt \in [Executions -> 0 .. StatementCount]
  /\ attempt \in [Executions -> Attempts]
  /\ rowsDelivered \in [Executions -> BOOLEAN]
  /\ status \in [Executions -> TerminalStatuses]
  /\ request \in [Executions -> Requests]
  /\ phase \in [Executions -> Phases]
  /\ cancelRequested \in [Executions -> BOOLEAN]
  /\ timedOut \in [Executions -> BOOLEAN]
  /\ timer \in [Executions -> BOOLEAN]
  /\ terminal \in [Executions -> TerminalStatuses \union {NoError}]
  /\ command \in [Executions -> Commands \union {NoCommand}]
  /\ commandCancel \in [Executions -> BOOLEAN]
  /\ hadFailure \in [Executions -> BOOLEAN]
  /\ emitted \in [Executions -> Seq(Event)]
  /\ processed \in [Executions -> Nat]
  /\ awaited \in [Executions -> Nat]
  /\ observerError \in [Executions -> ErrorKinds \union {NoError}]
  /\ detached \in [Executions -> BOOLEAN]
  /\ cancelJobs \in [Executions -> SUBSET {"backend", "command"}]
  /\ dispatched \in [Executions -> SUBSET Commands]
  /\ announced \in [Executions -> SUBSET Commands]
  /\ cancelled \in [Executions -> SUBSET Commands]
  /\ backendAborted \in [Executions -> BOOLEAN]
  /\ disposed \in BOOLEAN
  /\ stopsAwaited \subseteq Executions
  /\ allClosed \in BOOLEAN

InLog(e, types, s) ==
  \E i \in DOMAIN emitted[e] : emitted[e][i].type \in types /\ emitted[e][i].stmt = s

(* The status a caller reads is `cancelling` from the moment it cancels    *)
(* until the execution is terminal: no later assignment of running or      *)
(* retrying by the thread hides the cancellation.                          *)
CancellationStaysVisible ==
  \A e \in Executions : Active(e) /\ cancelRequested[e] => phase[e] = "cancelling"

(* The terminal status agrees with the events: success means that every    *)
(* statement completed and none failed, and a timeout is never reported as *)
(* a cancellation, in whatever order the user's cancel and the timer came. *)
TerminalAgreesWithLog ==
  \A e \in Executions :
    /\ terminal[e] = "success" =>
         \A s \in Statements : /\ InLog(e, {"statement-completed"}, s)
                               /\ ~InLog(e, {"statement-failed"}, s)
    /\ terminal[e] = "cancelled" => ~timedOut[e]

(* A registered command of a cancelled execution never escapes the stop:   *)
(* it is cancelled, about to be, or the backend was told on its behalf.    *)
CancelledCommandIsStopped ==
  \A e \in Executions :
    cancelRequested[e] /\ command[e] # NoCommand =>
      \/ command[e] \in cancelled[e]
      \/ cancelJobs[e] # {}
      \/ backendAborted[e]

(* Whatever the observer does, the two closing events are emitted exactly  *)
(* once, last, and by the time the execution settles.                      *)
ClosedExactlyOnce ==
  \A e \in Executions :
    LET closing == {i \in DOMAIN emitted[e] : emitted[e][i].type = "execution-terminal"}
    IN /\ \A i \in closing : /\ i = Len(emitted[e]) - 1
                             /\ emitted[e][i + 1].type = "batch-completed"
       /\ pc[e] = "settled" => closing # {}

(* The inductive invariant of the proofs.  While a statement is worked on, *)
(* stmt names one of the request's; a cancelled record was started and     *)
(* shows it.                                                               *)
WorkPoints == {"stmtDrain", "executing", "executedDrain", "completedDrain"} \union CatchPoints
Positioned == \A e \in Executions : pc[e] \in WorkPoints => stmt[e] \in Statements
Visible == \A e \in Executions :
             cancelRequested[e] => phase[e] = "cancelling" /\ pc[e] # "none"
IInv == TypeOK /\ Positioned /\ Visible

(* A statement is replayed only while neither the caller nor the backend   *)
(* has asked for a stop, however long the reconnect took.                  *)
NoReplayAfterStop ==
  [][\A e \in Executions :
       cancelRequested[e] \/ backendAborted[e] =>
         \A s \in Statements : << s, 1 >> \in dispatched'[e] => << s, 1 >> \in dispatched[e]]_vars

(* Once cancelled, an execution emits nothing but failures and the closing *)
(* events: no late row, no completion, no retry and no further statement.  *)
OnlyClosingAfterCancel ==
  [][\A e \in Executions : cancelRequested[e] =>
       \A i \in DOMAIN emitted'[e] \ DOMAIN emitted[e] :
         emitted'[e][i].type \in {"statement-failed", "execution-terminal", "batch-completed"}]_vars

(* The events of every execution follow the contract: this formula is      *)
(* Contract(e)!Spec for all e, with the quantifier moved inside the box.   *)
ImplementsContract ==
  /\ \A e \in Executions : Contract(e)!Init
  /\ [][\A e \in Executions : Contract(e)!Next \/ UNCHANGED emitted[e]]_emitted

(* dispose ends by closing the backend.                                    *)
DisposeCompletes == disposed ~> allClosed

(* Wherever the cancellation fell (before the command was known, between   *)
(* its announcement and its registration, during a retry), the execution   *)
(* settles, even if the query alone would have run for ever.               *)
CancellationEnds == \A e \in Executions : cancelRequested[e] ~> pc[e] = "settled"
================================================================================
