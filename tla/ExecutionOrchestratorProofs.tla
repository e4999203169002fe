---------------------- MODULE ExecutionOrchestratorProofs ----------------------
(***************************************************************************)
(* Theorems about ExecutionOrchestrator, for every set of executions, every*)
(* number of statements, every mix of requests and every kind of backend,  *)
(* observer and driver the constants describe.                             *)
(***************************************************************************)
EXTENDS ExecutionOrchestrator, TLAPS

(* The part of TypeOK that the pieces of a thread step assign.             *)
ThreadType ==
  /\ pc \in [Executions -> PCs]
  /\ stmt \in [Executions -> 0 .. StatementCount]
  /\ attempt \in [Executions -> Attempts]
  /\ rowsDelivered \in [Executions -> BOOLEAN]
  /\ status \in [Executions -> TerminalStatuses]
  /\ phase \in [Executions -> Phases]
  /\ timer \in [Executions -> BOOLEAN]
  /\ hadFailure \in [Executions -> BOOLEAN]
  /\ emitted \in [Executions -> Seq(Event)]
  /\ awaited \in [Executions -> Nat]
  /\ dispatched \in [Executions -> SUBSET Commands]

(* What ReleaseCommand assigns.                                            *)
CommandType ==
  /\ command \in [Executions -> Commands \union {NoCommand}]
  /\ commandCancel \in [Executions -> BOOLEAN]

(* Emitting a sequence of events keeps the log a sequence of events.       *)
LEMMA EmitAndDrainType ==
  ASSUME TypeOK, NEW e \in Executions, NEW events \in Seq(Event), NEW at \in PCs,
         EmitAndDrain(e, events, at)
  PROVE  /\ emitted' \in [Executions -> Seq(Event)]
         /\ awaited' \in [Executions -> Nat]
         /\ pc' \in [Executions -> PCs]
  BY DEF EmitAndDrain, Emit, TypeOK

(* What enqueue appends is an event. *)
LEMMA EventType ==
  ASSUME NEW t \in StatementEventTypes \union ExecutionEventTypes,
         NEW s \in 0 .. StatementCount, NEW a \in Attempts
  PROVE  << EventOf(t, s, a) >> \in Seq(Event)
<1>1. EventOf(t, s, a) \in Event
  BY DEF EventOf, Event, Attempts
<1> QED
  BY <1>1

(* The closing sequence that finish appends consists of events. *)
LEMMA ClosingEventsType ==
  << EventOf("execution-terminal", 0, 0), EventOf("batch-completed", 0, 0) >> \in Seq(Event)
<1>1. EventOf("execution-terminal", 0, 0) \in Event /\ EventOf("batch-completed", 0, 0) \in Event
  BY StatementCountAssumption DEF EventOf, Event, Attempts, ExecutionEventTypes
<1> QED
  BY <1>1

(* The awaits are program points.                                          *)
LEMMA DrainPointsArePoints == DrainPoints \subseteq PCs
  BY DEF PCs

--------------------------------------------------------------------------------
(* Entering finish keeps the types. *)
LEMMA BeginFinishType ==
  ASSUME TypeOK, NEW e \in Executions, NEW s \in TerminalStatuses, BeginFinish(e, s),
         UNCHANGED << stmt, attempt, rowsDelivered, phase, hadFailure, dispatched >>
  PROVE  ThreadType'
  BY DEF TypeOK, ThreadType, BeginFinish, PCs, CleanupPoints

(* An exception that leaves the statement loop keeps the types. *)
LEMMA EscapeType ==
  ASSUME TypeOK, NEW e \in Executions, NEW kind, Escape(e, kind)
  PROVE  ThreadType'
<1>1. \E s \in TerminalStatuses : BeginFinish(e, s)
  BY DEF Escape, TerminalStatuses
<1> QED
  BY <1>1, BeginFinishType DEF Escape

(* So does the run loop's branch for a cancelled statement, *)
LEMMA StatementCancelledType ==
  ASSUME TypeOK, NEW e \in Executions, NEW s \in 0 .. StatementCount, NEW a \in Attempts,
         StatementCancelled(e, s, a)
  PROVE  ThreadType'
<1>1. << EventOf("statement-failed", s, a) >> \in Seq(Event)
  BY EventType DEF StatementEventTypes
<1>2. "cancelDrain" \in PCs
  BY DEF PCs, DrainPoints
<1>3. /\ emitted' \in [Executions -> Seq(Event)]
      /\ awaited' \in [Executions -> Nat]
      /\ pc' \in [Executions -> PCs]
  BY <1>1, <1>2, EmitAndDrainType DEF StatementCancelled
<1> QED
  BY <1>3 DEF TypeOK, ThreadType, StatementCancelled

(* and the one for a failed statement. *)
LEMMA StatementErroredType ==
  ASSUME TypeOK, NEW e \in Executions, StatementErrored(e)
  PROVE  ThreadType'
<1>1. << EventOf("statement-failed", stmt[e], attempt[e]) >> \in Seq(Event)
  BY EventType DEF StatementEventTypes, TypeOK
<1>2. "failDrain" \in PCs
  BY DEF PCs, DrainPoints
<1>3. /\ emitted' \in [Executions -> Seq(Event)]
      /\ awaited' \in [Executions -> Nat]
      /\ pc' \in [Executions -> PCs]
  BY <1>1, <1>2, EmitAndDrainType DEF StatementErrored
<1>4. hadFailure' \in [Executions -> BOOLEAN]
  BY RequestsAssumption DEF TypeOK, StatementErrored, Request
<1> QED
  BY <1>3, <1>4 DEF TypeOK, ThreadType, StatementErrored

(* The loop head: the statement exists whenever the loop enters it. *)
LEMMA EnterStatementType ==
  ASSUME TypeOK, NEW e \in Executions, NEW s \in Nat \ {0}, NEW failed, EnterStatement(e, s, failed)
  PROVE  ThreadType'
<1>1. CASE \E st \in TerminalStatuses :
             BeginFinish(e, st) /\ UNCHANGED << stmt, attempt, rowsDelivered, phase, hadFailure, dispatched >>
  BY <1>1, BeginFinishType
<1>2. CASE ~LoopEnds(s) /\ StatementCancelled(e, s, 0)
  <2>1. s \in 0 .. StatementCount /\ 0 \in Attempts
    BY <1>2, StatementCountAssumption DEF LoopEnds, Attempts
  <2> QED
    BY <1>2, <2>1, StatementCancelledType
<1>3. CASE /\ ~LoopEnds(s)
           /\ stmt' = [stmt EXCEPT ![e] = s]
           /\ attempt' = [attempt EXCEPT ![e] = 0]
           /\ rowsDelivered' = [rowsDelivered EXCEPT ![e] = FALSE]
           /\ phase' = [phase EXCEPT ![e] = "running"]
           /\ EmitAndDrain(e, << EventOf("statement-started", s, 0) >>, "stmtDrain")
           /\ UNCHANGED << status, timer, hadFailure, dispatched >>
  <2>1. s \in 0 .. StatementCount /\ 0 \in Attempts
    BY <1>3, StatementCountAssumption DEF LoopEnds, Attempts
  <2>2. << EventOf("statement-started", s, 0) >> \in Seq(Event)
    BY <2>1, EventType DEF StatementEventTypes
  <2>3. "stmtDrain" \in PCs
    BY DEF PCs, DrainPoints
  <2>4. /\ emitted' \in [Executions -> Seq(Event)]
        /\ awaited' \in [Executions -> Nat]
        /\ pc' \in [Executions -> PCs]
    BY <1>3, <2>2, <2>3, EmitAndDrainType
  <2> QED
    BY <1>3, <2>1, <2>4 DEF TypeOK, ThreadType, Phases
<1> QED
  BY <1>1, <1>2, <1>3 DEF EnterStatement, StoppedStatus, TerminalStatuses

(* The execute call keeps the types. *)
LEMMA DispatchType ==
  ASSUME TypeOK, NEW e \in Executions, NEW a \in Attempts, stmt[e] \in Statements,
         Dispatch(e, a), phase' \in [Executions -> Phases]
  PROVE  ThreadType'
<1>1. << stmt[e], a >> \in Commands
  BY DEF Commands
<1>2. dispatched' \in [Executions -> SUBSET Commands]
  BY <1>1 DEF TypeOK, Dispatch
<1>3. "executing" \in PCs
  BY DEF PCs
<1> QED
  BY <1>2, <1>3 DEF TypeOK, ThreadType, Dispatch

(* Forgetting the command keeps the types. *)
LEMMA ReleaseCommandType ==
  ASSUME TypeOK, NEW e \in Executions,
         ReleaseCommand(e) \/ UNCHANGED << command, commandCancel >>
  PROVE  CommandType'
  BY DEF TypeOK, CommandType, ReleaseCommand

(* Every way out of runStatement's catch keeps the types. *)
LEMMA CaughtType ==
  ASSUME TypeOK, NEW e \in Executions, NEW kind, Caught(e, kind)
  PROVE  ThreadType' /\ CommandType'
<1>1. CASE StatementCancelled(e, stmt[e], attempt[e]) /\ ReleaseCommand(e)
  BY <1>1, StatementCancelledType, ReleaseCommandType DEF TypeOK
<1>2. CASE /\ phase' = [phase EXCEPT ![e] = "retrying"]
           /\ EmitAndDrain(e, << EventOf("retrying", stmt[e], 0) >>, "retryDrain")
           /\ UNCHANGED << stmt, attempt, rowsDelivered, status, timer, hadFailure,
                           dispatched, command, commandCancel >>
  <2>1. << EventOf("retrying", stmt[e], 0) >> \in Seq(Event)
    BY EventType DEF StatementEventTypes, TypeOK, Attempts
  <2>2. "retryDrain" \in PCs
    BY DEF PCs, DrainPoints
  <2>3. /\ emitted' \in [Executions -> Seq(Event)]
        /\ awaited' \in [Executions -> Nat]
        /\ pc' \in [Executions -> PCs]
    BY <1>2, <2>1, <2>2, EmitAndDrainType
  <2> QED
    BY <1>2, <2>3 DEF TypeOK, ThreadType, CommandType, Phases
<1>3. CASE /\ pc' = [pc EXCEPT ![e] = "dropping"]
           /\ UNCHANGED << stmt, attempt, rowsDelivered, status, timer, phase, hadFailure,
                           dispatched, emitted, awaited, command, commandCancel >>
  BY <1>3 DEF TypeOK, ThreadType, CommandType, PCs
<1>4. CASE StatementErrored(e) /\ ReleaseCommand(e)
  BY <1>4, StatementErroredType, ReleaseCommandType
<1> QED
  BY <1>1, <1>2, <1>3, <1>4 DEF Caught

--------------------------------------------------------------------------------
(* Type correctness of a step of the thread, put together from its parts.  *)
LEMMA ThreadStepType ==
  ASSUME TypeOK, ThreadType', CommandType', ThreadFrame,
         terminal' \in [Executions -> TerminalStatuses \union {NoError}],
         backendAborted' \in [Executions -> BOOLEAN]
  PROVE  TypeOK'
  BY DEF TypeOK, ThreadType, CommandType, ThreadFrame, disposeVars

(* start keeps the types of the record it creates. *)
LEMMA StartType ==
  ASSUME TypeOK, NEW e \in Executions, Start(e)
  PROVE  TypeOK'
<1>1. << EventOf("execution-started", 0, 0) >> \in Seq(Event)
  BY EventType, StatementCountAssumption DEF ExecutionEventTypes, Attempts
<1>2. "startDrain" \in PCs
  BY DEF PCs, DrainPoints
<1>3. /\ emitted' \in [Executions -> Seq(Event)]
      /\ awaited' \in [Executions -> Nat]
      /\ pc' \in [Executions -> PCs]
  BY <1>1, <1>2, EmitAndDrainType DEF Start
<1>4. timer' \in [Executions -> BOOLEAN] /\ phase' \in [Executions -> Phases]
  BY RequestsAssumption DEF Start, TypeOK, Request, Phases
<1> QED
  BY <1>3, <1>4 DEF Start, TypeOK, backendVars, disposeVars

(* Delivering an event, to an observer that may fail, keeps the types. *)
LEMMA DeliverEventType ==
  ASSUME TypeOK, NEW e \in Executions, DeliverEvent(e)
  PROVE  TypeOK'
<1>1. processed' \in [Executions -> Nat]
  BY DEF DeliverEvent, TypeOK
<1>2. observerError' \in [Executions -> ErrorKinds \union {NoError}]
  <2>1. CASE UNCHANGED observerError
    BY <2>1 DEF TypeOK
  <2>2. CASE \E kind \in ObserverErrors :
               observerError' = [observerError EXCEPT ![e] = IF @ = NoError THEN kind ELSE @]
    <3>1. PICK kind \in ObserverErrors :
            observerError' = [observerError EXCEPT ![e] = IF @ = NoError THEN kind ELSE @]
      BY <2>2
    <3>2. kind \in ErrorKinds
      BY ObserverErrorsAssumption
    <3> QED
      BY <3>1, <3>2 DEF TypeOK
  <2> QED
    BY <2>1, <2>2 DEF DeliverEvent
<1> QED
  BY <1>1, <1>2 DEF DeliverEvent, TypeOK, frameVars, backendVars, disposeVars

(* Every continuation after an await keeps the types. *)
LEMMA ResumeType ==
  ASSUME TypeOK, Positioned, NEW e \in Executions, Resume(e)
  PROVE  TypeOK'
<1>0. /\ UNCHANGED << command, commandCancel >> => CommandType'
      /\ ReleaseCommand(e) => CommandType'
  BY ReleaseCommandType
<1> USE <1>0
<1>1. CASE AfterStartDrain(e)
  <2>1. EnterStatement(e, 1, FALSE) \/ Escape(e, observerError[e])
    BY <1>1 DEF AfterStartDrain
  <2>2. ThreadType'
    <3>1. 1 \in Nat \ {0}
      OBVIOUS
    <3>2. CASE EnterStatement(e, 1, FALSE)
      BY <3>1, <3>2, EnterStatementType, Zenon
    <3> QED
      BY <2>1, <3>2, EscapeType
  <2> QED
    BY <1>1, <2>2, ThreadStepType DEF AfterStartDrain, TypeOK
<1>2. CASE AfterStatementDrain(e)
  <2>1. stmt[e] \in Statements /\ stmt[e] \in 0 .. StatementCount /\ 0 \in Attempts
    BY <1>2 DEF AfterStatementDrain, Positioned, WorkPoints, TypeOK, Attempts
  <2>2. \/ Escape(e, observerError[e])
        \/ StatementCancelled(e, stmt[e], 0)
        \/ Dispatch(e, 0) /\ UNCHANGED phase
    BY <1>2 DEF AfterStatementDrain
  <2>3. UNCHANGED phase => phase' \in [Executions -> Phases]
    BY DEF TypeOK
  <2>4. ThreadType'
    BY <2>1, <2>2, <2>3, EscapeType, StatementCancelledType, DispatchType
  <2>5. CommandType'
    BY <1>2 DEF AfterStatementDrain
  <2> QED
    BY <1>2, <2>4, <2>5, ThreadStepType DEF AfterStatementDrain, TypeOK
<1>3. CASE AfterExecutedDrain(e)
  <2>1. CASE Caught(e, observerError[e])
    BY <1>3, <2>1, CaughtType, ThreadStepType DEF AfterExecutedDrain, TypeOK
  <2>2. CASE StatementCancelled(e, stmt[e], attempt[e]) /\ ReleaseCommand(e)
    <3>1. ThreadType'
      BY <2>2, StatementCancelledType DEF TypeOK
    <3> QED
      BY <1>3, <2>2, <3>1, ThreadStepType DEF AfterExecutedDrain, TypeOK
  <2>3. CASE /\ EmitAndDrain(e, << EventOf("statement-completed", stmt[e], attempt[e]) >>,
                             "completedDrain")
             /\ UNCHANGED << stmt, attempt, rowsDelivered, status, timer, phase,
                             hadFailure, dispatched, command, commandCancel >>
    <3>1. << EventOf("statement-completed", stmt[e], attempt[e]) >> \in Seq(Event)
      BY EventType DEF StatementEventTypes, TypeOK
    <3>2. "completedDrain" \in PCs
      BY DEF PCs, DrainPoints
    <3>3. /\ emitted' \in [Executions -> Seq(Event)]
          /\ awaited' \in [Executions -> Nat]
          /\ pc' \in [Executions -> PCs]
      BY <2>3, <3>1, <3>2, EmitAndDrainType
    <3>4. ThreadType'
      BY <2>3, <3>3 DEF TypeOK, ThreadType
    <3> QED
      BY <1>3, <2>3, <3>4, ThreadStepType DEF AfterExecutedDrain, TypeOK
  <2> QED
    BY <1>3, <2>1, <2>2, <2>3 DEF AfterExecutedDrain
<1>4. CASE AfterCompletedDrain(e)
  <2>1. stmt[e] + 1 \in Nat \ {0}
    BY DEF TypeOK
  <2>2. \/ EnterStatement(e, stmt[e] + 1, hadFailure[e]) /\ ReleaseCommand(e)
        \/ Caught(e, observerError[e])
    BY <1>4 DEF AfterCompletedDrain
  <2>3. ThreadType' /\ CommandType'
    BY <2>1, <2>2, EnterStatementType, CaughtType
  <2> QED
    BY <1>4, <2>3, ThreadStepType DEF AfterCompletedDrain, TypeOK
<1>5. CASE AfterRetryDrain(e)
  <2>1. CASE Escape(e, observerError[e]) /\ ReleaseCommand(e)
    BY <1>5, <2>1, EscapeType, ThreadStepType DEF AfterRetryDrain, TypeOK
  <2>2. CASE StatementCancelled(e, stmt[e], 0) /\ ReleaseCommand(e)
    <3>1. ThreadType'
      BY <2>2, StatementCancelledType DEF TypeOK, Attempts
    <3> QED
      BY <1>5, <2>2, <3>1, ThreadStepType DEF AfterRetryDrain, TypeOK
  <2>3. CASE /\ pc' = [pc EXCEPT ![e] = "reconnecting"]
             /\ UNCHANGED << stmt, attempt, rowsDelivered, status, timer, phase, hadFailure,
                             dispatched, emitted, awaited, command, commandCancel >>
    <3>1. ThreadType'
      BY <2>3 DEF TypeOK, ThreadType, PCs
    <3> QED
      BY <1>5, <2>3, <3>1, ThreadStepType DEF AfterRetryDrain, TypeOK
  <2> QED
    BY <1>5, <2>1, <2>2, <2>3 DEF AfterRetryDrain
<1>6. CASE AfterCancelDrain(e)
  <2>1. \/ \E st \in TerminalStatuses :
             /\ BeginFinish(e, st)
             /\ UNCHANGED << stmt, attempt, rowsDelivered, phase, hadFailure, dispatched >>
        \/ Escape(e, observerError[e])
    BY <1>6 DEF AfterCancelDrain, StoppedStatus, TerminalStatuses
  <2>2. ThreadType'
    BY <2>1, BeginFinishType, EscapeType
  <2> QED
    BY <1>6, <2>2, ThreadStepType DEF AfterCancelDrain, TypeOK
<1>7. CASE AfterFailDrain(e)
  <2>1. stmt[e] + 1 \in Nat \ {0} /\ "error" \in TerminalStatuses
    BY DEF TypeOK, TerminalStatuses
  <2>2. \/ Escape(e, observerError[e])
        \/ EnterStatement(e, stmt[e] + 1, hadFailure[e])
        \/ /\ BeginFinish(e, "error")
           /\ UNCHANGED << stmt, attempt, rowsDelivered, phase, hadFailure, dispatched >>
    BY <1>7 DEF AfterFailDrain
  <2>3. ThreadType'
    BY <2>1, <2>2, BeginFinishType, EscapeType, EnterStatementType
  <2> QED
    BY <1>7, <2>3, ThreadStepType DEF AfterFailDrain, TypeOK
<1>8. CASE AfterTerminalDrain(e)
  <2>1. ThreadType'
    BY <1>8 DEF AfterTerminalDrain, TypeOK, ThreadType, PCs
  <2> QED
    BY <1>8, <2>1, ThreadStepType DEF AfterTerminalDrain, TypeOK
<1> QED
  BY <1>1, <1>2, <1>3, <1>4, <1>5, <1>6, <1>7, <1>8 DEF Resume

(* The answers of drop, reconnect, dispose and drain keep the types. *)
LEMMA BackendAnswersType ==
  ASSUME TypeOK, Positioned, NEW e \in Executions, BackendAnswers(e)
  PROVE  TypeOK'
<1>0. /\ UNCHANGED << command, commandCancel >> => CommandType'
      /\ ReleaseCommand(e) => CommandType'
  BY ReleaseCommandType
<1> USE <1>0
<1>1. CASE AfterDrop(e)
  BY <1>1, StatementErroredType, ThreadStepType DEF AfterDrop, TypeOK
<1>2. CASE ReconnectFails(e)
  BY <1>2, StatementErroredType, ThreadStepType DEF ReconnectFails, TypeOK
<1>3. CASE ReconnectSucceeds(e)
  <2>1. /\ stmt[e] \in Statements /\ stmt[e] \in 0 .. StatementCount
        /\ 0 \in Attempts /\ 1 \in Attempts
    BY <1>3 DEF ReconnectSucceeds, Positioned, WorkPoints, CatchPoints, TypeOK, Attempts
  <2>2. CASE StatementCancelled(e, stmt[e], IF backendAborted[e] THEN 0 ELSE 1)
    <3>1. ThreadType'
      BY <2>1, <2>2, StatementCancelledType
    <3> QED
      BY <1>3, <3>1, ThreadStepType DEF ReconnectSucceeds, TypeOK
  <2>3. CASE Dispatch(e, 1) /\ phase' = [phase EXCEPT ![e] = "running"]
    <3>1. phase' \in [Executions -> Phases]
      BY <2>3 DEF TypeOK, Phases
    <3>2. ThreadType'
      BY <2>1, <2>3, <3>1, DispatchType
    <3> QED
      BY <1>3, <3>2, ThreadStepType DEF ReconnectSucceeds, TypeOK
  <2> QED
    BY <1>3, <2>2, <2>3 DEF ReconnectSucceeds
<1>4. ASSUME CleanupOutcome(e)
      PROVE  status' \in [Executions -> TerminalStatuses]
  <2>1. status \in [Executions -> TerminalStatuses]
    BY DEF TypeOK
  <2> QED
    BY <1>4, <2>1 DEF CleanupOutcome, TerminalStatuses
<1>5. CASE AfterResourcesDisposed(e)
  <2>1. ThreadType'
    BY <1>4, <1>5 DEF AfterResourcesDisposed, TypeOK, ThreadType, PCs, CleanupPoints
  <2> QED
    BY <1>5, <2>1, ThreadStepType DEF AfterResourcesDisposed, TypeOK
<1>6. CASE AfterCleanup(e)
  <2>1. "terminalDrain" \in PCs
    BY DEF PCs, DrainPoints
  <2>2. /\ emitted' \in [Executions -> Seq(Event)]
        /\ awaited' \in [Executions -> Nat]
        /\ pc' \in [Executions -> PCs]
    BY <1>6, <2>1, ClosingEventsType, EmitAndDrainType DEF AfterCleanup
  <2>3. status' \in [Executions -> TerminalStatuses]
    BY <1>4, <1>6 DEF AfterCleanup
  <2>4. ThreadType'
    BY <1>6, <2>2, <2>3 DEF AfterCleanup, TypeOK, ThreadType
  <2>5. terminal' \in [Executions -> TerminalStatuses \union {NoError}]
    BY <1>6, <2>3 DEF AfterCleanup, TypeOK
  <2> QED
    BY <1>6, <2>4, <2>5, ThreadStepType DEF AfterCleanup, TypeOK
<1> QED
  BY <1>1, <1>2, <1>3, <1>5, <1>6 DEF BackendAnswers

(* Settling the execute call keeps the types. *)
LEMMA ExecuteSettlesType ==
  ASSUME TypeOK, NEW e \in Executions, ExecuteSettles(e)
  PROVE  TypeOK'
<1>1. CASE ExecuteSucceeds(e)
  <2>1. << >> \in Seq(Event)
    OBVIOUS
  <2>2. "executedDrain" \in PCs
    BY DEF PCs, DrainPoints
  <2>3. /\ emitted' \in [Executions -> Seq(Event)]
        /\ awaited' \in [Executions -> Nat]
        /\ pc' \in [Executions -> PCs]
    BY <1>1, <2>1, <2>2, EmitAndDrainType DEF ExecuteSucceeds
  <2>4. ThreadType' /\ CommandType'
    BY <1>1, <2>3, ReleaseCommandType DEF ExecuteSucceeds, TypeOK, ThreadType
  <2> QED
    BY <1>1, <2>4, ThreadStepType DEF ExecuteSucceeds, TypeOK
<1>2. ASSUME NEW kind \in ErrorKinds, ExecuteFails(e, kind)
      PROVE  TypeOK'
  <2>1. ThreadType' /\ CommandType'
    BY <1>2, CaughtType DEF ExecuteFails
  <2>2. backendAborted' \in [Executions -> BOOLEAN]
    BY <1>2 DEF ExecuteFails, TypeOK
  <2> QED
    BY <1>2, <2>1, <2>2, ThreadStepType DEF ExecuteFails, TypeOK
<1> QED
  BY <1>1, <1>2 DEF ExecuteSettles

(* Driver callbacks keep the types. *)
LEMMA CallbackType ==
  ASSUME TypeOK, NEW e \in Executions,
         OnColumnsOrRows(e) \/ \E c \in Commands : OnCommand(e, c)
  PROVE  TypeOK'
<1>1. CASE OnColumnsOrRows(e)
  <2>1. emitted[e] \in Seq(Event) /\ stmt[e] \in 0 .. StatementCount /\ attempt[e] \in Attempts
    BY DEF TypeOK
  <2>2. /\ EventOf("columns", stmt[e], attempt[e]) \in Event
        /\ EventOf("rows", stmt[e], attempt[e]) \in Event
        /\ EventOf("progress", stmt[e], attempt[e]) \in Event
    BY <2>1 DEF EventOf, Event, StatementEventTypes
  <2>3. emitted' \in [Executions -> Seq(Event)]
    <3>1. /\ << EventOf("columns", stmt[e], attempt[e]) >> \in Seq(Event)
          /\ << EventOf("rows", stmt[e], attempt[e]),
                EventOf("progress", stmt[e], attempt[e]) >> \in Seq(Event)
      BY <2>2
    <3>2. \E events \in Seq(Event) : emitted' = [emitted EXCEPT ![e] = @ \o events]
      BY <1>1, <3>1 DEF OnColumnsOrRows, Emit
    <3> QED
      BY <3>2, <2>1 DEF TypeOK
  <2>4. rowsDelivered' \in [Executions -> BOOLEAN]
    BY <1>1 DEF OnColumnsOrRows, TypeOK
  <2>5. ThreadType' /\ CommandType'
    BY <1>1, <2>3, <2>4, ReleaseCommandType DEF OnColumnsOrRows, TypeOK, ThreadType
  <2> QED
    BY <1>1, <2>5, ThreadStepType DEF OnColumnsOrRows, TypeOK
<1>2. ASSUME NEW c \in Commands, OnCommand(e, c)
      PROVE  TypeOK'
  <2>1. /\ announced' \in [Executions -> SUBSET Commands]
        /\ cancelled' \in [Executions -> SUBSET Commands]
    BY <1>2 DEF OnCommand, TypeOK
  <2>2. /\ command' \in [Executions -> Commands \union {NoCommand}]
        /\ commandCancel' \in [Executions -> BOOLEAN]
    <3>1. command' = command \/ command' = [command EXCEPT ![e] = c]
      BY <1>2 DEF OnCommand
    <3>2. commandCancel' = commandCancel \/ commandCancel' = [commandCancel EXCEPT ![e] = TRUE]
      BY <1>2 DEF OnCommand
    <3>3. /\ command \in [Executions -> Commands \union {NoCommand}]
          /\ commandCancel \in [Executions -> BOOLEAN]
      BY DEF TypeOK
    <3> QED
      BY <3>1, <3>2, <3>3
  <2> QED
    BY <1>2, <2>1, <2>2 DEF OnCommand, TypeOK, frameVars, eventVars, disposeVars
<1> QED
  BY <1>1, <1>2

(* What cancelRecord assigns, for one record or for all of them.           *)
LEMMA CancelRecordsType ==
  ASSUME TypeOK, NEW C, CancelRecords(C), CancelFrame,
         timedOut' \in [Executions -> BOOLEAN], timer' \in [Executions -> BOOLEAN],
         disposed' \in BOOLEAN, stopsAwaited' \subseteq Executions, allClosed' \in BOOLEAN
  PROVE  TypeOK'
<1>1. /\ cancelRequested' \in [Executions -> BOOLEAN]
      /\ commandCancel' \in [Executions -> BOOLEAN]
  BY DEF CancelRecords, TypeOK
<1>2. phase' \in [Executions -> Phases]
  BY DEF CancelRecords, TypeOK, Phases
<1>3. cancelJobs' \in [Executions -> SUBSET {"backend", "command"}]
  BY DEF CancelRecords, TypeOK
<1> QED
  BY <1>1, <1>2, <1>3 DEF CancelFrame, TypeOK, frameVars, eventVars, backendVars

(* cancel, timeout, detach, abort and dispose keep the types. *)
LEMMA ControlType ==
  ASSUME TypeOK, NEW e \in Executions,
         \/ Cancel(e) \/ TimeoutFires(e) \/ ExternalAbort(e) \/ DetachObserver(e) \/ StopSettles(e)
         \/ \E job \in {"backend", "command"} : RunCancelJob(e, job)
         \/ Dispose \/ CloseAll
  PROVE  TypeOK'
<1>1. CASE Cancel(e) \/ TimeoutFires(e) \/ Dispose
  <2>1. /\ timedOut' \in [Executions -> BOOLEAN]
        /\ timer' \in [Executions -> BOOLEAN]
        /\ disposed' \in BOOLEAN /\ stopsAwaited' \subseteq Executions /\ allClosed' \in BOOLEAN
    BY <1>1 DEF Cancel, TimeoutFires, Dispose, TypeOK, disposeVars
  <2>2. CancelFrame /\ \E C : CancelRecords(C)
    BY <1>1 DEF Cancel, TimeoutFires, Dispose
  <2> QED
    BY <2>1, <2>2, CancelRecordsType
<1>2. CASE \E job \in {"backend", "command"} : RunCancelJob(e, job)
  <2>1. PICK job \in {"backend", "command"} : RunCancelJob(e, job)
    BY <1>2
  <2>2. /\ cancelJobs' \in [Executions -> SUBSET {"backend", "command"}]
        /\ backendAborted' \in [Executions -> BOOLEAN]
    BY <2>1 DEF RunCancelJob, TypeOK
  <2>3. cancelled' \in [Executions -> SUBSET Commands]
    <3>1. {command[e]} \ {NoCommand} \in SUBSET Commands
      BY DEF TypeOK
    <3>2. \/ cancelled' = cancelled
          \/ cancelled' = [cancelled EXCEPT ![e] = @ \union ({command[e]} \ {NoCommand})]
      BY <2>1 DEF RunCancelJob
    <3>3. cancelled \in [Executions -> SUBSET Commands]
      BY DEF TypeOK
    <3> QED
      BY <3>1, <3>2, <3>3
  <2> QED
    BY <2>1, <2>2, <2>3 DEF RunCancelJob, TypeOK, frameVars, eventVars, disposeVars
<1>3. CASE ExternalAbort(e) \/ DetachObserver(e) \/ StopSettles(e) \/ CloseAll
  BY <1>3 DEF ExternalAbort, DetachObserver, StopSettles, CloseAll, CancelFrame, TypeOK,
              frameVars, eventVars, backendVars, disposeVars
<1> QED
  BY <1>1, <1>2, <1>3

--------------------------------------------------------------------------------
(* How the pieces of a thread step move pc, stmt and phase of e, and that  *)
(* they leave every other execution where it is.                           *)
OthersStay(e) ==
  \A f \in Executions \ {e} : /\ pc'[f] = pc[f] /\ stmt'[f] = stmt[f]
                              /\ phase'[f] = phase[f] /\ dispatched'[f] = dispatched[f]

(* Leaving the work on a statement.                                        *)
Leaves(e) == /\ pc'[e] \in PCs \ (WorkPoints \union {"none"})
             /\ phase'[e] = phase[e]
             /\ dispatched'[e] = dispatched[e]

(* The ways to leave a statement go to finish or to a drain, dispatching nothing. *)
LEMMA LeavingPieces ==
  ASSUME TypeOK, NEW e \in Executions
  PROVE  /\ \A kind : Escape(e, kind) => OthersStay(e) /\ Leaves(e)
         /\ \A s, a : StatementCancelled(e, s, a) => OthersStay(e) /\ Leaves(e)
         /\ StatementErrored(e) => OthersStay(e) /\ Leaves(e)
         /\ \A st : /\ BeginFinish(e, st)
                    /\ UNCHANGED << stmt, attempt, rowsDelivered, phase, hadFailure, dispatched >>
                    => OthersStay(e) /\ Leaves(e)
<1> USE DEF TypeOK, OthersStay, Leaves, PCs, DrainPoints, CleanupPoints, WorkPoints, CatchPoints
<1>1. ASSUME NEW st, BeginFinish(e, st),
             UNCHANGED << stmt, attempt, rowsDelivered, phase, hadFailure, dispatched >>
      PROVE  OthersStay(e) /\ Leaves(e)
  BY <1>1 DEF BeginFinish
<1>2. ASSUME NEW kind, Escape(e, kind)
      PROVE  OthersStay(e) /\ Leaves(e)
  BY <1>1, <1>2 DEF Escape
<1>3. ASSUME NEW s, NEW a, StatementCancelled(e, s, a)
      PROVE  OthersStay(e) /\ Leaves(e)
  BY <1>3 DEF StatementCancelled, EmitAndDrain
<1>4. ASSUME StatementErrored(e)
      PROVE  OthersStay(e) /\ Leaves(e)
  BY <1>4 DEF StatementErrored, EmitAndDrain
<1> QED
  BY <1>1, <1>2, <1>3, <1>4

(* The loop head finishes, waits for a drain, or dispatches unstopped. *)
LEMMA EnterStatementMoves ==
  ASSUME TypeOK, NEW e \in Executions, NEW s \in Nat \ {0}, NEW failed, EnterStatement(e, s, failed)
  PROVE  /\ OthersStay(e)
         /\ \/ Leaves(e)
            \/ /\ pc'[e] = "stmtDrain" /\ stmt'[e] \in Statements
               /\ ~cancelRequested[e] /\ phase'[e] = "running"
               /\ dispatched'[e] = dispatched[e]
<1>1. CASE /\ ~LoopEnds(s) /\ ~cancelRequested[e]
           /\ stmt' = [stmt EXCEPT ![e] = s]
           /\ phase' = [phase EXCEPT ![e] = "running"]
           /\ EmitAndDrain(e, << EventOf("statement-started", s, 0) >>, "stmtDrain")
           /\ UNCHANGED << status, timer, hadFailure, dispatched >>
  <2>1. s \in Statements
    BY <1>1, StatementCountAssumption DEF LoopEnds, Statements
  <2> QED
    BY <1>1, <2>1 DEF OthersStay, EmitAndDrain, TypeOK
<1> QED
  BY <1>1, LeavingPieces DEF EnterStatement

(* The catch leaves the statement or goes on to a retry, dispatching nothing. *)
LEMMA CaughtMoves ==
  ASSUME TypeOK, NEW e \in Executions, stmt[e] \in Statements, NEW kind, Caught(e, kind)
  PROVE  /\ OthersStay(e)
         /\ \/ Leaves(e)
            \/ /\ pc'[e] \in CatchPoints /\ stmt'[e] \in Statements
               /\ phase'[e] = phase[e] \/ ~cancelRequested[e]
               /\ dispatched'[e] = dispatched[e]
<1>1. CASE /\ ~CaughtCancellation(e, kind)
           /\ phase' = [phase EXCEPT ![e] = "retrying"]
           /\ EmitAndDrain(e, << EventOf("retrying", stmt[e], 0) >>, "retryDrain")
           /\ UNCHANGED << stmt, dispatched >>
  BY <1>1 DEF OthersStay, EmitAndDrain, TypeOK, CatchPoints, CaughtCancellation
<1>2. CASE /\ pc' = [pc EXCEPT ![e] = "dropping"]
           /\ UNCHANGED << stmt, phase, dispatched >>
  BY <1>2 DEF OthersStay, TypeOK, CatchPoints
<1> QED
  BY <1>1, <1>2, LeavingPieces DEF Caught

(* Every step of the thread of e, seen from outside: it is active, it      *)
(* either stops working on statements or works on one of the request's,    *)
(* and it touches phase or replays only while no stop was asked for.       *)
Moves(e) ==
  /\ Active(e)
  /\ OthersStay(e)
  /\ \/ Leaves(e)
     \/ /\ pc'[e] \in WorkPoints /\ stmt'[e] \in Statements
        /\ phase'[e] = phase[e] \/ ~cancelRequested[e]
        /\ \A s : << s, 1 >> \in dispatched'[e] =>
             << s, 1 >> \in dispatched[e] \/ (~cancelRequested[e] /\ ~backendAborted[e])

(* What a step of the thread may do to position, phase and dispatched attempts. *)
LEMMA ThreadMoves ==
  ASSUME TypeOK, Positioned, NEW e \in Executions,
         Resume(e) \/ BackendAnswers(e) \/ ExecuteSettles(e)
  PROVE  Moves(e)
<1>0. pc[e] \in WorkPoints => stmt[e] \in Statements /\ stmt[e] + 1 \in Nat \ {0}
  BY DEF Positioned, TypeOK
<1> USE DEF Moves, Active
<1>1. CASE AfterStartDrain(e)
  <2>1. EnterStatement(e, 1, FALSE) \/ Escape(e, observerError[e])
    BY <1>1 DEF AfterStartDrain
  <2>2. 1 \in Nat \ {0} /\ Active(e)
    BY <1>1 DEF AfterStartDrain
  <2>3. CASE EnterStatement(e, 1, FALSE)
    <3>1. /\ OthersStay(e)
          /\ \/ Leaves(e)
             \/ /\ pc'[e] = "stmtDrain" /\ stmt'[e] \in Statements
                /\ ~cancelRequested[e] /\ phase'[e] = "running"
                /\ dispatched'[e] = dispatched[e]
      BY <2>2, <2>3, EnterStatementMoves, Zenon
    <3> QED
      BY <2>2, <3>1 DEF WorkPoints
  <2> QED
    BY <2>1, <2>2, <2>3, LeavingPieces
<1>2. CASE AfterStatementDrain(e)
  <2>1. CASE Dispatch(e, 0) /\ UNCHANGED phase
    BY <1>2, <1>0, <2>1 DEF AfterStatementDrain, Dispatch, OthersStay, TypeOK, WorkPoints
  <2> QED
    BY <1>2, <2>1, LeavingPieces DEF AfterStatementDrain
<1>3. CASE AfterExecutedDrain(e)
  <2>0. stmt[e] \in Statements /\ Active(e)
    BY <1>0, <1>3 DEF AfterExecutedDrain, WorkPoints
  <2>1. CASE Caught(e, observerError[e])
    BY <2>0, <2>1, CaughtMoves DEF WorkPoints
  <2>2. CASE /\ EmitAndDrain(e, << EventOf("statement-completed", stmt[e], attempt[e]) >>,
                             "completedDrain")
             /\ UNCHANGED << stmt, phase, dispatched >>
    BY <2>0, <2>2 DEF EmitAndDrain, OthersStay, TypeOK, WorkPoints
  <2> QED
    BY <1>3, <2>0, <2>1, <2>2, LeavingPieces DEF AfterExecutedDrain
<1>4. CASE AfterCompletedDrain(e)
  <2>0. stmt[e] \in Statements /\ stmt[e] + 1 \in Nat \ {0} /\ Active(e)
    BY <1>0, <1>4 DEF AfterCompletedDrain, WorkPoints
  <2>1. EnterStatement(e, stmt[e] + 1, hadFailure[e]) \/ Caught(e, observerError[e])
    BY <1>4 DEF AfterCompletedDrain
  <2> QED
    BY <2>0, <2>1, EnterStatementMoves, CaughtMoves DEF WorkPoints
<1>5. CASE AfterRetryDrain(e)
  <2>0. stmt[e] \in Statements /\ Active(e)
    BY <1>0, <1>5 DEF AfterRetryDrain, WorkPoints, CatchPoints
  <2>1. CASE /\ pc' = [pc EXCEPT ![e] = "reconnecting"]
             /\ UNCHANGED << stmt, phase, dispatched >>
    BY <2>0, <2>1 DEF OthersStay, TypeOK, WorkPoints, CatchPoints
  <2> QED
    BY <1>5, <2>0, <2>1, LeavingPieces DEF AfterRetryDrain
<1>6. CASE AfterCancelDrain(e)
  BY <1>6, LeavingPieces DEF AfterCancelDrain
<1>7. CASE AfterFailDrain(e)
  <2>0. stmt[e] + 1 \in Nat \ {0} /\ Active(e)
    BY <1>7 DEF AfterFailDrain, TypeOK
  <2>1. CASE EnterStatement(e, stmt[e] + 1, hadFailure[e])
    BY <2>0, <2>1, EnterStatementMoves DEF WorkPoints
  <2> QED
    BY <1>7, <2>0, <2>1, LeavingPieces DEF AfterFailDrain
<1>8. CASE AfterTerminalDrain(e)
  BY <1>8 DEF AfterTerminalDrain, OthersStay, Leaves, TypeOK, PCs, DrainPoints, WorkPoints, CatchPoints
<1>9. CASE AfterDrop(e) \/ ReconnectFails(e)
  BY <1>9, LeavingPieces DEF AfterDrop, ReconnectFails
<1>10. CASE ReconnectSucceeds(e)
  <2>0. stmt[e] \in Statements /\ Active(e)
    BY <1>0, <1>10 DEF ReconnectSucceeds, WorkPoints, CatchPoints
  <2>1. CASE ~ReplayStopped(e) /\ Dispatch(e, 1) /\ phase' = [phase EXCEPT ![e] = "running"]
    BY <2>0, <2>1 DEF Dispatch, ReplayStopped, OthersStay, TypeOK, WorkPoints
  <2> QED
    BY <1>10, <2>0, <2>1, LeavingPieces DEF ReconnectSucceeds
<1>11. CASE AfterResourcesDisposed(e)
  BY <1>11 DEF AfterResourcesDisposed, OthersStay, Leaves, TypeOK, PCs, CleanupPoints,
               WorkPoints, CatchPoints
<1>12. CASE AfterCleanup(e)
  BY <1>12 DEF AfterCleanup, EmitAndDrain, OthersStay, Leaves, TypeOK, PCs, DrainPoints,
               WorkPoints, CatchPoints
<1>13. CASE ExecuteSucceeds(e)
  BY <1>0, <1>13 DEF ExecuteSucceeds, EmitAndDrain, OthersStay, TypeOK, WorkPoints
<1>14. ASSUME NEW kind \in ErrorKinds, ExecuteFails(e, kind)
       PROVE  Moves(e)
  <2>0. stmt[e] \in Statements /\ Active(e)
    BY <1>0, <1>14 DEF ExecuteFails, WorkPoints
  <2> QED
    BY <1>14, <2>0, CaughtMoves DEF ExecuteFails, WorkPoints
<1> QED
  BY <1>1, <1>2, <1>3, <1>4, <1>5, <1>6, <1>7, <1>8, <1>9, <1>10, <1>11, <1>12, <1>13, <1>14
     DEF Resume, BackendAnswers, ExecuteSettles

--------------------------------------------------------------------------------
(* A step of the thread leaves alone what callers, observers and dispose assign. *)
LEMMA ThreadKeeps ==
  ASSUME NEW e \in Executions, Resume(e) \/ BackendAnswers(e) \/ ExecuteSettles(e)
  PROVE  ThreadFrame
  BY DEF Resume, BackendAnswers, ExecuteSettles, AfterStartDrain, AfterStatementDrain,
         AfterExecutedDrain, AfterCompletedDrain, AfterRetryDrain, AfterCancelDrain,
         AfterFailDrain, AfterTerminalDrain, AfterDrop, ReconnectFails, ReconnectSucceeds,
         AfterResourcesDisposed, AfterCleanup, ExecuteSucceeds, ExecuteFails

(* The initial states satisfy the inductive invariant.                     *)
LEMMA InitIInv == Init => IInv
<1> SUFFICES ASSUME Init PROVE IInv
  OBVIOUS
<1>1. TypeOK
  <2>1. /\ pc \in [Executions -> PCs] /\ stmt \in [Executions -> 0 .. StatementCount]
        /\ attempt \in [Executions -> Attempts] /\ rowsDelivered \in [Executions -> BOOLEAN]
        /\ status \in [Executions -> TerminalStatuses] /\ phase \in [Executions -> Phases]
        /\ disposed \in BOOLEAN /\ stopsAwaited \subseteq Executions /\ allClosed \in BOOLEAN
    <3>1. /\ "none" \in PCs /\ 0 \in 0 .. StatementCount /\ 0 \in Attempts
          /\ "success" \in TerminalStatuses /\ "preparing" \in Phases
      BY StatementCountAssumption DEF PCs, Attempts, TerminalStatuses, Phases
    <3> QED
      BY <3>1 DEF Init
  <2>2. /\ request \in [Executions -> Requests] /\ cancelRequested \in [Executions -> BOOLEAN]
        /\ timedOut \in [Executions -> BOOLEAN] /\ timer \in [Executions -> BOOLEAN]
        /\ commandCancel \in [Executions -> BOOLEAN] /\ hadFailure \in [Executions -> BOOLEAN]
        /\ detached \in [Executions -> BOOLEAN] /\ backendAborted \in [Executions -> BOOLEAN]
        /\ processed \in [Executions -> Nat] /\ awaited \in [Executions -> Nat]
    BY DEF Init
  <2>3. /\ terminal \in [Executions -> TerminalStatuses \union {NoError}]
        /\ command \in [Executions -> Commands \union {NoCommand}]
        /\ observerError \in [Executions -> ErrorKinds \union {NoError}]
    BY DEF Init
  <2>4. emitted \in [Executions -> Seq(Event)]
    <3>1. << >> \in Seq(Event)
      OBVIOUS
    <3> QED
      BY <3>1 DEF Init
  <2>5. /\ cancelJobs \in [Executions -> SUBSET {"backend", "command"}]
        /\ dispatched \in [Executions -> SUBSET Commands]
        /\ announced \in [Executions -> SUBSET Commands]
        /\ cancelled \in [Executions -> SUBSET Commands]
    BY DEF Init
  <2> QED
    BY <2>1, <2>2, <2>3, <2>4, <2>5 DEF TypeOK
<1>2. Positioned /\ Visible
  BY DEF Init, Positioned, WorkPoints, CatchPoints, Visible
<1> QED
  BY <1>1, <1>2 DEF IInv

(* Thread steps keep the inductive invariant. *)
LEMMA ThreadIInv ==
  ASSUME IInv, NEW e \in Executions, Resume(e) \/ BackendAnswers(e) \/ ExecuteSettles(e)
  PROVE  IInv'
<1>1. TypeOK'
  BY ResumeType, BackendAnswersType, ExecuteSettlesType DEF IInv
<1>2. Moves(e) /\ ThreadFrame
  BY ThreadMoves, ThreadKeeps DEF IInv
<1>3. Positioned'
  BY <1>2 DEF Moves, OthersStay, Leaves, IInv, Positioned
<1>4. Visible'
  BY <1>2 DEF Moves, OthersStay, Leaves, IInv, Visible, ThreadFrame, WorkPoints, CatchPoints
<1> QED
  BY <1>1, <1>3, <1>4 DEF IInv

(* A new execution satisfies it: it is not cancelled yet.                  *)
LEMMA StartIInv ==
  ASSUME IInv, NEW e \in Executions, Start(e)
  PROVE  IInv'
<1>1. TypeOK'
  BY StartType DEF IInv
<1>2. /\ pc[e] = "none"
      /\ pc' = [pc EXCEPT ![e] = "startDrain"]
      /\ phase' = [phase EXCEPT ![e] = "running"]
      /\ UNCHANGED << stmt, cancelRequested >>
  BY DEF Start, AcceptsStart, EmitAndDrain
<1>3. Positioned'
  BY <1>2 DEF IInv, TypeOK, Positioned, WorkPoints, CatchPoints
<1>4. Visible'
  BY <1>2 DEF IInv, TypeOK, Visible
<1> QED
  BY <1>1, <1>3, <1>4 DEF IInv

(* Deliveries and driver callbacks leave the thread's position alone.      *)
LEMMA CallbackIInv ==
  ASSUME IInv, NEW e \in Executions,
         \/ DeliverEvent(e) \/ OnColumnsOrRows(e)
         \/ \E c \in Commands : OnCommand(e, c)
  PROVE  IInv'
<1>1. TypeOK'
  BY DeliverEventType, CallbackType DEF IInv
<1>2. UNCHANGED << pc, stmt, phase, cancelRequested >>
  BY DEF DeliverEvent, OnColumnsOrRows, OnCommand, ThreadFrame, frameVars
<1>3. Positioned' /\ Visible'
  BY <1>2 DEF IInv, Positioned, Visible
<1> QED
  BY <1>1, <1>3 DEF IInv

(* Control operations keep it: cancelling marks the phase of active records only. *)
LEMMA ControlIInv ==
  ASSUME IInv, NEW e \in Executions,
         \/ Cancel(e) \/ TimeoutFires(e) \/ ExternalAbort(e) \/ DetachObserver(e) \/ StopSettles(e)
         \/ \E job \in {"backend", "command"} : RunCancelJob(e, job)
         \/ Dispose \/ CloseAll
  PROVE  IInv'
<1>1. TypeOK'
  BY ControlType DEF IInv
<1>2. UNCHANGED << pc, stmt >>
  BY DEF Cancel, TimeoutFires, ExternalAbort, DetachObserver, StopSettles, RunCancelJob, Dispose,
         CloseAll, CancelFrame, frameVars
<1>3. Positioned'
  BY <1>2 DEF IInv, Positioned
<1>4. CASE \E C : CancelRecords(C)
  <2>1. PICK C : CancelRecords(C)
    BY <1>4
  <2>2. Visible'
    BY <1>2, <2>1 DEF IInv, TypeOK, Visible, CancelRecords, Cancellable, Active
  <2> QED
    BY <1>1, <1>3, <2>2 DEF IInv
<1>5. CASE \/ ExternalAbort(e) \/ DetachObserver(e) \/ StopSettles(e)
           \/ \E job \in {"backend", "command"} : RunCancelJob(e, job)
           \/ CloseAll
  <2>1. UNCHANGED << phase, cancelRequested >>
    BY <1>5 DEF ExternalAbort, DetachObserver, StopSettles, RunCancelJob, CloseAll
  <2> QED
    BY <1>1, <1>2, <1>3, <2>1 DEF IInv, Visible
<1> QED
  BY <1>4, <1>5 DEF Cancel, TimeoutFires, Dispose

(* Every step, stuttering included, keeps the inductive invariant.         *)
LEMMA NextIInv == IInv /\ [Next]_vars => IInv'
<1> SUFFICES ASSUME IInv, [Next]_vars PROVE IInv'
  OBVIOUS
<1>1. ASSUME NEW e \in Executions,
             Resume(e) \/ BackendAnswers(e) \/ ExecuteSettles(e)
      PROVE  IInv'
  BY <1>1, ThreadIInv
<1>2. ASSUME NEW e \in Executions,
             \/ Start(e) \/ DeliverEvent(e) \/ OnColumnsOrRows(e)
             \/ \E c \in Commands : OnCommand(e, c)
      PROVE  IInv'
  BY <1>2, StartIInv, CallbackIInv
<1>3. ASSUME NEW e \in Executions,
             \/ Cancel(e) \/ TimeoutFires(e) \/ ExternalAbort(e) \/ DetachObserver(e) \/ StopSettles(e)
             \/ \E job \in {"backend", "command"} : RunCancelJob(e, job)
      PROVE  IInv'
  BY <1>3, ControlIInv
<1>4. CASE Dispose \/ CloseAll
  <2>1. CASE Executions = {}
    BY <1>4, <2>1 DEF Dispose, CloseAll, IInv, TypeOK, Positioned, Visible, CancelRecords,
                      CancelFrame, frameVars, eventVars, backendVars
  <2>2. CASE \E e : e \in Executions
    BY <1>4, <2>2, ControlIInv
  <2> QED
    BY <2>1, <2>2
<1>5. CASE UNCHANGED vars
  BY <1>5 DEF vars, frameVars, eventVars, backendVars, disposeVars, IInv, TypeOK, Positioned, Visible
<1> QED
  BY <1>1, <1>2, <1>3, <1>4, <1>5 DEF Next

(* Every variable keeps its type in every behaviour: the loop of run never *)
(* goes past the last statement, and only dispatched commands are recorded.*)
THEOREM TypeInvariance == Spec => []TypeOK
<1>1. IInv => TypeOK
  BY DEF IInv
<1> QED
  BY <1>1, InitIInv, NextIInv, PTL DEF Spec

(* A caller that has cancelled reads the phase `cancelling` for as long as *)
(* the execution is active, whatever the thread assigns afterwards.        *)
THEOREM CancellationVisible == Spec => []CancellationStaysVisible
<1>1. IInv => CancellationStaysVisible
  BY DEF IInv, Visible, CancellationStaysVisible
<1> QED
  BY <1>1, InitIInv, NextIInv, PTL DEF Spec

(* Which steps dispatch: those of the execution's own thread only.         *)
LEMMA OthersKeepDispatched ==
  ASSUME NEW e \in Executions,
         \/ Start(e) \/ DeliverEvent(e) \/ OnColumnsOrRows(e)
         \/ \E c \in Commands : OnCommand(e, c)
         \/ Cancel(e) \/ TimeoutFires(e) \/ ExternalAbort(e) \/ DetachObserver(e) \/ StopSettles(e)
         \/ \E job \in {"backend", "command"} : RunCancelJob(e, job)
         \/ Dispose \/ CloseAll
  PROVE  dispatched' = dispatched
  BY DEF Start, DeliverEvent, OnColumnsOrRows, OnCommand, Cancel, TimeoutFires, ExternalAbort,
         DetachObserver, StopSettles, RunCancelJob, Dispose, CloseAll, CancelFrame, backendVars

(* A statement is replayed only while neither the caller nor the backend   *)
(* has asked for a stop: the reconnect of one execution may take any time  *)
(* and any number of other executions may step in between.                 *)
THEOREM NoReplay == Spec => NoReplayAfterStop
<1> DEFINE Replays(e) == cancelRequested[e] \/ backendAborted[e] =>
             \A s \in Statements : << s, 1 >> \in dispatched'[e] => << s, 1 >> \in dispatched[e]
<1>1. ASSUME IInv, [Next]_vars, NEW f \in Executions
      PROVE  Replays(f)
  <2>1. ASSUME NEW e \in Executions, Resume(e) \/ BackendAnswers(e) \/ ExecuteSettles(e)
        PROVE  Replays(f)
    <3>1. Moves(e)
      BY <1>1, <2>1, ThreadMoves DEF IInv
    <3>2. CASE f = e
      BY <3>1, <3>2 DEF Moves, Leaves
    <3>3. CASE f # e
      BY <3>1, <3>3 DEF Moves, OthersStay
    <3> QED
      BY <3>2, <3>3
  <2>2. CASE \E e \in Executions :
               \/ Start(e) \/ DeliverEvent(e) \/ OnColumnsOrRows(e)
               \/ \E c \in Commands : OnCommand(e, c)
               \/ Cancel(e) \/ TimeoutFires(e) \/ ExternalAbort(e) \/ DetachObserver(e) \/ StopSettles(e)
               \/ \E job \in {"backend", "command"} : RunCancelJob(e, job)
    BY <2>2, OthersKeepDispatched
  <2>3. CASE Dispose \/ CloseAll
    BY <2>3, OthersKeepDispatched
  <2>4. CASE UNCHANGED vars
    BY <2>4 DEF vars, backendVars
  <2> QED
    BY <1>1, <2>1, <2>2, <2>3, <2>4 DEF Next
<1>2. IInv /\ [Next]_vars =>
        [\A e \in Executions :
           cancelRequested[e] \/ backendAborted[e] =>
             \A s \in Statements : << s, 1 >> \in dispatched'[e] => << s, 1 >> \in dispatched[e]]_vars
  BY <1>1
<1> QED
  BY <1>2, InitIInv, NextIInv, PTL DEF Spec, NoReplayAfterStop
--------------------------------------------------------------------------------
(* Once an execution is cancelled only its failure and the two closing     *)
(* events are emitted: every enqueue of the code that reports progress has *)
(* looked at cancelRequested after the last await.                         *)

ClosingTypes == {"execution-terminal", "batch-completed"}
FinalTypes == ClosingTypes \union {"statement-failed"}

(* What a step may append to the log of f once f is cancelled.             *)
OnlyFinal(f) ==
  cancelRequested[f] =>
    \A i \in DOMAIN emitted'[f] \ DOMAIN emitted[f] : emitted'[f][i].type \in FinalTypes

(* An enqueue of final events, or of none. *)
LEMMA FinalEmission ==
  ASSUME TypeOK, NEW e \in Executions, NEW f \in Executions, NEW events \in Seq(Event),
         \A i \in DOMAIN events : events[i].type \in FinalTypes,
         Emit(e, events)
  PROVE  OnlyFinal(f)
<1>1. emitted[f] \in Seq(Event) /\ emitted \in [Executions -> Seq(Event)]
  BY DEF TypeOK
<1>2. CASE f # e
  BY <1>1, <1>2 DEF Emit, OnlyFinal
<1>3. CASE f = e
  <2>1. emitted'[f] = emitted[f] \o events
    BY <1>1, <1>3 DEF Emit
  <2>2. ASSUME NEW i \in DOMAIN emitted'[f] \ DOMAIN emitted[f]
        PROVE  emitted'[f][i].type \in FinalTypes
    <3>1. /\ i \in Len(emitted[f]) + 1 .. Len(emitted[f]) + Len(events)
          /\ emitted'[f][i] = events[i - Len(emitted[f])]
          /\ i - Len(emitted[f]) \in DOMAIN events
      BY <1>1, <2>1, <2>2
    <3> QED
      BY <3>1
  <2> QED
    BY <2>2 DEF OnlyFinal
<1> QED
  BY <1>2, <1>3

(* A log that only an uncancelled execution's step extends. *)
LEMMA UncancelledEmission ==
  ASSUME TypeOK, NEW e \in Executions, NEW f \in Executions, NEW events,
         ~cancelRequested[e], Emit(e, events)
  PROVE  OnlyFinal(f)
  BY DEF TypeOK, Emit, OnlyFinal

(* The pieces of a thread step emit only failures of a cancelled execution. *)
LEMMA FinalPieces ==
  ASSUME TypeOK, NEW e \in Executions, NEW f \in Executions
  PROVE  /\ UNCHANGED emitted => OnlyFinal(f)
         /\ \A kind : Escape(e, kind) => OnlyFinal(f)
         /\ \A s \in 0 .. StatementCount, a \in Attempts : StatementCancelled(e, s, a) => OnlyFinal(f)
         /\ StatementErrored(e) => OnlyFinal(f)
         /\ \A st : BeginFinish(e, st) => OnlyFinal(f)
<1>1. ASSUME UNCHANGED emitted PROVE OnlyFinal(f)
  BY <1>1 DEF OnlyFinal
<1>2. ASSUME NEW s \in 0 .. StatementCount, NEW a \in Attempts,
             Emit(e, << EventOf("statement-failed", s, a) >>)
      PROVE  OnlyFinal(f)
  <2>1. << EventOf("statement-failed", s, a) >> \in Seq(Event)
    BY EventType DEF StatementEventTypes
  <2>2. \A i \in DOMAIN << EventOf("statement-failed", s, a) >> :
          << EventOf("statement-failed", s, a) >>[i].type \in FinalTypes
    BY DEF EventOf, FinalTypes
  <2> QED
    BY <1>2, <2>1, <2>2, FinalEmission
<1> QED
  BY <1>1, <1>2 DEF Escape, BeginFinish, StatementCancelled, StatementErrored, EmitAndDrain, TypeOK

(* The loop head starts a statement only of an uncancelled execution. *)
LEMMA FinalEnter ==
  ASSUME TypeOK, NEW e \in Executions, NEW f \in Executions, NEW s \in Nat \ {0}, NEW failed,
         EnterStatement(e, s, failed)
  PROVE  OnlyFinal(f)
<1>1. CASE \E st : BeginFinish(e, st)
  BY <1>1, FinalPieces
<1>2. CASE ~LoopEnds(s) /\ StatementCancelled(e, s, 0)
  <2>1. s \in 0 .. StatementCount /\ 0 \in Attempts
    BY <1>2, StatementCountAssumption DEF LoopEnds, Attempts
  <2> QED
    BY <1>2, <2>1, FinalPieces
<1>3. CASE ~cancelRequested[e] /\ \E events, at : EmitAndDrain(e, events, at)
  BY <1>3, UncancelledEmission DEF EmitAndDrain
<1> QED
  BY <1>1, <1>2, <1>3 DEF EnterStatement

(* The catch of runStatement retries only an uncancelled execution. *)
LEMMA FinalCaught ==
  ASSUME TypeOK, NEW e \in Executions, NEW f \in Executions, NEW kind, Caught(e, kind)
  PROVE  OnlyFinal(f)
<1>0. stmt[e] \in 0 .. StatementCount /\ attempt[e] \in Attempts
  BY DEF TypeOK
<1>1. CASE StatementCancelled(e, stmt[e], attempt[e]) \/ StatementErrored(e) \/ UNCHANGED emitted
  BY <1>0, <1>1, FinalPieces
<1>2. CASE ~cancelRequested[e] /\ \E events, at : EmitAndDrain(e, events, at)
  BY <1>2, UncancelledEmission DEF EmitAndDrain
<1> QED
  BY <1>1, <1>2 DEF Caught, CaughtCancellation

(* A step of the thread. *)
LEMMA FinalThread ==
  ASSUME TypeOK, NEW e \in Executions, NEW f \in Executions,
         Resume(e) \/ BackendAnswers(e) \/ ExecuteSettles(e)
  PROVE  OnlyFinal(f)
<1>0. /\ stmt[e] \in 0 .. StatementCount /\ attempt[e] \in Attempts /\ stmt[e] + 1 \in Nat \ {0}
      /\ 0 \in Attempts /\ 1 \in Attempts
  BY DEF TypeOK, Attempts
<1>1. CASE AfterStartDrain(e)
  <2>1. 1 \in Nat \ {0}
    OBVIOUS
  <2>2. CASE EnterStatement(e, 1, FALSE)
    BY <2>1, <2>2, FinalEnter, Zenon
  <2> QED
    BY <1>1, <2>2, FinalPieces DEF AfterStartDrain
<1>2. CASE AfterStatementDrain(e)
  BY <1>0, <1>2, FinalPieces DEF AfterStatementDrain, Dispatch
<1>3. CASE AfterExecutedDrain(e)
  <2>1. CASE /\ ~cancelRequested[e]
             /\ EmitAndDrain(e, << EventOf("statement-completed", stmt[e], attempt[e]) >>,
                             "completedDrain")
    BY <2>1, UncancelledEmission DEF EmitAndDrain
  <2> QED
    BY <1>0, <1>3, <2>1, FinalPieces, FinalCaught DEF AfterExecutedDrain
<1>4. CASE AfterCompletedDrain(e)
  BY <1>0, <1>4, FinalEnter, FinalCaught DEF AfterCompletedDrain
<1>5. CASE AfterRetryDrain(e)
  BY <1>0, <1>5, FinalPieces DEF AfterRetryDrain
<1>6. CASE AfterCancelDrain(e)
  BY <1>6, FinalPieces DEF AfterCancelDrain
<1>7. CASE AfterFailDrain(e)
  BY <1>0, <1>7, FinalPieces, FinalEnter DEF AfterFailDrain
<1>8. CASE AfterTerminalDrain(e) \/ AfterResourcesDisposed(e)
  BY <1>8, FinalPieces DEF AfterTerminalDrain, AfterResourcesDisposed
<1>9. CASE AfterDrop(e) \/ ReconnectFails(e)
  BY <1>9, FinalPieces DEF AfterDrop, ReconnectFails
<1>10. CASE ReconnectSucceeds(e)
  BY <1>0, <1>10, FinalPieces DEF ReconnectSucceeds, Dispatch
<1>11. CASE AfterCleanup(e)
  <2>1. Emit(e, << EventOf("execution-terminal", 0, 0), EventOf("batch-completed", 0, 0) >>)
    BY <1>11 DEF AfterCleanup, EmitAndDrain
  <2>2. \A i \in DOMAIN << EventOf("execution-terminal", 0, 0), EventOf("batch-completed", 0, 0) >> :
          << EventOf("execution-terminal", 0, 0), EventOf("batch-completed", 0, 0) >>[i].type \in FinalTypes
    BY DEF EventOf, FinalTypes, ClosingTypes
  <2> QED
    BY <2>1, <2>2, ClosingEventsType, FinalEmission
<1>12. CASE ExecuteSucceeds(e)
  <2>1. Emit(e, << >>)
    BY <1>12 DEF ExecuteSucceeds, EmitAndDrain
  <2>2. << >> \in Seq(Event) /\ \A i \in DOMAIN << >> : << >>[i].type \in FinalTypes
    OBVIOUS
  <2> QED
    BY <2>1, <2>2, FinalEmission
<1>13. ASSUME NEW kind \in ErrorKinds, ExecuteFails(e, kind)
       PROVE  OnlyFinal(f)
  BY <1>13, FinalCaught DEF ExecuteFails
<1> QED
  BY <1>1, <1>2, <1>3, <1>4, <1>5, <1>6, <1>7, <1>8, <1>9, <1>10, <1>11, <1>12, <1>13
     DEF Resume, BackendAnswers, ExecuteSettles

(* What callers, observers and dispose do leaves every log alone. *)
LEMMA ControlEmitsNothing ==
  ASSUME NEW e \in Executions,
         \/ DeliverEvent(e) \/ \E c \in Commands : OnCommand(e, c)
         \/ Cancel(e) \/ TimeoutFires(e) \/ ExternalAbort(e) \/ DetachObserver(e) \/ StopSettles(e)
         \/ \E job \in {"backend", "command"} : RunCancelJob(e, job)
         \/ Dispose \/ CloseAll
  PROVE  emitted' = emitted
  BY DEF DeliverEvent, OnCommand, Cancel, TimeoutFires, ExternalAbort,
         DetachObserver, StopSettles, RunCancelJob, Dispose, CloseAll, CancelFrame, eventVars

(* No late row, completion, retry or further statement after a cancel, for *)
(* late driver callbacks too, and whatever the observer throws.            *)
THEOREM ClosingAfterCancel == Spec => OnlyClosingAfterCancel
<1> DEFINE Final(f) == cancelRequested[f] =>
             \A i \in DOMAIN emitted'[f] \ DOMAIN emitted[f] :
               emitted'[f][i].type \in {"statement-failed", "execution-terminal", "batch-completed"}
<1>0. ASSUME NEW f, OnlyFinal(f) PROVE Final(f)
  BY <1>0 DEF OnlyFinal, FinalTypes, ClosingTypes
<1>1. ASSUME IInv, [Next]_vars, NEW f \in Executions
      PROVE  Final(f)
  <2>0. TypeOK
    BY <1>1 DEF IInv
  <2>1. ASSUME NEW e \in Executions, Resume(e) \/ BackendAnswers(e) \/ ExecuteSettles(e)
        PROVE  OnlyFinal(f)
    BY <2>0, <2>1, <1>1, FinalThread
  <2>2. ASSUME NEW e \in Executions, Start(e)
        PROVE  OnlyFinal(f)
    <3>1. ~cancelRequested[e] /\ \E events : Emit(e, events)
      BY <1>1, <2>2 DEF Start, AcceptsStart, EmitAndDrain, IInv, Visible
    <3> QED
      BY <2>0, <3>1, <1>1, UncancelledEmission
  <2>3. ASSUME NEW e \in Executions, OnColumnsOrRows(e)
        PROVE  OnlyFinal(f)
    <3>1. ~cancelRequested[e] /\ \E events : Emit(e, events)
      BY <2>3 DEF OnColumnsOrRows, CallbackHeard
    <3> QED
      BY <2>0, <3>1, <1>1, UncancelledEmission
  <2>4. ASSUME UNCHANGED emitted PROVE OnlyFinal(f)
    BY <2>4 DEF OnlyFinal
  <2>5. ASSUME UNCHANGED vars PROVE OnlyFinal(f)
    BY <2>4, <2>5 DEF vars, eventVars
  <2>6. ASSUME NEW e \in Executions,
               \/ DeliverEvent(e) \/ \E c \in Commands : OnCommand(e, c)
               \/ Cancel(e) \/ TimeoutFires(e) \/ ExternalAbort(e) \/ DetachObserver(e) \/ StopSettles(e)
               \/ \E job \in {"backend", "command"} : RunCancelJob(e, job)
        PROVE  OnlyFinal(f)
    BY <2>4, <2>6, ControlEmitsNothing
  <2>7. ASSUME Dispose \/ CloseAll PROVE OnlyFinal(f)
    BY <1>1, <2>4, <2>7, ControlEmitsNothing
  <2>8. OnlyFinal(f)
    BY <1>1, <2>1, <2>2, <2>3, <2>5, <2>6, <2>7 DEF Next
  <2> QED
    BY <1>0, <2>8
<1>2. IInv /\ [Next]_vars =>
        [\A e \in Executions :
           cancelRequested[e] =>
             \A i \in DOMAIN emitted'[e] \ DOMAIN emitted[e] :
               emitted'[e][i].type \in {"statement-failed", "execution-terminal", "batch-completed"}]_vars
  BY <1>1
<1> QED
  BY <1>2, InitIInv, NextIInv, PTL DEF Spec, OnlyClosingAfterCancel
--------------------------------------------------------------------------------
(* A registered command never escapes the stop of its execution.           *)

(* The awaits at which a command may be registered.                        *)
CommandPoints == {"executing", "executedDrain", "completedDrain"} \union CatchPoints

(* A registered command is that of the attempt in flight, and announced    *)
(* once; a cancel has marked it; and behind the mark there is a stop that  *)
(* has reached the backend or is queued for it.                            *)
Stoppable(e) ==
  /\ command[e] # NoCommand => /\ pc[e] \in CommandPoints
                               /\ command[e] = Current(e) /\ command[e] \in announced[e]
  /\ cancelRequested[e] /\ command[e] # NoCommand => commandCancel[e]
  /\ commandCancel[e] =>
       \/ command[e] # NoCommand /\ (command[e] \in cancelled[e] \/ "command" \in cancelJobs[e])
       \/ "backend" \in cancelJobs[e]
       \/ backendAborted[e]

AllStoppable == \A e \in Executions : Stoppable(e)

(* What Stoppable reads of e, apart from the command and its mark.         *)
SameStops(e) ==
  /\ pc'[e] = pc[e] /\ stmt'[e] = stmt[e] /\ attempt'[e] = attempt[e]
  /\ announced'[e] = announced[e] /\ cancelled'[e] = cancelled[e]
  /\ cancelRequested'[e] = cancelRequested[e] /\ cancelJobs'[e] = cancelJobs[e]
  /\ backendAborted'[e] = backendAborted[e]
SameCommand(e) == command'[e] = command[e] /\ commandCancel'[e] = commandCancel[e]

LEMMA SameStoppable ==
  ASSUME NEW e, Stoppable(e), SameStops(e), SameCommand(e)
  PROVE  Stoppable(e)'
  BY DEF Stoppable, SameStops, SameCommand, Current

(* What a step of the thread of e does to the command: it forgets it, or   *)
(* it goes on with the same attempt, or there was none to forget.          *)
CommandStep(e) ==
  \/ command'[e] = NoCommand /\ ~commandCancel'[e]
  \/ /\ SameCommand(e) /\ backendAborted'[e] = backendAborted[e]
     /\ \/ pc[e] \notin CommandPoints
        \/ pc'[e] \in CommandPoints /\ stmt'[e] = stmt[e] /\ attempt'[e] = attempt[e]

(* The state of one execution that its own steps and its driver change.    *)
SameThread(f) ==
  /\ pc'[f] = pc[f] /\ stmt'[f] = stmt[f] /\ attempt'[f] = attempt[f]
  /\ rowsDelivered'[f] = rowsDelivered[f] /\ status'[f] = status[f] /\ timer'[f] = timer[f]
  /\ hadFailure'[f] = hadFailure[f] /\ emitted'[f] = emitted[f]
SameRest(f) ==
  /\ terminal'[f] = terminal[f] /\ timedOut'[f] = timedOut[f] /\ request'[f] = request[f]
  /\ observerError'[f] = observerError[f]
SameElsewhere(e) ==
  \A f \in Executions \ {e} : SameThread(f) /\ SameRest(f) /\ SameStops(f) /\ SameCommand(f)

LEMMA CaughtCommand ==
  ASSUME TypeOK, NEW e \in Executions, NEW kind, Caught(e, kind)
  PROVE  \/ command'[e] = NoCommand /\ ~commandCancel'[e]
         \/ /\ kind # "cancellation" /\ SameCommand(e)
            /\ pc'[e] \in CommandPoints /\ stmt'[e] = stmt[e] /\ attempt'[e] = attempt[e]
  BY DEF Caught, CaughtCancellation, ReleaseCommand, SameCommand, EmitAndDrain, CommandPoints,
         CatchPoints, TypeOK

LEMMA ThreadCommandStep ==
  ASSUME TypeOK, NEW e \in Executions,
         Resume(e) \/ BackendAnswers(e) \/ ExecuteSettles(e)
  PROVE  CommandStep(e)
<1>1. ASSUME pc[e] \notin CommandPoints, UNCHANGED << command, commandCancel, backendAborted >>
      PROVE  CommandStep(e)
  BY <1>1 DEF CommandStep, SameCommand
<1>2. ASSUME ReleaseCommand(e)
      PROVE  CommandStep(e)
  BY <1>2 DEF CommandStep, ReleaseCommand, TypeOK
<1>3. ASSUME NEW kind, Caught(e, kind),
             UNCHANGED backendAborted \/ kind = "cancellation"
      PROVE  CommandStep(e)
  BY <1>3, CaughtCommand DEF CommandStep
<1>4. CASE AfterStartDrain(e) \/ AfterCancelDrain(e) \/ AfterFailDrain(e) \/ AfterTerminalDrain(e)
           \/ AfterResourcesDisposed(e) \/ AfterCleanup(e)
  BY <1>1, <1>4 DEF AfterStartDrain, AfterCancelDrain, AfterFailDrain, AfterTerminalDrain,
                    AfterResourcesDisposed, AfterCleanup, CommandPoints, CatchPoints
<1>5. CASE AfterStatementDrain(e)
  BY <1>1, <1>2, <1>5 DEF AfterStatementDrain, CommandPoints, CatchPoints
<1>6. CASE AfterDrop(e) \/ ReconnectFails(e) \/ ReconnectSucceeds(e)
  BY <1>2, <1>6 DEF AfterDrop, ReconnectFails, ReconnectSucceeds
<1>7. CASE AfterCompletedDrain(e)
  BY <1>2, <1>3, <1>7 DEF AfterCompletedDrain
<1>8. CASE AfterExecutedDrain(e)
  <2>1. CASE /\ EmitAndDrain(e, << EventOf("statement-completed", stmt[e], attempt[e]) >>,
                             "completedDrain")
             /\ UNCHANGED << stmt, attempt, command, commandCancel, backendAborted >>
    BY <2>1 DEF EmitAndDrain, CommandStep, SameCommand, CommandPoints, TypeOK
  <2> QED
    BY <1>2, <1>3, <1>8, <2>1 DEF AfterExecutedDrain
<1>9. CASE AfterRetryDrain(e)
  <2>1. CASE /\ pc' = [pc EXCEPT ![e] = "reconnecting"]
             /\ UNCHANGED << stmt, attempt, command, commandCancel, backendAborted >>
    BY <2>1 DEF CommandStep, SameCommand, CommandPoints, CatchPoints, TypeOK
  <2> QED
    BY <1>2, <1>9, <2>1 DEF AfterRetryDrain
<1>10. CASE ExecuteSucceeds(e)
  BY <1>10 DEF ExecuteSucceeds, EmitAndDrain, CommandStep, SameCommand, CommandPoints, TypeOK
<1>11. ASSUME NEW kind \in ErrorKinds, ExecuteFails(e, kind)
       PROVE  CommandStep(e)
  BY <1>3, <1>11 DEF ExecuteFails
<1> QED
  BY <1>4, <1>5, <1>6, <1>7, <1>8, <1>9, <1>10, <1>11 DEF Resume, BackendAnswers, ExecuteSettles

(* A step of one thread changes nothing of the other executions. *)
LEMMA PiecesElsewhere ==
  ASSUME TypeOK, NEW e \in Executions, NEW f \in Executions \ {e}
  PROVE  /\ \A events, at : EmitAndDrain(e, events, at) => pc'[f] = pc[f] /\ emitted'[f] = emitted[f]
         /\ ReleaseCommand(e) \/ UNCHANGED << command, commandCancel >> => SameCommand(f)
         /\ \A st : BeginFinish(e, st) /\ UNCHANGED << stmt, attempt, rowsDelivered, hadFailure >>
                      => SameThread(f)
         /\ \A kind : Escape(e, kind) => SameThread(f)
         /\ \A s, a : StatementCancelled(e, s, a) => SameThread(f)
         /\ StatementErrored(e) => SameThread(f)
         /\ \A a : Dispatch(e, a) => SameThread(f)
<1>1. /\ \A events, at : EmitAndDrain(e, events, at) => pc'[f] = pc[f] /\ emitted'[f] = emitted[f]
      /\ ReleaseCommand(e) \/ UNCHANGED << command, commandCancel >> => SameCommand(f)
  BY DEF EmitAndDrain, Emit, ReleaseCommand, SameCommand, TypeOK
<1>2. ASSUME NEW st, BeginFinish(e, st), UNCHANGED << stmt, attempt, rowsDelivered, hadFailure >>
      PROVE  SameThread(f)
  BY <1>2 DEF BeginFinish, SameThread, TypeOK
<1>3. ASSUME NEW s, NEW a, StatementCancelled(e, s, a)
      PROVE  SameThread(f)
  BY <1>1, <1>3 DEF StatementCancelled, SameThread, TypeOK
<1>4. ASSUME StatementErrored(e)
      PROVE  SameThread(f)
  BY <1>1, <1>4 DEF StatementErrored, SameThread, TypeOK
<1>5. ASSUME NEW a, Dispatch(e, a)
      PROVE  SameThread(f)
  BY <1>5 DEF Dispatch, SameThread, TypeOK
<1> QED
  BY <1>1, <1>2, <1>3, <1>4, <1>5 DEF Escape

LEMMA ComposedElsewhere ==
  ASSUME TypeOK, NEW e \in Executions, NEW f \in Executions \ {e}
  PROVE  /\ \A s, failed : EnterStatement(e, s, failed) => SameThread(f)
         /\ \A kind : Caught(e, kind) => SameThread(f) /\ SameCommand(f)
<1>1. ASSUME NEW s, NEW failed, EnterStatement(e, s, failed)
      PROVE  SameThread(f)
  <2>1. CASE /\ stmt' = [stmt EXCEPT ![e] = s]
             /\ attempt' = [attempt EXCEPT ![e] = 0]
             /\ rowsDelivered' = [rowsDelivered EXCEPT ![e] = FALSE]
             /\ EmitAndDrain(e, << EventOf("statement-started", s, 0) >>, "stmtDrain")
             /\ UNCHANGED << status, timer, hadFailure >>
    BY <2>1, PiecesElsewhere DEF SameThread, TypeOK
  <2> QED
    BY <1>1, <2>1, PiecesElsewhere DEF EnterStatement
<1>2. ASSUME NEW kind, Caught(e, kind)
      PROVE  SameThread(f) /\ SameCommand(f)
  <2>1. CASE /\ EmitAndDrain(e, << EventOf("retrying", stmt[e], 0) >>, "retryDrain")
             /\ UNCHANGED << stmt, attempt, rowsDelivered, status, timer, hadFailure,
                             command, commandCancel >>
    BY <2>1, PiecesElsewhere DEF SameThread, SameCommand
  <2>2. CASE /\ pc' = [pc EXCEPT ![e] = "dropping"]
             /\ UNCHANGED << stmt, attempt, rowsDelivered, status, timer, hadFailure,
                             emitted, command, commandCancel >>
    BY <2>2 DEF SameThread, SameCommand, TypeOK
  <2> QED
    BY <1>2, <2>1, <2>2, PiecesElsewhere DEF Caught
<1> QED
  BY <1>1, <1>2

LEMMA ThreadElsewhere ==
  ASSUME TypeOK, NEW e \in Executions,
         Resume(e) \/ BackendAnswers(e) \/ ExecuteSettles(e)
  PROVE  SameElsewhere(e)
<1> SUFFICES ASSUME NEW f \in Executions \ {e}
             PROVE  SameThread(f) /\ SameRest(f) /\ SameStops(f) /\ SameCommand(f)
  BY DEF SameElsewhere
<1>1. ThreadFrame
  BY ThreadKeeps
<1>2. terminal'[f] = terminal[f] /\ backendAborted'[f] = backendAborted[f]
  BY DEF Resume, BackendAnswers, ExecuteSettles, AfterStartDrain, AfterStatementDrain,
         AfterExecutedDrain, AfterCompletedDrain, AfterRetryDrain, AfterCancelDrain,
         AfterFailDrain, AfterTerminalDrain, AfterDrop, ReconnectFails, ReconnectSucceeds,
         AfterResourcesDisposed, AfterCleanup, ExecuteSucceeds, ExecuteFails, TypeOK
<1>3. SameCommand(f)
  BY PiecesElsewhere, ComposedElsewhere
     DEF Resume, BackendAnswers, ExecuteSettles, AfterStartDrain, AfterStatementDrain,
         AfterExecutedDrain, AfterCompletedDrain, AfterRetryDrain, AfterCancelDrain,
         AfterFailDrain, AfterTerminalDrain, AfterDrop, ReconnectFails, ReconnectSucceeds,
         AfterResourcesDisposed, AfterCleanup, ExecuteSucceeds, ExecuteFails
<1>4. SameThread(f)
  <2>1. CASE AfterStartDrain(e) \/ AfterStatementDrain(e) \/ AfterCompletedDrain(e)
             \/ AfterCancelDrain(e) \/ AfterFailDrain(e)
    BY <2>1, PiecesElsewhere, ComposedElsewhere
       DEF AfterStartDrain, AfterStatementDrain, AfterCompletedDrain, AfterCancelDrain, AfterFailDrain
  <2>2. CASE AfterDrop(e) \/ ReconnectFails(e) \/ ReconnectSucceeds(e)
    BY <2>2, PiecesElsewhere DEF AfterDrop, ReconnectFails, ReconnectSucceeds
  <2>3. CASE AfterExecutedDrain(e)
    BY <2>3, PiecesElsewhere, ComposedElsewhere DEF AfterExecutedDrain, SameThread
  <2>4. CASE AfterRetryDrain(e)
    <3>1. CASE /\ pc' = [pc EXCEPT ![e] = "reconnecting"]
               /\ UNCHANGED << stmt, attempt, rowsDelivered, status, timer, hadFailure, emitted >>
      BY <3>1 DEF SameThread, TypeOK
    <3> QED
      BY <2>4, <3>1, PiecesElsewhere DEF AfterRetryDrain
  <2>5. CASE AfterTerminalDrain(e)
    BY <2>5 DEF AfterTerminalDrain, SameThread, TypeOK
  <2>6. ASSUME CleanupOutcome(e)
        PROVE  status'[f] = status[f]
    BY <2>6 DEF CleanupOutcome, TypeOK
  <2>7. CASE AfterResourcesDisposed(e)
    BY <2>6, <2>7 DEF AfterResourcesDisposed, SameThread, TypeOK
  <2>8. CASE AfterCleanup(e) \/ ExecuteSucceeds(e)
    BY <2>6, <2>8, PiecesElsewhere DEF AfterCleanup, ExecuteSucceeds, SameThread
  <2>9. ASSUME NEW kind \in ErrorKinds, ExecuteFails(e, kind)
        PROVE  SameThread(f)
    BY <2>9, ComposedElsewhere DEF ExecuteFails
  <2> QED
    BY <2>1, <2>2, <2>3, <2>4, <2>5, <2>7, <2>8, <2>9 DEF Resume, BackendAnswers, ExecuteSettles
<1> QED
  BY <1>1, <1>2, <1>3, <1>4 DEF ThreadFrame, SameRest, SameStops, SameThread
LEMMA ThreadStoppable ==
  ASSUME TypeOK, AllStoppable, NEW e \in Executions,
         Resume(e) \/ BackendAnswers(e) \/ ExecuteSettles(e)
  PROVE  AllStoppable'
<1>1. CommandStep(e) /\ SameElsewhere(e) /\ ThreadFrame /\ Stoppable(e)
  BY ThreadCommandStep, ThreadElsewhere, ThreadKeeps DEF AllStoppable
<1>2. Stoppable(e)'
  BY <1>1 DEF Stoppable, CommandStep, ThreadFrame, SameCommand, Current
<1>3. ASSUME NEW f \in Executions \ {e}
      PROVE  Stoppable(f)'
  BY <1>1, SameStoppable DEF SameElsewhere, AllStoppable
<1> QED
  BY <1>2, <1>3 DEF AllStoppable

(* cancelRecord marks what it cancels and queues the stop behind the mark. *)
LEMMA CancelStoppable ==
  ASSUME TypeOK, AllStoppable, NEW C, CancelRecords(C), CancelFrame
  PROVE  AllStoppable'
<1> SUFFICES ASSUME NEW e \in Executions
             PROVE  Stoppable(e)'
  BY DEF AllStoppable
<1>1. /\ Stoppable(e) /\ cancelJobs[e] \subseteq cancelJobs'[e]
      /\ UNCHANGED << pc, stmt, attempt, command, announced, cancelled, backendAborted >>
  BY DEF AllStoppable, CancelFrame, CancelRecords, frameVars, backendVars, TypeOK
<1>2. CASE e \in C /\ Cancellable(e)
  <2>1. CASE commandCancel[e]
    <3>1. commandCancel'[e]
      BY <2>1 DEF CancelRecords
    <3> QED
      BY <1>1, <2>1, <3>1 DEF Stoppable, Current
  <2>2. CASE ~commandCancel[e] /\ command[e] # NoCommand
    <3>1. commandCancel'[e] /\ "command" \in cancelJobs'[e]
      BY <1>2, <2>2 DEF CancelRecords
    <3> QED
      BY <1>1, <3>1, <2>2 DEF Stoppable, Current
  <2>3. CASE ~commandCancel[e] /\ command[e] = NoCommand
    <3>1. commandCancel'[e] => "backend" \in cancelJobs'[e]
      BY <1>2, <2>3 DEF CancelRecords
    <3> QED
      BY <1>1, <3>1, <2>3 DEF Stoppable
  <2> QED
    BY <2>1, <2>2, <2>3
<1>3. CASE ~(e \in C /\ Cancellable(e))
  <2>1. /\ commandCancel'[e] = commandCancel[e] /\ cancelRequested'[e] = cancelRequested[e]
        /\ cancelJobs'[e] = cancelJobs[e]
    BY <1>3 DEF CancelRecords, TypeOK
  <2> QED
    BY <1>1, <2>1 DEF Stoppable, Current
<1> QED
  BY <1>2, <1>3

(* A command that is announced after the cancel is stopped on arrival. *)
LEMMA CommandStoppable ==
  ASSUME TypeOK, AllStoppable, NEW e \in Executions, NEW c \in Commands, OnCommand(e, c)
  PROVE  AllStoppable'
<1>1. /\ UNCHANGED << pc, stmt, attempt, cancelRequested, cancelJobs, backendAborted >>
      /\ announced' = [announced EXCEPT ![e] = @ \union {c}] /\ c \notin announced[e]
  BY DEF OnCommand, frameVars
<1>2. Stoppable(e)
  BY DEF AllStoppable
<1>3. Stoppable(e)'
  <2>1. CASE /\ cancelled' = [cancelled EXCEPT ![e] = @ \union {c}]
             /\ UNCHANGED << command, commandCancel >>
    BY <1>1, <1>2, <2>1 DEF Stoppable, Current, TypeOK
  <2>2. CASE /\ c = Current(e) /\ CallbacksOpen(e)
             /\ command' = [command EXCEPT ![e] = c]
             /\ IF StopOnArrival(e)
                THEN /\ commandCancel' = [commandCancel EXCEPT ![e] = TRUE]
                     /\ cancelled' = [cancelled EXCEPT ![e] = @ \union {c}]
                ELSE UNCHANGED << commandCancel, cancelled >>
    <3>1. command[e] = NoCommand
      BY <1>1, <1>2, <2>2 DEF Stoppable
    <3>2. /\ command'[e] = c /\ c \in announced'[e] /\ c # NoCommand /\ c = Current(e)'
          /\ pc'[e] \in CommandPoints
      BY <1>1, <2>2 DEF TypeOK, Current, CallbacksOpen, CommandPoints, Commands, NoCommand, Statements
    <3>3. CASE StopOnArrival(e)
      BY <1>1, <2>2, <3>2, <3>3 DEF TypeOK, Stoppable
    <3>4. CASE ~StopOnArrival(e)
      BY <1>1, <1>2, <2>2, <3>1, <3>2, <3>4 DEF Stoppable, StopOnArrival
    <3> QED
      BY <3>3, <3>4
  <2> QED
    BY <2>1, <2>2 DEF OnCommand
<1>4. ASSUME NEW f \in Executions \ {e}
      PROVE  Stoppable(f)'
  <2>1. SameStops(f) /\ SameCommand(f)
    BY DEF OnCommand, SameStops, SameCommand, TypeOK, frameVars
  <2> QED
    BY <2>1, SameStoppable DEF AllStoppable
<1> QED
  BY <1>3, <1>4 DEF AllStoppable

(* A queued stop reaches the backend, or the command registered by then. *)
LEMMA JobStoppable ==
  ASSUME TypeOK, AllStoppable, NEW e \in Executions, NEW job \in {"backend", "command"},
         RunCancelJob(e, job)
  PROVE  AllStoppable'
<1>1. Stoppable(e)
  BY DEF AllStoppable
<1>2. Stoppable(e)'
  <2>1. CASE job = "backend"
    BY <1>1, <2>1 DEF RunCancelJob, Stoppable, Current, TypeOK, frameVars
  <2>2. CASE job = "command"
    <3>1. /\ cancelled'[e] = cancelled[e] \union ({command[e]} \ {NoCommand})
          /\ cancelJobs'[e] = cancelJobs[e] \ {"command"}
          /\ UNCHANGED << pc, stmt, attempt, command, commandCancel, cancelRequested, announced,
                          backendAborted >>
      BY <2>2 DEF RunCancelJob, TypeOK, frameVars
    <3> QED
      BY <1>1, <3>1 DEF Stoppable, Current
  <2> QED
    BY <2>1, <2>2
<1>3. ASSUME NEW f \in Executions \ {e}
      PROVE  Stoppable(f)'
  <2>1. SameStops(f) /\ SameCommand(f)
    BY DEF RunCancelJob, SameStops, SameCommand, TypeOK, frameVars
  <2> QED
    BY <2>1, SameStoppable DEF AllStoppable
<1> QED
  BY <1>2, <1>3 DEF AllStoppable

(* Everything else leaves the commands and their stops as they are. *)
LEMMA OtherStoppable ==
  ASSUME TypeOK, AllStoppable, NEW e \in Executions,
         \/ Start(e) \/ DeliverEvent(e) \/ OnColumnsOrRows(e)
         \/ ExternalAbort(e) \/ DetachObserver(e) \/ StopSettles(e) \/ CloseAll
  PROVE  AllStoppable'
<1> SUFFICES ASSUME NEW f \in Executions
             PROVE  Stoppable(f)'
  BY DEF AllStoppable
<1>0. Stoppable(f)
  BY DEF AllStoppable
<1>1. CASE Start(e)
  <2>1. /\ pc[e] = "none" /\ SameCommand(f) /\ (f # e => SameStops(f))
        /\ UNCHANGED << announced, cancelled, cancelRequested, cancelJobs, backendAborted >>
    BY <1>1 DEF Start, AcceptsStart, EmitAndDrain, SameStops, SameCommand, TypeOK, backendVars
  <2> QED
    BY <1>0, <2>1, SameStoppable DEF Stoppable, SameCommand, CommandPoints, CatchPoints
<1>2. CASE DeliverEvent(e) \/ OnColumnsOrRows(e) \/ DetachObserver(e) \/ StopSettles(e) \/ CloseAll
  <2>1. SameStops(f) /\ SameCommand(f)
    BY <1>2 DEF DeliverEvent, OnColumnsOrRows, DetachObserver, StopSettles, CloseAll, ThreadFrame,
                CancelFrame, SameStops, SameCommand, frameVars, backendVars
  <2> QED
    BY <1>0, <2>1, SameStoppable
<1>3. CASE ExternalAbort(e)
  BY <1>0, <1>3 DEF ExternalAbort, Stoppable, Current, TypeOK, frameVars
<1> QED
  BY <1>1, <1>2, <1>3

LEMMA NextStoppable == IInv /\ AllStoppable /\ [Next]_vars => AllStoppable'
<1> SUFFICES ASSUME IInv, AllStoppable, [Next]_vars PROVE AllStoppable'
  OBVIOUS
<1>0. TypeOK
  BY DEF IInv
<1>1. ASSUME NEW e \in Executions, Resume(e) \/ BackendAnswers(e) \/ ExecuteSettles(e)
      PROVE  AllStoppable'
  BY <1>0, <1>1, ThreadStoppable
<1>2. ASSUME NEW e \in Executions, Cancel(e) \/ TimeoutFires(e) \/ Dispose
      PROVE  AllStoppable'
  BY <1>0, <1>2, CancelStoppable DEF Cancel, TimeoutFires, Dispose
<1>3. ASSUME NEW e \in Executions,
             \/ \E c \in Commands : OnCommand(e, c)
             \/ \E job \in {"backend", "command"} : RunCancelJob(e, job)
      PROVE  AllStoppable'
  BY <1>0, <1>3, CommandStoppable, JobStoppable
<1>4. ASSUME NEW e \in Executions,
             \/ Start(e) \/ DeliverEvent(e) \/ OnColumnsOrRows(e)
             \/ ExternalAbort(e) \/ DetachObserver(e) \/ StopSettles(e) \/ CloseAll
      PROVE  AllStoppable'
  BY <1>0, <1>4, OtherStoppable
<1>5. ASSUME Executions = {} PROVE AllStoppable'
  BY <1>5 DEF AllStoppable
<1>6. CASE UNCHANGED vars
  BY <1>6 DEF AllStoppable, Stoppable, Current, vars, frameVars, backendVars
<1> QED
  BY <1>1, <1>2, <1>3, <1>4, <1>5, <1>6 DEF Next

(* The command of a cancelled execution is cancelled, about to be, or the  *)
(* backend was told on its behalf: whichever of the cancel, its queued job *)
(* and the driver's announcement of the command comes first.               *)
THEOREM CommandStopped == Spec => []CancelledCommandIsStopped
<1>1. Init => AllStoppable
  BY DEF Init, AllStoppable, Stoppable
<1>2. AllStoppable => CancelledCommandIsStopped
  BY DEF AllStoppable, Stoppable, CancelledCommandIsStopped
<1> QED
  BY <1>1, <1>2, InitIInv, NextIInv, NextStoppable, PTL DEF Spec
--------------------------------------------------------------------------------
(* The steps of the thread of e, as one table: where each may be taken,    *)
(* what it appends to the log of e and where it leaves the frame of e.     *)
(* The proofs about the log go through this table, one case per row.       *)

(* The awaits from which the loop of run goes on to the next statement.    *)
LoopHeads == {"startDrain", "completedDrain", "failDrain"}

SameFrame(e) == /\ stmt'[e] = stmt[e] /\ attempt'[e] = attempt[e]
                /\ rowsDelivered'[e] = rowsDelivered[e] /\ hadFailure'[e] = hadFailure[e]
SameLog(e) == emitted'[e] = emitted[e]
Logs(e, t, s, a) == emitted'[e] = Append(emitted[e], EventOf(t, s, a))

EndsLoop(e) ==
  \E st \in TerminalStatuses :
    /\ pc[e] \in LoopHeads \union {"stmtDrain", "retryDrain", "cancelDrain"}
    /\ observerError[e] = NoError => pc[e] \notin {"stmtDrain", "retryDrain"}
    /\ st = "success" => /\ pc[e] \in {"completedDrain", "failDrain"}
                         /\ pc[e] = "failDrain" => request[e].continueOnError
                         /\ ~hadFailure[e] /\ LoopEnds(stmt[e] + 1)
    /\ st = "cancelled" => ~timedOut[e]
    /\ pc'[e] = "disposingResources" /\ status'[e] = st /\ timer'[e] = FALSE
    /\ SameFrame(e) /\ SameLog(e)

LosesStatement(e) ==
  \E s \in Statements, a \in Attempts :
    /\ \/ /\ s = stmt[e] /\ pc[e] \in WorkPoints
          /\ a = 1 => attempt[e] = 1 \/ pc[e] = "reconnecting"
          /\ observerError[e] = NoError => pc[e] # "completedDrain"
       \/ /\ s = stmt[e] + 1 /\ pc[e] \in LoopHeads /\ a = 0
          /\ pc'[e] = "cancelDrain"
    /\ pc'[e] \in {"cancelDrain", "failDrain"}
    /\ pc'[e] = "failDrain" => hadFailure'[e] \/ ~request[e].continueOnError
    /\ stmt'[e] = s /\ Logs(e, "statement-failed", s, a)

BeginsStatement(e) ==
  LET s == stmt[e] + 1
  IN /\ pc[e] \in LoopHeads /\ s \in Statements /\ ~LoopEnds(s)
     /\ pc[e] = "failDrain" => request[e].continueOnError
     /\ pc'[e] = "stmtDrain" /\ stmt'[e] = s /\ attempt'[e] = 0 /\ rowsDelivered'[e] = FALSE
     /\ hadFailure'[e] = hadFailure[e] /\ Logs(e, "statement-started", s, 0)

Dispatches(e) ==
  /\ \/ pc[e] = "stmtDrain" /\ attempt'[e] = 0
     \/ pc[e] = "reconnecting" /\ attempt'[e] = 1
  /\ pc'[e] = "executing" /\ SameLog(e)
  /\ stmt'[e] = stmt[e] /\ rowsDelivered'[e] = rowsDelivered[e] /\ hadFailure'[e] = hadFailure[e]

Completes(e) ==
  /\ pc[e] = "executedDrain" /\ pc'[e] = "completedDrain" /\ SameFrame(e)
  /\ Logs(e, "statement-completed", stmt[e], attempt[e])

Retries(e) ==
  /\ pc[e] \in {"executing", "executedDrain", "completedDrain"}
  /\ observerError[e] = NoError => pc[e] # "completedDrain"
  /\ attempt[e] = 0 /\ ~rowsDelivered[e]
  /\ pc'[e] = "retryDrain" /\ SameFrame(e) /\ Logs(e, "retrying", stmt[e], 0)

GoesOn(e) ==
  /\ \/ pc[e] = "executing" /\ pc'[e] = "executedDrain"
     \/ /\ pc[e] \in {"executing", "executedDrain", "completedDrain"} /\ pc'[e] = "dropping"
        /\ observerError[e] = NoError => pc[e] # "completedDrain"
     \/ pc[e] = "retryDrain" /\ pc'[e] = "reconnecting"
  /\ SameFrame(e) /\ SameLog(e)

CleanedTo(e) == status'[e] = status[e] \/ (status[e] = "success" /\ status'[e] = "error")

CleansUp(e) ==
  /\ pc[e] = "disposingResources" /\ pc'[e] = "cleaning" /\ CleanedTo(e)
  /\ timer'[e] = timer[e] /\ SameFrame(e) /\ SameLog(e)

Closes(e) ==
  /\ pc[e] = "cleaning" /\ pc'[e] = "terminalDrain" /\ CleanedTo(e)
  /\ timer'[e] = timer[e] /\ SameFrame(e)
  /\ emitted'[e] = emitted[e] \o << EventOf("execution-terminal", 0, 0), EventOf("batch-completed", 0, 0) >>
  /\ terminal'[e] = status'[e] /\ status'[e] \in TerminalStatuses

Settles(e) ==
  /\ pc[e] = "terminalDrain" /\ pc'[e] = "settled"
  /\ timer'[e] = timer[e] /\ SameFrame(e) /\ SameLog(e)

ThreadStep(e) ==
  \/ /\ \/ EndsLoop(e) \/ LosesStatement(e) \/ BeginsStatement(e) \/ Dispatches(e)
        \/ Completes(e) \/ Retries(e) \/ GoesOn(e) \/ CleansUp(e) \/ Settles(e)
     /\ terminal'[e] = terminal[e]
  \/ Closes(e)

(* Ending the loop, by any of the four ways to finish. *)
LEMMA EndsLoopRow ==
  ASSUME TypeOK, NEW e \in Executions, NEW st \in TerminalStatuses, BeginFinish(e, st),
         UNCHANGED << stmt, attempt, rowsDelivered, hadFailure >>,
         pc[e] \in LoopHeads \union {"stmtDrain", "retryDrain", "cancelDrain"},
         observerError[e] = NoError => pc[e] \notin {"stmtDrain", "retryDrain"},
         st = "success" => /\ pc[e] \in {"completedDrain", "failDrain"}
                           /\ pc[e] = "failDrain" => request[e].continueOnError
                           /\ ~hadFailure[e] /\ LoopEnds(stmt[e] + 1),
         st = "cancelled" => ~timedOut[e]
  PROVE  EndsLoop(e)
<1>1. /\ pc'[e] = "disposingResources" /\ status'[e] = st /\ timer'[e] = FALSE
      /\ SameFrame(e) /\ SameLog(e)
  BY DEF BeginFinish, SameFrame, SameLog, TypeOK
<1> QED
  BY <1>1 DEF EndsLoop

LEMMA EscapeRow ==
  ASSUME TypeOK, NEW e \in Executions, NEW kind, Escape(e, kind), observerError[e] # NoError,
         pc[e] \in LoopHeads \union {"stmtDrain", "retryDrain", "cancelDrain"}
  PROVE  EndsLoop(e)
<1>1. PICK st \in {"error", "cancelled"} : BeginFinish(e, st) /\ (st = "cancelled" => ~timedOut[e])
  BY DEF Escape
<1>2. st \in TerminalStatuses
  BY DEF TerminalStatuses
<1> QED
  BY <1>1, <1>2, EndsLoopRow DEF Escape

(* What the emitting pieces do to e itself. *)
LEMMA EmissionAt ==
  ASSUME TypeOK, NEW e \in Executions, NEW t, NEW s, NEW a, NEW at,
         EmitAndDrain(e, << EventOf(t, s, a) >>, at)
  PROVE  pc'[e] = at /\ Logs(e, t, s, a)
<1>1. emitted[e] \in Seq(Event) /\ e \in DOMAIN emitted /\ e \in DOMAIN pc
  BY DEF TypeOK
<1>2. pc'[e] = at /\ emitted'[e] = emitted[e] \o << EventOf(t, s, a) >>
  BY <1>1 DEF EmitAndDrain, Emit
<1> QED
  BY <1>1, <1>2 DEF Logs

(* A statement lost before or after its dispatch. *)
LEMMA CancelledRow ==
  ASSUME TypeOK, NEW e \in Executions, NEW s \in Statements, NEW a \in Attempts,
         StatementCancelled(e, s, a),
         \/ /\ s = stmt[e] /\ pc[e] \in WorkPoints
            /\ a = 1 => attempt[e] = 1 \/ pc[e] = "reconnecting"
            /\ observerError[e] = NoError => pc[e] # "completedDrain"
         \/ s = stmt[e] + 1 /\ pc[e] \in LoopHeads /\ a = 0
  PROVE  LosesStatement(e)
<1>1. pc'[e] = "cancelDrain" /\ Logs(e, "statement-failed", s, a)
  BY EmissionAt DEF StatementCancelled
<1>2. stmt'[e] = s
  BY DEF StatementCancelled, TypeOK
<1> QED
  BY <1>1, <1>2 DEF LosesStatement

LEMMA ErroredRow ==
  ASSUME TypeOK, NEW e \in Executions, StatementErrored(e), stmt[e] \in Statements,
         pc[e] \in WorkPoints, observerError[e] = NoError => pc[e] # "completedDrain"
  PROVE  LosesStatement(e)
<1>0. attempt[e] \in Attempts
  BY DEF TypeOK
<1>1. pc'[e] = "failDrain" /\ Logs(e, "statement-failed", stmt[e], attempt[e])
  BY EmissionAt DEF StatementErrored
<1>2. stmt'[e] = stmt[e] /\ (hadFailure'[e] \/ ~request[e].continueOnError)
  BY DEF StatementErrored, TypeOK
<1> QED
  BY <1>0, <1>1, <1>2 DEF LosesStatement

(* The catch of runStatement. *)
LEMMA CaughtRow ==
  ASSUME TypeOK, NEW e \in Executions, NEW kind, Caught(e, kind), stmt[e] \in Statements,
         pc[e] \in {"executing", "executedDrain", "completedDrain"},
         observerError[e] = NoError => pc[e] # "completedDrain"
  PROVE  LosesStatement(e) \/ Retries(e) \/ GoesOn(e)
<1>0. pc[e] \in WorkPoints /\ attempt[e] \in Attempts
  BY DEF WorkPoints, TypeOK
<1>1. CASE StatementCancelled(e, stmt[e], attempt[e])
  <2>1. attempt[e] = 1 => attempt[e] = 1 \/ pc[e] = "reconnecting"
    OBVIOUS
  <2> QED
    BY <1>0, <1>1, <2>1, CancelledRow
<1>2. CASE /\ CanRetry(e, kind)
           /\ EmitAndDrain(e, << EventOf("retrying", stmt[e], 0) >>, "retryDrain")
           /\ UNCHANGED << stmt, attempt, rowsDelivered, hadFailure >>
  <2>1. pc'[e] = "retryDrain" /\ Logs(e, "retrying", stmt[e], 0)
    BY <1>2, EmissionAt
  <2> QED
    BY <1>2, <2>1 DEF Retries, CanRetry, SameFrame
<1>3. CASE /\ pc' = [pc EXCEPT ![e] = "dropping"]
           /\ UNCHANGED << stmt, attempt, rowsDelivered, hadFailure, emitted >>
  BY <1>3 DEF GoesOn, SameFrame, SameLog, TypeOK
<1>4. CASE StatementErrored(e)
  BY <1>0, <1>4, ErroredRow
<1> QED
  BY <1>1, <1>2, <1>3, <1>4 DEF Caught

(* The loop head. *)
LEMMA EnterRow ==
  ASSUME TypeOK, NEW e \in Executions, NEW failed, EnterStatement(e, stmt[e] + 1, failed),
         pc[e] \in LoopHeads,
         pc[e] = "startDrain" => stmt[e] = 0,
         pc[e] # "startDrain" => failed = hadFailure[e],
         pc[e] = "failDrain" => request[e].continueOnError
  PROVE  EndsLoop(e) \/ LosesStatement(e) \/ BeginsStatement(e)
<1>0. /\ stmt[e] \in 0 .. StatementCount /\ hadFailure[e] \in BOOLEAN
      /\ ~LoopEnds(stmt[e] + 1) => stmt[e] + 1 \in Statements
      /\ {"success", "error", "cancelled"} = TerminalStatuses /\ 0 \in Attempts
      /\ pc[e] \notin {"stmtDrain", "retryDrain"}
      /\ pc[e] = "startDrain" => ~LoopEnds(stmt[e] + 1)
  BY StatementCountAssumption DEF TypeOK, LoopEnds, Statements, TerminalStatuses, Attempts, LoopHeads
<1>1. CASE /\ LoopEnds(stmt[e] + 1)
           /\ BeginFinish(e, IF failed THEN "error" ELSE "success")
           /\ UNCHANGED << stmt, attempt, rowsDelivered, phase, hadFailure, dispatched >>
  <2>1. CASE failed
    BY <1>0, <1>1, <2>1, EndsLoopRow
  <2>2. CASE ~failed
    BY <1>0, <1>1, <2>2, EndsLoopRow DEF LoopHeads
  <2> QED
    BY <2>1, <2>2
<1>2. CASE /\ BeginFinish(e, StoppedStatus(e))
           /\ UNCHANGED << stmt, attempt, rowsDelivered, phase, hadFailure, dispatched >>
  <2>1. CASE timedOut[e]
    BY <1>0, <1>2, <2>1, EndsLoopRow DEF StoppedStatus
  <2>2. CASE ~timedOut[e]
    BY <1>0, <1>2, <2>2, EndsLoopRow DEF StoppedStatus
  <2> QED
    BY <2>1, <2>2
<1>3. CASE ~LoopEnds(stmt[e] + 1) /\ StatementCancelled(e, stmt[e] + 1, 0)
  BY <1>0, <1>3, CancelledRow
<1>4. CASE /\ ~LoopEnds(stmt[e] + 1)
           /\ stmt' = [stmt EXCEPT ![e] = stmt[e] + 1]
           /\ attempt' = [attempt EXCEPT ![e] = 0]
           /\ rowsDelivered' = [rowsDelivered EXCEPT ![e] = FALSE]
           /\ EmitAndDrain(e, << EventOf("statement-started", stmt[e] + 1, 0) >>, "stmtDrain")
           /\ UNCHANGED << status, timer, hadFailure, dispatched >>
  <2>1. pc'[e] = "stmtDrain" /\ Logs(e, "statement-started", stmt[e] + 1, 0)
    BY <1>4, EmissionAt
  <2> QED
    BY <1>0, <1>4, <2>1 DEF BeginsStatement, TypeOK
<1> QED
  BY <1>1, <1>2, <1>3, <1>4 DEF EnterStatement

(* Every step of a thread is a row of the table. *)
LEMMA ThreadSteps ==
  ASSUME TypeOK, Positioned, NEW e \in Executions,
         pc[e] = "startDrain" => stmt[e] = 0,
         Resume(e) \/ BackendAnswers(e) \/ ExecuteSettles(e)
  PROVE  ThreadStep(e)
<1>0. /\ pc[e] \in WorkPoints => stmt[e] \in Statements
      /\ attempt[e] \in Attempts /\ 0 \in Attempts /\ 1 \in Attempts /\ hadFailure[e] \in BOOLEAN
      /\ {"success", "error", "cancelled"} = TerminalStatuses
  BY DEF Positioned, TypeOK, Attempts, TerminalStatuses
<1> DEFINE Keeps == terminal'[e] = terminal[e]
<1>1. CASE AfterStartDrain(e)
  <2>1. pc[e] = "startDrain" /\ pc[e] \in LoopHeads /\ Keeps
    BY <1>1 DEF AfterStartDrain, LoopHeads
  <2>2. CASE EnterStatement(e, 1, FALSE)
    <3>1. stmt[e] + 1 = 1
      BY <2>1
    <3>2. EnterStatement(e, stmt[e] + 1, FALSE)
      BY <2>2, <3>1
    <3>3. EndsLoop(e) \/ LosesStatement(e) \/ BeginsStatement(e)
      BY <2>1, <3>2, EnterRow, Zenon
    <3> QED
      BY <2>1, <3>3 DEF ThreadStep
  <2>3. CASE observerError[e] # NoError /\ Escape(e, observerError[e])
    <3>1. EndsLoop(e)
      BY <2>1, <2>3, EscapeRow
    <3> QED
      BY <2>1, <3>1 DEF ThreadStep
  <2> QED
    BY <1>1, <2>2, <2>3 DEF AfterStartDrain
<1>2. CASE AfterStatementDrain(e)
  <2>1. pc[e] = "stmtDrain" /\ pc[e] \in WorkPoints /\ stmt[e] \in Statements /\ Keeps
    BY <1>0, <1>2 DEF AfterStatementDrain, WorkPoints
  <2>2. CASE observerError[e] # NoError /\ Escape(e, observerError[e])
    BY <2>1, <2>2, EscapeRow DEF ThreadStep
  <2>3. CASE StatementCancelled(e, stmt[e], 0)
    <3>1. LosesStatement(e)
      BY <1>0, <2>1, <2>3, CancelledRow
    <3> QED
      BY <2>1, <3>1 DEF ThreadStep
  <2>4. CASE Dispatch(e, 0)
    <3>1. Dispatches(e)
      BY <2>1, <2>4 DEF Dispatch, Dispatches, SameLog, TypeOK
    <3> QED
      BY <2>1, <3>1 DEF ThreadStep
  <2> QED
    BY <1>2, <2>2, <2>3, <2>4 DEF AfterStatementDrain
<1>3. CASE AfterExecutedDrain(e)
  <2>1. pc[e] = "executedDrain" /\ pc[e] \in WorkPoints /\ stmt[e] \in Statements /\ Keeps
    BY <1>0, <1>3 DEF AfterExecutedDrain, WorkPoints
  <2>2. CASE Caught(e, observerError[e])
    BY <2>1, <2>2, CaughtRow DEF ThreadStep
  <2>3. CASE StatementCancelled(e, stmt[e], attempt[e])
    <3>1. LosesStatement(e)
      BY <1>0, <2>1, <2>3, CancelledRow
    <3> QED
      BY <2>1, <3>1 DEF ThreadStep
  <2>4. CASE /\ EmitAndDrain(e, << EventOf("statement-completed", stmt[e], attempt[e]) >>,
                             "completedDrain")
             /\ UNCHANGED << stmt, attempt, rowsDelivered, hadFailure >>
    <3>1. pc'[e] = "completedDrain" /\ Logs(e, "statement-completed", stmt[e], attempt[e])
      BY <2>4, EmissionAt
    <3>2. Completes(e)
      BY <2>1, <2>4, <3>1 DEF Completes, SameFrame
    <3> QED
      BY <2>1, <3>2 DEF ThreadStep
  <2> QED
    BY <1>3, <2>2, <2>3, <2>4 DEF AfterExecutedDrain
<1>4. CASE AfterCompletedDrain(e)
  <2>1. /\ pc[e] = "completedDrain" /\ pc[e] \in WorkPoints /\ pc[e] \in LoopHeads
        /\ stmt[e] \in Statements /\ Keeps
    BY <1>0, <1>4 DEF AfterCompletedDrain, WorkPoints, LoopHeads
  <2>2. CASE EnterStatement(e, stmt[e] + 1, hadFailure[e])
    BY <2>1, <2>2, EnterRow DEF ThreadStep
  <2>3. CASE observerError[e] # NoError /\ Caught(e, observerError[e])
    BY <2>1, <2>3, CaughtRow DEF ThreadStep
  <2> QED
    BY <1>4, <2>2, <2>3 DEF AfterCompletedDrain
<1>5. CASE AfterRetryDrain(e)
  <2>1. pc[e] = "retryDrain" /\ pc[e] \in WorkPoints /\ stmt[e] \in Statements /\ Keeps
    BY <1>0, <1>5 DEF AfterRetryDrain, WorkPoints, CatchPoints
  <2>2. CASE observerError[e] # NoError /\ Escape(e, observerError[e])
    BY <2>1, <2>2, EscapeRow DEF ThreadStep
  <2>3. CASE StatementCancelled(e, stmt[e], 0)
    <3>1. LosesStatement(e)
      BY <1>0, <2>1, <2>3, CancelledRow
    <3> QED
      BY <2>1, <3>1 DEF ThreadStep
  <2>4. CASE /\ pc' = [pc EXCEPT ![e] = "reconnecting"]
             /\ UNCHANGED << stmt, attempt, rowsDelivered, hadFailure, emitted >>
    <3>1. GoesOn(e)
      BY <2>1, <2>4 DEF GoesOn, SameFrame, SameLog, TypeOK
    <3> QED
      BY <2>1, <3>1 DEF ThreadStep
  <2> QED
    BY <1>5, <2>2, <2>3, <2>4 DEF AfterRetryDrain
<1>6. CASE AfterCancelDrain(e)
  <2>1. pc[e] = "cancelDrain" /\ Keeps
    BY <1>6 DEF AfterCancelDrain
  <2>2. CASE /\ BeginFinish(e, StoppedStatus(e))
             /\ UNCHANGED << stmt, attempt, rowsDelivered, phase, hadFailure, dispatched >>
    <3>1. CASE timedOut[e]
      BY <1>0, <2>1, <2>2, <3>1, EndsLoopRow DEF StoppedStatus, ThreadStep
    <3>2. CASE ~timedOut[e]
      BY <1>0, <2>1, <2>2, <3>2, EndsLoopRow DEF StoppedStatus, ThreadStep
    <3> QED
      BY <3>1, <3>2
  <2>3. CASE observerError[e] # NoError /\ Escape(e, observerError[e])
    BY <2>1, <2>3, EscapeRow DEF ThreadStep
  <2> QED
    BY <1>6, <2>2, <2>3 DEF AfterCancelDrain
<1>7. CASE AfterFailDrain(e)
  <2>1. pc[e] = "failDrain" /\ pc[e] \in LoopHeads /\ Keeps
    BY <1>7 DEF AfterFailDrain, LoopHeads
  <2>2. CASE observerError[e] # NoError /\ Escape(e, observerError[e])
    BY <2>1, <2>2, EscapeRow DEF ThreadStep
  <2>3. CASE request[e].continueOnError /\ EnterStatement(e, stmt[e] + 1, hadFailure[e])
    BY <2>1, <2>3, EnterRow DEF ThreadStep
  <2>4. CASE /\ BeginFinish(e, "error")
             /\ UNCHANGED << stmt, attempt, rowsDelivered, phase, hadFailure, dispatched >>
    BY <1>0, <2>1, <2>4, EndsLoopRow DEF ThreadStep
  <2> QED
    BY <1>7, <2>2, <2>3, <2>4 DEF AfterFailDrain
<1>8. CASE AfterTerminalDrain(e)
  <2>1. Settles(e) /\ Keeps
    BY <1>8 DEF AfterTerminalDrain, Settles, SameFrame, SameLog, TypeOK
  <2> QED
    BY <2>1 DEF ThreadStep
<1>9. CASE AfterDrop(e) \/ ReconnectFails(e)
  <2>1. /\ pc[e] \in WorkPoints /\ pc[e] # "completedDrain" /\ StatementErrored(e) /\ Keeps
        /\ stmt[e] \in Statements
    BY <1>0, <1>9 DEF AfterDrop, ReconnectFails, WorkPoints, CatchPoints
  <2> QED
    BY <2>1, ErroredRow DEF ThreadStep
<1>10. CASE ReconnectSucceeds(e)
  <2>1. pc[e] = "reconnecting" /\ pc[e] \in WorkPoints /\ stmt[e] \in Statements /\ Keeps
    BY <1>0, <1>10 DEF ReconnectSucceeds, WorkPoints, CatchPoints
  <2>2. CASE StatementCancelled(e, stmt[e], IF backendAborted[e] THEN 0 ELSE 1)
    <3>1. LosesStatement(e)
      BY <1>0, <2>1, <2>2, CancelledRow
    <3> QED
      BY <2>1, <3>1 DEF ThreadStep
  <2>3. CASE Dispatch(e, 1)
    <3>1. Dispatches(e)
      BY <2>1, <2>3 DEF Dispatch, Dispatches, SameLog, TypeOK
    <3> QED
      BY <2>1, <3>1 DEF ThreadStep
  <2> QED
    BY <1>10, <2>2, <2>3 DEF ReconnectSucceeds
<1>11. ASSUME CleanupOutcome(e)
       PROVE  CleanedTo(e) /\ status'[e] \in TerminalStatuses
  BY <1>0, <1>11 DEF CleanupOutcome, CleanedTo, TypeOK
<1>12. CASE AfterResourcesDisposed(e)
  <2>1. CleansUp(e) /\ Keeps
    BY <1>11, <1>12 DEF AfterResourcesDisposed, CleansUp, SameFrame, SameLog, TypeOK
  <2> QED
    BY <2>1 DEF ThreadStep
<1>13. CASE AfterCleanup(e)
  <2>1. /\ pc'[e] = "terminalDrain"
        /\ emitted'[e] = emitted[e] \o << EventOf("execution-terminal", 0, 0), EventOf("batch-completed", 0, 0) >>
        /\ terminal'[e] = status'[e]
    BY <1>13 DEF AfterCleanup, EmitAndDrain, Emit, TypeOK
  <2>2. Closes(e)
    BY <1>11, <1>13, <2>1 DEF AfterCleanup, Closes, SameFrame
  <2> QED
    BY <2>2 DEF ThreadStep
<1>14. CASE ExecuteSucceeds(e)
  <2>0. emitted[e] \in Seq(Event) /\ e \in DOMAIN emitted
    BY DEF TypeOK
  <2>1. emitted'[e] = emitted[e]
    BY <2>0, <1>14 DEF ExecuteSucceeds, EmitAndDrain, Emit
  <2>2. GoesOn(e) /\ Keeps
    BY <1>14, <2>1 DEF ExecuteSucceeds, EmitAndDrain, GoesOn, SameFrame, SameLog, TypeOK
  <2> QED
    BY <2>2 DEF ThreadStep
<1>15. ASSUME NEW kind \in ErrorKinds, ExecuteFails(e, kind)
       PROVE  ThreadStep(e)
  <2>1. pc[e] = "executing" /\ pc[e] \in WorkPoints /\ stmt[e] \in Statements /\ Keeps
    BY <1>0, <1>15 DEF ExecuteFails, WorkPoints
  <2> QED
    BY <1>15, <2>1, CaughtRow DEF ExecuteFails, ThreadStep
<1> QED
  BY <1>1, <1>2, <1>3, <1>4, <1>5, <1>6, <1>7, <1>8, <1>9, <1>10, <1>12, <1>13, <1>14, <1>15
     DEF Resume, BackendAnswers, ExecuteSettles
--------------------------------------------------------------------------------
(* What one step of the system does to one execution: a row of the table,  *)
(* its start, or a step from outside, which may fire its timer and, through*)
(* the driver, report columns or rows.                                     *)

Starts(f) ==
  /\ pc[f] = "none" /\ pc'[f] = "startDrain" /\ Logs(f, "execution-started", 0, 0) /\ SameFrame(f)
  /\ status'[f] = status[f] /\ SameRest(f)

Hears(f) ==
  /\ pc[f] \in {"executing"} \union CatchPoints /\ (~LateCallbacks => pc[f] = "executing")
  /\ \/ Logs(f, "columns", stmt[f], attempt[f]) /\ rowsDelivered'[f] = rowsDelivered[f]
     \/ /\ emitted'[f] = Append(Append(emitted[f], EventOf("rows", stmt[f], attempt[f])),
                                EventOf("progress", stmt[f], attempt[f]))
        /\ rowsDelivered'[f] = TRUE

OutsideStep(f) ==
  /\ pc'[f] = pc[f] /\ stmt'[f] = stmt[f] /\ attempt'[f] = attempt[f] /\ status'[f] = status[f]
  /\ hadFailure'[f] = hadFailure[f] /\ terminal'[f] = terminal[f] /\ request'[f] = request[f]
  /\ (timer'[f] = timer[f] /\ timedOut'[f] = timedOut[f]) \/ (timer[f] /\ ~timer'[f])
  /\ ObserverErrors = {} => observerError'[f] = observerError[f]
  /\ Hears(f) \/ (SameLog(f) /\ rowsDelivered'[f] = rowsDelivered[f])

LEMMA SameIsOutside ==
  ASSUME NEW f, SameThread(f), SameRest(f)
  PROVE  OutsideStep(f)
  BY DEF SameThread, SameRest, OutsideStep, SameLog

LEMMA StartSteps ==
  ASSUME TypeOK, NEW e \in Executions, NEW f \in Executions, Start(e)
  PROVE  Starts(f) \/ OutsideStep(f)
<1>1. /\ EmitAndDrain(e, << EventOf("execution-started", 0, 0) >>, "startDrain") /\ pc[e] = "none"
      /\ SameFrame(f) /\ status'[f] = status[f] /\ SameRest(f)
  BY DEF Start, AcceptsStart, SameFrame, SameRest
<1>2. CASE f = e
  <2>1. pc'[e] = "startDrain" /\ Logs(e, "execution-started", 0, 0)
    BY <1>1, EmissionAt
  <2> QED
    BY <1>1, <1>2, <2>1 DEF Starts
<1>3. CASE f # e
  <2>1. timer'[f] = timer[f] /\ pc'[f] = pc[f] /\ emitted'[f] = emitted[f]
    BY <1>1, <1>3 DEF Start, EmitAndDrain, Emit, TypeOK
  <2> QED
    BY <1>1, <2>1, SameIsOutside DEF SameThread, SameFrame
<1> QED
  BY <1>2, <1>3

LEMMA CallbackSteps ==
  ASSUME TypeOK, NEW e \in Executions, NEW f \in Executions, OnColumnsOrRows(e)
  PROVE  OutsideStep(f)
<1>1. /\ pc[e] \in {"executing"} \union CatchPoints /\ (~LateCallbacks => pc[e] = "executing")
      /\ UNCHANGED << pc, stmt, attempt, status, timer, terminal, hadFailure, request, timedOut,
                      observerError >>
  BY DEF OnColumnsOrRows, MayCallBack, CallbackHeard, CallbacksOpen, ThreadFrame
<1>2. emitted[e] \in Seq(Event) /\ e \in DOMAIN emitted /\ e \in DOMAIN rowsDelivered
  BY DEF TypeOK
<1>3. CASE Emit(e, << EventOf("columns", stmt[e], attempt[e]) >>) /\ UNCHANGED rowsDelivered
  <2>1. Logs(e, "columns", stmt[e], attempt[e])
    BY <1>2, <1>3 DEF Emit, Logs
  <2>2. f # e => SameLog(f)
    BY <1>3 DEF Emit, SameLog, TypeOK
  <2> QED
    BY <1>1, <1>3, <2>1, <2>2 DEF OutsideStep, Hears
<1>4. CASE /\ Emit(e, << EventOf("rows", stmt[e], attempt[e]), EventOf("progress", stmt[e], attempt[e]) >>)
           /\ rowsDelivered' = [rowsDelivered EXCEPT ![e] = TRUE]
  <2>1. emitted'[e] = Append(Append(emitted[e], EventOf("rows", stmt[e], attempt[e])),
                             EventOf("progress", stmt[e], attempt[e]))
    <3>1. emitted'[e] = emitted[e] \o << EventOf("rows", stmt[e], attempt[e]),
                                         EventOf("progress", stmt[e], attempt[e]) >>
      BY <1>2, <1>4 DEF Emit
    <3> DEFINE a == EventOf("rows", stmt[e], attempt[e])
               b == EventOf("progress", stmt[e], attempt[e])
    <3>2. emitted[e] \o << a, b >> = Append(Append(emitted[e], a), b)
      <4> HIDE DEF a, b
      <4> QED
        BY <1>2
    <3> QED
      BY <3>1, <3>2
  <2>2. f # e => SameLog(f) /\ rowsDelivered'[f] = rowsDelivered[f]
    BY <1>4 DEF Emit, SameLog, TypeOK
  <2>3. rowsDelivered'[e] = TRUE
    BY <1>2, <1>4
  <2> QED
    BY <1>1, <2>1, <2>2, <2>3 DEF OutsideStep, Hears
<1> QED
  BY <1>3, <1>4 DEF OnColumnsOrRows

LEMMA ControlSteps ==
  ASSUME TypeOK, NEW e \in Executions, NEW f \in Executions,
         \/ DeliverEvent(e) \/ \E c \in Commands : OnCommand(e, c)
         \/ Cancel(e) \/ TimeoutFires(e) \/ ExternalAbort(e) \/ DetachObserver(e) \/ StopSettles(e)
         \/ \E job \in {"backend", "command"} : RunCancelJob(e, job)
         \/ Dispose \/ CloseAll \/ UNCHANGED vars
  PROVE  OutsideStep(f)
<1>1. UNCHANGED << pc, stmt, attempt, rowsDelivered, status, hadFailure, terminal, request, emitted >>
  BY DEF DeliverEvent, OnCommand, Cancel, TimeoutFires, ExternalAbort, DetachObserver, StopSettles,
         RunCancelJob, Dispose, CloseAll, CancelFrame, frameVars, eventVars, vars
<1>2. (timer'[f] = timer[f] /\ timedOut'[f] = timedOut[f]) \/ (timer[f] /\ ~timer'[f])
  BY DEF DeliverEvent, OnCommand, Cancel, TimeoutFires, ExternalAbort, DetachObserver, StopSettles,
         RunCancelJob, Dispose, CloseAll, vars, TypeOK
<1>3. ObserverErrors = {} => observerError'[f] = observerError[f]
  BY DEF DeliverEvent, OnCommand, Cancel, TimeoutFires, ExternalAbort, DetachObserver, StopSettles,
         RunCancelJob, Dispose, CloseAll, CancelFrame, eventVars, vars
<1> QED
  BY <1>1, <1>2, <1>3 DEF OutsideStep, SameLog

(* Before its first statement the thread is at none. *)
StartsAtNone(f) == pc[f] \in {"none", "startDrain"} => stmt[f] = 0

LEMMA NextSteps ==
  ASSUME IInv, [Next]_vars, \A e \in Executions : StartsAtNone(e), NEW f \in Executions
  PROVE  (ThreadStep(f) /\ ThreadFrame) \/ Starts(f) \/ OutsideStep(f)
<1>0. TypeOK /\ Positioned
  BY DEF IInv
<1>1. ASSUME NEW e \in Executions, Resume(e) \/ BackendAnswers(e) \/ ExecuteSettles(e)
      PROVE  (ThreadStep(f) /\ ThreadFrame) \/ OutsideStep(f)
  <2>1. ThreadStep(e) /\ ThreadFrame /\ SameElsewhere(e)
    BY <1>0, <1>1, ThreadSteps, ThreadKeeps, ThreadElsewhere DEF StartsAtNone
  <2>2. CASE f # e
    BY <2>1, <2>2, SameIsOutside DEF SameElsewhere
  <2> QED
    BY <2>1, <2>2
<1>2. ASSUME NEW e \in Executions, Start(e) \/ OnColumnsOrRows(e)
      PROVE  Starts(f) \/ OutsideStep(f)
  BY <1>0, <1>2, StartSteps, CallbackSteps
<1>3. ASSUME NEW e \in Executions,
             \/ DeliverEvent(e) \/ \E c \in Commands : OnCommand(e, c)
             \/ Cancel(e) \/ TimeoutFires(e) \/ ExternalAbort(e) \/ DetachObserver(e) \/ StopSettles(e)
             \/ \E job \in {"backend", "command"} : RunCancelJob(e, job)
             \/ Dispose \/ CloseAll \/ UNCHANGED vars
      PROVE  OutsideStep(f)
  BY <1>0, <1>3, ControlSteps
<1> QED
  BY <1>1, <1>2, <1>3 DEF Next
--------------------------------------------------------------------------------
(* Facts about the log as a sequence.                                      *)

Lacks(L, types) == \A i \in DOMAIN L : L[i].type \notin types
Has(L, types, s) == \E i \in DOMAIN L : L[i].type \in types /\ L[i].stmt = s

(* L ends in the two closing events and holds no others. *)
Closed(L) ==
  /\ Len(L) >= 2
  /\ L[Len(L) - 1].type = "execution-terminal" /\ L[Len(L)].type = "batch-completed"
  /\ \A i \in 1 .. Len(L) - 2 : L[i].type \notin ClosingTypes

LEMMA AppendToLog ==
  ASSUME NEW S, NEW L \in Seq(S), NEW t, NEW s, NEW a
  PROVE  /\ \A types : Lacks(Append(L, EventOf(t, s, a)), types) <=> Lacks(L, types) /\ t \notin types
         /\ \A types, k : Has(Append(L, EventOf(t, s, a)), types, k) <=>
                            Has(L, types, k) \/ (t \in types /\ s = k)
<1> DEFINE x == EventOf(t, s, a)
<1>1. x.type = t /\ x.stmt = s
  BY DEF EventOf
<1> HIDE DEF x
<1>2. /\ DOMAIN Append(L, x) = DOMAIN L \union {Len(L) + 1}
      /\ Append(L, x)[Len(L) + 1] = x
      /\ \A i \in DOMAIN L : Append(L, x)[i] = L[i]
  OBVIOUS
<1>3. /\ \A types : Lacks(Append(L, x), types) <=> Lacks(L, types) /\ t \notin types
      /\ \A types, k : Has(Append(L, x), types, k) <=> Has(L, types, k) \/ (t \in types /\ s = k)
  BY <1>1, <1>2 DEF Lacks, Has
<1> QED
  BY <1>3 DEF x

LEMMA AppendRowsToLog ==
  ASSUME NEW L \in Seq(Event), NEW s \in 0 .. StatementCount, NEW a \in Attempts
  PROVE  LET M == Append(Append(L, EventOf("rows", s, a)), EventOf("progress", s, a))
         IN /\ \A types : Lacks(M, types) <=>
                            Lacks(L, types) /\ "rows" \notin types /\ "progress" \notin types
            /\ \A types, k : Has(M, types, k) <=>
                 Has(L, types, k) \/ (("rows" \in types \/ "progress" \in types) /\ s = k)
<1> DEFINE K == Append(L, EventOf("rows", s, a))
<1>1. EventOf("rows", s, a) \in Event
  BY DEF EventOf, Event, StatementEventTypes
<1>2. /\ K \in Seq(Event)
      /\ \A types : Lacks(K, types) <=> Lacks(L, types) /\ "rows" \notin types
      /\ \A types, k : Has(K, types, k) <=> Has(L, types, k) \/ ("rows" \in types /\ s = k)
  BY <1>1, AppendToLog
<1> HIDE DEF K
<1>3. /\ \A types : Lacks(Append(K, EventOf("progress", s, a)), types) <=>
                       Lacks(K, types) /\ "progress" \notin types
      /\ \A types, k : Has(Append(K, EventOf("progress", s, a)), types, k) <=>
                          Has(K, types, k) \/ ("progress" \in types /\ s = k)
  BY <1>2, AppendToLog
<1>4. /\ \A types : Lacks(Append(K, EventOf("progress", s, a)), types) <=>
                       Lacks(L, types) /\ "rows" \notin types /\ "progress" \notin types
      /\ \A types, k : Has(Append(K, EventOf("progress", s, a)), types, k) <=>
           Has(L, types, k) \/ (("rows" \in types \/ "progress" \in types) /\ s = k)
  BY <1>2, <1>3, Zenon
<1> QED
  BY <1>4 DEF K

LEMMA CloseLog ==
  ASSUME NEW L \in Seq(Event), Lacks(L, ClosingTypes), NEW M,
         M = L \o << EventOf("execution-terminal", 0, 0), EventOf("batch-completed", 0, 0) >>
  PROVE  /\ Closed(M)
         /\ \A types : "execution-terminal" \notin types /\ "batch-completed" \notin types =>
                 (Lacks(M, types) <=> Lacks(L, types))
         /\ \A types, k : "execution-terminal" \notin types /\ "batch-completed" \notin types =>
                 (Has(M, types, k) <=> Has(L, types, k))
<1> DEFINE x == EventOf("execution-terminal", 0, 0)
           y == EventOf("batch-completed", 0, 0)
<1>1. x.type = "execution-terminal" /\ y.type = "batch-completed"
  BY DEF EventOf
<1> HIDE DEF x, y
<1>2. /\ Len(M) = Len(L) + 2 /\ DOMAIN M = 1 .. Len(L) + 2 /\ DOMAIN L = 1 .. Len(L) /\ Len(L) \in Nat
      /\ M[Len(L) + 1] = x /\ M[Len(L) + 2] = y
      /\ \A i \in 1 .. Len(L) : M[i] = L[i]
  <2>1. M = L \o << x, y >>
    BY DEF x, y
  <2> QED
    BY <2>1
<1>3. Closed(M)
  BY SMTT(30), <1>1, <1>2 DEF Closed, Lacks
<1>4. \A i \in DOMAIN M : i \in DOMAIN L \/ i = Len(L) + 1 \/ i = Len(L) + 2
  BY <1>2
<1>5. ASSUME NEW types, "execution-terminal" \notin types, "batch-completed" \notin types
      PROVE  /\ Lacks(M, types) <=> Lacks(L, types)
             /\ \A k : Has(M, types, k) <=> Has(L, types, k)
  <2>1. /\ \A i \in DOMAIN L : i \in DOMAIN M /\ M[i] = L[i]
        /\ \A i \in DOMAIN M : M[i].type \in types => i \in DOMAIN L
    BY <1>1, <1>2, <1>4, <1>5
  <2>2. /\ \A i \in DOMAIN M : i \in DOMAIN L \/ M[i].type \notin types
        /\ \A i \in DOMAIN L : M[i].type = L[i].type /\ M[i].stmt = L[i].stmt
    BY <2>1
  <2>3. Lacks(M, types) <=> Lacks(L, types)
    BY <2>1, <2>2 DEF Lacks
  <2>4. ASSUME NEW k PROVE Has(M, types, k) <=> Has(L, types, k)
    BY <2>1, <2>2 DEF Has
  <2> QED
    BY <2>3, <2>4
<1> QED
  BY <1>3, <1>5

(* A closed log has each closing event once, last. *)
LEMMA ClosedOnce ==
  ASSUME NEW S, NEW L \in Seq(S), Closed(L)
  PROVE  /\ \A i \in DOMAIN L : L[i].type = "execution-terminal" =>
                  i = Len(L) - 1 /\ L[i + 1].type = "batch-completed"
         /\ \E i \in DOMAIN L : L[i].type = "execution-terminal"
  BY DEF Closed, ClosingTypes

--------------------------------------------------------------------------------
(* The closing events and the terminal status.                             *)

EndPoints == {"terminalDrain", "settled"}

(* The record is terminal, and its log closed, from the step of finish that*)
(* emits the closing events on.                                            *)
LogClosed(e) ==
  /\ pc[e] \in EndPoints <=> terminal[e] # NoError
  /\ pc[e] \notin EndPoints => Lacks(emitted[e], ClosingTypes)
  /\ pc[e] \in EndPoints => Closed(emitted[e])

LEMMA LogClosedStep ==
  ASSUME TypeOK, NEW e \in Executions, LogClosed(e),
         ThreadStep(e) \/ Starts(e) \/ OutsideStep(e)
  PROVE  LogClosed(e)'
<1>0. emitted[e] \in Seq(Event) /\ pc[e] \in PCs
  BY DEF TypeOK
<1>1. CASE Closes(e)
  <2>1. Lacks(emitted[e], ClosingTypes)
    BY <1>1 DEF Closes, LogClosed, EndPoints
  <2>2. Closed(emitted'[e])
    BY <1>0, <1>1, <2>1, CloseLog DEF Closes
  <2>3. NoError \notin TerminalStatuses
    BY DEF NoError, TerminalStatuses
  <2> QED
    BY <1>1, <2>2, <2>3 DEF Closes, LogClosed, EndPoints
<1>2. ASSUME terminal'[e] = terminal[e], pc[e] \notin EndPoints, pc'[e] \notin EndPoints,
             SameLog(e) \/ \E t, s, a : t \notin ClosingTypes /\ Logs(e, t, s, a)
      PROVE  LogClosed(e)'
  <2>0. Lacks(emitted[e], ClosingTypes)
    BY <1>2 DEF LogClosed
  <2>1. Lacks(emitted'[e], ClosingTypes)
    <3>1. ASSUME NEW t, NEW s, NEW a, t \notin ClosingTypes, Logs(e, t, s, a)
          PROVE  Lacks(emitted'[e], ClosingTypes)
      BY <1>0, <2>0, <3>1, AppendToLog DEF Logs
    <3> QED
      BY <1>2, <2>0, <3>1 DEF SameLog
  <2> QED
    BY <1>2, <2>1 DEF LogClosed
<1>3. CASE Settles(e) /\ terminal'[e] = terminal[e]
  BY <1>3 DEF Settles, SameLog, LogClosed, EndPoints
<1>4. CASE EndsLoop(e) /\ terminal'[e] = terminal[e]
  BY <1>2, <1>4 DEF EndsLoop, EndPoints, LoopHeads
<1>5. CASE LosesStatement(e) /\ terminal'[e] = terminal[e]
  <2>1. /\ pc[e] \notin EndPoints /\ pc'[e] \notin EndPoints
        /\ \E s, a : Logs(e, "statement-failed", s, a)
    BY <1>5 DEF LosesStatement, EndPoints, LoopHeads, WorkPoints, CatchPoints
  <2> QED
    BY <1>2, <1>5, <2>1 DEF ClosingTypes
<1>6. CASE BeginsStatement(e) /\ terminal'[e] = terminal[e]
  <2>1. /\ pc[e] \notin EndPoints /\ pc'[e] \notin EndPoints
        /\ \E s, a : Logs(e, "statement-started", s, a)
    BY <1>6 DEF BeginsStatement, EndPoints, LoopHeads
  <2> QED
    BY <1>2, <1>6, <2>1 DEF ClosingTypes
<1>7. CASE (Dispatches(e) \/ GoesOn(e) \/ CleansUp(e)) /\ terminal'[e] = terminal[e]
  BY <1>2, <1>7 DEF Dispatches, GoesOn, CleansUp, EndPoints
<1>8. CASE (Completes(e) \/ Retries(e)) /\ terminal'[e] = terminal[e]
  <2>1. /\ pc[e] \notin EndPoints /\ pc'[e] \notin EndPoints
        /\ \E t \in {"statement-completed", "retrying"} : \E s, a : Logs(e, t, s, a)
    BY <1>8 DEF Completes, Retries, EndPoints
  <2> QED
    BY <1>2, <1>8, <2>1 DEF ClosingTypes
<1>9. CASE Starts(e)
  <2>1. /\ pc[e] \notin EndPoints /\ pc'[e] \notin EndPoints /\ terminal'[e] = terminal[e]
        /\ Logs(e, "execution-started", 0, 0) /\ "execution-started" \notin ClosingTypes
    BY <1>9 DEF Starts, SameRest, EndPoints, ClosingTypes
  <2> QED
    BY <1>2, <2>1
<1>10. CASE OutsideStep(e)
  <2>1. CASE SameLog(e)
    BY <1>10, <2>1 DEF OutsideStep, SameLog, LogClosed
  <2>2. CASE Hears(e)
    <3>1. pc[e] \notin EndPoints /\ pc'[e] = pc[e] /\ terminal'[e] = terminal[e]
      BY <1>10, <2>2 DEF OutsideStep, Hears, EndPoints, CatchPoints
    <3>2. CASE Logs(e, "columns", stmt[e], attempt[e])
      BY <1>2, <3>1, <3>2 DEF ClosingTypes
    <3>3. CASE emitted'[e] = Append(Append(emitted[e], EventOf("rows", stmt[e], attempt[e])),
                                    EventOf("progress", stmt[e], attempt[e]))
      <4>1. stmt[e] \in 0 .. StatementCount /\ attempt[e] \in Attempts
        BY DEF TypeOK
      <4>2. Lacks(emitted[e], ClosingTypes) /\ "rows" \notin ClosingTypes /\ "progress" \notin ClosingTypes
        BY <3>1 DEF LogClosed, ClosingTypes
      <4>4. Lacks(emitted'[e], ClosingTypes)
        BY <1>0, <3>3, <4>1, <4>2, AppendRowsToLog
      <4> QED
        BY <3>1, <4>4 DEF LogClosed
    <3> QED
      BY <2>2, <3>2, <3>3 DEF Hears
  <2> QED
    BY <1>10, <2>1, <2>2 DEF OutsideStep
<1> QED
  BY <1>1, <1>3, <1>4, <1>5, <1>6, <1>7, <1>8, <1>9, <1>10 DEF ThreadStep
Failed == {"statement-failed"}
CompletedTo(L, k) == \A s \in 1 .. k : Has(L, {"statement-completed"}, s)
Succeeded(L) == Lacks(L, Failed) /\ CompletedTo(L, StatementCount)

(* Outside the handling of a failed statement the log of an execution that *)
(* has had no failure holds none, and every statement before the current   *)
(* one has completed; the status finish was entered with agrees with that, *)
(* and no timer is left that could fire behind it.                         *)
Outcome(e) ==
  /\ StartsAtNone(e)
  /\ pc[e] \in {"none", "startDrain"} => Lacks(emitted[e], Failed)
  /\ pc[e] \in WorkPoints /\ ~hadFailure[e] =>
       Lacks(emitted[e], Failed) /\ CompletedTo(emitted[e], stmt[e] - 1)
  /\ pc[e] = "completedDrain" /\ ~hadFailure[e] => CompletedTo(emitted[e], stmt[e])
  /\ pc[e] = "failDrain" => hadFailure[e] \/ ~request[e].continueOnError
  /\ pc[e] \in CleanupPoints /\ status[e] = "success" => Succeeded(emitted[e])
  /\ terminal[e] = "success" => Succeeded(emitted[e])
  /\ pc[e] \in CleanupPoints \union EndPoints => ~timer[e]
  /\ pc[e] \in CleanupPoints /\ status[e] = "cancelled" => ~timedOut[e]
  /\ terminal[e] = "cancelled" => ~timedOut[e]

LEMMA LogGrows ==
  ASSUME NEW L \in Seq(Event), NEW t, NEW s, NEW a
  PROVE  /\ \A k : CompletedTo(L, k) => CompletedTo(Append(L, EventOf(t, s, a)), k)
         /\ t # "statement-failed" /\ Lacks(L, Failed) => Lacks(Append(L, EventOf(t, s, a)), Failed)
<1>1. /\ \A types : Lacks(Append(L, EventOf(t, s, a)), types) <=> Lacks(L, types) /\ t \notin types
      /\ \A types, k : Has(L, types, k) => Has(Append(L, EventOf(t, s, a)), types, k)
  BY AppendToLog
<1> DEFINE M == Append(L, EventOf(t, s, a))
<1> HIDE DEF M
<1>2. /\ \A types : Lacks(M, types) <=> Lacks(L, types) /\ t \notin types
      /\ \A types, k : Has(L, types, k) => Has(M, types, k)
  BY <1>1 DEF M
<1>3. /\ \A k : CompletedTo(L, k) => CompletedTo(M, k)
      /\ t # "statement-failed" /\ Lacks(L, Failed) => Lacks(M, Failed)
  BY <1>2 DEF CompletedTo, Failed
<1> QED
  BY <1>3 DEF M

LEMMA CompletedNext ==
  ASSUME NEW L, NEW k \in Nat, CompletedTo(L, k - 1), Has(L, {"statement-completed"}, k)
  PROVE  CompletedTo(L, k)
<1>1. \A s \in 1 .. k : s \in 1 .. k - 1 \/ s = k
  OBVIOUS
<1> QED
  BY <1>1 DEF CompletedTo

(* A step of the thread of e. *)
LEMMA OutcomeThread ==
  ASSUME TypeOK, NEW e \in Executions, LogClosed(e), Outcome(e), ThreadStep(e), ThreadFrame
  PROVE  Outcome(e)'
<1>0. /\ emitted[e] \in Seq(Event) /\ stmt[e] \in 0 .. StatementCount
      /\ timedOut'[e] = timedOut[e] /\ request'[e] = request[e]
  BY DEF TypeOK, ThreadFrame
<1> DEFINE L == emitted[e]
<1>1. /\ \A t, s, a : Logs(e, t, s, a) =>
           /\ \A k : CompletedTo(L, k) => CompletedTo(emitted'[e], k)
           /\ t # "statement-failed" /\ Lacks(L, Failed) => Lacks(emitted'[e], Failed)
      /\ \A s, a : Logs(e, "statement-completed", s, a) => Has(emitted'[e], {"statement-completed"}, s)
  <2>1. ASSUME NEW t, NEW s, NEW a, Logs(e, t, s, a)
        PROVE  /\ \A k : CompletedTo(L, k) => CompletedTo(emitted'[e], k)
               /\ t # "statement-failed" /\ Lacks(L, Failed) => Lacks(emitted'[e], Failed)
               /\ \A types, k : Has(emitted'[e], types, k) <=> Has(L, types, k) \/ (t \in types /\ s = k)
    BY <1>0, <2>1, LogGrows, AppendToLog DEF Logs
  <2> QED
    BY <2>1
<1>2. pc[e] \notin EndPoints => terminal[e] = NoError
  BY DEF LogClosed
<1>3. CASE EndsLoop(e) /\ terminal'[e] = terminal[e]
  <2>1. PICK st \in TerminalStatuses :
          /\ pc[e] \in LoopHeads \union {"stmtDrain", "retryDrain", "cancelDrain"}
          /\ st = "success" => /\ pc[e] \in {"completedDrain", "failDrain"}
                               /\ pc[e] = "failDrain" => request[e].continueOnError
                               /\ ~hadFailure[e] /\ LoopEnds(stmt[e] + 1)
          /\ st = "cancelled" => ~timedOut[e]
          /\ pc'[e] = "disposingResources" /\ status'[e] = st /\ timer'[e] = FALSE
          /\ SameFrame(e) /\ SameLog(e)
    BY <1>3 DEF EndsLoop
  <2>2. terminal'[e] = NoError
    BY <1>2, <1>3, <2>1 DEF LoopHeads, EndPoints
  <2>3. st = "success" => Succeeded(emitted'[e])
    <3>1. ASSUME st = "success"
          PROVE  Succeeded(emitted[e])
      <4>1. pc[e] = "completedDrain" /\ ~hadFailure[e] /\ stmt[e] = StatementCount
        BY <1>0, <2>1, <3>1, StatementCountAssumption DEF Outcome, LoopEnds
      <4>2. pc[e] \in WorkPoints
        BY <4>1 DEF WorkPoints
      <4> QED
        BY <4>1, <4>2 DEF Outcome, Succeeded
    <3> QED
      BY <2>1, <3>1 DEF SameLog
  <2> QED
    BY <1>0, <2>1, <2>2, <2>3
       DEF Outcome, StartsAtNone, NoError, WorkPoints, CatchPoints, CleanupPoints
<1>4. CASE LosesStatement(e) /\ terminal'[e] = terminal[e]
  <2>1. /\ pc'[e] \in {"cancelDrain", "failDrain"} /\ pc[e] \in WorkPoints \union LoopHeads
        /\ pc'[e] = "failDrain" => hadFailure'[e] \/ ~request[e].continueOnError
    BY <1>4 DEF LosesStatement
  <2>2. terminal'[e] = NoError
    BY <1>2, <1>4, <2>1 DEF LoopHeads, WorkPoints, CatchPoints, EndPoints
  <2> QED
    BY <1>0, <2>1, <2>2
       DEF Outcome, StartsAtNone, NoError, WorkPoints, CatchPoints, CleanupPoints, EndPoints
<1>5. CASE BeginsStatement(e) /\ terminal'[e] = terminal[e]
  <2>1. /\ pc[e] \in LoopHeads /\ pc'[e] = "stmtDrain" /\ stmt'[e] = stmt[e] + 1
        /\ pc[e] = "failDrain" => request[e].continueOnError
        /\ hadFailure'[e] = hadFailure[e] /\ Logs(e, "statement-started", stmt[e] + 1, 0)
    BY <1>5 DEF BeginsStatement
  <2>2. terminal'[e] = NoError
    BY <1>2, <1>5, <2>1 DEF LoopHeads, EndPoints
  <2>3. ASSUME ~hadFailure'[e]
        PROVE  Lacks(emitted'[e], Failed) /\ CompletedTo(emitted'[e], stmt'[e] - 1)
    <3>1. stmt'[e] - 1 = stmt[e]
      BY <1>0, <2>1
    <3>2. Lacks(L, Failed) /\ CompletedTo(L, stmt[e])
      <4>1. CASE pc[e] = "startDrain"
        BY <4>1 DEF Outcome, StartsAtNone, CompletedTo
      <4>2. CASE pc[e] = "completedDrain"
        BY <2>1, <2>3, <4>2 DEF Outcome, WorkPoints
      <4> QED
        BY <2>1, <2>3, <4>1, <4>2 DEF Outcome, LoopHeads
    <3> QED
      BY <1>1, <2>1, <3>1, <3>2
  <2> QED
    BY <1>0, <2>1, <2>2, <2>3
       DEF Outcome, StartsAtNone, NoError, WorkPoints, CatchPoints, CleanupPoints, EndPoints
<1>6. CASE (Dispatches(e) \/ GoesOn(e)) /\ terminal'[e] = terminal[e]
  <2>1. /\ pc[e] \in WorkPoints /\ pc'[e] \in WorkPoints \ {"completedDrain"}
        /\ stmt'[e] = stmt[e] /\ hadFailure'[e] = hadFailure[e] /\ emitted'[e] = emitted[e]
    BY <1>6 DEF Dispatches, GoesOn, SameFrame, SameLog, WorkPoints, CatchPoints
  <2>2. terminal'[e] = NoError
    BY <1>2, <1>6, <2>1 DEF WorkPoints, CatchPoints, EndPoints
  <2> QED
    BY <1>0, <2>1, <2>2
       DEF Outcome, StartsAtNone, NoError, WorkPoints, CatchPoints, CleanupPoints, EndPoints
<1>7. CASE Completes(e) /\ terminal'[e] = terminal[e]
  <2>1. /\ pc[e] = "executedDrain" /\ pc[e] \in WorkPoints /\ pc'[e] = "completedDrain"
        /\ stmt'[e] = stmt[e] /\ hadFailure'[e] = hadFailure[e]
        /\ Logs(e, "statement-completed", stmt[e], attempt[e])
    BY <1>7 DEF Completes, SameFrame, WorkPoints
  <2>2. terminal'[e] = NoError
    BY <1>2, <1>7, <2>1 DEF EndPoints
  <2>3. ASSUME ~hadFailure'[e]
        PROVE  /\ Lacks(emitted'[e], Failed) /\ CompletedTo(emitted'[e], stmt'[e] - 1)
               /\ CompletedTo(emitted'[e], stmt'[e])
    <3>1. Lacks(L, Failed) /\ CompletedTo(L, stmt[e] - 1)
      BY <2>1, <2>3 DEF Outcome
    <3>2. /\ Lacks(emitted'[e], Failed) /\ CompletedTo(emitted'[e], stmt[e] - 1)
          /\ Has(emitted'[e], {"statement-completed"}, stmt[e])
      BY <1>1, <2>1, <3>1
    <3>3. stmt[e] \in Nat
      BY <1>0, StatementCountAssumption
    <3> QED
      BY <2>1, <3>2, <3>3, CompletedNext
  <2> QED
    BY <1>0, <2>1, <2>2, <2>3
       DEF Outcome, StartsAtNone, NoError, WorkPoints, CatchPoints, CleanupPoints, EndPoints
<1>8. CASE Retries(e) /\ terminal'[e] = terminal[e]
  <2>1. /\ pc[e] \in WorkPoints /\ pc'[e] = "retryDrain"
        /\ stmt'[e] = stmt[e] /\ hadFailure'[e] = hadFailure[e]
        /\ Logs(e, "retrying", stmt[e], 0)
    BY <1>8 DEF Retries, SameFrame, WorkPoints
  <2>2. terminal'[e] = NoError
    BY <1>2, <1>8, <2>1 DEF WorkPoints, CatchPoints, EndPoints
  <2>3. ASSUME ~hadFailure'[e]
        PROVE  Lacks(emitted'[e], Failed) /\ CompletedTo(emitted'[e], stmt'[e] - 1)
    BY <1>1, <2>1, <2>3 DEF Outcome
  <2> QED
    BY <1>0, <2>1, <2>2, <2>3
       DEF Outcome, StartsAtNone, NoError, WorkPoints, CatchPoints, CleanupPoints, EndPoints
<1>9. CASE CleansUp(e) /\ terminal'[e] = terminal[e]
  <2>1. terminal'[e] = NoError
    BY <1>2, <1>9 DEF CleansUp, EndPoints
  <2> QED
    BY <1>0, <1>9, <2>1
       DEF CleansUp, CleanedTo, SameLog, SameFrame, Outcome, StartsAtNone, NoError, WorkPoints,
           CatchPoints, CleanupPoints, EndPoints
<1>10. CASE Settles(e) /\ terminal'[e] = terminal[e]
  BY <1>0, <1>10
     DEF Settles, SameLog, SameFrame, Outcome, StartsAtNone, WorkPoints,
         CatchPoints, CleanupPoints, EndPoints
<1>11. CASE Closes(e)
  <2>1. /\ pc[e] = "cleaning" /\ pc'[e] = "terminalDrain" /\ terminal'[e] = status'[e] /\ CleanedTo(e)
        /\ timer'[e] = timer[e]
        /\ emitted'[e] = emitted[e] \o << EventOf("execution-terminal", 0, 0), EventOf("batch-completed", 0, 0) >>
    BY <1>11 DEF Closes
  <2>2. Lacks(L, ClosingTypes)
    BY <2>1 DEF LogClosed, EndPoints
  <2>3. Succeeded(L) => Succeeded(emitted'[e])
    <3>1. /\ \A types : "execution-terminal" \notin types /\ "batch-completed" \notin types =>
                 (Lacks(emitted'[e], types) <=> Lacks(L, types))
          /\ \A types, k : "execution-terminal" \notin types /\ "batch-completed" \notin types =>
                 (Has(emitted'[e], types, k) <=> Has(L, types, k))
      BY <1>0, <2>1, <2>2, CloseLog
    <3>2. /\ "execution-terminal" \notin Failed /\ "batch-completed" \notin Failed
          /\ "execution-terminal" \notin {"statement-completed"}
          /\ "batch-completed" \notin {"statement-completed"}
      BY DEF Failed
    <3>3. /\ Lacks(emitted'[e], Failed) <=> Lacks(L, Failed)
          /\ \A k : Has(emitted'[e], {"statement-completed"}, k) <=> Has(L, {"statement-completed"}, k)
      BY <3>1, <3>2, Zenon
    <3> QED
      BY <3>3 DEF Succeeded, CompletedTo
  <2>4. status'[e] = "success" => Succeeded(emitted'[e])
    BY <2>1, <2>3 DEF CleanedTo, Outcome, CleanupPoints
  <2>5. status'[e] = "cancelled" => ~timedOut'[e]
    BY <1>0, <2>1 DEF CleanedTo, Outcome, CleanupPoints
  <2>6. ~timer'[e]
    BY <2>1 DEF Outcome, CleanupPoints
  <2> QED
    BY <2>1, <2>4, <2>5, <2>6
       DEF Outcome, StartsAtNone, WorkPoints, CatchPoints, CleanupPoints, EndPoints
<1> QED
  BY <1>3, <1>4, <1>5, <1>6, <1>7, <1>8, <1>9, <1>10, <1>11 DEF ThreadStep

(* Its start, or a step from outside. *)
LEMMA OutcomeOutside ==
  ASSUME TypeOK, NEW e \in Executions, LogClosed(e), Outcome(e), Starts(e) \/ OutsideStep(e)
  PROVE  Outcome(e)'
<1>0. /\ emitted[e] \in Seq(Event) /\ stmt[e] \in 0 .. StatementCount /\ attempt[e] \in Attempts
      /\ timer[e] \in BOOLEAN
  BY DEF TypeOK
<1>1. CASE Starts(e)
  <2>1. Lacks(emitted'[e], Failed)
    BY <1>0, <1>1, LogGrows DEF Starts, Logs, Outcome
  <2>2. terminal'[e] = NoError /\ pc'[e] = "startDrain" /\ stmt'[e] = 0
    BY <1>1 DEF Starts, SameRest, SameFrame, LogClosed, EndPoints, Outcome, StartsAtNone
  <2> QED
    BY <2>1, <2>2
       DEF Outcome, StartsAtNone, NoError, WorkPoints, CatchPoints, CleanupPoints, EndPoints
<1>2. CASE OutsideStep(e)
  <2>1. /\ pc'[e] = pc[e] /\ stmt'[e] = stmt[e] /\ status'[e] = status[e]
        /\ hadFailure'[e] = hadFailure[e] /\ terminal'[e] = terminal[e] /\ request'[e] = request[e]
        /\ (timer'[e] = timer[e] /\ timedOut'[e] = timedOut[e]) \/ (timer[e] /\ ~timer'[e])
    BY <1>2 DEF OutsideStep
  <2>2. CASE SameLog(e)
    <3>1. terminal[e] = "cancelled" => ~timer[e]
      BY DEF LogClosed, Outcome, NoError
    <3>2. terminal'[e] = "cancelled" => ~timedOut'[e]
      BY <2>1, <3>1 DEF Outcome
    <3>3. /\ pc'[e] \in CleanupPoints \union EndPoints => ~timer'[e]
          /\ pc'[e] \in CleanupPoints /\ status'[e] = "cancelled" => ~timedOut'[e]
      BY <2>1 DEF Outcome
    <3> QED
      BY <2>1, <2>2, <3>2, <3>3 DEF Outcome, StartsAtNone, SameLog
  <2>3. CASE Hears(e)
    <3>1. /\ pc[e] \in {"executing"} \union CatchPoints
          /\ terminal[e] = NoError
      BY <2>3 DEF Hears, LogClosed, EndPoints, CatchPoints
    <3>2. /\ \A k : CompletedTo(emitted[e], k) => CompletedTo(emitted'[e], k)
          /\ Lacks(emitted[e], Failed) => Lacks(emitted'[e], Failed)
      <4>1. CASE Logs(e, "columns", stmt[e], attempt[e])
        BY <1>0, <4>1, LogGrows DEF Logs
      <4>2. CASE emitted'[e] = Append(Append(emitted[e], EventOf("rows", stmt[e], attempt[e])),
                                      EventOf("progress", stmt[e], attempt[e]))
        <5>1. /\ \A types : Lacks(emitted'[e], types) <=>
                   Lacks(emitted[e], types) /\ "rows" \notin types /\ "progress" \notin types
              /\ \A types, k : Has(emitted'[e], types, k) <=> Has(emitted[e], types, k)
                   \/ (("rows" \in types \/ "progress" \in types) /\ stmt[e] = k)
          BY <1>0, <4>2, AppendRowsToLog
        <5>2. "rows" \notin Failed /\ "progress" \notin Failed
          BY DEF Failed
        <5>3. \A k : Has(emitted[e], {"statement-completed"}, k) => Has(emitted'[e], {"statement-completed"}, k)
          BY <5>1
        <5> QED
          BY <5>1, <5>2, <5>3 DEF CompletedTo
      <4> QED
        BY <2>3, <4>1, <4>2 DEF Hears
    <3>3. pc[e] \in WorkPoints \ {"completedDrain"} /\ pc[e] \notin CleanupPoints \union EndPoints
      BY <3>1 DEF WorkPoints, CatchPoints, CleanupPoints, EndPoints
    <3> QED
      BY <2>1, <3>1, <3>2, <3>3 DEF Outcome, StartsAtNone, NoError, WorkPoints, CatchPoints
  <2> QED
    BY <1>2, <2>2, <2>3 DEF OutsideStep
<1> QED
  BY <1>1, <1>2

(* The invariant about log, status and timer, of all executions. *)
LogIInv == \A e \in Executions : LogClosed(e) /\ Outcome(e)

LEMMA InitLogIInv == Init => LogIInv
  BY DEF Init, LogIInv, LogClosed, Outcome, StartsAtNone, Lacks, EndPoints, WorkPoints, CatchPoints,
         CleanupPoints, NoError

LEMMA NextLogIInv == IInv /\ LogIInv /\ [Next]_vars => LogIInv'
<1> SUFFICES ASSUME IInv, LogIInv, [Next]_vars, NEW e \in Executions
             PROVE  LogClosed(e)' /\ Outcome(e)'
  BY DEF LogIInv
<1>1. TypeOK /\ LogClosed(e) /\ Outcome(e) /\ \A f \in Executions : StartsAtNone(f)
  BY DEF IInv, LogIInv, Outcome
<1>2. (ThreadStep(e) /\ ThreadFrame) \/ Starts(e) \/ OutsideStep(e)
  BY <1>1, NextSteps
<1> QED
  BY <1>1, <1>2, LogClosedStep, OutcomeThread, OutcomeOutside

(* Success means that every statement completed and none failed, whatever  *)
(* the observer threw and the driver reported late; a timeout is never     *)
(* reported as a cancellation, in whatever order the two came.             *)
THEOREM TerminalAgrees == Spec => []TerminalAgreesWithLog
<1>1. TypeOK /\ LogIInv => TerminalAgreesWithLog
  <2> SUFFICES ASSUME TypeOK, LogIInv, NEW e \in Executions
               PROVE  /\ terminal[e] = "success" =>
                           \A s \in Statements : /\ InLog(e, {"statement-completed"}, s)
                                                 /\ ~InLog(e, {"statement-failed"}, s)
                      /\ terminal[e] = "cancelled" => ~timedOut[e]
    BY DEF TerminalAgreesWithLog
  <2>1. Outcome(e)
    BY DEF LogIInv
  <2> QED
    BY <2>1 DEF Outcome, Succeeded, CompletedTo, Lacks, Has, Failed, InLog, Statements
<1>2. IInv => TypeOK
  BY DEF IInv
<1> QED
  BY <1>1, <1>2, InitIInv, NextIInv, InitLogIInv, NextLogIInv, PTL DEF Spec

(* The two closing events are emitted exactly once, last, and by the time  *)
(* the execution settles, whatever the observer does with them.            *)
THEOREM ClosedOncePerExecution == Spec => []ClosedExactlyOnce
<1>1. TypeOK /\ LogIInv => ClosedExactlyOnce
  <2> SUFFICES ASSUME TypeOK, LogIInv, NEW e \in Executions
               PROVE  /\ \A i \in DOMAIN emitted[e] : emitted[e][i].type = "execution-terminal" =>
                              /\ i = Len(emitted[e]) - 1
                              /\ emitted[e][i + 1].type = "batch-completed"
                      /\ pc[e] = "settled" =>
                           \E i \in DOMAIN emitted[e] : emitted[e][i].type = "execution-terminal"
    BY DEF ClosedExactlyOnce
  <2>1. emitted[e] \in Seq(Event) /\ LogClosed(e)
    BY DEF LogIInv, TypeOK
  <2>2. CASE pc[e] \in EndPoints
    BY <2>1, <2>2, ClosedOnce DEF LogClosed
  <2>3. CASE pc[e] \notin EndPoints
    BY <2>1, <2>3 DEF LogClosed, Lacks, ClosingTypes, EndPoints
  <2> QED
    BY <2>2, <2>3
<1>2. IInv => TypeOK
  BY DEF IInv
<1> QED
  BY <1>1, <1>2, InitIInv, NextIInv, InitLogIInv, NextLogIInv, PTL DEF Spec
--------------------------------------------------------------------------------
(* The events of an execution follow the contract, when its observer throws*)
(* nothing and its driver does not call back after execute has settled.    *)

Outcomes == {"statement-completed", "statement-failed"}
Within(L, k) == \A i \in DOMAIN L : L[i].stmt <= k

(* Where the thread is in the contract's order: up to which statement the  *)
(* log reaches, that all before it have an outcome, and at which awaits the*)
(* current one has started, has its outcome or is in its second attempt.   *)
LoopPoints == WorkPoints \union {"cancelDrain", "failDrain"}
Follows(e) ==
  /\ observerError[e] = NoError
  /\ pc[e] = "none" <=> emitted[e] = << >>
  /\ pc[e] \in LoopPoints \union {"startDrain"} => Within(emitted[e], stmt[e])
  /\ pc[e] \in LoopPoints =>
       stmt[e] \in Statements /\ \A s \in 1 .. stmt[e] - 1 : Has(emitted[e], Outcomes, s)
  /\ pc[e] \in WorkPoints \ {"completedDrain"} =>
       Has(emitted[e], {"statement-started"}, stmt[e]) /\ ~Has(emitted[e], Outcomes, stmt[e])
  /\ pc[e] \in {"completedDrain", "cancelDrain", "failDrain"} => Has(emitted[e], Outcomes, stmt[e])
  /\ pc[e] = "stmtDrain" => attempt[e] = 0
  /\ pc[e] \in {"stmtDrain", "executing", "executedDrain", "dropping"} =>
       (attempt[e] = 1 <=> Has(emitted[e], {"retrying"}, stmt[e]))
  /\ pc[e] \in {"retryDrain", "reconnecting"} => Has(emitted[e], {"retrying"}, stmt[e])
  /\ pc[e] \in WorkPoints /\ Has(emitted[e], {"rows"}, stmt[e]) => rowsDelivered[e]
  /\ pc[e] \in CleanupPoints =>
       \A s \in Statements : Has(emitted[e], {"statement-started"}, s) => Has(emitted[e], Outcomes, s)

(* The contract's own words, in terms of the log. *)
LEMMA ContractWords ==
  ASSUME NEW e \in Executions, NEW s
  PROVE  /\ \A types : Contract(e)!Logged(types, s) <=> Has(emitted[e], types, s)
         /\ Contract(e)!Statements = Statements
         /\ Contract(e)!Begun <=> emitted[e] # << >>
         /\ Lacks(emitted[e], ClosingTypes) => ~Contract(e)!Ended
         /\ Contract(e)!Started(s) <=> Has(emitted[e], {"statement-started"}, s)
         /\ Contract(e)!Resolved(s) <=> Has(emitted[e], Outcomes, s)
         /\ Contract(e)!Turn(s) <=> /\ ~Has(emitted[e], Outcomes, s)
                                    /\ \A t \in 1 .. s - 1 : Has(emitted[e], Outcomes, t)
         /\ Contract(e)!LiveAttempt(s) = IF Has(emitted[e], {"retrying"}, s) THEN 1 ELSE 0
         /\ \A t, a : Contract(e)!EventOf(t, s, a) = EventOf(t, s, a)
  BY DEF Contract!Logged, Contract!Statements, Contract!Begun, Contract!Ended, Contract!Started,
         Contract!Resolved, Contract!Turn, Contract!LiveAttempt, Contract!EventOf,
         Contract!OutcomeTypes, Has, Lacks, ClosingTypes, Outcomes, Statements, EventOf

LEMMA ContractBegin ==
  ASSUME NEW e \in Executions, emitted[e] = << >>, Logs(e, "execution-started", 0, 0)
  PROVE  Contract(e)!Next
<1>1. ~Contract(e)!Ended /\ ~Contract(e)!Begun
  BY DEF Contract!Ended, Contract!Begun
<1>2. emitted'[e] = << Contract(e)!EventOf("execution-started", 0, 0) >>
  BY DEF Logs, EventOf, Contract!EventOf
<1> QED
  BY <1>1, <1>2 DEF Contract!Next, Contract!Begin

(* The steps of a statement whose turn it is. *)
LEMMA ContractStatement ==
  ASSUME NEW e \in Executions, emitted[e] # << >>, Lacks(emitted[e], ClosingTypes),
         NEW s \in Statements, ~Has(emitted[e], Outcomes, s),
         \A t \in 1 .. s - 1 : Has(emitted[e], Outcomes, t),
         NEW a \in {0, 1}, a = 1 <=> Has(emitted[e], {"retrying"}, s),
         \/ ~Has(emitted[e], {"statement-started"}, s) /\ Logs(e, "statement-started", s, 0)
         \/ /\ Has(emitted[e], {"statement-started"}, s)
            /\ \/ Logs(e, "columns", s, a) \/ Logs(e, "statement-completed", s, a)
               \/ emitted'[e] = emitted[e] \o << EventOf("rows", s, a), EventOf("progress", s, a) >>
               \/ /\ Logs(e, "retrying", s, 0) /\ ~Has(emitted[e], {"rows", "retrying"}, s)
  PROVE  Contract(e)!Next
<1>1. /\ ~Contract(e)!Ended /\ Contract(e)!Begun /\ Contract(e)!Turn(s)
      /\ s \in Contract(e)!Statements /\ Contract(e)!LiveAttempt(s) = a
      /\ \A types : Contract(e)!Logged(types, s) <=> Has(emitted[e], types, s)
      /\ Contract(e)!Started(s) <=> Has(emitted[e], {"statement-started"}, s)
      /\ \A t, b : Contract(e)!EventOf(t, s, b) = EventOf(t, s, b)
  BY ContractWords
<1>2. \/ Contract(e)!StartStatement(s) \/ Contract(e)!DeliverColumns(s) \/ Contract(e)!DeliverRows(s)
      \/ Contract(e)!Retry(s) \/ Contract(e)!Complete(s)
  BY <1>1 DEF Contract!StartStatement, Contract!DeliverColumns, Contract!DeliverRows,
              Contract!Retry, Contract!Complete, Logs
<1> QED
  BY <1>1, <1>2 DEF Contract!Next

LEMMA ContractFail ==
  ASSUME NEW e \in Executions, emitted[e] # << >>, Lacks(emitted[e], ClosingTypes),
         NEW s \in Statements, ~Has(emitted[e], Outcomes, s),
         \A t \in 1 .. s - 1 : Has(emitted[e], Outcomes, t),
         NEW a \in {0, 1}, a = 1 => Has(emitted[e], {"retrying"}, s),
         Logs(e, "statement-failed", s, a)
  PROVE  Contract(e)!Next
<1>1. /\ ~Contract(e)!Ended /\ Contract(e)!Begun /\ Contract(e)!Turn(s)
      /\ s \in Contract(e)!Statements
      /\ \A types : Contract(e)!Logged(types, s) <=> Has(emitted[e], types, s)
      /\ \A t, b : Contract(e)!EventOf(t, s, b) = EventOf(t, s, b)
  BY ContractWords
<1>2. Contract(e)!Fail(s)
  BY <1>1 DEF Contract!Fail, Logs
<1> QED
  BY <1>1, <1>2 DEF Contract!Next

LEMMA ContractTerminate ==
  ASSUME NEW e \in Executions, emitted[e] # << >>, Lacks(emitted[e], ClosingTypes),
         \A s \in Statements : Has(emitted[e], {"statement-started"}, s) => Has(emitted[e], Outcomes, s),
         emitted'[e] = emitted[e] \o << EventOf("execution-terminal", 0, 0), EventOf("batch-completed", 0, 0) >>
  PROVE  Contract(e)!Next
<1>1. /\ ~Contract(e)!Ended /\ Contract(e)!Begun /\ Contract(e)!Statements = Statements
      /\ \A s : /\ Contract(e)!Started(s) <=> Has(emitted[e], {"statement-started"}, s)
                /\ Contract(e)!Resolved(s) <=> Has(emitted[e], Outcomes, s)
                /\ \A t, b : Contract(e)!EventOf(t, s, b) = EventOf(t, s, b)
  <2>1. ASSUME NEW s
        PROVE  /\ ~Contract(e)!Ended /\ Contract(e)!Begun /\ Contract(e)!Statements = Statements
               /\ Contract(e)!Started(s) <=> Has(emitted[e], {"statement-started"}, s)
               /\ Contract(e)!Resolved(s) <=> Has(emitted[e], Outcomes, s)
               /\ \A t, b : Contract(e)!EventOf(t, s, b) = EventOf(t, s, b)
    BY DEF Contract!Logged, Contract!Statements, Contract!Begun, Contract!Ended, Contract!Started,
           Contract!Resolved, Contract!EventOf, Contract!OutcomeTypes, Has, Lacks, ClosingTypes,
           Outcomes, Statements, EventOf
  <2> QED
    BY <2>1
<1>2. Contract(e)!Terminate
  BY <1>1 DEF Contract!Terminate
<1> QED
  BY <1>1, <1>2 DEF Contract!Next

(* What an enqueue of one event changes of what Follows asks of the log. *)
GrewBy(L, M, t, s) ==
  /\ M # << >>
  /\ \A k : Within(M, k) <=> Within(L, k) /\ s <= k
  /\ \A k : Has(M, {"statement-started"}, k) <=>
              Has(L, {"statement-started"}, k) \/ (t = "statement-started" /\ s = k)
  /\ \A k : Has(M, Outcomes, k) <=> Has(L, Outcomes, k) \/ (t \in Outcomes /\ s = k)
  /\ \A k : Has(M, {"retrying"}, k) <=> Has(L, {"retrying"}, k) \/ (t = "retrying" /\ s = k)
  /\ \A k : Has(M, {"rows"}, k) <=> Has(L, {"rows"}, k) \/ (t = "rows" /\ s = k)

LEMMA AppendGrows ==
  ASSUME NEW L \in Seq(Event), NEW t, NEW s \in Nat, NEW a
  PROVE  GrewBy(L, Append(L, EventOf(t, s, a)), t, s)
<1> DEFINE x == EventOf(t, s, a)
           M == Append(L, x)
<1>1. x.stmt = s
  BY DEF EventOf
<1> HIDE DEF x
<1>3. M # << >> /\ DOMAIN M = DOMAIN L \union {Len(L) + 1} /\ M[Len(L) + 1] = x
      /\ \A i \in DOMAIN L : M[i] = L[i]
  OBVIOUS
<1>5. \A types, k : Has(M, types, k) <=> Has(L, types, k) \/ (t \in types /\ s = k)
  BY AppendToLog DEF x
<1> HIDE DEF M
<1>4. \A k : Within(M, k) <=> Within(L, k) /\ s <= k
  BY <1>1, <1>3 DEF Within
<1>6. ASSUME NEW k
      PROVE  /\ Has(M, {"statement-started"}, k) <=>
                  Has(L, {"statement-started"}, k) \/ (t \in {"statement-started"} /\ s = k)
             /\ Has(M, Outcomes, k) <=> Has(L, Outcomes, k) \/ (t \in Outcomes /\ s = k)
             /\ Has(M, {"retrying"}, k) <=> Has(L, {"retrying"}, k) \/ (t \in {"retrying"} /\ s = k)
             /\ Has(M, {"rows"}, k) <=> Has(L, {"rows"}, k) \/ (t \in {"rows"} /\ s = k)
  BY <1>5, Zenon
<1>7. GrewBy(L, M, t, s)
  BY <1>3, <1>4, <1>6 DEF GrewBy
<1> QED
  BY <1>7 DEF M, x

LEMMA LogsGrow ==
  ASSUME TypeOK, NEW e \in Executions, NEW t, NEW s \in Nat, NEW a, Logs(e, t, s, a)
  PROVE  GrewBy(emitted[e], emitted'[e], t, s)
<1>1. emitted[e] \in Seq(Event)
  BY DEF TypeOK
<1> QED
  BY <1>1, AppendGrows DEF Logs

LEMMA WithinMore ==
  ASSUME NEW L \in Seq(Event), NEW k \in Nat, NEW m \in Nat, k <= m, Within(L, k)
  PROVE  Within(L, m)
<1>1. ASSUME NEW i \in DOMAIN L
      PROVE  L[i].stmt <= m
  <2>1. L[i] \in Event /\ L[i].stmt <= k
    BY <1>1 DEF Within
  <2>2. L[i].stmt \in Nat
    BY <2>1, StatementCountAssumption DEF Event
  <2> QED
    BY <2>1, <2>2
<1> QED
  BY <1>1 DEF Within

LEMMA WithinBounds ==
  ASSUME NEW L, NEW k, Within(L, k), NEW types, NEW s, Has(L, types, s)
  PROVE  s <= k
  BY DEF Within, Has

(* The rows of the table that end the statement or the loop. *)
LEMMA FollowsEnd ==
  ASSUME TypeOK, NEW e \in Executions, LogClosed(e), StartsAtNone(e), Follows(e),
         terminal'[e] = terminal[e], observerError'[e] = observerError[e],
         EndsLoop(e) \/ CleansUp(e) \/ Settles(e)
  PROVE  Follows(e)' /\ SameLog(e)
<1>0. /\ emitted[e] \in Seq(Event) /\ stmt[e] \in Nat /\ observerError'[e] = NoError /\ SameLog(e)
  BY StatementCountAssumption DEF TypeOK, EndsLoop, CleansUp, Settles, Follows
<1>1. CASE EndsLoop(e)
  <2>1. pc[e] \in {"startDrain", "completedDrain", "failDrain", "cancelDrain"} /\ pc'[e] = "disposingResources"
    BY <1>1 DEF EndsLoop, Follows, LoopHeads
  <2>2. emitted[e] # << >> /\ Within(emitted[e], stmt[e])
    BY <2>1 DEF Follows, LoopPoints, WorkPoints
  <2>3. ASSUME NEW s \in Statements, Has(emitted[e], {"statement-started"}, s)
        PROVE  Has(emitted[e], Outcomes, s)
    <3>1. s <= stmt[e] /\ s \in Nat /\ s >= 1
      BY <2>2, <2>3, WithinBounds, StatementCountAssumption DEF Statements
    <3>2. pc[e] # "startDrain"
      BY <3>1 DEF StartsAtNone
    <3>3. /\ \A k \in 1 .. stmt[e] - 1 : Has(emitted[e], Outcomes, k)
          /\ Has(emitted[e], Outcomes, stmt[e])
      BY <2>1, <3>2 DEF Follows, LoopPoints, WorkPoints
    <3>4. s \in 1 .. stmt[e] - 1 \/ s = stmt[e]
      BY <1>0, <3>1
    <3> QED
      BY <3>3, <3>4
  <2> QED
    BY <1>0, <2>1, <2>2, <2>3
       DEF Follows, SameLog, LoopPoints, WorkPoints, CatchPoints, CleanupPoints
<1>2. CASE CleansUp(e) \/ Settles(e)
  <2>1. \/ pc[e] = "disposingResources" /\ pc'[e] = "cleaning"
        \/ pc[e] = "terminalDrain" /\ pc'[e] = "settled"
    BY <1>2 DEF CleansUp, Settles
  <2> QED
    BY <1>0, <2>1 DEF Follows, SameLog, LoopPoints, WorkPoints, CatchPoints, CleanupPoints
<1> QED
  BY <1>0, <1>1, <1>2

(* Losing a statement is the contract's Fail. *)
LEMMA FollowsFail ==
  ASSUME TypeOK, NEW e \in Executions, LogClosed(e), StartsAtNone(e), Follows(e),
         observerError'[e] = observerError[e], LosesStatement(e)
  PROVE  Follows(e)' /\ Contract(e)!Next
<1>0. /\ emitted[e] \in Seq(Event) /\ stmt[e] \in Nat /\ observerError[e] = NoError
      /\ observerError'[e] = NoError
  BY StatementCountAssumption DEF TypeOK, Follows
<1>1. PICK s \in Statements, a \in Attempts :
        /\ \/ /\ s = stmt[e] /\ pc[e] \in WorkPoints
              /\ a = 1 => attempt[e] = 1 \/ pc[e] = "reconnecting"
              /\ observerError[e] = NoError => pc[e] # "completedDrain"
           \/ s = stmt[e] + 1 /\ pc[e] \in LoopHeads /\ a = 0
        /\ pc'[e] \in {"cancelDrain", "failDrain"}
        /\ stmt'[e] = s /\ Logs(e, "statement-failed", s, a)
  BY DEF LosesStatement
<1>2. pc[e] \in LoopPoints \union {"startDrain"} /\ pc[e] # "none" /\ pc[e] \notin EndPoints
  BY <1>1 DEF LoopPoints, WorkPoints, CatchPoints, LoopHeads, EndPoints
<1>3. emitted[e] # << >> /\ Lacks(emitted[e], ClosingTypes) /\ Within(emitted[e], stmt[e])
  BY <1>2 DEF Follows, LogClosed
<1>4. /\ ~Has(emitted[e], Outcomes, s) /\ stmt[e] <= s
      /\ \A t \in 1 .. s - 1 : Has(emitted[e], Outcomes, t)
      /\ a = 1 => Has(emitted[e], {"retrying"}, s)
  <2>1. CASE s = stmt[e] /\ pc[e] \in WorkPoints \ {"completedDrain"}
    BY <1>0, <1>1, <2>1 DEF Follows, LoopPoints, WorkPoints, CatchPoints, LoopHeads
  <2>2. CASE s = stmt[e] + 1 /\ pc[e] \in LoopHeads /\ a = 0
    <3>1. ~Has(emitted[e], Outcomes, s)
      BY <1>0, <1>3, <2>2, WithinBounds
    <3>2. ASSUME NEW t \in 1 .. s - 1
          PROVE  Has(emitted[e], Outcomes, t)
      <4>1. t \in 1 .. stmt[e] - 1 \/ t = stmt[e]
        BY <1>0, <2>2
      <4>2. pc[e] # "startDrain"
        BY <2>2 DEF StartsAtNone
      <4> QED
        BY <2>2, <4>1, <4>2 DEF Follows, LoopPoints, WorkPoints, LoopHeads
    <3> QED
      BY <1>0, <2>2, <3>1, <3>2
  <2> QED
    BY <1>0, <1>1, <2>1, <2>2
<1>5. Contract(e)!Next
  BY <1>1, <1>3, <1>4, ContractFail DEF Attempts
<1>6. /\ emitted'[e] # << >> /\ Within(emitted'[e], s) /\ Has(emitted'[e], Outcomes, s)
      /\ \A t \in 1 .. s - 1 : Has(emitted'[e], Outcomes, t)
  <2>1. s \in Nat
    BY StatementCountAssumption DEF Statements
  <2>2. GrewBy(emitted[e], emitted'[e], "statement-failed", s)
    BY <1>1, <2>1, LogsGrow
  <2>3. Within(emitted[e], s)
    BY <1>0, <1>3, <1>4, <2>1, WithinMore
  <2> QED
    BY <1>4, <2>1, <2>2, <2>3 DEF GrewBy, Outcomes
<1>7. Follows(e)'
  BY <1>0, <1>1, <1>6 DEF Follows, LoopPoints, WorkPoints, CatchPoints, CleanupPoints
<1> QED
  BY <1>5, <1>7

(* Beginning a statement is the contract's StartStatement. *)
LEMMA FollowsBegin ==
  ASSUME TypeOK, NEW e \in Executions, LogClosed(e), StartsAtNone(e), Follows(e),
         observerError'[e] = observerError[e], BeginsStatement(e)
  PROVE  Follows(e)' /\ Contract(e)!Next
<1> DEFINE s == stmt[e] + 1
<1>0. /\ emitted[e] \in Seq(Event) /\ stmt[e] \in Nat /\ observerError'[e] = NoError
      /\ s \in Nat /\ s - 1 = stmt[e] /\ stmt[e] < s
  BY StatementCountAssumption DEF TypeOK, Follows
<1>1. /\ pc[e] \in LoopHeads /\ s \in Statements
      /\ pc'[e] = "stmtDrain" /\ stmt'[e] = s /\ attempt'[e] = 0
      /\ Logs(e, "statement-started", s, 0)
  BY DEF BeginsStatement
<1>2. /\ pc[e] \in LoopPoints \union {"startDrain"} /\ pc[e] # "none" /\ pc[e] \notin EndPoints
      /\ pc[e] # "startDrain" => pc[e] \in LoopPoints /\ pc[e] \in {"completedDrain", "failDrain"}
  BY <1>1 DEF LoopPoints, WorkPoints, LoopHeads, EndPoints
<1>3. emitted[e] # << >> /\ Lacks(emitted[e], ClosingTypes) /\ Within(emitted[e], stmt[e])
  BY <1>2 DEF Follows, LogClosed
<1> HIDE DEF s
<1>4. \A types : ~Has(emitted[e], types, s)
  <2>1. ~(s <= stmt[e])
    BY <1>0
  <2> QED
    BY <1>3, <2>1, WithinBounds
<1>5. ASSUME NEW t \in 1 .. s - 1
      PROVE  Has(emitted[e], Outcomes, t)
  <2>1. t \in 1 .. stmt[e] - 1 \/ t = stmt[e]
    BY <1>0
  <2>2. pc[e] # "startDrain"
    BY <1>0 DEF StartsAtNone
  <2> QED
    BY <1>2, <2>1, <2>2 DEF Follows
<1>6. Contract(e)!Next
  <2>1. 0 \in {0, 1} /\ (0 = 1 <=> Has(emitted[e], {"retrying"}, s))
        /\ ~Has(emitted[e], Outcomes, s) /\ ~Has(emitted[e], {"statement-started"}, s)
    BY <1>4
  <2> QED
    BY <1>1, <1>3, <1>5, <2>1, ContractStatement
<1>7. GrewBy(emitted[e], emitted'[e], "statement-started", s)
  BY <1>0, <1>1, LogsGrow
<1>8. Within(emitted[e], s)
  BY <1>0, <1>3, WithinMore
<1>9. /\ emitted'[e] # << >> /\ Within(emitted'[e], s)
      /\ Has(emitted'[e], {"statement-started"}, s) /\ ~Has(emitted'[e], Outcomes, s)
      /\ ~Has(emitted'[e], {"retrying"}, s) /\ ~Has(emitted'[e], {"rows"}, s)
      /\ \A t \in 1 .. s - 1 : Has(emitted'[e], Outcomes, t)
  BY <1>0, <1>4, <1>5, <1>7, <1>8 DEF GrewBy, Outcomes
<1> QED
  BY <1>0, <1>1, <1>6, <1>9 DEF Follows, LoopPoints, WorkPoints, CatchPoints, CleanupPoints

(* The rows that emit nothing within a statement. *)
LEMMA FollowsQuiet ==
  ASSUME TypeOK, NEW e \in Executions, Follows(e),
         observerError'[e] = observerError[e], Dispatches(e) \/ GoesOn(e)
  PROVE  Follows(e)' /\ SameLog(e)
<1>0. observerError[e] = NoError /\ observerError'[e] = NoError /\ SameLog(e) /\ stmt'[e] = stmt[e]
      /\ rowsDelivered'[e] = rowsDelivered[e]
  BY DEF Follows, Dispatches, GoesOn, SameFrame
<1>1. CASE Dispatches(e)
  <2>1. attempt[e] \in Attempts
    BY DEF TypeOK
  <2>2. CASE pc[e] = "stmtDrain" /\ attempt'[e] = 0 /\ pc'[e] = "executing"
    <3>1. ~Has(emitted[e], {"retrying"}, stmt[e])
      BY <2>2 DEF Follows
    <3> QED
      BY <1>0, <2>2, <3>1 DEF Follows, SameLog, LoopPoints, WorkPoints, CatchPoints, CleanupPoints
  <2>3. CASE pc[e] = "reconnecting" /\ attempt'[e] = 1 /\ pc'[e] = "executing"
    BY <1>0, <2>3 DEF Follows, SameLog, LoopPoints, WorkPoints, CatchPoints, CleanupPoints
  <2> QED
    BY <1>1, <2>2, <2>3 DEF Dispatches
<1>2. CASE GoesOn(e)
  <2>1. attempt'[e] = attempt[e]
    BY <1>2 DEF GoesOn, SameFrame
  <2>2. \/ pc[e] = "executing" /\ pc'[e] = "executedDrain"
        \/ pc[e] \in {"executing", "executedDrain"} /\ pc'[e] = "dropping"
        \/ pc[e] = "retryDrain" /\ pc'[e] = "reconnecting"
    BY <1>0, <1>2 DEF GoesOn
  <2> QED
    BY <1>0, <2>1, <2>2 DEF Follows, SameLog, LoopPoints, WorkPoints, CatchPoints, CleanupPoints
<1> QED
  BY <1>0, <1>1, <1>2

(* Reporting the outcome of a dispatched statement is the contract's       *)
(* Complete, and asking for its second attempt is its Retry.               *)
LEMMA FollowsAttempt ==
  ASSUME TypeOK, NEW e \in Executions, LogClosed(e), Follows(e),
         observerError'[e] = observerError[e], Completes(e) \/ Retries(e)
  PROVE  Follows(e)' /\ Contract(e)!Next
<1> DEFINE s == stmt[e]
           t == IF Completes(e) THEN "statement-completed" ELSE "retrying"
<1>0. /\ emitted[e] \in Seq(Event) /\ s \in Nat /\ observerError[e] = NoError
      /\ observerError'[e] = NoError /\ attempt[e] \in {0, 1} /\ SameFrame(e)
      /\ stmt'[e] = s /\ attempt'[e] = attempt[e] /\ rowsDelivered'[e] = rowsDelivered[e]
  BY StatementCountAssumption DEF TypeOK, Follows, Attempts, Completes, Retries, SameFrame
<1>1. /\ pc[e] \in {"executing", "executedDrain"} /\ pc[e] # "none" /\ pc[e] \notin EndPoints
      /\ pc[e] \in LoopPoints /\ pc[e] \in WorkPoints \ {"completedDrain"} /\ pc[e] \in WorkPoints
  BY <1>0 DEF Completes, Retries, LoopPoints, WorkPoints, EndPoints
<1>2. /\ emitted[e] # << >> /\ Lacks(emitted[e], ClosingTypes) /\ Within(emitted[e], s)
      /\ s \in Statements /\ \A k \in 1 .. s - 1 : Has(emitted[e], Outcomes, k)
      /\ Has(emitted[e], {"statement-started"}, s) /\ ~Has(emitted[e], Outcomes, s)
      /\ attempt[e] = 1 <=> Has(emitted[e], {"retrying"}, s)
      /\ Has(emitted[e], {"rows"}, s) => rowsDelivered[e]
  BY <1>1 DEF Follows, LogClosed
<1> HIDE DEF s
<1>3. CASE Completes(e)
  <2>1. pc'[e] = "completedDrain" /\ Logs(e, "statement-completed", s, attempt[e])
    BY <1>3 DEF Completes, s
  <2>2. Contract(e)!Next
    BY <1>0, <1>2, <2>1, ContractStatement
  <2>3. GrewBy(emitted[e], emitted'[e], "statement-completed", s)
    BY <1>0, <2>1, LogsGrow
  <2>4. /\ emitted'[e] # << >> /\ Within(emitted'[e], s) /\ Has(emitted'[e], Outcomes, s)
        /\ \A k \in 1 .. s - 1 : Has(emitted'[e], Outcomes, k)
        /\ Has(emitted'[e], {"rows"}, s) => rowsDelivered[e]
    BY <1>0, <1>2, <2>3 DEF GrewBy, Outcomes
  <2> QED
    BY <1>0, <1>2, <2>1, <2>2, <2>4 DEF Follows, LoopPoints, WorkPoints, CatchPoints, CleanupPoints
<1>4. CASE Retries(e)
  <2>1. /\ pc'[e] = "retryDrain" /\ Logs(e, "retrying", s, 0) /\ attempt[e] = 0 /\ ~rowsDelivered[e]
    BY <1>4 DEF Retries, s
  <2>2. ~Has(emitted[e], {"rows", "retrying"}, s)
    BY <1>2, <2>1 DEF Has
  <2>3. Contract(e)!Next
    BY <1>0, <1>2, <2>1, <2>2, ContractStatement
  <2>4. GrewBy(emitted[e], emitted'[e], "retrying", s)
    BY <1>0, <2>1, LogsGrow
  <2>5. /\ emitted'[e] # << >> /\ Within(emitted'[e], s) /\ ~Has(emitted'[e], Outcomes, s)
        /\ Has(emitted'[e], {"statement-started"}, s) /\ Has(emitted'[e], {"retrying"}, s)
        /\ \A k \in 1 .. s - 1 : Has(emitted'[e], Outcomes, k)
        /\ Has(emitted'[e], {"rows"}, s) => rowsDelivered[e]
    BY <1>0, <1>2, <2>4 DEF GrewBy, Outcomes
  <2> QED
    BY <1>0, <1>2, <2>1, <2>3, <2>5 DEF Follows, LoopPoints, WorkPoints, CatchPoints, CleanupPoints
<1> QED
  BY <1>3, <1>4

(* The closing pair is the contract's Terminate, and the start its Begin.  *)
LEMMA FollowsCloses ==
  ASSUME TypeOK, NEW e \in Executions, LogClosed(e), Follows(e),
         observerError'[e] = observerError[e], Closes(e)
  PROVE  Follows(e)' /\ Contract(e)!Next
<1> DEFINE M == emitted[e] \o << EventOf("execution-terminal", 0, 0), EventOf("batch-completed", 0, 0) >>
<1>0. /\ emitted[e] \in Seq(Event) /\ observerError'[e] = NoError
      /\ pc[e] = "cleaning" /\ pc'[e] = "terminalDrain" /\ emitted'[e] = M
  BY DEF TypeOK, Follows, Closes
<1>1. /\ emitted[e] # << >> /\ Lacks(emitted[e], ClosingTypes)
      /\ \A s \in Statements : Has(emitted[e], {"statement-started"}, s) => Has(emitted[e], Outcomes, s)
  BY <1>0 DEF Follows, LogClosed, EndPoints, CleanupPoints
<1>2. Contract(e)!Next
  BY <1>0, <1>1, ContractTerminate
<1>3. M # << >>
  <2>1. EventOf("execution-terminal", 0, 0) \in Event /\ EventOf("batch-completed", 0, 0) \in Event
    BY StatementCountAssumption DEF EventOf, Event, ExecutionEventTypes, Attempts
  <2>2. Len(M) = Len(emitted[e]) + 2
    BY <1>0, <2>1
  <2> HIDE DEF M
  <2> QED
    BY <1>0, <2>2
<1> HIDE DEF M
<1> QED
  BY <1>0, <1>2, <1>3 DEF Follows, LoopPoints, WorkPoints, CatchPoints, CleanupPoints

LEMMA FollowsStart ==
  ASSUME TypeOK, NEW e \in Executions, StartsAtNone(e), Follows(e), Starts(e)
  PROVE  Follows(e)' /\ Contract(e)!Next
<1>0. /\ emitted[e] = << >> /\ Logs(e, "execution-started", 0, 0) /\ pc'[e] = "startDrain"
      /\ observerError'[e] = NoError /\ stmt'[e] = 0
  BY DEF Follows, Starts, SameRest, SameFrame, StartsAtNone
<1>1. Contract(e)!Next
  BY <1>0, ContractBegin
<1>2. GrewBy(emitted[e], emitted'[e], "execution-started", 0)
  BY <1>0, LogsGrow
<1>3. Within(emitted[e], 0)
  BY <1>0 DEF Within
<1>4. emitted'[e] # << >> /\ Within(emitted'[e], 0)
  BY <1>2, <1>3 DEF GrewBy
<1> QED
  BY <1>0, <1>1, <1>4 DEF Follows, LoopPoints, WorkPoints, CatchPoints, CleanupPoints

(* A callback of the live attempt is the contract's DeliverColumns or      *)
(* DeliverRows.                                                            *)
LEMMA FollowsHears ==
  ASSUME TypeOK, NEW e \in Executions, LogClosed(e), Follows(e), ~LateCallbacks,
         ObserverErrors = {}, OutsideStep(e), Hears(e)
  PROVE  Follows(e)' /\ Contract(e)!Next
<1> DEFINE s == stmt[e]
           a == attempt[e]
           L == emitted[e]
           M == emitted'[e]
           K == Append(L, EventOf("rows", s, a))
<1>0. /\ L \in Seq(Event) /\ s \in Nat /\ observerError'[e] = NoError /\ a \in {0, 1}
      /\ pc[e] = "executing" /\ pc'[e] = "executing" /\ stmt'[e] = s /\ attempt'[e] = a
      /\ \/ Logs(e, "columns", s, a) /\ rowsDelivered'[e] = rowsDelivered[e]
         \/ M = Append(K, EventOf("progress", s, a)) /\ rowsDelivered'[e] = TRUE
  BY StatementCountAssumption DEF TypeOK, Follows, Attempts, OutsideStep, Hears
<1>2. /\ L # << >> /\ Lacks(L, ClosingTypes) /\ Within(L, s)
      /\ s \in Statements /\ \A k \in 1 .. s - 1 : Has(L, Outcomes, k)
      /\ Has(L, {"statement-started"}, s) /\ ~Has(L, Outcomes, s)
      /\ a = 1 <=> Has(L, {"retrying"}, s)
      /\ Has(L, {"rows"}, s) => rowsDelivered[e]
  BY <1>0 DEF Follows, LogClosed, LoopPoints, WorkPoints, EndPoints
<1>3. EventOf("rows", s, a) \in Event
  BY <1>0, <1>2 DEF EventOf, Event, StatementEventTypes, Attempts, Statements
<1> HIDE DEF s, a
<1>4. CASE Logs(e, "columns", s, a) /\ rowsDelivered'[e] = rowsDelivered[e]
  <2>1. Contract(e)!Next
    BY <1>2, <1>0, <1>4, ContractStatement
  <2>2. GrewBy(L, M, "columns", s)
    BY <1>0, <1>4, LogsGrow
  <2>3. /\ M # << >> /\ Within(M, s) /\ ~Has(M, Outcomes, s)
        /\ Has(M, {"statement-started"}, s)
        /\ \A k \in 1 .. s - 1 : Has(M, Outcomes, k)
        /\ a = 1 <=> Has(M, {"retrying"}, s)
        /\ Has(M, {"rows"}, s) => rowsDelivered'[e]
    BY <1>0, <1>2, <1>4, <2>2 DEF GrewBy, Outcomes
  <2> QED
    BY <1>0, <1>2, <2>1, <2>3 DEF Follows, LoopPoints, WorkPoints, CatchPoints, CleanupPoints, s, a
<1>5. CASE M = Append(K, EventOf("progress", s, a)) /\ rowsDelivered'[e] = TRUE
  <2>0. K \in Seq(Event)
    BY <1>0, <1>3
  <2>1. M = L \o << EventOf("rows", s, a), EventOf("progress", s, a) >>
    BY SMTT(30), <1>0, <1>5
  <2>2. Contract(e)!Next
    BY <1>2, <1>0, <2>1, ContractStatement
  <2>3. GrewBy(L, K, "rows", s) 
    BY <1>0, AppendGrows
  <2> HIDE DEF K
  <2>4. GrewBy(K, M, "progress", s)
    BY <1>0, <1>5, <2>0, AppendGrows
  <2>5. /\ M # << >> /\ Within(M, s) /\ ~Has(M, Outcomes, s)
        /\ Has(M, {"statement-started"}, s)
        /\ \A k \in 1 .. s - 1 : Has(M, Outcomes, k)
        /\ a = 1 <=> Has(M, {"retrying"}, s)
    BY <1>0, <1>2, <2>3, <2>4 DEF GrewBy, Outcomes
  <2> QED
    BY <1>0, <1>2, <1>5, <2>2, <2>5 DEF Follows, LoopPoints, WorkPoints, CatchPoints, CleanupPoints, s, a
<1> QED
  BY <1>0, <1>4, <1>5

LEMMA FollowsElsewhere ==
  ASSUME NEW e \in Executions, Follows(e), ObserverErrors = {}, OutsideStep(e),
         SameLog(e), rowsDelivered'[e] = rowsDelivered[e]
  PROVE  Follows(e)'
  BY DEF Follows, OutsideStep, SameLog

AllFollow == \A e \in Executions : Follows(e)

LEMMA NextFollow ==
  ASSUME ObserverErrors = {}, ~LateCallbacks, IInv, LogIInv, AllFollow, [Next]_vars
  PROVE  AllFollow' /\ \A e \in Executions : Contract(e)!Next \/ UNCHANGED emitted[e]
<1> SUFFICES ASSUME NEW e \in Executions
             PROVE  Follows(e)' /\ (Contract(e)!Next \/ SameLog(e))
  BY DEF AllFollow, SameLog
<1>1. TypeOK /\ LogClosed(e) /\ Follows(e) /\ StartsAtNone(e) /\ \A f \in Executions : StartsAtNone(f)
  BY DEF IInv, LogIInv, Outcome, AllFollow
<1>2. CASE ThreadStep(e) /\ ThreadFrame
  <2>1. observerError'[e] = observerError[e]
    BY <1>2 DEF ThreadFrame
  <2>2. CASE Closes(e)
    BY <1>1, <2>1, <2>2, FollowsCloses
  <2>3. CASE EndsLoop(e) \/ LosesStatement(e) \/ BeginsStatement(e) \/ Dispatches(e)
             \/ Completes(e) \/ Retries(e) \/ GoesOn(e) \/ CleansUp(e) \/ Settles(e)
    BY <1>1, <1>2, <2>1, <2>2, <2>3, FollowsEnd, FollowsFail, FollowsBegin, FollowsQuiet,
       FollowsAttempt DEF ThreadStep
  <2> QED
    BY <1>2, <2>2, <2>3 DEF ThreadStep
<1>3. CASE Starts(e)
  BY <1>1, <1>3, FollowsStart
<1>4. CASE OutsideStep(e)
  <2>1. CASE Hears(e)
    BY <1>1, <1>4, <2>1, FollowsHears
  <2>2. CASE SameLog(e) /\ rowsDelivered'[e] = rowsDelivered[e]
    BY <1>1, <1>4, <2>2, FollowsElsewhere
  <2> QED
    BY <1>4, <2>1, <2>2 DEF OutsideStep
<1> QED
  BY <1>1, <1>2, <1>3, <1>4, NextSteps

(* Every execution's events follow the contract step by step, whatever is  *)
(* cancelled, timed out, aborted, retried or disposed meanwhile: when the  *)
(* observer throws nothing (an error it throws abandons the statement's    *)
(* outcome) and no callback comes after execute has settled.               *)
THEOREM ContractImplemented ==
  ASSUME ObserverErrors = {}, ~LateCallbacks
  PROVE  Spec => ImplementsContract
<1> DEFINE Kept == \A e \in Executions : Contract(e)!Next \/ UNCHANGED emitted[e]
<1>1. Init => AllFollow /\ \A e \in Executions : Contract(e)!Init
  BY DEF Init, AllFollow, Follows, Contract!Init, NoError, LoopPoints, WorkPoints, CatchPoints,
         CleanupPoints
<1>2. IInv /\ LogIInv /\ AllFollow /\ [Next]_vars => AllFollow' /\ Kept
  BY NextFollow
<1> HIDE DEF Kept
<1>3. Spec => []AllFollow /\ [][Kept]_emitted
  BY <1>1, <1>2, InitIInv, NextIInv, InitLogIInv, NextLogIInv, PTL DEF Spec
<1>4. Spec => \A e \in Executions : Contract(e)!Init
  BY <1>1 DEF Spec
<1> QED
  BY <1>3, <1>4 DEF ImplementsContract, Kept
================================================================================
