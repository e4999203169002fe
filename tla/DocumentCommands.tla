---------------------------- MODULE DocumentCommands ----------------------------
(***************************************************************************)
(* core/streaming/StreamingManager: how the commands of one document are   *)
(* cancelled.  The manager keeps the registered command of the document    *)
(* and one flag for a cancellation that has not met a command yet.  Three  *)
(* kinds of runs use it: batches (batchQueryExecutor over                  *)
(* DesktopExecutionBackend), raw queries (singleQueryExecutor) and         *)
(* explanations.  The execution gate admits one run at a time; a recovery  *)
(* retires the run it gives up, which goes on unwinding beside its         *)
(* successor.                                                              *)
(*                                                                         *)
(* The loop of the orchestrator appears as far as it polls the flag; the   *)
(* gate as far as it starts, retires and clears.  Which connection a run  *)
(* has is left out, whether it has one is not; queries of executable       *)
(* macros are left out.                                                    *)
(***************************************************************************)
EXTENDS Naturals

CONSTANTS
  Runs,            \* runs of the document
  Kinds,           \* what each of them may be
  Statements,      \* of a batch
  MaxCancels       \* cancellations, recoveries included

None == "none"
KindSet == {"batch", "keepGoing", "raw", "explain"}

ASSUME RunsAssumption == None \notin Runs
ASSUME KindsAssumption == Kinds \subseteq [Runs -> KindSet]
ASSUME BoundsAssumption == Statements \in Nat \ {0} /\ MaxCancels \in Nat

VARIABLES
  kind,
  entry, pending,       \* executingCommands, pendingAborts
  aborted,              \* runs whose command's AbortController has been aborted
  disposed,
  run,                  \* where each run is
  current, recovery,    \* the run that has the lease; how far its recovery is
  cancels,
  asked, beside, told   \* history: see the properties

managerVars == << entry, pending, aborted, disposed >>
gateVars == << current, recovery >>
historyVars == << asked, beside, told >>
vars == << kind, managerVars, run, gateVars, cancels, historyVars >>

Results == {"ok", "cancelled", "error", "broken", None}
Steps == {"new", "prepare", "poll", "opening", "running", "closing", "after", "done"}
Run == [pc : Steps, connected : BOOLEAN, left : Nat, attempt : {0, 1}, result : Results]

Live(r) == run[r].pc \notin {"new", "done"}
Retired(r) == current # r
Polls(r) == kind[r] # "explain"

Init ==
  /\ kind \in Kinds
  /\ entry = None /\ pending = FALSE /\ aborted = {} /\ disposed = FALSE
  /\ run = [r \in Runs |-> [pc |-> "new", connected |-> FALSE, left |-> 0, attempt |-> 0,
                            result |-> None]]
  /\ current = None /\ recovery = "none"
  /\ cancels = 0
  /\ asked = {} /\ beside = {} /\ told = {}

--------------------------------------------------------------------------------
(* StreamingManager *)

IsAborted == pending \/ (entry # None /\ entry \in aborted)

\* registerCommand: the command registered so far is superseded, a cancellation
\* that waits is consumed.  The caller listens to the signal only afterwards.  A
\* run has one command at a time, so a command goes by the name of its run.
RegisterCommand(r) ==
  /\ entry' = r
  /\ aborted' = (aborted \union ({entry} \ {None})) \union (IF pending THEN {r} ELSE {})
  /\ pending' = FALSE

UnregisterWhoever(r) ==   \* mutant
  /\ entry' = None
  /\ aborted' = aborted \ {r}

\* unregisterCommandForController; nobody looks at its signal any more.
UnregisterCommand(r) ==
  /\ entry' = IF entry = r THEN None ELSE entry
  /\ aborted' = aborted \ {r}

AbortCommandOrQuery ==   \* mutant
  /\ aborted' = aborted \union ({entry} \ {None})
  /\ pending' = (pending \/ entry = None)
  /\ UNCHANGED << entry, disposed >>

\* abortQuery
AbortQuery ==
  /\ aborted' = aborted \union ({entry} \ {None})
  /\ pending' = TRUE
  /\ UNCHANGED << entry, disposed >>

\* scheduleStaleCleanup: the command is still unwinding.  The timers of commands
\* that have ended find another entry or none.
StaleCleanup(r) ==
  /\ r \in aborted /\ entry = r
  /\ entry' = None
  /\ UNCHANGED << kind, pending, aborted, disposed, run, gateVars, cancels, historyVars >>

\* dispose; the commands' answers to their cancellation are not waited for.
Dispose ==
  /\ ~disposed /\ disposed' = TRUE
  /\ aborted' = aborted \union ({entry} \ {None})
  /\ entry' = None /\ pending' = FALSE
  /\ asked' = Runs /\ told' = {}
  /\ UNCHANGED << kind, run, gateVars, cancels, beside >>

--------------------------------------------------------------------------------
(* A run *)

Goes(r, step) == run' = [run EXCEPT ![r].pc = step]

Ends(r, result) ==
  /\ run' = [run EXCEPT ![r].pc = "done", ![r].result = result]
  /\ current' = IF current = r THEN None ELSE current
  /\ UNCHANGED recovery

StartUncleared(r) ==   \* mutant
  /\ run[r].pc = "new" /\ current = None /\ recovery = "none"
  /\ current' = r
  /\ beside' = IF \E o \in Runs : Live(o) THEN beside \union {r} ELSE beside
  /\ pending' = pending
  /\ run' = [run EXCEPT
       ![r].pc = CASE kind[r] = "raw" -> "poll" [] kind[r] = "explain" -> "opening" [] OTHER -> "prepare",
       ![r].left = IF kind[r] \in {"batch", "keepGoing"} THEN Statements ELSE 1]
  /\ UNCHANGED << kind, entry, aborted, disposed, recovery, cancels, asked, told >>

\* The gate grants the lease.  executePreparedQuery and runExplainQuery forget
\* earlier cancellations, runQueryRaw does not.
Start(r) ==
  /\ run[r].pc = "new" /\ current = None /\ recovery = "none"
  /\ current' = r
  /\ beside' = IF \E o \in Runs : Live(o) THEN beside \union {r} ELSE beside
  /\ pending' = (pending /\ kind[r] = "raw")
  /\ run' = [run EXCEPT
       ![r].pc = CASE kind[r] = "raw" -> "poll" [] kind[r] = "explain" -> "opening" [] OTHER -> "prepare",
       ![r].left = IF kind[r] \in {"batch", "keepGoing"} THEN Statements ELSE 1]
  /\ UNCHANGED << kind, entry, aborted, disposed, recovery, cancels, asked, told >>

\* The batch takes its connection before its first statement, and checks its lease.
Prepared(r) ==
  /\ run[r].pc = "prepare"
  /\ IF Retired(r)
       THEN Ends(r, "cancelled")
       ELSE run' = [run EXCEPT ![r].pc = "poll", ![r].connected = TRUE] /\ UNCHANGED gateVars
  /\ UNCHANGED << kind, managerVars, cancels, historyVars >>

\* executeAndFetch, executeWithStreaming, runExplainQuery: register and send.
Sends(r) ==
  IF disposed
    THEN Ends(r, "error") /\ UNCHANGED << entry, pending, aborted >>
    ELSE /\ RegisterCommand(r)
         /\ run' = [run EXCEPT ![r].pc = "running", ![r].connected = TRUE]
         /\ UNCHANGED gateVars

\* runStatement before backend.execute.
PollFinds(r) ==
  /\ run[r].pc = "poll" /\ IsAborted
  /\ Ends(r, "cancelled")
  /\ UNCHANGED << kind, managerVars, cancels, historyVars >>

PollPasses(r) ==
  /\ run[r].pc = "poll" /\ ~IsAborted
  /\ IF run[r].connected
       THEN Sends(r)
       ELSE Goes(r, "opening") /\ UNCHANGED << entry, pending, aborted, gateVars >>
  /\ UNCHANGED << kind, disposed, cancels, historyVars >>

\* ensureConnection of a batch looks neither at the flag nor at the lease; a raw
\* query looks at its lease.
Opened(r) ==
  /\ run[r].pc = "opening"
  /\ IF kind[r] = "raw" /\ Retired(r)
       THEN Ends(r, "cancelled") /\ UNCHANGED << entry, pending, aborted >>
       ELSE Sends(r)
  /\ UNCHANGED << kind, disposed, cancels, historyVars >>

\* The command answers, or its rows are read.  It can say that it was cancelled
\* only if its signal was aborted; an error keeps its own text even then.  (A server
\* that cancels on its own account is left out.)
Answers(r, o) ==
  /\ run[r].pc = "running"
  /\ o = "cancelled" => r \in aborted
  /\ run' = [run EXCEPT ![r].pc = "closing",
       ![r].result = IF o = "ok" /\ r \in aborted /\ Polls(r) THEN "cancelled" ELSE o]
  /\ UNCHANGED << kind, managerVars, gateVars, cancels, historyVars >>

\* The reader is closed.
Unregisters(r) ==
  /\ run[r].pc = "closing"
  /\ UnregisterCommand(r)
  /\ Goes(r, "after")
  /\ UNCHANGED << kind, pending, disposed, gateVars, cancels, historyVars >>

NextStatement(r) ==
  IF run[r].left = 1
    THEN Ends(r, run[r].result)
    ELSE /\ run' = [run EXCEPT ![r].pc = "poll", ![r].left = @ - 1, ![r].attempt = 0]
         /\ UNCHANGED gateVars

SucceededUnpolled(r) ==   \* mutant
  /\ run[r].pc = "after" /\ run[r].result = "ok"
  /\ IF Polls(r) /\ Retired(r) THEN Ends(r, "cancelled") ELSE NextStatement(r)
  /\ UNCHANGED << kind, managerVars, cancels, historyVars >>

\* A statement that succeeded: onStatementSucceeded and executeRawQueryOnce check
\* the lease, then the orchestrator polls.
Succeeded(r) ==
  /\ run[r].pc = "after" /\ run[r].result = "ok"
  /\ IF Polls(r) /\ (Retired(r) \/ IsAborted) THEN Ends(r, "cancelled") ELSE NextStatement(r)
  /\ UNCHANGED << kind, managerVars, cancels, historyVars >>

\* One that was cancelled ends the run, and so does every failure of a raw query
\* that has lost its lease.
WasCancelled(r) ==
  /\ run[r].pc = "after"
  /\ run[r].result = "cancelled" \/ (run[r].result # "ok" /\ kind[r] = "raw" /\ Retired(r))
  /\ Ends(r, "cancelled")
  /\ UNCHANGED << kind, managerVars, cancels, historyVars >>

GoesOnAfterError(r) == IF kind[r] = "keepGoing" THEN NextStatement(r) ELSE Ends(r, "error")

Failed(r) ==
  /\ run[r].pc = "after"
  /\ run[r].result = "error" \/ (run[r].result = "broken" /\ kind[r] = "explain")
  /\ ~(kind[r] = "raw" /\ Retired(r))
  /\ GoesOnAfterError(r)
  /\ UNCHANGED << kind, managerVars, cancels, historyVars >>

\* The connection broke.  reconnect closes whatever connection the document keeps
\* by now; a statement that is safe to repeat is repeated once, after a poll.
Broke(r, repeat) ==
  /\ run[r].pc = "after" /\ run[r].result = "broken" /\ Polls(r)
  /\ ~(kind[r] = "raw" /\ Retired(r))
  /\ repeat => run[r].attempt = 0
  /\ IF repeat
       THEN /\ run' = [run EXCEPT ![r].pc = "poll", ![r].connected = FALSE, ![r].attempt = 1]
            /\ UNCHANGED gateVars
       ELSE IF kind[r] = "keepGoing" /\ run[r].left > 1
         THEN /\ run' = [run EXCEPT ![r].pc = "poll", ![r].connected = FALSE, ![r].left = @ - 1,
                                    ![r].attempt = 0]
              /\ UNCHANGED gateVars
         ELSE Ends(r, "error")
  /\ UNCHANGED << kind, managerVars, cancels, historyVars >>

--------------------------------------------------------------------------------
(* The user and the gate *)

\* cancelQueryByUri, cancelCurrentQuery, the orchestrator's own cancel: whether or
\* not a command is registered.
Cancel ==
  /\ cancels < MaxCancels /\ ~disposed
  /\ cancels' = cancels + 1
  /\ AbortQuery
  /\ asked' = asked \union {r \in Runs : Live(r)}
  /\ told' = told \union {r \in Runs : /\ current = r /\ Live(r) /\ run[r].pc # "opening"
                                        /\ \A o \in Runs \ {r} : ~Live(o)}

UserCancels == Cancel /\ UNCHANGED << kind, run, gateVars, beside >>

\* forceRecover, openFreshConnection: under the lane's lock, over several awaits.
\* The run may end meanwhile.
RecoveryCancels ==
  /\ current # None /\ recovery = "none"
  /\ recovery' = "cancelling"
  /\ Cancel
  /\ UNCHANGED << kind, run, current, beside >>

RecoveryReplaces ==
  /\ recovery = "cancelling"
  /\ recovery' = "replaced"
  /\ UNCHANGED << kind, managerVars, run, current, cancels, historyVars >>

RecoveryGivesUp ==
  /\ recovery = "cancelling"
  /\ recovery' = "none"
  /\ UNCHANGED << kind, managerVars, run, current, cancels, historyVars >>

\* clearCancellation and retire.
RecoveryRetires ==
  /\ recovery = "replaced"
  /\ recovery' = "none" /\ current' = None
  /\ pending' = FALSE
  /\ told' = told \ {current}
  /\ UNCHANGED << kind, entry, aborted, disposed, run, cancels, asked, beside >>

Next ==
  \/ \E r \in Runs :
       \/ Start(r) \/ Prepared(r) \/ PollFinds(r) \/ PollPasses(r) \/ Opened(r)
       \/ \E o \in Results \ {None} : Answers(r, o)
       \/ Unregisters(r)
       \/ Succeeded(r) \/ WasCancelled(r) \/ Failed(r) \/ \E repeat \in BOOLEAN : Broke(r, repeat)
  \/ \E r \in Runs : StaleCleanup(r)
  \/ UserCancels
  \/ RecoveryCancels \/ RecoveryReplaces \/ RecoveryGivesUp \/ RecoveryRetires
  \/ Dispose

Spec == Init /\ [][Next]_vars

--------------------------------------------------------------------------------

TypeOK ==
  /\ kind \in Kinds
  /\ entry \in Runs \union {None} /\ pending \in BOOLEAN
  /\ aborted \subseteq Runs /\ disposed \in BOOLEAN
  /\ run \in [Runs -> Run]
  /\ current \in Runs \union {None} /\ recovery \in {"none", "cancelling", "replaced"}
  /\ cancels \in Nat
  /\ asked \subseteq Runs /\ beside \subseteq Runs /\ told \subseteq Runs

\* A command that nobody has stopped is the registered one, so that a cancellation
\* reaches it: neither the end of a superseded command nor the cleanup of a stale
\* entry unregisters it (unregisterCommandForController, scheduleStaleCleanup).
CommandReachable ==
  \A r \in Runs :
    run[r].pc = "running" /\ r \notin aborted => entry = r

\* A run that is alone and was cancelled while it was not opening a connection
\* sends no further statement: not the next one of its batch, nor a repetition on
\* a new connection (runStatement's polls, the flag that outlives a command).
LoneRunStops ==
  [][entry' # entry /\ entry' # None => entry' \notin told]_vars

\* Nor does it count as a success, even if its last statement succeeded.
CancelIsReported ==
  \A r \in told : run[r].pc = "done" /\ Polls(r) => run[r].result # "ok"

\* A batch that has the document for itself ends as cancelled only if somebody
\* asked for it since it began (clearAborted).
FreshRunNotBlocked ==
  \A r \in Runs :
    /\ run[r].pc = "done" /\ run[r].result = "cancelled"
    /\ kind[r] # "raw" /\ r \notin beside
    => r \in asked
================================================================================
