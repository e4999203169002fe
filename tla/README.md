# JustyBase for VS Code: verification

TLA+ models of the concurrent core of the JustyBase extension, checked with TLC, and theorems about
them checked with TLAPS. Paths below are relative to the repository root. The models are written
from the code; where a document, a comment or a test of the repository says something the code does not
do, the section *Where code and documents disagree* quotes it.

## 1. The system

JustyBase is a SQL workbench: a VS Code extension (`src/`), webviews (`media/`), shared packages
(`packages/`) and companion extensions with further database drivers (`extensions/`). A query goes
through these parts:

```
 command / notebook / MCP            result panel (webview)
        |                                   ^   rows in numbered chunks
        v                                   |
 queryExecutionGate  --run-->  queryRunner --> ResultStateManager
  (lanes, slots, leases)            |
                                    v
                        ExecutionOrchestrator  --execute/cancel-->  execution backend
                         (order, cancel, retry)                  (drivers, StreamingManager)
                                                                        |
                                     ConnectionManager, MetadataCache --+
```

| Component | State it keeps | Operations and interactions | What is hard | What makes it correct |
|---|---|---|---|---|
| **Execution orchestrator** `packages/database-runtime/src/execution.ts` | one record per execution: phase, cancel and timeout flags, current command, event queue | `start`, `cancel`, `detachObserver`, `dispose`; awaits the backend and its own event queue; driver callbacks enqueue events | cancel, timeout, callbacks and observer failures fall between any two awaits; one replay after a broken connection | event order, exactly one ending, a cancelled command is stopped, a cancelled execution ends, no replay after a stop, dispose comes to its end |
| **Execution gate** `src/commands/query/queryExecutionGate.ts` | per document: queue, owner of the shared session, set of independent requests, pause/recovery/blocked flags; a promise chain as lock; running leases; global limits | `enqueue`, pump, `tryAcquire`, cancel, recover, pause, clear, remove, configure, close, dispose | conditions checked before the lock and used after it; settlements after recovery; limits shared by lanes under different locks | one user per session, no lost request, no lost wake-up, slots, submission order |
| **ETL execution engine** `src/etl/etlExecutionEngine.ts`, `tasks/containerTask.ts` | queue of tasks, results, executed set per scope | run, stop; awaits one executor at a time; a container runs a nested engine | order in which several paths lead to a task; stop during a task, inside a container | a task runs iff its predecessors' results lead to it, once; no task after stop; failures surface |
| **Result panel streaming transport** `media/resultPanel/streamingSequence.ts`, `src/state/resultStateManager.ts`, `src/views/resultPanelView.ts` | host: results, completion, versions and stale marks per source, chunk counters; page: what is shown and cached, a cursor per stream, syncs asked for | append, complete, hydrate, cheap update, sync, switch, cancel, close | two message channels; cheap updates instead of hydrates; reload or hydrate in mid-stream; repeated and missing chunks | rows in order, complete means all, a quiet panel is current, no sync forgotten |
| **Desktop backend, `StreamingManager`** `src/core/streaming/StreamingManager.ts`, `src/core/execution/desktopExecutionBackend.ts` | per document: the registered command with its signal, one pending abort; a connection per run | register, unregister, abort, poll, clear; cleanup of stale entries; dispose | an abort that outlives its command; a run given up by a recovery goes on unwinding beside its successor | an abort stops the run it was meant for and no later one, and is reported |
| Result state manager, `result-core` | result sets, active set, workspaces | add, replace, close, evict | events of an old run for a closed tab | a tab shows one run's results |
| Result data provider | pages, filters, spill files | page, filter, dispose | reads racing disposal and spill | pages of one snapshot |
| Connection manager | persistent connection per document, keep-open switches | get, close, switch, close all | creation in flight while closed or switched | no leaked or shared connection |
| **Metadata cache, prefetch** `src/metadata/diskStorage/`, `prefetch.ts`, `metadataQueryLimiter.ts`, `connectionScopedMetadataQueryRunner.ts` | disk: index, payload files, lock files, shared by all windows; memory: layers of entries, generations, refreshes under way; sessions and a limiter per connection | refresh (lease, fence, queries, checkpoints, save), startup, clear, expiry, watcher | several processes on one directory; clears, expiry and crashes in the middle of a save; workers that fail over to one another's session | nothing cleared or superseded is written back, a reader can tell a whole snapshot from one a later save has begun to write over, a refresh called complete has what it may not do without, leases and connections come back |
| Embedded runtimes (DuckDB, SQLite, files) | sessions, statement queues | open, execute, close | close during a statement | statements serialised, closed once |
| Import, export, migration | batches, progress, cancellation | run, cancel, retry | failure of one batch of several | rows written once or reported |
| Language server, workspace index | documents, requests in flight, indices | update, request, cancel | answers to an old version | answers of the current text |
| ETL project editing, validation | nodes, connections, containers | edit, reconcile, save, validate | rollback of a partly applied edit | project stays well formed, no cycle passes |
| Parser, formatter, dialects, DDL, designers | none (functions of text) | – | grammar | out of reach of a finite model |
| Webviews, companion extensions, MCP, notebook | view state, registration | adapters over the parts above | – | – |

`PROJECT.json` lists every component with its status and, under `hazards`, each line where the code is
exposed to something a test would hardly reach, with the properties that watch it.

## 2. Modules

| Module | Models | Remarks |
|---|---|---|
| `ExecutionContract` | what an observer of one execution is promised: `docs/EXECUTION_CONTRACT.md` as the code keeps it | abstract specification; its state is the log of events |
| `ExecutionOrchestrator` | `execution.ts`, every await | implements `ExecutionContract` with `log <- emitted[e]` |
| `ExecutionOrchestratorProofs` | – | theorems and their proofs |
| `QueryExecutionCoordinator` | `queryExecutionGate.ts` | lanes, locks, leases, recovery |
| `EtlExecutionEngine` | `etlExecutionEngine.ts` with containers | one run of a project |
| `StreamingSequence` | `media/resultPanel/streamingSequence.ts` | operators only: the verdict on a streamed message |
| `ResultPanelStream` | host (`resultPanelView.ts`, `resultStateManager.ts`) and page (`media/resultPanel/messages.ts`) with the channels between them | extends `StreamingSequence` |
| `DocumentCommands` | `StreamingManager.ts` with the runs that use it (batches, raw queries, explanations) and the recovery that gives one up | one document |
| `MetadataDiskCache` | `metadata/diskStorage/` with the refreshes, startups and clears that use it | several windows |
| `MetadataColumnStage` | the column stage of `prefetch.ts`, the sessions and the query limiter | one refresh and queries of other features |
| `SequenceFilters` | JavaScript's `filter` and `includes` on arrays | operators `Kept` of the ETL engine and `InSeq` of the engine and the gate |
| `QueryExecutionCoordinatorProofs`, `EtlExecutionEngineProofs`, `ResultPanelStreamProofs`, `ResultPanelDisplayProofs` (what the page shows, after the former), `DocumentCommandsProofs`, `MetadataColumnStageProofs`, `MetadataDiskCacheProofs` | – | theorems and their proofs |
| `MC...` | – | constants for TLC |

All modules but `MetadataDiskCache` and `ResultPanelStream` describe the single thread of the extension host: there an action is the synchronous code
from one `await` to the next, and everything else may happen between two actions and nowhere else. A
definition marked `\* mutant` is a variant of the one after it with a plausible error; no
specification uses it.

### ExecutionOrchestrator

`run`, `runStatement` and `finish` are one thread per execution. `pc[e]` names the await it is
suspended at: a drain of the event queue (`...Drain`), the backend (`executing`, `reconnecting`,
`dropping`, `cleaning`) or the resource scope. The frame (`stmt`, `attempt`, `rowsDelivered`) and
`InternalExecution` (`phase`, `cancelRequested`, `timedOut`, `command`, `commandCancel` for
`cancelPromise`, ...) are variables indexed by execution. `emitted[e]` is everything enqueued so
far, `processed[e]` how much of it the observer has had, `awaited[e]` what the promise of the
current `drainEvents` covers. `cancelJobs` are the promise jobs that `cancelRecord` queues: they cancel
whatever command is registered when they run. Such a job ends when its call is made; that the call is answered matters to
`dispose` alone, which awaits the cancellation that each record holds when it is called (`stopsAwaited`, `StopSettles`)
and the end of every execution, and then closes the backend. Cancellations the records have dropped by then are awaited by nobody. The pieces of the thread (`EnterStatement`, `Caught`,
`BeginFinish`, ...) are the loop head, the catch block and `finish` up to their next await; the actions
`After...` join them as the code does. Driver callbacks (`OnColumnsOrRows`, `OnCommand`) happen while
the attempt's callbacks are open, and with `LateCallbacks` also after `execute` has settled. The
backend is external: its promises settle in any way, and `ExternalAbort` is a cancellation that does
not pass through the orchestrator, which the desktop backend offers.

`status` of a failing finish is folded into `CleanupOutcome`; messages, counts and the contents of
rows are left out. A repeated `cancel` returns the first one's promise and changes nothing.

### QueryExecutionCoordinator

A lane is a document (`Lanes`); its requests are partitioned by their connection: `Shared` and
`Independent` queue jobs, `Direct` for `tryAcquire`. `withAcquisitionLock` is a chain of
promises per lane: `lock[l]` is the chain, its head is the callback that runs, `hold[l]` the await
inside that callback and the execution it works on. `Wanted(l)` is the request `pump(l)` would start
to admit, `Pumping` the lane's `pumping` flag (there is an admission ticket in the chain), and
`PumpAll` the code's `pumpAll`: it is the last conjunct of every action whose code ends with it, and
missing where the code does not call it. `Admit`/`NotAdmitted` check the conditions again under the
lock, `RunSettles` + `Finalize` are the promise chain behind a run with its isolation
(`IsolationEnters`/`Ends`), `AcquireLoop` is the loop of `tryAcquire`, and `Answer`,
`RecoveryStepFails`/`Succeeds`, `Recovered` the dialogue of a recovery with its prompts and backend calls.
A request is retired exactly when `runningSources` does not name it any more (`Current`), because ids
are unique. `inUse` and `unsafe` are history variables, they say who may still be using a
document's session and whether it was left uncertain; no guard reads them.

Simplifications: a prompt and the confirmation it may open are one answer; the job that follows a
callback's return is merged into that return (nothing can run between the two); the lifecycle phases,
labels and snapshots for the queue view are left out; closing a document also closes its connection,
as its only caller does (`src/activation/activateEditorSync.ts`). `CancelRunning` is about requests of the queue. The code
marks a directly acquired command (`tryAcquire`) for isolation too (`queryExecutionGate.ts:401`), but the mark is read only where a job of the
queue ends (`:336`): what the cancellation of such a command leaves behind in the session is not isolated, and `GrantedOnSafeSession` says nothing of it.
Requests without a document and `restoreForReopenedDocument` are not modelled, so the component is listed as partly modelled.

### EtlExecutionEngine

`frame[s]` holds the locals of `executeDynamic` for the root scope and for each container:
`toExecute`, `executed`, `nodeResults`, the task being awaited. `AfterNode` is the loop body after
`executeNode`; `Consider` one outgoing connection with `hasOtherValidPaths`. Stop and the end of a task
wait until no frame is at the head of its loop (`Quiet`): between the executor's settlement and the next
executor there are only microtasks, which no event of the editor overtakes.
`executeDynamic`'s test for tasks already executed is left out; `StartsOnceBeforeStop` shows that it is redundant.
Left out: outputs passed along connections, edits of the project during a run, and two runs at once.

### ResultPanelStream

Two threads that exchange messages: the host and the page. Neither awaits inside a handler that matters here,
so a handler is one action. Each is a function on the record of its side (`host` or `view`), named
after the method, and the messages it posts collect in the field `out` in the order of the code;
`HostBecomes` and `ViewBecomes` append them to the channel. `StartExecution`, `FinalizeExecution` and the like call
`UpdateWebview` as often as the code does, through the state manager's change event and directly. `html` says
that the handler assigned the page's HTML: a new page starts, and gets none of the messages under way to the old one.

`stream` is the executor that feeds the host: it starts executions and statements, delivers chunks
(`ChunkArrives`) and finalizes; it need not hurry (`backlog` says how far it may run ahead of the page).
`page` is the life of the page: *loading* (messages posted to it may be lost: `LoseEarly`), *listening* (its script has run, its
`ready` has not been posted) and *loaded*. Within a loaded page the channels are FIFO, as VS Code's are.
`Fault` breaks this on purpose, once or twice, since the sequence numbers exist to survive it: after a fault
`QuietPanelIsCurrent` is not required, the other properties are.

Source `S` runs statements; `O` is an editor without results, enough to hide `S`. A row is the pair of its statement
and its number, so a row in the wrong result is visible. Left out: disk-backed, capped and workspace results, the
rows of Logs (only that there is a Logs tab), pins and row count messages. Of a cancelled result the page may
show rows the host has dropped, because the counts sent with a cancel click are older.

### DocumentCommands

`entry` is the document's entry of `executingCommands`, `pending` its flag in `pendingAborts`, `aborted` the
runs whose signal has been aborted. `run[r]` is a run from the moment the gate grants its lease: `prepare` (the
batch takes its connection), `poll` (the orchestrator asks `isCancellationRequested`), `opening`
(`ensureConnection`), `running` (a command is registered), `closing` (its reader is closed) and `after` (the
orchestrator looks at the outcome). `current` is the lease of the gate; a recovery (`RecoveryCancels`,
`RecoveryReplaces` or `RecoveryGivesUp`, `RecoveryRetires`) takes it away from a run that goes on nevertheless.
`Polls` and the kinds distinguish the callers: a batch clears the flag at its start (`querySmartSequentialRun.ts:199`) and goes on
after errors or not, a raw query (`executeRawQuery`) neither clears it nor opens its connection before the first poll, an explanation
clears it and is not polled. `asked`, `told` and `beside` are history variables: the runs a cancellation was made
during, those that were alone and not opening a connection when it was made, and those that began beside another one.

Simplifications: a command goes by the name of its run, as a run has one at a time; which connection a run has is
left out, whether it has one is not; so are an error with which a server cancels a statement on its own account, which the code takes for a cancellation
(`StreamingManager.ts:479`, `:603`, `src/core/cancellation.ts`), queries of executable macros, prompts that offer to drop the session, and
waiting for the commands in `dispose`. The other `clearAborted` (`querySmartSequentialRun.ts:487`) concerns
runs with a transient connection, which have a document key of their own and therefore never a successor.

### MetadataDiskCache

`index`, `payload`, `lockFile` and `saveLock` are the files that all windows share; everything else belongs to one window and is
lost when it crashes. A window's `task` has one slot per kind of work: refreshes of a connection (`Prefetches`),
refreshes of its foreign keys only (`Relations`), the startup and a clear. `queue[w]` is `writeQueue`, `section[w]` says where the
operation at its head is and which index it has read (`copy`): an operation reads the index once under the save lock,
writes files and index in the order of the code, and releases it. A save writes over the files of the last snapshot, one
file per step, since each is renamed into place: the metadata (`WriteMetadata`), the column and foreign key files it has
(`WritePart`), then it prunes those it has not, as far as that succeeds (`PrunePart`), then the manifest (`WriteManifest`), and the index last
(`CommitSnapshot`); it can fail, or its window die, before each of them. `payload[c][f]` is the stamp of the save that wrote file `f`. `lease` and `fence` are those
of `acquirePrefetchLease`, `Accepted` the three guards of `saveConnectionV2`. `HeartbeatStalls` is a host suspended past the time limit of its
lock, which makes the lock one that others may take; `Heartbeat` finds that out. `triggered` is the prefetcher's time
stamp per connection, `horizon` the time up to which snapshots have expired; `current` says that `cacheGeneration` has not
moved since a task began.

Simplifications: taking and giving back a lock is one step, so the gap between comparison and removal in
`acquireLock` and `releaseLock` is not seen; the save lock, which has no heartbeat, does not run out under a living owner. A directory is removed
in one step. A startup finds at most one expired connection. `Unaware` windows start with a watcher that has not looked at the index yet. Left out: eviction of the oldest
connections and of orphans (`applyEvictionToIndex`, called before the index is written at `metadataDiskStorage.ts:877` and `:913`), which removes fresh snapshots too and begins to remove their
directories at `:560`, without waiting and before the index that forgets them is written, so that neither `MetadataVouch` nor
`FreshSnapshotsSurvive` holds of evicted connections; deferred saves and the save of everything at shutdown,
and what a window does with snapshots of others beyond noticing a new generation.

### MetadataColumnStage

A worker (`Runners`, 0 is the primary one) and a query of another feature (`Others`) are both requests of the limiter: `active`,
`waiting` and `woken` are a limiter's state, where `woken` holds the waiters whose promise has been resolved and who have not run
yet. `chain[s]` is `queuedWork` of a session, `connection[s]` its connection. `job[w]` holds the locals of
`fetchDatabase`: the database, the session it uses (`slot`), the query and the outcome so far. A failure on an optional
session makes the second attempt on the primary one, after which the worker closes its own session and returns.
Query 1 stands for the queries about the columns of the tables and views of a database, which follow each other in the code: on Netezza three catalog scans
(`prefetch.ts:672-702`) and one for foreign keys (`:709-749`). Without the scans the database is not complete; the failure of the last is
forgiven, only the relationships are marked incomplete, and it is left out. Query 2 is the one about external tables. A login while probing cannot overlap a disposal and is one step; the end of a database, the
disposal of a given-up session and the choice of the next database are one step too.

## 3. What is checked

Runs that pass (states with the given bounds are all reachable states):

| Run | Instance | Shows |
|---|---|---|
| `orch_batch` | one execution, two statements, all request kinds, backend with cancel, one callback | the events of every execution follow `ExecutionContract` (`ImplementsContract`), the terminal status agrees with them (`TerminalAgreesWithLog`), a cancellation stays visible (`CancellationStaysVisible`), nothing is replayed after a stop (`NoReplayAfterStop`) |
| `orch_observer` | one statement, observer that throws, late callbacks, backend without cancel | the closing events leave exactly once whatever the observer does (`ClosedExactlyOnce`), a command that arrives after the cancel is stopped (`CancelledCommandIsStopped`), nothing but failures and closing events follow a cancel (`OnlyClosingAfterCancel`), dispose (`DisposeCompletes`) and every cancelled execution (`CancellationEnds`) end although a query may run for ever |
| `gate_shared` | one document: a shared, an independent and a direct request; cancel, recovery, close, pause | `GrantedOnSafeSession`, `OnlyOwnerReleases`, `PlacesMatchLeases`, `PausedLaneStartsNothing`, `StartInOrder` |
| `gate_slots` | two documents, three independent requests, limits that change between 1/1 and 2/2; remove, pause | the last global slot is never given twice (`SlotsRespected`) and no wake-up is lost (`NoLostWakeup`) |
| `gate_liveness` | one document, two shared and a direct request; every way to end a request | a promise that is open belongs to a request of its lane (`NoRequestLost`) and every request ends or waits behind a blocked session (`RequestsEnd`) |
| `etl_run` | every graph of success and failure connections that go forward over four nodes (4096), in two orders of the connections, one node a container of two tasks and one an empty container | a task runs if and only if results lead to it (`TasksFollowResults`, `EveryTaskAccounted`), at most once and not after a stop (`StartsOnceBeforeStop`), and a failure in a container is reported (`FailureSurfaces`) |
| `panel_stream` | six budgets: a result of three rows, two disturbances, two statements, a first query that opens the panel, two executions; disturbances are editor switches, reloads, cancellations from either side, closed tabs and faults of the channel | the rows shown are in order at every moment (`RowsInOrder`), a result called complete is (`CompleteMeansAll`), a panel with nothing under way shows what the host has (`QuietPanelIsCurrent`), a sync that was asked for is on its way (`NoSyncForgotten`) |
| `document_commands` | two runs of every pair of kinds, two statements a batch, three cancellations, recoveries among them | a command nobody has stopped is the one a cancellation reaches (`CommandReachable`), a run that was alone when cancelled sends nothing more (`LoneRunStops`) and does not count as a success (`CancelIsReported`), a later run is not stopped by an earlier cancellation (`FreshRunNotBlocked`) |
| `disk_clear` | two windows, one connection of one column or foreign key file, two refreshes, a clear, a crash | what was cleared does not come back from a refresh in flight (`ClearedStaysCleared`), a reader finds the whole snapshot the index names unless a later save has begun to write over it, and nothing older or cleared (`MetadataVouch`), the cleanup of expired snapshots spares fresh ones (`FreshSnapshotsSurvive`; of evictions it says nothing) |
| `disk_relations` | two windows, three refreshes, of everything or of the foreign keys, a suspended owner, no clear and no crash | the snapshot of an overtaken refresh does not replace a newer one (`NoOlderSnapshot`), every lease comes back (`LeasesReturn`) |
| `metadata_columns` | three sessions, four databases of which one is dead and one has external tables, a foreign query, limit 1 | a stage called complete has fetched everything but what it may do without (`CompleteMeansFetched`), a session runs one query at a time (`SessionsAreSerial`), no waiter of the limiter is forgotten (`NoLostWakeup`), the stage ends with every connection closed (`EndsWithoutConnections`) |

One run shows a violation: `panel_closed_tab`, see section 5. `TypeOK` of a module other than the orchestrator is not
part of the runs: it is proved for all modules but `MetadataDiskCache`, where it documents the types of the state.

Bounds. One execution is enough for the orchestrator: two of them share only the disposal, and the theorems below hold for any number. Two statements show the step from one to the
next after success, failure and cancellation; a third one would repeat the second. Attempts are 0
and 1 in the code itself. `MaxCallbacks` bounds the rows and columns of an execution: one is enough for
*rows were delivered* and for a late row. In the gate two requests for one session, or three for
two slots, are the smallest numbers for which a release and an admission race; the chain of the lock has
no bound of its own, since each request joins it at most a few times. The forward graphs over four nodes
contain every acyclic graph of that size up to renaming, and the two orders of the connections every order
in which the paths into the last node can be considered against each other. In the panel, a result of three rows has a first,
a middle and a last chunk, so a gap, a repetition and a hydrate between chunks all occur; two statements
and two executions show what one leaves behind for the next. `disturbances` counts all interferences together.
A reload lets messages pile up without bound on the way to the page, so it is not combined with two executions
(`TwoExecutions` excludes it; the other budgets have it).
Two runs of a document show a run beside its retired predecessor; a third one, tried once, adds states and nothing else. Two
windows and one connection show every race on a connection, since connections share only the index, which is always read and
written as a whole under the save lock. `disk_clear` has crashes and `disk_relations` has not: liveness after a crash is that of a new window. Suspended hosts
are those of `disk_relations`, and of the proofs. One part (`Parts`) is enough for a save that writes it over, one that prunes it and one that
does not get to either; that it holds of several files, of which a save has written some, is for the theorem `Vouched`.
`disk_relations` has none, as its properties do not look at files. A window can
steal a lock from another, be robbed itself and go on, as three fences allow a refresh before, during and after.
Three workers let two fall back to the primary session at the same time; with a limit of 1 the second one waits in the limiter and
in the session's chain.

Deadlock is not checked: a disposed orchestrator, a closed document and a finished run have nothing
left to do.

Fairness. Promise continuations, event deliveries and queued jobs run: the event loop guarantees it.
Calls of the backend other than `execute` settle; `execute` need settle only after the stop has
reached it (`StopReached`), as a query may run for ever; a cancellation that dispose awaits is answered. A timer fires. In the gate, prompts are
answered (cancelled prompts resolve too), preparations and backend calls settle, and, for `RequestsEnd`, runs settle.
On disk, the head of a write queue goes on or fails, since `withSaveLock` waits for a bounded time only, and refreshes end, since their
queries have time-outs; in the column stage logins and queries settle for the same reason. Nothing is assumed of the user's own
commands, of the heartbeat, the watcher or a crash.

## 4. What is proved

For every value of the constants, under the assumptions that the modules make on them:

| Module | Theorem | States |
|---|---|---|
| `ExecutionOrchestratorProofs` | `TypeInvariance` | `Spec => []TypeOK` |
| | `CancellationVisible` | `Spec => []CancellationStaysVisible` |
| | `NoReplay` | `Spec => NoReplayAfterStop` |
| | `ClosingAfterCancel` | `Spec => OnlyClosingAfterCancel` |
| | `CommandStopped` | `Spec => []CancelledCommandIsStopped` |
| | `TerminalAgrees` | `Spec => []TerminalAgreesWithLog` |
| | `ClosedOncePerExecution` | `Spec => []ClosedExactlyOnce` |
| | `ContractImplemented` | `Spec => ImplementsContract`, if observers throw nothing and no callback is late |
| `QueryExecutionCoordinatorProofs` | `Invariance`, `TypeInvariance` | `Spec => []IInv`, `Spec => []TypeOK` |
| | `PlacesMatch` | `Spec => []PlacesMatchLeases` |
| | `RequestsKnown` | `Spec => []NoRequestLost` |
| | `SafeSessionGranted` | `Spec => GrantedOnSafeSession` |
| | `OwnersRelease` | `Spec => OnlyOwnerReleases` |
| | `PausedStartsNothing` | `Spec => PausedLaneStartsNothing` |
| | `StartsInOrder` | `Spec => StartInOrder` |
| | `SlotsKept` | `Spec => SlotsRespected` |
| | `WakeUpsKept` | `Spec => []NoLostWakeup`, if no request is independent, or all are and no document is closed or recovered |
| `EtlExecutionEngineProofs` | `Invariance`, `TypeInvariance` | `Spec => []IInv`, `Spec => []TypeOK` |
| | `RunsFollowResults` | `Spec => []TasksFollowResults` |
| | `AllAccounted` | `Spec => []EveryTaskAccounted` |
| | `FailuresSurface` | `Spec => []FailureSurfaces` |
| | `TasksStartOnce` | `Spec => StartsOnceBeforeStop` |
| `ResultPanelStreamProofs` | `Invariance`, `TypeInvariance` | `Spec => []IInv`, `Spec => []TypeOK` |
| | `SyncRemembered` | `Spec => []NoSyncForgotten` |
| | `OrderInvariance` | `Spec => [](IInv /\ InOrder)`, if no tab is closed |
| | `RowsStayInOrder` | `Spec => []RowsInOrder`, if no tab is closed |
| | `CompletionIsTrue` | `Spec => []CompleteMeansAll`, if no tab is closed |
| | `RowsStayWithTheirStatement` | `Spec => []OneResultPerStatement`, if no tab is closed |
| `ResultPanelDisplayProofs` | `StepInvariance` | `Spec => [](IInv /\ InOrder /\ InStep)`, if no tab is closed |
| | `PanelCatchesUp` | `Spec => []QuietPanelIsCurrent`, if no tab is closed |
| `DocumentCommandsProofs` | `TypeInvariance` | `Spec => []TypeOK` |
| | `Reachable` | `Spec => []CommandReachable` |
| | `Reported` | `Spec => []CancelIsReported` |
| | `NotBlocked` | `Spec => []FreshRunNotBlocked` |
| | `ToldRunStops` | `Spec => LoneRunStops` |
| `MetadataColumnStageProofs` | `TypeInvariance` | `Spec => []TypeOK` |
| | `Serially` | `Spec => []SessionsAreSerial` |
| | `Complete` | `Spec => []CompleteMeansFetched` |
| | `WakesUp` | `Spec => []NoLostWakeup` |
| `MetadataDiskCacheProofs` | `Invariance` | `Spec => []IInv` |
| | `Cleared` | `Spec => []ClearedStaysCleared` |
| | `Vouched` | `Spec => []MetadataVouch` |
| | `Fenced` | `Spec => NoOlderSnapshot` |
| | `FreshSurvive` | `Spec => FreshSnapshotsSurvive` |

Each rests on the inductive invariant of its module, `IInv`, with further parts where a paragraph below names them.

**Orchestrator**, for every set of executions, number of statements and set of requests (`StatementCount` positive, flags Boolean).
`IInv == TypeOK /\ Positioned /\ Visible`:

- `TypeOK` is not inductive: a thread after `stmtDrain` dispatches `<<stmt, 0>>`, which is a command
  only if `stmt` is one of the statements. `Positioned` says so at every await inside a
  statement.
- `CancellationStaysVisible` is not inductive: a record that has not been started has no
  phase to protect. `Visible` says that a cancelled record was started and is `cancelling`, and every action
  that assigns `running` or `retrying` has `~cancelRequested` in its guard since its last await.

Each action has one lemma-backed step; the helpers of the thread (`EnterStatement`, `Caught`, ...) have a lemma
each that is used by every action that runs them. `NoReplayAfterStop` follows from the invariant:
the only step that adds `<<s, 1>>` to `dispatched` is `ReconnectSucceeds` behind `ReplayStopped`.

The later theorems add to it. `CommandStopped` needs `Stoppable`: a registered command is that of the attempt in flight, a cancellation has marked it
(`cancelPromise`), and behind the mark there is a stop that has reached the backend or is queued for it. `LogClosed` ties the closing events to the
last two awaits, `Outcome` the absence of failures in the log to `hadFailure` and the status that `finish` was entered with; `TerminalAgrees` and
`ClosedOncePerExecution` follow. `ContractImplemented` is the refinement: `Follows` says where in the contract's order a thread is at each await, and
each step appends what `ExecutionContract` allows there, or nothing. Its two hypotheses are needed: an error that an observer throws
abandons the statement's outcome (`execution.ts:763`), and a late `onRows` may come after its statement has ended. `orch_batch` checks the refinement for
the same case; observers that throw and late callbacks are those of `orch_observer`.

**Gate**, for every set of lanes, finite set of requests, choice of operations and pairs of limits from 1 to 100. `PlacesFit` and `NoneLost` are the properties
of places and requests restated of the values they look at, so that an action that leaves those alone keeps them. They are inductive only together with
what the callbacks in a lane's lock refer to (`ChainsFit`: who asks for an isolation has settled and waits for it, and asks once), whose
session is uncertain (`IsolatingFits`, `SessionsFit`: an unsafe session is blocked or about to be isolated under the lease of the request that left it so) and the order of the
queues (`Sorted`, with `Numbered` for the numbers given out so far). The action properties follow from what each action does to the values they mention
(the lemmas `...Effects`); `StartsInOrder` needs that the first request of a kind is the oldest of it (`LeastExists`, `FirstOfIs`) and that taking one out of a queue keeps the order of the rest (`RemoveFirstIs`), and `SlotsKept` that the sets of running requests are finite. `WakeUpsKept` has two inductive invariants, one for each
alternative of its hypothesis. Without independent requests a lane needs no slot: whoever has freed its session, or let its queue move, has a callback in the lane's
own lock that pumps it (`Wants`). With independent requests alone a slot freed in one lane must be offered to all, oldest request first, so either
a pump of every lane is under way or every lane is at rest (`Calm`), and what is offered is the oldest request that fits (`Offered`, `Oldest`).
TLC refutes the invariant when both kinds are mixed, and for independent requests with a recovery or a closed document (section 5), hence the hypothesis.

**ETL engine**, for every project whose tasks have distinct ids and whose connections stay within a scope, which the editor's validation
(`projectValidator.ts`) and the reconciliation before a run ensure. `FrameInv` is about one frame: no task is queued twice or after it has ended (`Clean`), a queued,
running or executed task has been reached and a skipped one cannot be any more (`Sound`), and a reached one is not forgotten (`Complete`). `Nested` fits
the frame of a container to its task, `RunStatus` the status to the frame of the root. The loop over the connections of a finished task is a
recursive function; `ConsiderStep` shows what one connection does and `AfterNodeStep` carries it along the recursion.

**Result panel**, for every set of budgets. `NoSyncForgotten` hangs on the key by which the page recognises a repeated hydrate: a page that
waits would wait for ever if the hydrate that answers it counted as a repetition. It cannot, as every answered request raises `syncVersion`, which is part of the
key, and no hydrate sent before, nor the one the page saw last, has that number (`SyncsCounted`, `Awaited`). This needs that between two handlers the host shows the source that
has the focus and keeps no request for a source it shows (`HostAtRest`), and that a page that is loading is a new one (`StartsAnew`). Each function of the
host has a lemma about what it posts and what it leaves alone.

The rows need a second invariant, `InOrder`, which TLC checked before it was proved. Row `k` of statement `id` is `<<id, k>>`, so that order is a matter of single
positions (`Pure`). `HostFits` ties the results of the host to the executor: the one that grows is the last, and has as many rows as were fetched unless the run
was cancelled. The rest is about messages under way, since the page adds a chunk by the number and the row at which its cursor stands. The host may store rows without
posting them, while another source is shown or after a cancellation, and later chunks would then seem to fit. They cannot, as the host has first told the page: a
`cancelExecution` or a switch to another source, after which the page forgets its cursor, stands between the chunks before the gap and everything after it.
`MessagesFit` says of each chunk and each completion under way what it carries and that this barrier follows it where one is needed; `ViewFits`
says the same of the cursor (`CursorFits`), and that a result shown as complete is over: its statement has ended and none of its chunks is left to come.
`Orderly` is what each handler of the host does to these facts, `HandleFits` does it for the page, and `Reordered` for the faults, which lose, repeat or exchange chunks but no
barrier. That no tab is closed (`NoTabCloses`, a condition on the budgets) is needed: with a closed tab the code
adds rows to another statement's result, and `OneResultPerStatement` and, with larger budgets, `RowsInOrder` are false (section 5).

`QuietPanelIsCurrent` needs a third invariant, `InStep`, as it says nothing of the moments in between. The host skips a hydrate when it believes the page
to be current, sends a chunk or a switch instead, and remembers what it sent last; so the invariant says what the host may believe. A *display* is what the page should
show: the source and, of `S`, each result with the number of its rows, whether it is cancelled and whether it may still grow. `InStep` claims that there is one display the page depicts
now (`Depicts`), that each message under way leads to a next one (`Leads`, `Reaches`), and that the last is the one the host takes for granted (`Current`).
The displays in between are hidden behind an existential quantifier; TLC checked the invariant with a history variable for them before it was proved. Three things make it hard. A page
that loads may miss every message before its first hydrate, so a display without a source stands for "still blank, or as if nothing had happened", and
a loaded page in that state has a `ready` under way (`Expected`). A hydrate that repeats the key of the last one is ignored, so that displays of one version
must agree (`Replaces`). And a click on cancel stops the page at once, with more or fewer rows than the host will keep, while chunks are under way to it: it
lowers a *cap* in every display to come (`Lowered`), and a cap stays until the host has cancelled too and kept no more rows than the cap says, or the click is still under way
to it (`Patient`). Each function of the host has a lemma that extends the chain by what it posts (`Informs`), each handler of the page one that
follows its first link (`HandleDepicts`). After a fault the chain is broken, and the invariant, like the property, claims nothing.

**Induction.** The induction theorems of the library take an operator as parameter, which the provers cannot instantiate. `SetInduction` in
`EtlExecutionEngineProofs` states induction for a set of numbers instead, from the well-foundedness of strict inclusion of finite sets (`FS_StrictSubsetOrderingWellFounded`);
`PrimitiveRecursion` derives that a function defined by recursion on `0 .. n` exists and satisfies its equations. From these come what `Kept` returns (`KeptElements`,
`KeptDistinct`), and the loop of the ETL engine. The gate needs no induction over its queues: a non-empty set of positions has a least one (`LeastExists`, from the same well-foundedness).

**Commands of a document**, for any number of runs of any kind, of statements and of cancellations. The step of a run
either moves it between two awaits, ends it, sends a command or goes on to the next statement; `AdvancesKeeps`, `FinishesKeeps`, `SendsKeeps` and
`NextStatementKeeps` show once what each of these preserves. The properties need that only a run with a command is registered or aborted (`Registered`), that
a run told to stop stays alone with its flag up, as nobody else can register a command and so consume it (`ToldStops`), that a run nobody asked to
stop has the lease (`Unasked`), and that neither its signal nor the flag is raised if it also began alone (`Untouched`). `Counted` (a run under way has
a statement left) and `Blank` (one that has not begun has no result) are for the types.

**Column stage**, for every list of databases (not empty, without repetition), number of sessions, finite set of other queries and positive limit.
The invariant follows the locals of a worker: an attempt without an error so far has the rows of all its earlier queries, and one that ended well has put them
into the cache (`Jobs`); what has been taken from the list is fetched or in work, and the primary worker leaves only an empty list
(`Progress`), so that a stage in which all workers have ended (`Staged`) has fetched everything. `Serial` says that a query that may start is in its session's chain,
and runs at its head. Whoever is in a limiter's queue waits for this limiter and is there once (`Waiters`). `NoLostWakeup` is
inductive only if a query that leaves was counted: `Counted` equates the counter with the cardinality of the set
of requests that have passed the limiter (`ActiveOf`). `OnlyMoves` states that a step moves one request, from which everything about the others follows.

**Disk cache**, for all sets of windows, connections and refreshes and any number of clears, crashes and suspended hosts. The heart of the
invariant is `SectionFits`: who is in a section has the save lock, so nobody else is in one, and the index is still as he read it;
once he has begun to write files they are those of an accepted snapshot, and once he has removed an entry the index does not name it. `FilesWhole` is carried through the files of a save by `WholeKept`. It needs that no two saves
bear the same stamp: by `FInv` the fences of the refreshes under way are distinct and below the next one of the index (`Fences`), and each save
of one refresh is later than the last, as the clock is with every time in use (`Times`). `Fits` says what a task is about at
each point: what is to be removed had expired, what is to be saved has a time. `Stored` joins the two invariants that are proved to
the fact that a snapshot is `here`. Steps outside the sections are one lemma (`QuietKeeps`), which needs that a task an operation is at work for is
changed by that operation or a crash only (`Undisturbed`); `LeaveKeeps` and `MoveKeeps` do the same for the end of a section and the steps within.
`EntryBecomes` says what a step can make of an entry, from which both action properties follow. The proof uses the save lock, the
generation, the fence and the times of saves and nothing about the locks of connections: a refresh that has lost its lock unnoticed cannot
break these properties either. The types are proved but for the identities of leases, of which a constant set would have to be large enough.

Only model-checked:

- the liveness properties `DisposeCompletes`, `CancellationEnds`, `RequestsEnd`, `LeasesReturn` and `EndsWithoutConnections`, as liveness is out of the prover's reach;
- `RowsInOrder` and `CompleteMeansAll` of the panel when tabs are closed, within the budgets of `panel_stream`; beyond them `RowsInOrder` is false (section 5);
- `QuietPanelIsCurrent` when tabs are closed, within the budgets of `panel_stream`; outside them it is false when a cancelled run, a second one that keeps the results and a
  closed tab come together (section 5).

## 5. Where code and documents disagree

`panel_closed_tab` violates `OneResultPerStatement`, and `PROJECT.json` quotes the lines under `findings`: when the tab of
the result being streamed is closed, its remaining rows are added to the result of an earlier statement, as a chunk is
stored in the last result there is (`resultStateManager.ts:1842`). What follows from it shows with larger budgets than those of
`panel_stream`. If that earlier result was cancelled, the page ignores the rows, and page and host differ from then on although nothing is under way: `QuietPanelIsCurrent` fails
(two executions of two statements of two rows; cancel, then close). If the message with the first of the misplaced rows is lost, the page takes the second for the
continuation, as the numbers happen to fit: `RowsInOrder` fails (two statements of two rows; close, then a fault).

Divergences met while modelling. The models do what the code does, and the properties are stated so that they hold of it.

- A late `onRows` of an attempt that has failed is delivered while the reconnect is awaited, and the replay delivers the rows again:
  `callbacksOpen` stays true when `execute` rejects until the `finally` (`execution.ts:816`, `:855`). The test at `execution.test.ts:477` is called
  'ignores callbacks delivered after a backend statement has settled'.
- A cancelled execution whose reconnect fails ends as `error` (`execution.ts:835`), where `EXECUTION_CONTRACT.md:82-83` promises one
  `cancelled` status.
- A user's cancel that is followed by the timer ends as `error` with a time-out (`execution.ts:527`, `:554` look at `timedOut` alone), although the user
  came first. `TerminalAgreesWithLog` only claims that a run that timed out never ends as cancelled.
- `backend.closeAll` may run while a cancellation is unanswered: `dispose` awaits the one a record holds (`execution.ts:439`), the `finally` of
  `runStatement` drops it (`:857`), and the cancellation of a late command is held by nobody (`:675`). An execution may so end, and the backend be closed,
  before `command.cancel()` has returned. No property claims otherwise.
- Closing a document frees slots that nobody is told of (`queryExecutionGate.ts:839`): a request of another document stays ready
  until some other event pumps, although requests 'wait for a slot and start in submission order'
  (`docs/guide/reference/sql-execution-queue.md:22`).
- A stopped ETL run ends as `completed` or `failed`, never as `cancelled`: `executeDynamic`'s assignment
  (`etlExecutionEngine.ts:119`) is overwritten (`:81`), so that `containerTask.ts:99` tests for a status that never occurs.
- After *Force unlock & retry* the retired run's aborted entry stays registered until it unwinds or the cleanup of 30 s, and
  `clearAborted` clears only the pending flag: `isAborted` is still true and the retried batch is reported as cancelled, although a previous
  cancellation must 'not inadvertently block a fresh run' (`StreamingManager.ts:200-204`). `FreshRunNotBlocked` therefore excepts runs that began
  beside another one.
- A raw query does not clear the flag and is polled before its command is registered (`singleQueryExecutor.ts:508`), so a cancellation that came when
  nothing ran cancels it, whatever `StreamingManager.ts:179-181` says of `registerCommand` consuming it. `FreshRunNotBlocked` excepts raw queries.
- A cancellation that comes while a connection is being opened is consumed when the command is registered, before anybody listens to
  its signal; the statement is sent all the same and the notice 'Remaining statements will be skipped' (`queryCancellation.ts:160-161`) is
  true only of those after it. `told` therefore excepts runs that are opening a connection.
- A retired batch whose connection broke may close or take the connection of its successor, or supersede its command
  (`desktopExecutionBackend.ts:253`, `:271`), although 'a forced retry must never share a connection with a possibly-live command'
  (`queryExecutionGate.ts:558`).
- A refresh of foreign keys in a window that has not noticed another window's clear (its watcher looks every 30 s) gets its lease under the new
  generation and saves the whole of its old memory under it (`MetadataCache.ts:1645`, `:1696`). `ClearedStaysCleared` is checked without such
  refreshes.

- A save that fails or whose window dies before its index is written leaves an index that names the former snapshot, as complete and fresh as it was,
  while some of its files are of the new one and others have been pruned (`metadataDiskStorage.ts:965-1012`, `:1059-1114`). `docs/METADATA_CACHE_CONTRACT.md:202` says
  that 'startup accepts a manifest as fresh only when its timestamp/fingerprint matches the index'. It ignores a manifest that does not match, but makes
  one up from the index entry, complete and of its time (`metadataDiskStorage.ts:462-473`), so that the connection counts as fresh without some of its columns
  until it expires. `MetadataVouch` says how much is true: the metadata's own time tells, if anybody compares it. A refresh of
  foreign keys keeps the time of the snapshot it completes, so that between its files not even that tells them apart from the former ones; only the fence does, which
  is not written into the files.

Smaller divergences, met while modelling, which `ExecutionContract` allows for:
`statement-failed` can follow `statement-completed` when the observer fails on the latter
(`execution.ts:763`); a statement can fail without having been started when the backend's abort flag is already set
(`execution.ts:620`); a replay announces itself with `retrying` and no second `statement-started`
(`execution.ts:644`). An independent request behind an admitted shared one of the same document is
not started until that one ends or another event pumps (`queryExecutionGate.ts:325`), which is why
`NoLostWakeup` is checked for the instance without shared requests.

An ETL task runs as soon as the first path into it is followed (`etlExecutionEngine.ts:164-168`): with `a -> d` and
`b -> c -> d`, `d` runs before `c`, although `docs/ETL_DESIGNER.md:125-127` promises dependency order by Kahn's
algorithm. `TasksFollowResults` states what the code does keep.

In the panel: a hydrate is posted before the `setActiveSource` that the comment at `resultPanelView.ts:820-821` wants
first, because the state manager's event updates the webview earlier. The row counts of a cancel click cut a
result that has become complete since (`messages.ts:355-361` guards only against what the page knows).
And a lost last chunk is not always noticed, as `docs/EXECUTION_CONTRACT.md:266-271` says of a premature completion:
after a hydrate in mid-stream there is no cursor, so the completion is taken for a stale one.

## 6. Not modelled, and the plan

Text processing (parser, formatter, dialects, DDL), file formats, rendering and wire-level drivers are left
out: their correctness is about data and not about steps. What comes next, in this order:

1. **Metadata in memory**: the layers and their loading (`columnLoader.ts`), where a load may finish after an invalidation; the other stages of a
   prefetch; lock files with their single file operations.
2. **Connections**: `ConnectionManager` with keep-open switches, and which connection a retired run gets.
3. **Gate and ETL**: requests without a document, reopened documents; two runs that share a token source, the validator's cycle
   detection against a reference definition.
4. **Result state manager** (disk-backed, capped and workspace results), **import** batches, **embedded runtimes**.
