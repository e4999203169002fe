----------------------- MODULE QueryExecutionCoordinator -----------------------
(***************************************************************************)
(* src/commands/query/queryExecutionGate.ts: the coordinator that decides  *)
(* which SQL request may run.  Every document has a lane: a queue, at most *)
(* one request on the document's shared session, and a bounded number of   *)
(* requests on connections of their own.  Commands outside the queue take  *)
(* the shared session with tryAcquire.                                     *)
(*                                                                         *)
(* withAcquisitionLock is a promise chain per lane: lock[l] is the chain,  *)
(* its head is the callback that runs, hold[l] the await that callback is  *)
(* at.  Each action is the code from one await to the next; the jobs that  *)
(* follow a callback's return before the next callback can start are part  *)
(* of the action that returns.                                             *)
(***************************************************************************)
EXTENDS SequenceFilters, SequencesExt

CONSTANTS
  Lanes,         \* documents
  Shared,        \* queued requests for the document's shared session
  Independent,   \* queued requests that own a connection
  Direct,        \* tryAcquire calls of commands outside the queue
  LaneOf,        \* the document of each of them
  Limits,        \* the pairs <<perTabLimit, globalLimit>> that may be configured
  Operations     \* the operations the environment performs (see Operation)

Jobs == Shared \union Independent
Executions == Jobs \union Direct
None == "none"

Operation == {"pause", "remove", "clear", "cancel", "recover", "close", "dispose", "configure"}

ASSUME PartitionAssumption ==
  /\ Shared \intersect Independent = {} /\ Jobs \intersect Direct = {}
  /\ None \notin Executions /\ IsFiniteSet(Jobs)
ASSUME LaneOfAssumption == LaneOf \in [Executions -> Lanes]
ASSUME LimitsAssumption == Limits \subseteq (1 .. 100) \X (1 .. 100) /\ Limits # {}
ASSUME OperationsAssumption == Operations \subseteq Operation

VARIABLES
  queued, running, independent,      \* an ExecutionLane
  paused, recovering, blocked,
  source, ownSources,                \* runningSources: shared keys, own keys
  lock, hold,                        \* acquisitionLocks
  state, outcome, resolved, sequence,\* a QueueJob
  isolationRequired, isolationVerified,  \* an ActiveExecution
  limits, closed, disposed,          \* the coordinator
  inUse, unsafe                      \* history: the document's session

laneVars == << queued, running, independent, paused, recovering, blocked >>
sourceVars == << source, ownSources >>
jobVars == << state, outcome, resolved, sequence >>
entryVars == << isolationRequired, isolationVerified >>
ownerVars == << limits, closed, disposed >>
sessionVars == << inUse, unsafe >>
vars == << laneVars, sourceVars, lock, hold, jobVars, entryVars, ownerVars, sessionVars >>

Outcomes == {"completed", "failed", "cancelled"}
States == {"new", "preparing", "ready", "running", "isolating", "waiting", "done"}
Kinds == {"pump", "isolate", "acquire", "recover", "repair"}
Ticket == [kind : Kinds, by : Executions]
TicketOf(k, x) == [kind |-> k, by |-> x]

(* The awaits inside a lock callback: prompts, and calls to the backend on *)
(* the way to a forced recovery, an isolation or a repair.                 *)
Prompts == {"choosing", "offerDrop", "offerFresh"}
Awaits == {"cancelOnly", "cancelDrop", "cancelForce", "cancelFresh",
           "dropping", "resetDrop", "resetForce", "opening", "isolating", "repairing"}
NotEntered == [at |-> "enter", on |-> None]
Holding(at, x) == [at |-> at, on |-> x]

Registered(l) == ~disposed /\ ~closed[l]           \* lanes.get(key) = lane
Current(x) == IF x \in Independent THEN x \in ownSources ELSE source[LaneOf[x]] = x
Pumping(chain) == \E i \in DOMAIN chain : chain[i].kind = "pump"
ActiveIndependent == UNION {independent[l] : l \in {m \in Lanes : Registered(m)}}

--------------------------------------------------------------------------------
(* Admission.                                                              *)

FirstOf(s, K) ==
  LET i == SelectInSeq(s, LAMBDA j : j \in K) IN IF i = 0 THEN None ELSE s[i]
FirstIndependent(s) == FirstOf(s, Independent)

(* An unsafe shared session does not block requests with own connections.  *)
NextEligibleReady(l) ==                           \* mutant
  IF blocked[l] # None THEN FirstIndependent(queued[l])
  ELSE FirstOf(queued[l], {j \in Jobs : state[j] = "ready"})
NextEligible(l) ==
  IF blocked[l] # None THEN FirstIndependent(queued[l])
  ELSE IF queued[l] = << >> THEN None ELSE Head(queued[l])

SharedFree(l) == blocked[l] = None /\ running[l] = None /\ source[l] = None
SlotFree(l) ==
  /\ Cardinality(independent[l]) < limits[1]
  /\ Cardinality(ActiveIndependent) < limits[2]

CanAdmit(l, j) ==
  /\ ~paused[l] /\ ~recovering[l] /\ state[j] = "ready"
  /\ IF j \in Independent THEN SlotFree(l) ELSE SharedFree(l)

(* An older request with its own connection is eligible in one of `among`. *)
OlderEligible(j, among) ==
  \E m \in among : /\ Registered(m)
                   /\ NextEligible(m) \in Independent
                   /\ sequence[NextEligible(m)] < sequence[j]
                   /\ CanAdmit(m, NextEligible(m))

(* The request pump(l) starts to admit, were the lane not pumping already. *)
Wanted(l, among) ==
  LET j == NextEligible(l)
  IN IF /\ Registered(l) /\ j # None /\ CanAdmit(l, j)
        /\ j \in Independent => ~OlderEligible(j, among)
     THEN j ELSE None

Pumped(chain, j) ==
  IF j = None \/ Pumping(chain) THEN chain ELSE Append(chain, TicketOf("pump", j))

(* pumpAll, given the lock chains the action has built so far: it looks at *)
(* the state the action leaves, so it is the action's last conjunct.       *)
PumpAll(chains) == lock' = [l \in Lanes |-> Pumped(chains[l], Wanted(l, Lanes)')]

(* The callback at the head of a lane's chain returns.                     *)
Left(l) == [lock EXCEPT ![l] = Tail(@)]
LeaveLock(l) == hold' = [hold EXCEPT ![l] = NotEntered]
HeadIs(l, kind, at) == lock[l] # << >> /\ Head(lock[l]).kind = kind /\ hold[l].at = at
Joined(l, kind, x) == [lock EXCEPT ![l] = Append(@, TicketOf(kind, x))]

(* A promise resolves once.                                                *)
Resolve(jobs, o) ==
  resolved' = [j \in Jobs |-> IF j \in jobs /\ resolved[j] = None THEN o ELSE resolved[j]]

(* The lane forgets a request that held a place in it.                     *)
DroppedShared(l, x) == /\ running' = [running EXCEPT ![l] = IF @ = x THEN None ELSE @]   \* mutant
                       /\ UNCHANGED independent
Dropped(l, x) == /\ running' = [running EXCEPT ![l] = IF @ = x THEN None ELSE @]
                 /\ independent' = [independent EXCEPT ![l] = @ \ {x}]

(* retire: only the entry of x itself leaves runningSources.               *)
RetireWhoever(x) ==                               \* mutant
  /\ source' = [source EXCEPT ![LaneOf[x]] = IF x \in Independent THEN @ ELSE None]
  /\ ownSources' = ownSources \ {x}
Retire(x) ==
  /\ source' = [source EXCEPT ![LaneOf[x]] = IF @ = x THEN None ELSE @]
  /\ ownSources' = ownSources \ {x}

(* History: a request takes the document's session; it is made safe again. *)
TakesSession(x) == /\ inUse' = [inUse EXCEPT ![LaneOf[x]] = @ \union {x}]
                   /\ UNCHANGED unsafe
MakesSafe(l) == /\ inUse' = [inUse EXCEPT ![l] = {}]
                /\ unsafe' = [unsafe EXCEPT ![l] = FALSE]

--------------------------------------------------------------------------------
(* The queue.                                                              *)

Enqueue(j) ==
  LET l == LaneOf[j]
  IN /\ state[j] = "new"
     /\ IF Registered(l)
        THEN /\ queued' = [queued EXCEPT ![l] = Append(@, j)]
             /\ state' = [state EXCEPT ![j] = "preparing"]
             /\ sequence' = [sequence EXCEPT
                  ![j] = Cardinality({k \in Jobs : state[k] # "new"}) + 1]
             /\ UNCHANGED resolved
        ELSE /\ Resolve({j}, "cancelled")
             /\ state' = [state EXCEPT ![j] = "done"]
             /\ UNCHANGED << queued, sequence >>
     /\ UNCHANGED << running, independent, paused, recovering, blocked, sourceVars, lock,
                     hold, outcome, entryVars, ownerVars, sessionVars >>

(* prepare resolves with the function that runs the request.               *)
Prepared(j) ==
  /\ state[j] = "preparing" /\ ~disposed
  /\ state' = [state EXCEPT ![j] = "ready"]
  /\ UNCHANGED << laneVars, sourceVars, hold, outcome, resolved, sequence, entryVars,
                  ownerVars, sessionVars >>
  /\ PumpAll(lock)

(* Jobs leave a queue without having started; the rest stays.              *)
Unqueue(l, jobs, rest, o) ==
  /\ queued' = [queued EXCEPT ![l] = rest]
  /\ state' = [j \in Executions |-> IF j \in jobs THEN "done" ELSE state[j]]
  /\ Resolve(jobs, o)
  /\ UNCHANGED << running, independent, paused, recovering, blocked, sourceVars, hold,
                  outcome, sequence, entryVars, ownerVars, sessionVars >>

(* prepare returns nothing to run, or rejects.                             *)
PreparationFails(j, o) ==
  /\ state[j] = "preparing" /\ o \in {"cancelled", "failed"}
  /\ Unqueue(LaneOf[j], {j}, RemoveFirst(queued[LaneOf[j]], j), o)
  /\ PumpAll(lock)

RemoveQueued(j) ==
  /\ InSeq(j, queued[LaneOf[j]]) /\ Registered(LaneOf[j])
  /\ Unqueue(LaneOf[j], {j}, RemoveFirst(queued[LaneOf[j]], j), "cancelled")
  /\ PumpAll(lock)

ClearQueued(l) ==
  /\ Registered(l)
  /\ Unqueue(l, {j \in Jobs : InSeq(j, queued[l])}, << >>, "cancelled")
  /\ PumpAll(lock)

SetPaused(l, b) ==
  /\ Registered(l)
  /\ paused' = [paused EXCEPT ![l] = b]
  /\ UNCHANGED << queued, running, independent, recovering, blocked, sourceVars, hold,
                  jobVars, entryVars, ownerVars, sessionVars >>
  /\ PumpAll(lock)

ConfigureWithoutPumping(p) ==                     \* mutant
  /\ p # limits
  /\ limits' = p
  /\ UNCHANGED << laneVars, sourceVars, lock, hold, jobVars, entryVars, closed, disposed,
                  sessionVars >>
ConfigureParallelLimits(p) ==
  /\ p # limits
  /\ limits' = p
  /\ UNCHANGED << laneVars, sourceVars, hold, jobVars, entryVars, closed, disposed,
                  sessionVars >>
  /\ PumpAll(lock)

--------------------------------------------------------------------------------
(* Running a request.                                                      *)

(* The conditions are checked again once the lock is held.                 *)
StillWantedIfHead(l, j) ==                        \* mutant
  Registered(l) /\ NextEligible(l) = j /\ (j \in Shared => SharedFree(l))
StillWantedUnpaused(l, j) ==                      \* mutant
  /\ Registered(l) /\ NextEligible(l) = j
  /\ IF j \in Independent THEN SlotFree(l) ELSE SharedFree(l)
StillWanted(l, j) == Registered(l) /\ NextEligible(l) = j /\ CanAdmit(l, j)

Admit(l) ==
  LET j == Head(lock[l]).by
  IN /\ HeadIs(l, "pump", "enter")
     /\ StillWanted(l, j)
     /\ queued' = [queued EXCEPT ![l] = RemoveFirst(@, j)]
     /\ state' = [state EXCEPT ![j] = "running"]
     /\ IF j \in Independent
        THEN /\ independent' = [independent EXCEPT ![l] = @ \union {j}]
             /\ ownSources' = ownSources \union {j}
             /\ UNCHANGED << running, source, sessionVars >>
        ELSE /\ running' = [running EXCEPT ![l] = j]
             /\ source' = [source EXCEPT ![l] = j]
             /\ TakesSession(j)
             /\ UNCHANGED << independent, ownSources >>
     /\ UNCHANGED << paused, recovering, blocked, hold, outcome, resolved, sequence,
                     entryVars, ownerVars >>
     /\ IF j \in Independent THEN PumpAll(Left(l)) ELSE lock' = Left(l)

(* Not admitted after all: try the lane's next request, unless its shared  *)
(* session is taken.                                                       *)
TriesNextNever(l) == FALSE                        \* mutant
TriesNext(l) == source[l] = None

NotAdmitted(l) ==
  /\ HeadIs(l, "pump", "enter")
  /\ ~StillWanted(l, Head(lock[l]).by)
  /\ lock' = [lock EXCEPT ![l] = IF TriesNext(l)
                                 THEN Pumped(Tail(@), Wanted(l, Lanes)) ELSE Tail(@)]
  /\ UNCHANGED << laneVars, sourceVars, hold, jobVars, entryVars, ownerVars, sessionVars >>

(* An uncertain session of its own concerns nobody else.                   *)
BlocksLaneNever(j, unknown) == FALSE              \* mutant
BlocksLane(j, unknown) == unknown /\ j \in Shared

(* The end of a request's promise chain.  Only a request that its lane     *)
(* still owns frees its place; one on an unsafe shared session blocks it.  *)
Finalize(j, o, isolated, chains) ==
  LET l == LaneOf[j]
      owned == Registered(l) /\ (running[l] = j \/ j \in independent[l])
      unknown == /\ o = "cancelled" \/ isolationRequired'[j]
                 /\ ~isolationVerified'[j] /\ ~isolated
  IN /\ state' = [state EXCEPT ![j] = "done"]
     /\ Resolve({j}, o)
     /\ Retire(j)
     /\ IF owned
        THEN /\ Dropped(l, j)
             /\ blocked' = [blocked EXCEPT ![l] = IF BlocksLane(j, unknown) THEN j ELSE @]
             /\ UNCHANGED << queued, paused, recovering, outcome, sequence, ownerVars >>
             /\ PumpAll(chains)
        ELSE /\ lock' = chains
             /\ UNCHANGED << laneVars, outcome, sequence, ownerVars >>

(* A settled shared request whose session must be isolated first.          *)
NeedsIsolation(j, o) ==
  /\ j \in Shared /\ Current(j) /\ ~isolationVerified'[j]
  /\ o = "cancelled" \/ isolationRequired'[j]

(* job.run settles; meanwhile it may have reported, while current, that    *)
(* its session needs isolation or has been closed.                         *)
RunSettles(j, o, required, verified) ==
  LET l == LaneOf[j]
  IN /\ state[j] = "running"
     /\ isolationRequired' = [isolationRequired EXCEPT ![j] = @ \/ (required /\ Current(j))]
     /\ isolationVerified' = [isolationVerified EXCEPT ![j] = @ \/ (verified /\ Current(j))]
     /\ inUse' = [inUse EXCEPT ![l] = @ \ {j}]
     /\ unsafe' = [unsafe EXCEPT ![l] =
          @ \/ (/\ j \in inUse[l] /\ ~isolationVerified'[j]
                /\ o = "cancelled" \/ isolationRequired'[j])]
     /\ IF NeedsIsolation(j, o)
        THEN /\ state' = [state EXCEPT ![j] = "isolating"]
             /\ outcome' = [outcome EXCEPT ![j] = o]
             /\ lock' = Joined(l, "isolate", j)
             /\ UNCHANGED << laneVars, sourceVars, resolved, sequence, ownerVars >>
        ELSE Finalize(j, o, FALSE, lock)
     /\ UNCHANGED hold

IsolationEnters(l) ==
  /\ HeadIs(l, "isolate", "enter") /\ Current(Head(lock[l]).by)
  /\ hold' = [hold EXCEPT ![l] = Holding("isolating", Head(lock[l]).by)]
  /\ UNCHANGED << laneVars, sourceVars, lock, jobVars, entryVars, ownerVars, sessionVars >>

(* resetConnection returns, or was not needed for a superseded request.    *)
IsolationEnds(l, ok) ==
  LET j == Head(lock[l]).by
  IN /\ \/ HeadIs(l, "isolate", "isolating")
        \/ HeadIs(l, "isolate", "enter") /\ ~Current(j) /\ ok
     /\ LeaveLock(l)
     /\ IF ok /\ hold[l].at = "isolating" THEN MakesSafe(l) ELSE UNCHANGED sessionVars
     /\ UNCHANGED entryVars
     /\ Finalize(j, outcome[j], ok, Left(l))

(* cancelRunning: the request is told to stop and marked for isolation;    *)
(* only its settlement releases the lane.  A directly acquired command is  *)
(* marked as well, but nothing in the gate reads its mark, so that the     *)
(* models leave it out.                                                    *)
CancelRunning(x) ==
  /\ x \in Jobs /\ Current(x) /\ ~isolationRequired[x]
  /\ isolationRequired' = [isolationRequired EXCEPT ![x] = TRUE]
  /\ UNCHANGED << laneVars, sourceVars, lock, hold, jobVars, isolationVerified, ownerVars,
                  sessionVars >>

--------------------------------------------------------------------------------
(* Commands outside the queue, and the recovery of a stuck execution.      *)

TryAcquire(d) ==
  /\ state[d] = "new" /\ ~disposed
  /\ state' = [state EXCEPT ![d] = "waiting"]
  /\ lock' = Joined(LaneOf[d], "acquire", d)
  /\ UNCHANGED << laneVars, sourceVars, hold, outcome, resolved, sequence, entryVars,
                  ownerVars, sessionVars >>

(* A request that has waited for a recovery runs ahead of the queue.       *)
Refused(l, recovered) ==
  \/ disposed \/ closed[l] \/ blocked[l] # None
  \/ ~recovered /\ (running[l] # None \/ (queued[l] # << >> /\ ~paused[l]))

Grant(l, d, recovered) ==
  /\ lock' = Left(l)
  /\ LeaveLock(l)
  /\ IF Refused(l, recovered)
     THEN /\ state' = [state EXCEPT ![d] = "done"]
          /\ UNCHANGED << source, sessionVars >>
     ELSE /\ state' = [state EXCEPT ![d] = "running"]
          /\ source' = [source EXCEPT ![l] = d]
          /\ TakesSession(d)
  /\ UNCHANGED << laneVars, ownSources, outcome, resolved, sequence, entryVars, ownerVars >>

(* The loop of tryAcquire: a current execution must be recovered first.    *)
AcquireLoop(l, recovered) ==
  IF Registered(l) /\ source[l] # None
  THEN /\ hold' = [hold EXCEPT ![l] = Holding("choosing", source[l])]
       /\ UNCHANGED << laneVars, sourceVars, lock, jobVars, entryVars, ownerVars, sessionVars >>
  ELSE Grant(l, Head(lock[l]).by, recovered)

AcquireEnters(l) == HeadIs(l, "acquire", "enter") /\ AcquireLoop(l, FALSE)

(* retire wakes the queues, if there was something to retire.              *)
WakesLanes(x) == Current(x)

(* The command finishes and disposes its lease.                            *)
DirectSettles(d) ==
  LET l == LaneOf[d]
  IN /\ d \in Direct /\ state[d] = "running"
     /\ state' = [state EXCEPT ![d] = "done"]
     /\ Retire(d)
     /\ inUse' = [inUse EXCEPT ![l] = @ \ {d}]
     /\ UNCHANGED << laneVars, hold, outcome, resolved, sequence, entryVars, ownerVars, unsafe >>
     /\ IF WakesLanes(d) THEN PumpAll(lock) ELSE UNCHANGED lock

(* recoverRunning, from the queue view, for an execution of the lane.      *)
RecoverRunning(x) ==
  LET l == LaneOf[x]
  IN /\ Registered(l) /\ Current(x) /\ ~recovering[l]
     /\ recovering' = [recovering EXCEPT ![l] = TRUE]
     /\ lock' = Joined(l, "recover", x)
     /\ UNCHANGED << queued, running, independent, paused, blocked, sourceVars, hold,
                     jobVars, entryVars, ownerVars, sessionVars >>

RecoverEnters(l) ==
  /\ HeadIs(l, "recover", "enter")
  /\ hold' = [hold EXCEPT ![l] = Holding("choosing", Head(lock[l]).by)]
  /\ UNCHANGED << laneVars, sourceVars, lock, jobVars, entryVars, ownerVars, sessionVars >>

(* resolveDuplicate and the functions it calls, for the execution          *)
(* hold[l].on, run inside the callback of `acquire` and of `recover`.      *)
InRecovery(l) ==
  lock[l] # << >> /\ Head(lock[l]).kind \in {"acquire", "recover"} /\ hold[l].at # "enter"
ForcedAllowed(x) == x \notin Independent

(* It returns false: nothing was recovered.                                *)
GivesUp(l) ==
  /\ LeaveLock(l)
  /\ UNCHANGED << queued, running, independent, paused, blocked, sourceVars, outcome,
                  resolved, sequence, entryVars, ownerVars, sessionVars >>
  /\ IF Head(lock[l]).kind = "recover"
     THEN /\ recovering' = [recovering EXCEPT ![l] = FALSE]
          /\ UNCHANGED state
          /\ PumpAll(Left(l))
     ELSE /\ state' = [state EXCEPT ![Head(lock[l]).by] = "done"]
          /\ lock' = Left(l)
          /\ UNCHANGED recovering

MovesOn(l, at) ==
  /\ hold' = [hold EXCEPT ![l].at = at]
  /\ UNCHANGED << laneVars, sourceVars, lock, jobVars, entryVars, ownerVars, sessionVars >>

(* The user answers a prompt (with its confirmation, where it has one).    *)
Answer(l) ==
  /\ InRecovery(l) /\ hold[l].at \in Prompts
  /\ \/ GivesUp(l)
     \/ /\ Current(hold[l].on)
        /\ \/ /\ hold[l].at = "choosing"
              /\ \/ MovesOn(l, "cancelOnly")
                 \/ /\ ForcedAllowed(hold[l].on)
                    /\ MovesOn(l, "cancelDrop") \/ MovesOn(l, "cancelForce")
           \/ hold[l].at = "offerDrop" /\ (MovesOn(l, "cancelDrop") \/ MovesOn(l, "offerFresh"))
           \/ hold[l].at = "offerFresh" /\ MovesOn(l, "cancelFresh")

(* requestCancel, dropSession, resetConnection or openFreshConnection      *)
(* fails, or there is no session to drop: what is offered next.            *)
RecoveryStepFails(l) ==
  /\ InRecovery(l)
  /\ \/ hold[l].at \in {"cancelDrop", "dropping", "resetDrop"} /\ MovesOn(l, "offerFresh")
     \/ hold[l].at \in {"cancelForce", "resetForce"} /\ MovesOn(l, "offerDrop")
     \/ hold[l].at \in {"cancelOnly", "cancelFresh", "opening"} /\ GivesUp(l)

RecoveryStepSucceeds(l) ==
  /\ InRecovery(l)
  /\ \/ hold[l].at = "cancelDrop" /\ Current(hold[l].on) /\ MovesOn(l, "dropping")
     \/ hold[l].at = "cancelDrop" /\ ~Current(hold[l].on) /\ MovesOn(l, "resetDrop")
     \/ hold[l].at = "dropping" /\ MovesOn(l, "resetDrop")
     \/ hold[l].at = "cancelForce" /\ MovesOn(l, "resetForce")
     \/ hold[l].at = "cancelFresh" /\ MovesOn(l, "opening")

(* retireRecovered is skipped for an execution that has retired meanwhile. *)
SessionReplaced(l) == hold[l].at \in {"resetDrop", "resetForce", "opening"}

(* The session is reset or replaced: the old execution is retired.         *)
Recovered(l) ==
  LET x == hold[l].on
  IN /\ InRecovery(l) /\ SessionReplaced(l)
     /\ hold' = [hold EXCEPT ![l].at = "recovered"]
     /\ MakesSafe(l)
     /\ UNCHANGED << queued, paused, recovering, blocked, state, outcome, sequence,
                     entryVars, ownerVars >>
     /\ IF Current(x)
        THEN /\ Dropped(l, x)
             /\ Resolve({x} \intersect Jobs, "cancelled")
             /\ Retire(x)
             /\ PumpAll(lock)
        ELSE UNCHANGED << running, independent, sourceVars, resolved, lock >>

(* Back in recoverRunning, or at the head of tryAcquire's loop.            *)
AfterRecovery(l) ==
  /\ InRecovery(l) /\ hold[l].at = "recovered"
  /\ \/ /\ Head(lock[l]).kind = "recover"
        /\ recovering' = [recovering EXCEPT ![l] = FALSE]
        /\ LeaveLock(l)
        /\ UNCHANGED << queued, running, independent, paused, blocked, sourceVars, jobVars,
                        entryVars, ownerVars, sessionVars >>
        /\ PumpAll(Left(l))
     \/ Head(lock[l]).kind = "acquire" /\ AcquireLoop(l, TRUE)

(* recoverBlockedSession: a prompt outside the lock, then the repair.      *)
RecoverBlockedSession(l) ==
  /\ Registered(l) /\ blocked[l] # None /\ ~recovering[l]
  /\ recovering' = [recovering EXCEPT ![l] = TRUE]
  /\ UNCHANGED << queued, running, independent, paused, blocked, sourceVars, lock, hold,
                  jobVars, entryVars, ownerVars, sessionVars >>

RepairPrompted(l) ==
  /\ recovering[l] /\ blocked[l] # None
  /\ \A i \in DOMAIN lock[l] : lock[l][i].kind \notin {"recover", "repair"}

RepairChosen(l) ==
  /\ RepairPrompted(l) /\ Registered(l)
  /\ lock' = Joined(l, "repair", blocked[l])
  /\ UNCHANGED << laneVars, sourceVars, hold, jobVars, entryVars, ownerVars, sessionVars >>

(* The lane's document was closed under the prompt.                        *)
RepairAbandoned(l) ==
  /\ RepairPrompted(l) /\ ~Registered(l)
  /\ recovering' = [recovering EXCEPT ![l] = FALSE]
  /\ UNCHANGED << queued, running, independent, paused, blocked, sourceVars, hold, jobVars,
                  entryVars, ownerVars, sessionVars >>
  /\ PumpAll(lock)

RepairEnters(l) ==
  /\ HeadIs(l, "repair", "enter")
  /\ hold' = [hold EXCEPT ![l] = Holding("repairing", Head(lock[l]).by)]
  /\ UNCHANGED << laneVars, sourceVars, lock, jobVars, entryVars, ownerVars, sessionVars >>

RepairEnds(l, ok) ==
  /\ HeadIs(l, "repair", "repairing")
  /\ LeaveLock(l)
  /\ recovering' = [recovering EXCEPT ![l] = FALSE]
  /\ blocked' = [blocked EXCEPT ![l] = IF ok /\ Registered(l) THEN None ELSE @]
  /\ IF ok THEN MakesSafe(l) ELSE UNCHANGED sessionVars
  /\ UNCHANGED << queued, running, independent, paused, sourceVars, jobVars, entryVars, ownerVars >>
  /\ PumpAll(Left(l))

--------------------------------------------------------------------------------
(* The requests that hold a place in a lane.                               *)
PlacesOfIndependent(l) == independent[l]          \* mutant
PlacesOf(l) == independent[l] \union ({running[l]} \ {None})

(* retireForDocument: pumpAll runs once, when the queue has been emptied   *)
(* but the lane's requests still count; entries are retired without it.    *)
(* The caller closes the document's connection.                            *)
Close(l) ==
  LET gone == {j \in Jobs : InSeq(j, queued[l])}
      ours == {x \in Executions : LaneOf[x] = l}
  IN /\ Registered(l)
     /\ closed' = [closed EXCEPT ![l] = TRUE]
     /\ queued' = [queued EXCEPT ![l] = << >>]
     /\ state' = [j \in Executions |-> IF j \in gone THEN "done" ELSE state[j]]
     /\ Resolve(gone \union PlacesOf(l), "cancelled")
     /\ source' = [source EXCEPT ![l] = None]
     /\ ownSources' = ownSources \ ours
     /\ lock' = [m \in Lanes |-> IF m = l THEN lock[m]
                                 ELSE Pumped(lock[m], Wanted(m, Lanes \ {l}))]
     /\ MakesSafe(l)
     /\ UNCHANGED << running, independent, paused, recovering, blocked, hold, outcome,
                     sequence, entryVars, limits, disposed >>

Dispose ==
  LET open == {l \in Lanes : Registered(l)}
      gone == {j \in Jobs : \E l \in open : InSeq(j, queued[l])}
  IN /\ ~disposed
     /\ disposed' = TRUE
     /\ queued' = [l \in Lanes |-> << >>]
     /\ state' = [j \in Executions |-> IF j \in gone THEN "done" ELSE state[j]]
     /\ Resolve(gone \union UNION {PlacesOf(l) : l \in open}, "cancelled")
     /\ source' = [l \in Lanes |-> None]
     /\ ownSources' = {}
     /\ UNCHANGED << running, independent, paused, recovering, blocked, lock, hold, outcome,
                     sequence, entryVars, limits, closed, sessionVars >>

--------------------------------------------------------------------------------
Init ==
  /\ queued = [l \in Lanes |-> << >>]
  /\ running = [l \in Lanes |-> None]
  /\ independent = [l \in Lanes |-> {}]
  /\ paused = [l \in Lanes |-> FALSE]
  /\ recovering = [l \in Lanes |-> FALSE]
  /\ blocked = [l \in Lanes |-> None]
  /\ source = [l \in Lanes |-> None]
  /\ ownSources = {}
  /\ lock = [l \in Lanes |-> << >>]
  /\ hold = [l \in Lanes |-> NotEntered]
  /\ state = [x \in Executions |-> "new"]
  /\ outcome = [j \in Jobs |-> None]
  /\ resolved = [j \in Jobs |-> None]
  /\ sequence = [j \in Jobs |-> 0]
  /\ isolationRequired = [j \in Jobs |-> FALSE]
  /\ isolationVerified = [j \in Jobs |-> FALSE]
  /\ limits \in Limits
  /\ closed = [l \in Lanes |-> FALSE]
  /\ disposed = FALSE
  /\ inUse = [l \in Lanes |-> {}]
  /\ unsafe = [l \in Lanes |-> FALSE]

(* Lock callbacks and the promise chains behind them.                      *)
Continue(l) ==
  \/ Admit(l) \/ NotAdmitted(l)
  \/ IsolationEnters(l) \/ \E ok \in BOOLEAN : IsolationEnds(l, ok)
  \/ AcquireEnters(l) \/ RecoverEnters(l) \/ AfterRecovery(l)
  \/ RepairEnters(l) \/ \E ok \in BOOLEAN : RepairEnds(l, ok)
  \/ RecoveryStepFails(l) \/ RecoveryStepSucceeds(l) \/ Recovered(l)

Preparation(j) == Prepared(j) \/ \E o \in {"cancelled", "failed"} : PreparationFails(j, o)

Settlement(x) ==
  \/ DirectSettles(x)
  \/ /\ x \in Jobs
     /\ \E o \in Outcomes, required, verified \in BOOLEAN : RunSettles(x, o, required, verified)

(* The user and the editor.                                                *)
Environment(l) ==
  \/ "pause" \in Operations /\ \E b \in BOOLEAN : SetPaused(l, b)
  \/ "clear" \in Operations /\ ClearQueued(l)
  \/ "recover" \in Operations /\ RecoverBlockedSession(l)
  \/ "close" \in Operations /\ Close(l)

Request(x) ==
  \/ x \in Jobs /\ (Enqueue(x) \/ Preparation(x))
  \/ x \in Direct /\ TryAcquire(x)
  \/ "remove" \in Operations /\ x \in Jobs /\ RemoveQueued(x)
  \/ "cancel" \in Operations /\ CancelRunning(x)
  \/ "recover" \in Operations /\ RecoverRunning(x)
  \/ Settlement(x)

Next ==
  \/ \E l \in Lanes : Environment(l) \/ Continue(l) \/ Answer(l) \/ RepairChosen(l) \/ RepairAbandoned(l)
  \/ \E x \in Executions : Request(x)
  \/ "configure" \in Operations /\ \E p \in Limits : ConfigureParallelLimits(p)
  \/ "dispose" \in Operations /\ Dispose

Spec == Init /\ [][Next]_vars

(* Callbacks run, backend calls and preparations settle, prompts are       *)
(* answered.                                                               *)
Fairness ==
  /\ \A l \in Lanes : WF_vars(Continue(l)) /\ WF_vars(Answer(l))
                      /\ WF_vars(RepairChosen(l) \/ RepairAbandoned(l))
  /\ \A j \in Jobs : WF_vars(Preparation(j))

(* Running requests settle, too.                                           *)
FairSpec == Spec /\ Fairness /\ \A x \in Executions : WF_vars(Settlement(x))

--------------------------------------------------------------------------------
TypeOK ==
  /\ queued \in [Lanes -> Seq(Jobs)]
  /\ running \in [Lanes -> Shared \union {None}]
  /\ independent \in [Lanes -> SUBSET Independent]
  /\ paused \in [Lanes -> BOOLEAN]
  /\ recovering \in [Lanes -> BOOLEAN]
  /\ blocked \in [Lanes -> Shared \union {None}]
  /\ source \in [Lanes -> Shared \union Direct \union {None}]
  /\ ownSources \in SUBSET Independent
  /\ lock \in [Lanes -> Seq(Ticket)]
  /\ hold \in [Lanes -> [at : Prompts \union Awaits \union {"enter", "recovered"},
                         on : Executions \union {None}]]
  /\ state \in [Executions -> States]
  /\ outcome \in [Jobs -> Outcomes \union {None}]
  /\ resolved \in [Jobs -> Outcomes \union {None}]
  /\ sequence \in [Jobs -> Nat]
  /\ isolationRequired \in [Jobs -> BOOLEAN]
  /\ isolationVerified \in [Jobs -> BOOLEAN]
  /\ limits \in Limits
  /\ closed \in [Lanes -> BOOLEAN]
  /\ disposed \in BOOLEAN
  /\ inUse \in [Lanes -> SUBSET (Shared \union Direct)]
  /\ unsafe \in [Lanes -> BOOLEAN]

(* The shared session is handed over only when no earlier request can      *)
(* still be using it and no request of the queue has left it uncertain: a  *)
(* cancelled or broken one was isolated first, a stuck one had its         *)
(* connection replaced.  (Directly acquired commands are not isolated.)    *)
GrantedOnSafeSession ==
  [][\A l \in Lanes : source'[l] \notin {source[l], None} => inUse[l] = {} /\ ~unsafe[l]]_vars

(* A request that owns its lane's place is the current one: no recovery,   *)
(* close or late completion leaves a place held by a retired request, or a *)
(* current request that its lane does not know.                            *)
PlacesMatchLeases ==
  \A l \in Lanes : Registered(l) =>
    /\ running[l] # None => source[l] = running[l]
    /\ source[l] \in Shared => running[l] = source[l]
    /\ independent[l] = {j \in ownSources : LaneOf[j] = l}

(* Independent requests start only into a free slot of their tab and of    *)
(* the extension host, although several lanes race for the last one.       *)
SlotsRespected ==
  [][\A l \in Lanes : ~(independent'[l] \subseteq independent[l]) =>
       Cardinality(independent'[l]) <= limits[1] /\ Cardinality(ActiveIndependent') <= limits[2]]_vars

(* Requests start in submission order, except that those with their own    *)
(* connection overtake shared ones held behind an unsafe session.          *)
StartInOrder ==
  [][\A j, k \in Jobs :
       /\ state[j] = "ready" /\ state'[j] = "running"
       /\ LaneOf[j] = LaneOf[k] /\ InSeq(k, queued[LaneOf[j]]) /\ sequence[k] < sequence[j]
       => blocked[LaneOf[j]] # None /\ j \in Independent /\ k \in Shared]_vars

(* A paused lane, or one under recovery, starts none of its requests, even *)
(* one whose admission was under way when it was paused.                   *)
PausedLaneStartsNothing ==
  [][\A j \in Jobs : state[j] = "ready" /\ state'[j] = "running" =>
       ~paused[LaneOf[j]] /\ ~recovering[LaneOf[j]]]_vars

(* No submission is lost: a request whose promise is open is in its lane's *)
(* queue or holds a place in it, which is what hasPendingWork looks at.    *)
NoRequestLost ==
  \A j \in Jobs : state[j] # "new" /\ resolved[j] = None =>
    LET l == LaneOf[j] IN Registered(l) /\ (InSeq(j, queued[l]) \/ running[l] = j \/ j \in independent[l])

(* A lease ends by its own request's settlement, by a recovery that has    *)
(* made the session safe, or with its document: a late completion of a     *)
(* superseded request never ends its successor's.                          *)
OnlyOwnerReleases ==
  [][\A l \in Lanes : source[l] # None /\ source'[l] # source[l] =>
       \/ state[source[l]] # "done" /\ state'[source[l]] = "done"
       \/ (inUse'[l] = {} /\ ~unsafe'[l])
       \/ disposed']_vars

(* No wake-up is lost: whenever a lane's next request may start, the lane  *)
(* is admitting one.                                                       *)
NoLostWakeup == \A l \in Lanes : Wanted(l, Lanes) # None => Pumping(lock[l])

(* Every submitted request ends, or waits behind an unsafe session for the *)
(* user to recover it.                                                     *)
RequestsEnd ==
  \A j \in Jobs : state[j] # "new" ~> resolved[j] # None \/ blocked[LaneOf[j]] # None
================================================================================
