--------------------------- MODULE EtlExecutionEngine ---------------------------
(***************************************************************************)
(* src/etl/etlExecutionEngine.ts, run by src/views/etlDesignerView.ts: one *)
(* run of an ETL project.  The engine walks the graph of tasks with a      *)
(* queue, following `success` and `failure` connections according to the   *)
(* result of each task.  A container is a task that runs the same loop on  *)
(* its members (src/etl/tasks/containerTask.ts), so that a run has a frame *)
(* for the root scope and one for each container.                          *)
(*                                                                         *)
(* The loop awaits the executor of one task at a time.  Stop is handled    *)
(* between those awaits only: a microtask is never overtaken, so Stop and  *)
(* the end of a task wait until no frame is at the head of its loop.       *)
(***************************************************************************)
EXTENDS Naturals, Sequences, FiniteSets, SequenceFilters

CONSTANTS
  NodeOrder,    \* project.nodes, in the project's order
  Containers,   \* those of them that are containers
  Root,         \* the scope of nodes outside containers
  Parent,       \* the scope of every node: Root, or its containerId
  Projects      \* the values of project.connections that are considered

Nodes == {NodeOrder[i] : i \in DOMAIN NodeOrder}
Scopes == {Root} \union Containers
None == "none"

ConnectionTypes == {"success", "failure"}
Connection == [from : Nodes, to : Nodes, type : ConnectionTypes]

(* The validation before a run refuses projects in which two nodes have    *)
(* the same id (src/etl/utils/projectValidator.ts).                        *)
ASSUME NodesAssumption ==
  /\ NodeOrder \in Seq(Nodes)
  /\ \A i, j \in DOMAIN NodeOrder : NodeOrder[i] = NodeOrder[j] => i = j
  /\ Containers \subseteq Nodes /\ Root \notin Nodes /\ None \notin Nodes
  /\ Parent \in [Nodes -> Scopes]
  /\ \A k \in Containers : Parent[k] = Root       \* containers are not nested
(* Connections are reconciled to the scope they are executed in, and the   *)
(* validation before a run has found no cycle.                             *)
ASSUME ProjectsAssumption ==
  /\ Projects \subseteq Seq(Connection)
  /\ \A p \in Projects : \A i \in DOMAIN p : Parent[p[i].from] = Parent[p[i].to]

VARIABLES
  connections,  \* project.connections
  frame,        \* the locals of execute and executeDynamic, per scope
  status,       \* result.status of the run
  stopped       \* context.cancellationToken.isCancellationRequested

vars == << connections, frame, status, stopped >>

TaskResults == {"success", "error", "skipped"}
NoResult == [n \in Nodes |-> None]
Frame == [at : {"idle", "loop", "waiting", "done"}, current : Nodes \union {None},
          toExecute : Seq(Nodes), executed : SUBSET Nodes,
          nodeResults : [Nodes -> TaskResults \union {None}]]
NotEntered == [at |-> "idle", current |-> None, toExecute |-> << >>, executed |-> {},
               nodeResults |-> NoResult]

Members(s) == {n \in Nodes : Parent[n] = s}
Into(n) == {i \in DOMAIN connections : connections[i].to = n}
OutOf(n) ==
  Kept([i \in DOMAIN connections |-> i], {i \in DOMAIN connections : connections[i].from = n})

(* The result of a task lets the run follow a connection.                  *)
Follows(result, c) == \/ result = "success" /\ c.type = "success"
                      \/ result = "error" /\ c.type = "failure"

--------------------------------------------------------------------------------
(* executeDynamic starts with the nodes nothing leads to.                  *)
Entered(s) ==
  [NotEntered EXCEPT !.at = "loop",
     !.toExecute = Kept(NodeOrder, {n \in Members(s) : Into(n) = {}})]

(* hasOtherValidPaths for the target of connection i.                      *)
OtherPathDone(f, i) ==                            \* mutant
  \E j \in Into(connections[i].to) \ {i} :
    Follows(f.nodeResults[connections[j].from], connections[j])
OtherPath(f, i) ==
  \E j \in Into(connections[i].to) \ {i} :
    LET result == f.nodeResults[connections[j].from]
    IN result = None \/ Follows(result, connections[j])

(* One outgoing connection of a task that has ended: its target is queued, *)
(* skipped if no other connection can lead there, or left for later.       *)
ConsiderAgain(f, i) ==                            \* mutant
  LET to == connections[i].to
  IN IF InSeq(to, f.toExecute) THEN f
     ELSE IF Follows(f.nodeResults[connections[i].from], connections[i])
     THEN [f EXCEPT !.toExecute = Append(@, to)]
     ELSE IF to \in f.executed \/ OtherPath(f, i) THEN f
     ELSE [f EXCEPT !.nodeResults[to] = "skipped", !.executed = @ \union {to}]
Consider(f, i) ==
  LET to == connections[i].to
  IN IF to \in f.executed \/ InSeq(to, f.toExecute) THEN f
     ELSE IF Follows(f.nodeResults[connections[i].from], connections[i])
     THEN [f EXCEPT !.toExecute = Append(@, to)]
     ELSE IF OtherPath(f, i) THEN f
     ELSE [f EXCEPT !.nodeResults[to] = "skipped", !.executed = @ \union {to}]

(* The loop body after executeNode: the result is recorded, the outgoing   *)
(* connections are considered in the project's order.                      *)
AfterNode(f, n, result) ==
  LET g == [f EXCEPT !.at = "loop", !.current = None, !.nodeResults[n] = result,
                     !.executed = @ \union {n}]
      out == OutOf(n)
      considered[k \in 0 .. Len(out)] ==
        IF k = 0 THEN g ELSE Consider(considered[k - 1], out[k])
  IN considered[Len(out)]

(* What is left when the loop ends, or is left by a stop, is skipped.      *)
SkipNothing(f, s) == [f EXCEPT !.at = "done"]     \* mutant
SkipRest(f, s) ==
  [f EXCEPT !.at = "done",
     !.nodeResults = [n \in Nodes |-> IF n \in Members(s) \ f.executed THEN "skipped" ELSE @[n]]]

HasErrors(f) == \E n \in Nodes : f.nodeResults[n] = "error"

(* The result of a container's nested run.  Its status is never cancelled, *)
(* as execute overwrites it, so it is completed or failed.                 *)
ContainerSucceeds(f) == "success"                 \* mutant
ContainerResult(f) == IF HasErrors(f) THEN "error" ELSE "success"

--------------------------------------------------------------------------------
AtLoop(s) == status = "running" /\ frame[s].at = "loop"
Quiet == \A s \in Scopes : frame[s].at # "loop"

(* _runProject: the project has passed validation, a connection was found. *)
Run ==
  /\ status = "new"
  /\ status' = "running"
  /\ frame' = [frame EXCEPT ![Root] = Entered(Root)]
  /\ UNCHANGED << connections, stopped >>

Stops(s) == stopped

(* The head of the loop when a task is left to start.                      *)
NextTask(s) == Head(frame[s].toExecute)
MayStart(s) == AtLoop(s) /\ frame[s].toExecute # << >> /\ ~Stops(s)

Taken(s) == [frame EXCEPT ![s].toExecute = Tail(@), ![s].at = "waiting", ![s].current = NextTask(s)]

(* executeNode calls the executor of the task's type.                      *)
StartTask(s) ==
  /\ MayStart(s) /\ NextTask(s) \notin Containers
  /\ frame' = Taken(s)
  /\ UNCHANGED << connections, status, stopped >>

EnterContainer ==
  /\ MayStart(Root) /\ NextTask(Root) \in Containers /\ Members(NextTask(Root)) # {}
  /\ frame' = [Taken(Root) EXCEPT ![NextTask(Root)] = Entered(NextTask(Root))]
  /\ UNCHANGED << connections, status, stopped >>

(* An empty container succeeds at once.                                    *)
EmptyContainer ==
  /\ MayStart(Root) /\ NextTask(Root) \in Containers /\ Members(NextTask(Root)) = {}
  /\ LET taken == [frame[Root] EXCEPT !.toExecute = Tail(@)]
     IN frame' = [frame EXCEPT ![Root] = AfterNode(taken, NextTask(Root), "success")]
  /\ UNCHANGED << connections, status, stopped >>

(* The executor settles: with success, or with an error or an exception.   *)
TaskEnds(s, result) ==
  /\ Quiet /\ frame[s].at = "waiting" /\ frame[s].current \notin Containers
  /\ frame' = [frame EXCEPT ![s] = AfterNode(@, frame[s].current, result)]
  /\ UNCHANGED << connections, status, stopped >>

LoopEnds(s) == AtLoop(s) /\ (frame[s].toExecute = << >> \/ Stops(s))

(* The nested run ends and its container is a task that has ended.         *)
LeaveContainer(k) ==
  /\ LoopEnds(k)
  /\ LET inner == SkipRest(frame[k], k)
     IN frame' = [frame EXCEPT ![k] = inner, ![Root] = AfterNode(@, k, ContainerResult(inner))]
  /\ UNCHANGED << connections, status, stopped >>

(* execute computes the final status, whatever executeDynamic has left.    *)
EndRun ==
  /\ LoopEnds(Root)
  /\ frame' = [frame EXCEPT ![Root] = SkipRest(@, Root)]
  /\ status' = IF HasErrors(frame'[Root]) THEN "failed" ELSE "completed"
  /\ UNCHANGED << connections, stopped >>

(* _stopExecution, while there is a token source to cancel.                *)
Stop ==
  /\ Quiet /\ status = "running" /\ ~stopped
  /\ stopped' = TRUE
  /\ UNCHANGED << connections, frame, status >>

Init ==
  /\ connections \in Projects
  /\ frame = [s \in Scopes |-> NotEntered]
  /\ status = "new"
  /\ stopped = FALSE

Next ==
  \/ Run \/ Stop \/ EnterContainer \/ EmptyContainer \/ EndRun
  \/ \E s \in Scopes : StartTask(s) \/ \E result \in {"success", "error"} : TaskEnds(s, result)
  \/ \E k \in Containers : LeaveContainer(k)

Spec == Init /\ [][Next]_vars

--------------------------------------------------------------------------------
Ran(f, n) == f.nodeResults[n] \in {"success", "error"}
Reached(f, n) == \/ Into(n) = {}
                 \/ \E i \in Into(n) : Follows(f.nodeResults[connections[i].from], connections[i])

(* Every frame has its type, and only tasks that have no result are queued *)
(* or running: the loop's own check for executed tasks is redundant.       *)
TypeOK ==
  /\ connections \in Seq(Connection)
  /\ frame \in [Scopes -> Frame]
  /\ status \in {"new", "running", "completed", "failed"}
  /\ stopped \in BOOLEAN
  /\ \A s \in Scopes, n \in Nodes :
       InSeq(n, frame[s].toExecute) \/ frame[s].current = n => n \notin frame[s].executed

(* A task runs only if nothing leads to it or the result of a task before  *)
(* it lets a connection be followed, and in a run that is not stopped each *)
(* such task does run, however its other connections came out before.      *)
TasksFollowResults ==
  \A s \in Scopes : \A n \in Members(s) :
    LET f == frame[s]
    IN /\ Ran(f, n) \/ f.current = n => Reached(f, n)
       /\ f.at = "done" /\ ~stopped /\ Reached(f, n) => Ran(f, n)

(* When a scope has ended each of its tasks has run or was skipped, also   *)
(* if the run was stopped.                                                 *)
EveryTaskAccounted ==
  \A s \in Scopes : frame[s].at = "done" =>
    \A n \in Members(s) : frame[s].nodeResults[n] # None

(* A failure is never lost: a run completes only if no task of any scope   *)
(* has failed, whether or not a failure connection took care of it.        *)
FailureSurfaces ==
  status = "completed" => \A s \in Scopes : ~HasErrors(frame[s])

(* A task is started once, although several connections lead to it at      *)
(* different times, not after it was skipped, and not after a stop, in a   *)
(* container or outside (executeDynamic).                                  *)
StartsOnceBeforeStop ==
  [][\A s \in Scopes :
       LET n == frame'[s].current
       IN n # frame[s].current /\ n # None => ~stopped /\ frame[s].nodeResults[n] = None]_vars
================================================================================
