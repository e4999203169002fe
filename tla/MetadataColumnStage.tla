-------------------------- MODULE MetadataColumnStage --------------------------
(***************************************************************************)
(* The column stage of a full metadata refresh (src/metadata/prefetch.ts): *)
(* workers share the list of databases, each with a session of its own     *)
(* (connectionScopedMetadataQueryRunner.ts), and every query passes the    *)
(* limiter of the session's slot (metadataQueryLimiter.ts).  A failure on  *)
(* an optional session is retried once on the primary one, after which the *)
(* optional session is closed.  Other features use the limiter too.        *)
(*                                                                         *)
(* A request is a worker or one of the others: each awaits at most one     *)
(* query.  Every action is the code between two awaits; a waiter that the  *)
(* limiter has woken counts as active only when it runs, so that a request *)
(* made in between may overtake it.                                        *)
(***************************************************************************)
EXTENDS Naturals, Sequences, FiniteSets

CONSTANTS
  Databases,     \* the list of databases, a sequence
  External,      \* those with external tables, which take a second query
  DeadBefore,    \* those an earlier stage has marked dead
  LastRunner,    \* runners are 0 .. LastRunner, 0 is the primary one
  Others,        \* queries of other features on the same connection, as numbers
  Limit          \* metadataQueryConcurrencyLimit

Runners == 0 .. LastRunner
Names == {Databases[i] : i \in 1 .. Len(Databases)}
Requests == Runners \union Others

ASSUME RunnersAssumption ==
  LastRunner \in Nat /\ Others \subseteq Nat /\ IsFiniteSet(Others) /\ Others \intersect Runners = {}
ASSUME DatabasesAssumption ==
  /\ Databases \in Seq(Names) /\ Databases # << >> /\ Cardinality(Names) = Len(Databases)
  /\ External \union DeadBefore \subseteq Names
ASSUME LimitAssumption == Limit \in 1 .. 16

VARIABLES
  stage,          \* "probing", "columns", "closing", "done"
  probe,          \* the runner that is probed or closed next
  ready,          \* readyRunners
  next,           \* nextDatabaseIndex
  pc,             \* of each request
  job,            \* of each worker: database, slot, query and the outcome so far
  cached,         \* queries of each database whose rows are in the cache
  dead, complete, \* markDatabaseDead; allQueriesComplete
  active, waiting, woken,    \* ConnectionLimiterState of each key
  connection,     \* of each session: "none", "opening", "open" or "closed"
  chain,          \* of each session: requests in the order of queuedWork
  disposing       \* sessions with disposeRequested

stageVars == << stage, probe, ready >>
workVars == << next, job, cached, dead, complete >>
limiterVars == << active, waiting, woken >>
sessionVars == << connection, chain, disposing >>
vars == << stageVars, workVars, pc, limiterVars, sessionVars >>

\* The connection has a limiter, and each slot of the column stage.
Shared == LastRunner + 1
Keys == Runners \union {Shared}
NoJob == [db |-> "none", slot |-> 0, query |-> 0, ok |-> TRUE, main |-> TRUE, rows |-> {}]

\* An attempt at a database starts with its first query.
Attempt(d, s) == [db |-> d, slot |-> s, query |-> 1, ok |-> TRUE, main |-> TRUE, rows |-> {}]

\* limiterKey: a slot has a limiter of its own when there is more than one.
KeyOf(r) ==
  IF r \in Others \/ Cardinality(ready) = 1 THEN Shared ELSE job[r].slot

Init ==
  /\ stage = "probing" /\ probe = 1 /\ ready = {0}
  /\ next = 1 /\ cached = [d \in Names |-> {}] /\ dead = DeadBefore /\ complete = TRUE
  /\ pc = [r \in Requests |-> "idle"] /\ job = [w \in Runners |-> NoJob]
  /\ active = [k \in Keys |-> 0] /\ waiting = [k \in Keys |-> << >>] /\ woken = [k \in Keys |-> {}]
  /\ connection = [s \in Runners |-> "none"] /\ chain = [s \in Runners |-> << >>]
  /\ disposing = {}

--------------------------------------------------------------------------------
(* The sessions *)

\* ensureConnected of the next optional runner, never more than live databases.
Probe ==
  /\ stage = "probing" /\ probe \in Runners /\ probe < Cardinality(Names \ dead)
  /\ connection[probe] = "none" /\ probe \notin disposing
  /\ connection' = [connection EXCEPT ![probe] = "opening"]
  /\ UNCHANGED << stageVars, workVars, pc, limiterVars, chain, disposing >>

ProbeSettles ==
  /\ stage = "probing" /\ probe \in Runners /\ connection[probe] = "opening"
  /\ \/ /\ connection' = [connection EXCEPT ![probe] = "open"]
        /\ ready' = ready \union {probe} /\ UNCHANGED disposing
     \/ /\ connection' = [connection EXCEPT ![probe] = "closed"]
        /\ disposing' = disposing \union {probe} /\ UNCHANGED ready
  /\ probe' = probe + 1
  /\ UNCHANGED << stage, workVars, pc, limiterVars, chain >>

ProbingEnds ==
  /\ stage = "probing" /\ ~ (probe \in Runners /\ probe < Cardinality(Names \ dead))
  /\ stage' = "columns"
  /\ pc' = [r \in Requests |-> IF r \in ready THEN "next" ELSE pc[r]]
  /\ UNCHANGED << probe, ready, workVars, limiterVars, sessionVars >>

\* Mutant: a query does not wait for the work queued before it.
AnyTurn(w) == TRUE

\* `await previous`.
IsTurn(w) == Head(chain[job[w].slot]) = w

\* The head of a session's chain gets the connection, or starts to open it.
TurnComes(w) ==
  LET s == job[w].slot IN
  /\ pc[w] = "chained" /\ IsTurn(w)
  /\ s \notin disposing
  /\ \/ connection[s] = "open" /\ pc' = [pc EXCEPT ![w] = "querying"] /\ UNCHANGED connection
     \/ /\ connection[s] = "none"
        /\ pc' = [pc EXCEPT ![w] = "connecting"]
        /\ connection' = [connection EXCEPT ![s] = "opening"]
  /\ UNCHANGED << stageVars, workVars, limiterVars, chain, disposing >>

Connected(w) ==
  /\ pc[w] = "connecting"
  /\ connection' = [connection EXCEPT ![job[w].slot] = "open"]
  /\ pc' = [pc EXCEPT ![w] = "querying"]
  /\ UNCHANGED << stageVars, workVars, limiterVars, chain, disposing >>

--------------------------------------------------------------------------------
(* The limiter *)

\* A query may start: of a session's runner it joins the chain.
Enter(r) ==
  IF r \in Others
  THEN /\ pc' = [pc EXCEPT ![r] = "querying"] /\ UNCHANGED chain
  ELSE /\ pc' = [pc EXCEPT ![r] = "chained"]
       /\ chain' = [chain EXCEPT ![job[r].slot] = Append(@, r)]

Request(r) ==
  LET k == KeyOf(r) IN
  /\ pc[r] = "request"
  /\ \/ /\ active[k] >= Limit
        /\ waiting' = [waiting EXCEPT ![k] = Append(@, r)]
        /\ pc' = [pc EXCEPT ![r] = "waiting"]
        /\ UNCHANGED << active, chain >>
     \/ /\ active[k] < Limit
        /\ active' = [active EXCEPT ![k] = @ + 1]
        /\ Enter(r)
        /\ UNCHANGED waiting
  /\ UNCHANGED << stageVars, workVars, woken, connection, disposing >>

\* A waiter goes on without another look at the limit.
Wake(r) ==
  LET k == KeyOf(r) IN
  /\ r \in woken[k]
  /\ woken' = [woken EXCEPT ![k] = @ \ {r}]
  /\ active' = [active EXCEPT ![k] = @ + 1]
  /\ Enter(r)
  /\ UNCHANGED << stageVars, workVars, waiting, connection, disposing >>

\* Mutant: a slot is freed and nobody is woken.
LeaveQuietly(k) ==
  /\ active' = [active EXCEPT ![k] = @ - 1] /\ UNCHANGED << waiting, woken >>

\* The finally of runWithMetadataQueryConcurrencyLimit, and drainQueue.
Leave(k) ==
  /\ active' = [active EXCEPT ![k] = @ - 1]
  /\ IF active[k] - 1 < Limit /\ waiting[k] # << >>
     THEN /\ waiting' = [waiting EXCEPT ![k] = Tail(@)]
          /\ woken' = [woken EXCEPT ![k] = @ \union {Head(waiting[k])}]
     ELSE UNCHANGED << waiting, woken >>

OtherStarts(o) ==
  /\ o \in Others /\ pc[o] = "idle"
  /\ pc' = [pc EXCEPT ![o] = "request"]
  /\ UNCHANGED << stageVars, workVars, limiterVars, sessionVars >>

OtherEnds(o) ==
  /\ o \in Others /\ pc[o] = "querying"
  /\ pc' = [pc EXCEPT ![o] = "ended"]
  /\ Leave(Shared)
  /\ UNCHANGED << stageVars, workVars, sessionVars >>

--------------------------------------------------------------------------------
(* The workers *)

QueriesOf(d) == IF d \in External THEN 2 ELSE 1

\* nextDatabaseIndex++, and fetchDatabase on the worker's own runner; a dead
\* database takes no query.
TakeDatabase(w) ==
  \/ /\ next > Len(Databases)
     /\ pc' = [pc EXCEPT ![w] = "ended"] /\ job' = [job EXCEPT ![w] = NoJob]
     /\ UNCHANGED next
  \/ /\ next <= Len(Databases) /\ Databases[next] \in dead
     /\ next' = next + 1
     /\ pc' = [pc EXCEPT ![w] = "next"] /\ job' = [job EXCEPT ![w] = NoJob]
  \/ /\ next <= Len(Databases) /\ Databases[next] \notin dead
     /\ next' = next + 1
     /\ pc' = [pc EXCEPT ![w] = "request"]
     /\ job' = [job EXCEPT ![w] = Attempt(Databases[next], w)]

Take(w) ==
  /\ pc[w] = "next" /\ TakeDatabase(w)
  /\ UNCHANGED << stageVars, cached, dead, complete, limiterVars, sessionVars >>

\* The outcome of an attempt: the rows go to the cache, a failure of an optional
\* session is retried on the primary one.
EndAttempt(w, j) ==
  /\ cached' = [cached EXCEPT ![j.db] = @ \union j.rows]
  /\ \/ /\ ~ j.ok /\ w # 0 /\ j.slot = w
        /\ job' = [job EXCEPT ![w] = Attempt(j.db, 0)]
        /\ pc' = [pc EXCEPT ![w] = "request"]
     \/ /\ j.ok \/ j.slot = 0
        /\ job' = [job EXCEPT ![w] = [j EXCEPT !.query = 0, !.rows = {}]]
        /\ pc' = [pc EXCEPT ![w] = "record"]

\* Mutant: the last query of a database decides whether it is complete.
LastQueryDecides(j, result) ==
  [j EXCEPT !.ok = result = "rows",
            !.main = @ /\ ~ (j.query = 1 /\ result = "unreadable"),
            !.rows = IF result = "rows" THEN @ \union {j.query} ELSE @]

\* The result of a query is its rows, an error, or an error that says that the
\* database cannot be read ("rows", "error", "unreadable").
Outcome(j, result) ==
  [j EXCEPT !.ok = @ /\ result = "rows",
            !.main = @ /\ ~ (j.query = 1 /\ result = "unreadable"),
            !.rows = IF result = "rows" THEN @ \union {j.query} ELSE @]

\* A query of a worker settles.
QuerySettles(w, result) ==
  LET j == Outcome(job[w], result) IN
  /\ chain' = [chain EXCEPT ![j.slot] = Tail(@)]
  /\ Leave(KeyOf(w))
  /\ \/ /\ j.query < QueriesOf(j.db) /\ j.main
        /\ job' = [job EXCEPT ![w] = [j EXCEPT !.query = @ + 1]]
        /\ pc' = [pc EXCEPT ![w] = "request"]
        /\ UNCHANGED cached
     \/ /\ j.query = QueriesOf(j.db) \/ ~ j.main
        /\ EndAttempt(w, j)
  /\ UNCHANGED << stageVars, next, dead, complete, disposing >>

QueryEnds(w) ==
  /\ w \in Runners /\ pc[w] = "querying"
  /\ \E result \in {"rows", "error", "unreadable"} : QuerySettles(w, result)
  /\ UNCHANGED connection

\* The login fails: the next query of the session opens another connection.
ConnectFails(w) ==
  /\ w \in Runners /\ pc[w] = "connecting"
  /\ connection' = [connection EXCEPT ![job[w].slot] = "none"]
  /\ QuerySettles(w, "error")

\* A worker that had to fall back closes its own session and returns, the others
\* go on.
Record(w) ==
  LET j == job[w] IN
  /\ pc[w] = "record"
  /\ complete' = (complete /\ j.ok)
  /\ dead' = IF j.ok \/ j.main THEN dead ELSE dead \union {j.db}
  /\ \/ j.slot = w /\ TakeDatabase(w) /\ UNCHANGED << connection, disposing >>
     \/ /\ j.slot # w /\ chain[w] = << >>
        /\ disposing' = disposing \union {w}
        /\ connection' = [connection EXCEPT ![w] = "closed"]
        /\ pc' = [pc EXCEPT ![w] = "ended"] /\ job' = [job EXCEPT ![w] = NoJob]
        /\ UNCHANGED next
  /\ UNCHANGED << stageVars, cached, limiterVars, chain >>

\* Promise.all: the stage is over when every worker is.
ColumnsEnd ==
  /\ stage = "columns" /\ \A w \in ready : pc[w] = "ended"
  /\ stage' = "closing" /\ probe' = 0
  /\ UNCHANGED << ready, workVars, pc, limiterVars, sessionVars >>

\* Mutant: only the primary session is closed.
ClosePrimary ==
  /\ stage = "closing" /\ chain[0] = << >>
  /\ disposing' = disposing \union {0}
  /\ connection' = [connection EXCEPT ![0] = "closed"]
  /\ stage' = "done"
  /\ UNCHANGED << probe, ready, workVars, pc, limiterVars, chain >>

\* primaryRunner.dispose: one session after the other, after its queued work.
CloseSession ==
  /\ stage = "closing" /\ probe \in Runners /\ chain[probe] = << >>
  /\ disposing' = disposing \union {probe}
  /\ connection' = [connection EXCEPT ![probe] = "closed"]
  /\ probe' = probe + 1
  /\ stage' = IF probe = LastRunner THEN "done" ELSE stage
  /\ UNCHANGED << ready, workVars, pc, limiterVars, chain >>

--------------------------------------------------------------------------------

Worker(w) ==
  \/ Take(w) \/ Request(w) \/ Wake(w) \/ TurnComes(w) \/ Connected(w)
  \/ ConnectFails(w) \/ QueryEnds(w) \/ Record(w)

Other(o) == Request(o) \/ Wake(o) \/ OtherEnds(o)

Refresh == Probe \/ ProbeSettles \/ ProbingEnds \/ ColumnsEnd \/ CloseSession

Next ==
  \/ Refresh
  \/ \E w \in Runners : Worker(w)
  \/ \E o \in Others : OtherStarts(o) \/ Other(o)

\* Promises are followed up, logins and queries settle (they have timeouts).
Fairness ==
  /\ WF_vars(Refresh)
  /\ \A w \in Runners : WF_vars(Worker(w))
  /\ \A o \in Others : WF_vars(Other(o))

Spec == Init /\ [][Next]_vars /\ Fairness

--------------------------------------------------------------------------------

TypeOK ==
  /\ stage \in {"probing", "columns", "closing", "done"} /\ probe \in 0 .. LastRunner + 1
  /\ ready \subseteq Runners /\ next \in 1 .. Len(Databases) + 1
  /\ pc \in [Requests -> {"idle", "next", "request", "waiting", "chained", "connecting",
                          "querying", "record", "ended"}]
  /\ job \in [Runners -> [db : Names \union {"none"}, slot : Runners, query : 0 .. 2,
                          ok : BOOLEAN, main : BOOLEAN, rows : SUBSET {1, 2}]]
  /\ cached \in [Names -> SUBSET {1, 2}] /\ dead \subseteq Names /\ complete \in BOOLEAN
  /\ active \in [Keys -> 0 .. Cardinality(Requests)]
  /\ waiting \in [Keys -> Seq(Requests)] /\ woken \in [Keys -> SUBSET Requests]
  /\ connection \in [Runners -> {"none", "opening", "open", "closed"}]
  /\ chain \in [Runners -> Seq(Runners)] /\ disposing \subseteq Runners

\* When the stage reports that it is complete, the rows of every query that it may not
\* do without, of every database not known to be dead, are in the cache, whichever
\* sessions failed and were given up (prefetchAllColumnsForConnection).  The query for
\* foreign keys, whose failure the code forgives, is not among them.
CompleteMeansFetched ==
  stage \in {"closing", "done"} /\ complete =>
    \A d \in Names \ DeadBefore : 1 .. QueriesOf(d) \subseteq cached[d]

\* A session runs one query at a time, and only on a connection that is open,
\* also when several workers have fallen back to the primary session
\* (ConnectionScopedMetadataSession.run).
SessionsAreSerial ==
  /\ \A w, v \in Runners :
       pc[w] = "querying" /\ pc[v] = "querying" /\ job[w].slot = job[v].slot => w = v
  /\ \A w \in Runners : pc[w] = "querying" => connection[job[w].slot] = "open"

\* Whoever waits in the limiter has somebody who will wake him
\* (runWithMetadataQueryConcurrencyLimit, drainQueue).
NoLostWakeup == \A k \in Keys : waiting[k] # << >> => active[k] > 0 \/ woken[k] # {}

\* The refresh ends, with no connection left open (primaryRunner.dispose).
EndsWithoutConnections ==
  <>(stage = "done" /\ \A s \in Runners : connection[s] \in {"none", "closed"})
================================================================================
