---------------------- MODULE MetadataColumnStageProofs ----------------------
(***************************************************************************)
(* Theorems about MetadataColumnStage, for every number of sessions, every *)
(* list of databases, every set of other queries and every limit.          *)
(***************************************************************************)
EXTENDS MetadataColumnStage, FiniteSetTheorems, SequenceTheorems, TLAPS

Points == {"idle", "next", "request", "waiting", "chained", "connecting", "querying", "record", "ended"}

Job == [db : Names \union {"none"}, slot : Runners, query : 0 .. 2, ok : BOOLEAN, main : BOOLEAN,
        rows : SUBSET {1, 2}]

(* TypeOK, except for the number of active queries, which takes counting. *)
Types ==
  /\ stage \in {"probing", "columns", "closing", "done"} /\ probe \in 0 .. LastRunner + 1
  /\ ready \subseteq Runners /\ next \in 1 .. Len(Databases) + 1
  /\ pc \in [Requests -> Points] /\ job \in [Runners -> Job]
  /\ cached \in [Names -> SUBSET {1, 2}] /\ dead \subseteq Names /\ complete \in BOOLEAN
  /\ active \in [Keys -> Int]
  /\ waiting \in [Keys -> Seq(Requests)] /\ woken \in [Keys -> SUBSET Requests]
  /\ connection \in [Runners -> {"none", "opening", "open", "closed"}]
  /\ chain \in [Runners -> Seq(Runners)] /\ disposing \subseteq Runners

LEMMA Constants ==
  /\ 0 \in Runners /\ Runners \subseteq Requests /\ Others \subseteq Requests
  /\ Len(Databases) \in Nat \ {0}
  /\ \A i \in 1 .. Len(Databases) : Databases[i] \in Names
  /\ Runners \subseteq Keys /\ Shared \in Keys
  /\ Limit \in Nat /\ Limit >= 1
<1>1. 0 \in Runners /\ Runners \subseteq Requests /\ Others \subseteq Requests
  BY RunnersAssumption DEF Runners, Requests
<1>2. Len(Databases) \in Nat \ {0}
  BY DatabasesAssumption, EmptySeq
<1>3. \A i \in 1 .. Len(Databases) : Databases[i] \in Names
  BY DEF Names
<1>4. Runners \subseteq Keys /\ Shared \in Keys
  BY DEF Keys
<1>5. Limit \in Nat /\ Limit >= 1
  BY LimitAssumption
<1> QED
  BY <1>1, <1>2, <1>3, <1>4, <1>5

LEMMA NoJobIsJob == NoJob \in Job
  BY Constants DEF NoJob, Job

LEMMA AttemptIsJob ==
  ASSUME NEW d \in Names, NEW s \in Runners
  PROVE  Attempt(d, s) \in Job
BY DEF Attempt, Job

LEMMA KeyIsKey ==
  ASSUME Types, NEW r \in Requests
  PROVE  KeyOf(r) \in Keys
<1>1. r \in Others \/ r \in Runners
  BY DEF Requests
<1> QED
  BY <1>1, Constants DEF KeyOf, Types, Job

LEMMA InitTypes == Init => Types
<1> SUFFICES ASSUME Init PROVE Types
  OBVIOUS
<1>1. /\ stage \in {"probing", "columns", "closing", "done"} /\ probe \in 0 .. LastRunner + 1
      /\ ready \subseteq Runners /\ next \in 1 .. Len(Databases) + 1
  BY Constants, RunnersAssumption DEF Init
<1>2. pc \in [Requests -> Points] /\ job \in [Runners -> Job]
  BY NoJobIsJob DEF Init, Points
<1>3. cached \in [Names -> SUBSET {1, 2}] /\ dead \subseteq Names /\ complete \in BOOLEAN
  BY DatabasesAssumption DEF Init
<1>4. /\ active \in [Keys -> Int]
      /\ waiting \in [Keys -> Seq(Requests)] /\ woken \in [Keys -> SUBSET Requests]
  BY DEF Init
<1>5. /\ connection \in [Runners -> {"none", "opening", "open", "closed"}]
      /\ chain \in [Runners -> Seq(Runners)] /\ disposing \subseteq Runners
  BY DEF Init
<1> QED
  BY <1>1, <1>2, <1>3, <1>4, <1>5 DEF Types

--------------------------------------------------------------------------------
(* What the helpers assign has its type. *)

LEMMA EnterType ==
  ASSUME Types, NEW r \in Requests, Enter(r)
  PROVE  /\ pc' \in [Requests -> Points]
         /\ chain' \in [Runners -> Seq(Runners)]
<1>1. CASE r \in Others
  BY <1>1 DEF Enter, Types, Points
<1>2. CASE r \notin Others
  <2>1. r \in Runners /\ job[r].slot \in Runners
    BY <1>2 DEF Requests, Types, Job
  <2>2. Append(chain[job[r].slot], r) \in Seq(Runners)
    BY <2>1 DEF Types
  <2> QED
    BY ZenonT(30), <1>2, <2>1, <2>2 DEF Enter, Types, Points
<1> QED
  BY <1>1, <1>2

LEMMA LeaveType ==
  ASSUME Types, NEW k \in Keys, Leave(k)
  PROVE  /\ active' \in [Keys -> Int]
         /\ waiting' \in [Keys -> Seq(Requests)] /\ woken' \in [Keys -> SUBSET Requests]
<1>1. active' \in [Keys -> Int]
  BY DEF Leave, Types
<1>2. CASE active[k] - 1 < Limit /\ waiting[k] # << >>
  <2>1. Head(waiting[k]) \in Requests /\ Tail(waiting[k]) \in Seq(Requests)
    BY <1>2, HeadTailProperties DEF Types
  <2>2. /\ waiting' = [waiting EXCEPT ![k] = Tail(waiting[k])]
        /\ woken' = [woken EXCEPT ![k] = woken[k] \union {Head(waiting[k])}]
    BY <1>2 DEF Leave
  <2>3. waiting' \in [Keys -> Seq(Requests)]
    BY <2>1, <2>2 DEF Types
  <2>4. woken[k] \union {Head(waiting[k])} \in SUBSET Requests
    BY <2>1 DEF Types
  <2>5. woken' \in [Keys -> SUBSET Requests]
    BY <2>2, <2>4 DEF Types
  <2> QED
    BY <1>1, <2>3, <2>5
<1>3. CASE ~ (active[k] - 1 < Limit /\ waiting[k] # << >>)
  BY <1>1, <1>3 DEF Leave, Types
<1> QED
  BY <1>2, <1>3

LEMMA TakeDatabaseType ==
  ASSUME Types, NEW w \in Runners, TakeDatabase(w)
  PROVE  /\ pc' \in [Requests -> Points] /\ job' \in [Runners -> Job]
         /\ next' \in 1 .. Len(Databases) + 1
<1>1. w \in Requests /\ next \in Nat /\ Len(Databases) \in Nat /\ next >= 1
  BY Constants DEF Types
<1>2. pc' \in [Requests -> Points]
  BY <1>1 DEF TakeDatabase, Types, Points
<1>3. next' \in 1 .. Len(Databases) + 1
  BY <1>1 DEF TakeDatabase, Types
<1>4. \/ job' = [job EXCEPT ![w] = NoJob]
      \/ /\ next <= Len(Databases)
         /\ job' = [job EXCEPT ![w] = Attempt(Databases[next], w)]
  BY DEF TakeDatabase
<1>5. next <= Len(Databases) => Attempt(Databases[next], w) \in Job
  BY <1>1, Constants, AttemptIsJob
<1>6. job' \in [Runners -> Job]
  BY <1>4, <1>5, NoJobIsJob DEF Types
<1> QED
  BY <1>2, <1>3, <1>6

LEMMA OutcomeType ==
  ASSUME NEW j \in Job, NEW result \in {"rows", "error", "unreadable"}, j.query # 0
  PROVE  Outcome(j, result) \in Job
<1>1. j.query \in {1, 2}
  BY DEF Job
<1>2. (IF result = "rows" THEN j.rows \union {j.query} ELSE j.rows) \in SUBSET {1, 2}
  BY <1>1 DEF Job
<1>3. /\ (j.ok /\ result = "rows") \in BOOLEAN
      /\ (j.main /\ ~ (j.query = 1 /\ result = "unreadable")) \in BOOLEAN
  OBVIOUS
<1> QED
  BY <1>2, <1>3 DEF Outcome, Job

--------------------------------------------------------------------------------
(* The jobs of the workers. *)

Counts == {"chained", "connecting", "querying"}
Asking == {"request", "waiting"} \union Counts
Working == Asking \union {"record"}

Fetched(d) == 1 .. QueriesOf(d) \subseteq cached[d]

(* An attempt that has had no error so far has the rows of its queries, and    *)
(* one that ended well has put them in the cache.                              *)
JobFits(w) ==
  /\ pc[w] \in Working => job[w].db \in Names /\ job[w].slot \in {w, 0}
  /\ pc[w] \in Asking =>
       /\ job[w].query \in 1 .. QueriesOf(job[w].db) /\ job[w].main
       /\ job[w].ok => 1 .. (job[w].query - 1) \subseteq job[w].rows
  /\ pc[w] = "record" /\ job[w].ok => Fetched(job[w].db)

Jobs == \A w \in Runners : JobFits(w)

(* Whoever is in the queue of a limiter, or was taken from it, waits for it,   *)
(* and is there once.                                                          *)
Waits(r, k) == pc[r] = "waiting" /\ KeyOf(r) = k

WaitersOf(k) ==
  /\ \A i \in 1 .. Len(waiting[k]) : Waits(waiting[k][i], k) /\ waiting[k][i] \notin woken[k]
  /\ \A r \in woken[k] : Waits(r, k)
  /\ \A i, j \in 1 .. Len(waiting[k]) : waiting[k][i] = waiting[k][j] => i = j

Waiters == \A k \in Keys : WaitersOf(k)

(* A query that may start is in the chain of its session, and runs at its      *)
(* head, on the connection of the session.                                     *)
Serial ==
  /\ \A w \in Runners : pc[w] \in Counts =>
       \E i \in 1 .. Len(chain[job[w].slot]) : chain[job[w].slot][i] = w
  /\ \A w \in Runners : pc[w] \in {"connecting", "querying"} =>
       chain[job[w].slot] # << >> /\ Head(chain[job[w].slot]) = w
  /\ \A w \in Runners : pc[w] = "querying" => connection[job[w].slot] = "open"

(* Workers work between the probing and the closing of the sessions.           *)
Staged ==
  /\ 0 \in ready
  /\ \A w \in Runners : stage = "probing" \/ w \notin ready => pc[w] = "idle"
  /\ stage \in {"closing", "done"} => \A w \in ready : pc[w] = "ended"

LEMMA ProbingTypes ==
  ASSUME Types, Probe \/ ProbeSettles \/ ProbingEnds
  PROVE  Types'
<1>1. CASE Probe
  BY <1>1 DEF Types, Probe, stageVars, workVars, limiterVars
<1>2. CASE ProbeSettles
  <2>1. probe + 1 \in 0 .. LastRunner + 1
    BY <1>2, RunnersAssumption DEF ProbeSettles, Runners
  <2> QED
    BY <1>2, <2>1 DEF Types, ProbeSettles, workVars, limiterVars
<1>3. CASE ProbingEnds
  <2>1. pc' \in [Requests -> Points]
    BY <1>3 DEF Types, ProbingEnds, Points
  <2> QED
    BY <1>3, <2>1 DEF Types, ProbingEnds, workVars, limiterVars, sessionVars
<1> QED
  BY <1>1, <1>2, <1>3

LEMMA ClosingTypes ==
  ASSUME Types, ColumnsEnd \/ CloseSession
  PROVE  Types'
<1>1. CASE ColumnsEnd
  BY <1>1, RunnersAssumption DEF Types, ColumnsEnd, workVars, limiterVars, sessionVars
<1>2. CASE CloseSession
  <2>1. probe + 1 \in 0 .. LastRunner + 1
    BY <1>2, RunnersAssumption DEF CloseSession, Runners
  <2> QED
    BY <1>2, <2>1 DEF Types, CloseSession, workVars, limiterVars
<1> QED
  BY <1>1, <1>2

LEMMA RequestTypes ==
  ASSUME Types, NEW r \in Requests, Request(r)
  PROVE  Types'
<1>1. KeyOf(r) \in Keys
  BY KeyIsKey
<1>2. CASE active[KeyOf(r)] >= Limit
  <2>1. Append(waiting[KeyOf(r)], r) \in Seq(Requests)
    BY <1>1 DEF Types
  <2>2. /\ waiting' = [waiting EXCEPT ![KeyOf(r)] = Append(waiting[KeyOf(r)], r)]
        /\ pc' = [pc EXCEPT ![r] = "waiting"]
        /\ UNCHANGED << active, chain >>
    BY <1>1, <1>2, Constants DEF Request, Types
  <2>3. pc' \in [Requests -> Points] /\ waiting' \in [Keys -> Seq(Requests)]
    BY <1>1, <2>1, <2>2 DEF Types, Points
  <2> QED
    BY <2>2, <2>3 DEF Types, Request, stageVars, workVars
<1>3. CASE active[KeyOf(r)] < Limit
  <2>1. Enter(r) /\ active' = [active EXCEPT ![KeyOf(r)] = @ + 1] /\ UNCHANGED waiting
    BY <1>1, <1>3, Constants DEF Request, Types
  <2>2. pc' \in [Requests -> Points] /\ chain' \in [Runners -> Seq(Runners)]
    BY <2>1, EnterType
  <2>3. active' \in [Keys -> Int]
    BY <1>1, <2>1 DEF Types
  <2> QED
    BY <2>1, <2>2, <2>3 DEF Types, Request, stageVars, workVars
<1>4. active[KeyOf(r)] \in Int /\ Limit \in Int
  BY <1>1, Constants DEF Types
<1> QED
  BY <1>2, <1>3, <1>4

LEMMA WakeTypes ==
  ASSUME Types, NEW r \in Requests, Wake(r)
  PROVE  Types'
<1>1. KeyOf(r) \in Keys
  BY KeyIsKey
<1>2. pc' \in [Requests -> Points] /\ chain' \in [Runners -> Seq(Runners)]
  BY EnterType DEF Wake
<1>3. active' \in [Keys -> Int] /\ woken' \in [Keys -> SUBSET Requests]
  BY <1>1 DEF Types, Wake
<1> QED
  BY <1>2, <1>3 DEF Types, Wake, stageVars, workVars

LEMMA SessionTypes ==
  ASSUME Types, NEW w \in Runners, TurnComes(w) \/ Connected(w)
  PROVE  Types'
<1>1. w \in Requests /\ job[w].slot \in Runners
  BY Constants DEF Types, Job
<1>2. pc' \in [Requests -> Points]
  BY <1>1 DEF Types, TurnComes, Connected, Points
<1>3. connection' \in [Runners -> {"none", "opening", "open", "closed"}]
  BY <1>1 DEF Types, TurnComes, Connected
<1> QED
  BY <1>2, <1>3 DEF Types, TurnComes, Connected, stageVars, workVars, limiterVars

LEMMA OtherTypes ==
  ASSUME Types, NEW o \in Others, OtherStarts(o) \/ OtherEnds(o)
  PROVE  Types'
<1>1. o \in Requests
  BY Constants
<1>2. CASE OtherStarts(o)
  BY <1>1, <1>2 DEF Types, Points, OtherStarts, stageVars, workVars, limiterVars, sessionVars
<1>3. CASE OtherEnds(o)
  <2>1. /\ active' \in [Keys -> Int]
        /\ waiting' \in [Keys -> Seq(Requests)] /\ woken' \in [Keys -> SUBSET Requests]
    BY <1>3, LeaveType, Constants DEF OtherEnds
  <2> QED
    BY <1>1, <1>3, <2>1 DEF Types, Points, OtherEnds, stageVars, workVars, sessionVars
<1> QED
  BY <1>2, <1>3

LEMMA AttemptType ==
  ASSUME Types, NEW w \in Runners, NEW j \in Job, j.db \in Names, EndAttempt(w, j)
  PROVE  /\ pc' \in [Requests -> Points] /\ job' \in [Runners -> Job]
         /\ cached' \in [Names -> SUBSET {1, 2}]
<1>1. w \in Requests /\ 0 \in Runners
  BY Constants
<1>2. pc' \in [Requests -> Points]
  BY <1>1 DEF EndAttempt, Types, Points
<1>3. Attempt(j.db, 0) \in Job
  BY <1>1, AttemptIsJob
<1>4. [j EXCEPT !.query = 0, !.rows = {}] \in Job
  <2>1. [j EXCEPT !.query = 0] \in Job
    BY DEF Job
  <2>2. ASSUME NEW i \in Job PROVE [i EXCEPT !.rows = {}] \in Job
    BY DEF Job
  <2>3. [j EXCEPT !.query = 0, !.rows = {}] = [[j EXCEPT !.query = 0] EXCEPT !.rows = {}]
    OBVIOUS
  <2> QED
    BY <2>1, <2>2, <2>3
<1>5. job' = [job EXCEPT ![w] = Attempt(j.db, 0)] \/ job' = [job EXCEPT ![w] = [j EXCEPT !.query = 0, !.rows = {}]]
  BY DEF EndAttempt
<1>6. job' \in [Runners -> Job]
  BY <1>3, <1>4, <1>5 DEF Types
<1>7. cached[j.db] \union j.rows \in SUBSET {1, 2}
  BY DEF Job, Types
<1>8. cached' \in [Names -> SUBSET {1, 2}]
  BY <1>7 DEF EndAttempt, Types
<1> QED
  BY <1>2, <1>6, <1>8

LEMMA SettlesTypes ==
  ASSUME Types, Jobs, Serial, NEW w \in Runners, pc[w] \in {"connecting", "querying"},
         NEW result \in {"rows", "error", "unreadable"}, QuerySettles(w, result),
         connection' \in [Runners -> {"none", "opening", "open", "closed"}]
  PROVE  Types'
<1> DEFINE j == Outcome(job[w], result)
<1>1. w \in Requests /\ KeyOf(w) \in Keys
  BY Constants, KeyIsKey
<1>2. job[w] \in Job /\ job[w].query \in 1 .. QueriesOf(job[w].db) /\ job[w].db \in Names
  BY DEF Types, Jobs, JobFits, Working, Asking, Counts
<1>3. job[w].query \in {1, 2}
  BY <1>2 DEF QueriesOf, Job
<1>4. j \in Job
  BY <1>2, <1>3, OutcomeType
<1>5. j.db = job[w].db /\ j.slot = job[w].slot /\ j.query = job[w].query
  BY <1>2 DEF Outcome, Job
<1>6. chain' = [chain EXCEPT ![job[w].slot] = Tail(@)]
  BY <1>5 DEF QuerySettles
<1>7. Tail(chain[job[w].slot]) \in Seq(Runners)
  BY <1>2, HeadTailProperties DEF Serial, Types, Job
<1>8. chain' \in [Runners -> Seq(Runners)]
  BY <1>6, <1>7 DEF Types
<1>9. /\ active' \in [Keys -> Int]
      /\ waiting' \in [Keys -> Seq(Requests)] /\ woken' \in [Keys -> SUBSET Requests]
  BY <1>1, LeaveType DEF QuerySettles
<1>10. /\ pc' \in [Requests -> Points] /\ job' \in [Runners -> Job]
       /\ cached' \in [Names -> SUBSET {1, 2}]
  <2>1. CASE EndAttempt(w, j)
    BY <1>2, <1>4, <1>5, <2>1, AttemptType
  <2>2. CASE /\ j.query < QueriesOf(j.db)
             /\ job' = [job EXCEPT ![w] = [j EXCEPT !.query = @ + 1]]
             /\ pc' = [pc EXCEPT ![w] = "request"]
             /\ UNCHANGED cached
    <3>1. j.query + 1 \in 0 .. 2
      BY <1>3, <1>5, <2>2 DEF QueriesOf
    <3>2. [j EXCEPT !.query = @ + 1] \in Job
      BY <1>4, <3>1 DEF Job
    <3> QED
      BY <1>1, <2>2, <3>2 DEF Types, Points
  <2> QED
    BY <2>1, <2>2 DEF QuerySettles
<1> QED
  BY <1>8, <1>9, <1>10 DEF Types, QuerySettles, stageVars

LEMMA RecordTypes ==
  ASSUME Types, Jobs, NEW w \in Runners, Record(w)
  PROVE  Types'
<1>1. w \in Requests /\ job[w] \in Job /\ job[w].db \in Names
  BY Constants DEF Record, Types, Jobs, JobFits, Working
<1>2. complete' \in BOOLEAN /\ dead' \subseteq Names
  BY <1>1 DEF Record, Types
<1>3. connection' \in [Runners -> {"none", "opening", "open", "closed"}] /\ disposing' \subseteq Runners
  BY <1>1 DEF Record, Types
<1>4. /\ pc' \in [Requests -> Points] /\ job' \in [Runners -> Job]
      /\ next' \in 1 .. Len(Databases) + 1
  <2>1. CASE TakeDatabase(w)
    BY <2>1, TakeDatabaseType
  <2>2. CASE /\ pc' = [pc EXCEPT ![w] = "ended"] /\ job' = [job EXCEPT ![w] = NoJob]
             /\ UNCHANGED next
    BY <1>1, <2>2, NoJobIsJob DEF Types, Points
  <2> QED
    BY <2>1, <2>2 DEF Record
<1> QED
  BY <1>2, <1>3, <1>4 DEF Types, Record, stageVars, limiterVars

LEMMA TakeTypes ==
  ASSUME Types, NEW w \in Runners, Take(w)
  PROVE  Types'
<1>1. /\ pc' \in [Requests -> Points] /\ job' \in [Runners -> Job]
      /\ next' \in 1 .. Len(Databases) + 1
  BY TakeDatabaseType DEF Take
<1> QED
  BY <1>1 DEF Types, Take, stageVars, limiterVars, sessionVars

LEMMA TypesKept ==
  ASSUME Types, Jobs, Serial, Next
  PROVE  Types'
<1>1. CASE Refresh
  BY <1>1, ProbingTypes, ClosingTypes DEF Refresh
<1>2. ASSUME NEW w \in Runners, Worker(w)
      PROVE  Types'
  <2>1. w \in Requests
    BY Constants
  <2>2. CASE Take(w)
    BY <2>2, TakeTypes
  <2>3. CASE Request(w) \/ Wake(w)
    BY <2>1, <2>3, RequestTypes, WakeTypes
  <2>4. CASE TurnComes(w) \/ Connected(w)
    BY <2>4, SessionTypes
  <2>5. CASE ConnectFails(w)
    <3>1. connection' \in [Runners -> {"none", "opening", "open", "closed"}]
      BY <2>5 DEF ConnectFails, Types
    <3> QED
      BY <2>5, <3>1, SettlesTypes DEF ConnectFails
  <2>6. CASE QueryEnds(w)
    <3>1. connection' \in [Runners -> {"none", "opening", "open", "closed"}]
      BY <2>6 DEF QueryEnds, Types
    <3> QED
      BY <2>6, <3>1, SettlesTypes DEF QueryEnds
  <2>7. CASE Record(w)
    BY <2>7, RecordTypes
  <2> QED
    BY <1>2, <2>2, <2>3, <2>4, <2>5, <2>6, <2>7 DEF Worker
<1>3. ASSUME NEW o \in Others, OtherStarts(o) \/ Other(o)
      PROVE  Types'
  <2>1. o \in Requests
    BY Constants
  <2> QED
    BY <1>3, <2>1, OtherTypes, RequestTypes, WakeTypes DEF Other
<1> QED
  BY <1>1, <1>2, <1>3 DEF Next

--------------------------------------------------------------------------------
(* A step moves one request, and only its own job; probing moves nobody.       *)

OnlyMoves(r) ==
  /\ \A q \in Requests \ {r} : pc'[q] = pc[q]
  /\ \A w \in Runners \ {r} : job'[w] = job[w]
  /\ UNCHANGED << stage, ready >>

LEMMA EnterMoves ==
  ASSUME Types, NEW r \in Requests, Enter(r), UNCHANGED << stage, ready, job >>
  PROVE  /\ OnlyMoves(r)
         /\ pc'[r] = IF r \in Others THEN "querying" ELSE "chained"
<1>1. pc' = [pc EXCEPT ![r] = IF r \in Others THEN "querying" ELSE "chained"]
  BY DEF Enter
<1> QED
  BY <1>1 DEF OnlyMoves, Types

LEMMA RequestMoves ==
  ASSUME Types, NEW r \in Requests, Request(r)
  PROVE  OnlyMoves(r) /\ UNCHANGED job /\ pc[r] = "request" /\ pc'[r] \in {"waiting"} \union Counts
<1>1. UNCHANGED << stage, ready, job >> /\ pc[r] = "request"
  BY DEF Request, stageVars, workVars
<1>2. CASE pc' = [pc EXCEPT ![r] = "waiting"]
  BY <1>1, <1>2 DEF OnlyMoves, Types
<1>3. CASE Enter(r)
  BY <1>1, <1>3, EnterMoves DEF Counts
<1> QED
  BY <1>1, <1>2, <1>3 DEF Request

LEMMA WakeMoves ==
  ASSUME Types, Waiters, NEW r \in Requests, Wake(r)
  PROVE  OnlyMoves(r) /\ UNCHANGED job /\ pc[r] = "waiting" /\ pc'[r] \in Counts
<1>1. UNCHANGED << stage, ready, job >> /\ Enter(r)
  BY DEF Wake, stageVars, workVars
<1>2. pc[r] = "waiting"
  BY KeyIsKey DEF Wake, Waiters, WaitersOf, Waits
<1> QED
  BY <1>1, <1>2, EnterMoves DEF Counts

LEMMA SessionMoves ==
  ASSUME Types, NEW w \in Runners, TurnComes(w) \/ Connected(w)
  PROVE  OnlyMoves(w) /\ UNCHANGED job /\ pc[w] \in Counts /\ pc'[w] \in Counts
<1>1. w \in Requests
  BY Constants
<1> QED
  BY <1>1 DEF OnlyMoves, Types, TurnComes, Connected, stageVars, workVars, Counts

LEMMA TakeDatabaseMoves ==
  ASSUME Types, NEW w \in Runners, TakeDatabase(w), UNCHANGED << stage, ready >>
  PROVE  /\ OnlyMoves(w)
         /\ \/ pc'[w] = "ended" /\ next > Len(Databases) /\ next' = next
            \/ pc'[w] = "next" /\ next <= Len(Databases) /\ Databases[next] \in dead /\ next' = next + 1
            \/ /\ pc'[w] = "request" /\ next <= Len(Databases) /\ next' = next + 1
               /\ job'[w] = Attempt(Databases[next], w)
<1>1. w \in Requests
  BY Constants
<1> QED
  BY <1>1 DEF OnlyMoves, Types, TakeDatabase

LEMMA SettlesMoves ==
  ASSUME Types, NEW w \in Runners, NEW result, QuerySettles(w, result)
  PROVE  OnlyMoves(w) /\ pc'[w] \in {"request", "record"}
<1>1. w \in Requests
  BY Constants
<1> QED
  BY <1>1 DEF OnlyMoves, Types, QuerySettles, EndAttempt, stageVars

LEMMA OtherMoves ==
  ASSUME Types, NEW o \in Others, OtherStarts(o) \/ OtherEnds(o)
  PROVE  OnlyMoves(o) /\ UNCHANGED job /\ pc[o] \in {"idle", "querying"} /\ pc'[o] \in {"request", "ended"}
<1>1. o \in Requests
  BY Constants
<1> QED
  BY <1>1 DEF OnlyMoves, Types, OtherStarts, OtherEnds, stageVars, workVars

--------------------------------------------------------------------------------
(* Jobs is kept. *)

LEMMA JobsFrame ==
  ASSUME Jobs, NEW r \in Requests, OnlyMoves(r), \A d \in Names : cached[d] \subseteq cached'[d],
         r \in Runners => JobFits(r)'
  PROVE  Jobs'
<1> SUFFICES ASSUME NEW w \in Runners PROVE JobFits(w)'
  BY DEF Jobs
<1>1. CASE w = r
  BY <1>1
<1>2. CASE w # r
  <2>1. pc'[w] = pc[w] /\ job'[w] = job[w]
    BY <1>2, Constants DEF OnlyMoves
  <2>2. JobFits(w)
    BY DEF Jobs
  <2>3. pc[w] = "record" => job[w].db \in Names
    BY <2>2 DEF JobFits, Working
  <2> QED
    BY <2>1, <2>2, <2>3 DEF JobFits, Fetched
<1> QED
  BY <1>1, <1>2

LEMMA AttemptFits ==
  ASSUME NEW w \in Runners, NEW d \in Names, NEW s \in {w, 0}, pc'[w] = "request", job'[w] = Attempt(d, s)
  PROVE  JobFits(w)'
<1>1. 1 \in 1 .. QueriesOf(d) /\ 1 .. (1 - 1) \subseteq {}
  BY DEF QueriesOf
<1>2. /\ job'[w].db = d /\ job'[w].slot = s /\ job'[w].query = 1
      /\ job'[w].main = TRUE /\ job'[w].ok = TRUE /\ job'[w].rows = {}
  BY DEF Attempt
<1> QED
  BY <1>1, <1>2 DEF JobFits

LEMMA TakeDatabaseFits ==
  ASSUME Types, NEW w \in Runners, TakeDatabase(w), UNCHANGED << stage, ready >>
  PROVE  JobFits(w)'
<1>1. CASE pc'[w] \in {"ended", "next"}
  BY <1>1 DEF JobFits, Working, Asking, Counts
<1>2. CASE next <= Len(Databases) /\ pc'[w] = "request" /\ job'[w] = Attempt(Databases[next], w)
  <2>1. Databases[next] \in Names
    BY <1>2, Constants DEF Types
  <2> QED
    BY <1>2, <2>1, AttemptFits
<1> QED
  BY <1>1, <1>2, TakeDatabaseMoves

(* What the outcome of a query adds to an attempt.                             *)
LEMMA OutcomeFits ==
  ASSUME Types, Jobs, NEW w \in Runners, pc[w] \in Asking, NEW result \in {"rows", "error", "unreadable"}
  PROVE  LET j == Outcome(job[w], result)
         IN  /\ j \in Job /\ j.db = job[w].db /\ j.slot = job[w].slot /\ j.query = job[w].query
             /\ j.db \in Names /\ j.slot \in {w, 0} /\ j.query \in 1 .. QueriesOf(j.db)
             /\ j.ok => j.main /\ 1 .. j.query \subseteq j.rows
<1> DEFINE j == Outcome(job[w], result)
<1>1. /\ job[w] \in Job /\ job[w].query \in 1 .. QueriesOf(job[w].db) /\ job[w].db \in Names
      /\ job[w].slot \in {w, 0} /\ job[w].main
      /\ job[w].ok => 1 .. (job[w].query - 1) \subseteq job[w].rows
  BY DEF Types, Jobs, JobFits, Working
<1>2. job[w].query \in {1, 2}
  BY <1>1 DEF Job, QueriesOf
<1>3. j \in Job
  BY <1>1, <1>2, OutcomeType
<1>4. j.db = job[w].db /\ j.slot = job[w].slot /\ j.query = job[w].query
  BY <1>1 DEF Outcome, Job
<1>5. j.ok => job[w].ok /\ result = "rows"
  BY <1>1 DEF Outcome, Job
<1>6. j.main = (job[w].main /\ ~ (job[w].query = 1 /\ result = "unreadable"))
  BY <1>1 DEF Outcome, Job
<1>7. j.rows = IF result = "rows" THEN job[w].rows \union {job[w].query} ELSE job[w].rows
  BY <1>1 DEF Outcome, Job
<1>8. j.ok => j.main
  BY <1>1, <1>5, <1>6
<1>9. j.ok => 1 .. j.query \subseteq j.rows
  <2>1. 1 .. job[w].query = (1 .. (job[w].query - 1)) \union {job[w].query}
    BY <1>2
  <2> QED
    BY <1>1, <1>4, <1>5, <1>7, <2>1
<1> QED
  BY <1>1, <1>3, <1>4, <1>8, <1>9

LEMMA SettlesCache ==
  ASSUME Types, NEW w \in Runners, NEW result, QuerySettles(w, result)
  PROVE  \A d \in Names : cached[d] \subseteq cached'[d]
<1>1. CASE UNCHANGED cached
  BY <1>1
<1>2. CASE EndAttempt(w, Outcome(job[w], result))
  BY <1>2 DEF EndAttempt, Types
<1> QED
  BY <1>1, <1>2 DEF QuerySettles

LEMMA SettlesFits ==
  ASSUME Types, Jobs, NEW w \in Runners, pc[w] \in Asking,
         NEW result \in {"rows", "error", "unreadable"}, QuerySettles(w, result)
  PROVE  JobFits(w)'
<1> DEFINE j == Outcome(job[w], result)
<1>1. /\ j \in Job /\ j.db \in Names /\ j.slot \in {w, 0} /\ j.query \in 1 .. QueriesOf(j.db)
      /\ j.ok => j.main /\ 1 .. j.query \subseteq j.rows
  BY OutcomeFits
<1> HIDE DEF j
<1>2. w \in Requests /\ job \in [Runners -> Job] /\ pc \in [Requests -> Points]
  BY Constants DEF Types
<1>3. CASE /\ j.query < QueriesOf(j.db) /\ j.main
           /\ job' = [job EXCEPT ![w] = [j EXCEPT !.query = @ + 1]]
           /\ pc' = [pc EXCEPT ![w] = "request"]
  <2>1. job'[w] = [j EXCEPT !.query = @ + 1] /\ pc'[w] = "request"
    BY <1>2, <1>3
  <2>2. /\ job'[w].db = j.db /\ job'[w].slot = j.slot /\ job'[w].query = j.query + 1
        /\ job'[w].main = j.main /\ job'[w].ok = j.ok /\ job'[w].rows = j.rows
    BY <1>1, <2>1 DEF Job
  <2>3. j.query + 1 \in 1 .. QueriesOf(j.db) /\ (j.query + 1) - 1 = j.query
    BY <1>1, <1>3 DEF QueriesOf
  <2> QED
    BY <1>1, <1>3, <2>1, <2>2, <2>3 DEF JobFits
<1>4. CASE job' = [job EXCEPT ![w] = Attempt(j.db, 0)] /\ pc' = [pc EXCEPT ![w] = "request"]
  BY <1>1, <1>2, <1>4, AttemptFits
<1>5. CASE /\ j.query = QueriesOf(j.db) \/ ~ j.main
           /\ cached' = [cached EXCEPT ![j.db] = @ \union j.rows]
           /\ job' = [job EXCEPT ![w] = [j EXCEPT !.query = 0, !.rows = {}]]
           /\ pc' = [pc EXCEPT ![w] = "record"]
  <2>1. job'[w] = [j EXCEPT !.query = 0, !.rows = {}] /\ pc'[w] = "record"
    BY <1>2, <1>5
  <2>2. job'[w].db = j.db /\ job'[w].slot = j.slot /\ job'[w].ok = j.ok
    BY <1>1, <2>1 DEF Job
  <2>3. cached'[j.db] = cached[j.db] \union j.rows
    BY <1>1, <1>5 DEF Types
  <2>4. j.ok => 1 .. QueriesOf(j.db) \subseteq cached'[j.db]
    BY <1>1, <1>5, <2>3
  <2> QED
    BY <1>1, <2>1, <2>2, <2>4 DEF JobFits, Asking, Counts, Fetched
<1> QED
  BY <1>3, <1>4, <1>5 DEF QuerySettles, EndAttempt, j

LEMMA JobsKept ==
  ASSUME Types, Jobs, Waiters, Next
  PROVE  Jobs'
<1>1. CASE Refresh
  <2>1. CASE UNCHANGED << pc, job, cached >>
    BY <2>1 DEF Jobs, JobFits, Fetched
  <2>2. CASE ProbingEnds
    <3>1. UNCHANGED << job, cached >> /\ \A w \in Runners : pc'[w] = "next" \/ pc'[w] = pc[w]
      BY <2>2, Constants DEF ProbingEnds, workVars
    <3> QED
      BY <3>1 DEF Jobs, JobFits, Fetched, Working, Asking, Counts
  <2> QED
    BY <1>1, <2>1, <2>2 DEF Refresh, Probe, ProbeSettles, ColumnsEnd, CloseSession, workVars
<1>2. ASSUME NEW w \in Runners, Worker(w)
      PROVE  Jobs'
  <2>1. w \in Requests /\ JobFits(w)
    BY Constants DEF Jobs
  <2>2. CASE Take(w)
    <3>1. UNCHANGED << stage, ready, cached >> /\ TakeDatabase(w)
      BY <2>2 DEF Take, stageVars
    <3> QED
      BY <2>1, <3>1, TakeDatabaseMoves, TakeDatabaseFits, JobsFrame
  <2>3. CASE Request(w) \/ Wake(w) \/ TurnComes(w) \/ Connected(w)
    <3>1. /\ OnlyMoves(w) /\ UNCHANGED << job, cached >>
          /\ pc[w] \in Asking /\ pc'[w] \in Asking
      <4>1. UNCHANGED cached
        BY <2>3 DEF Request, Wake, TurnComes, Connected, workVars
      <4> QED
        BY <2>1, <2>3, <4>1, RequestMoves, WakeMoves, SessionMoves DEF Asking
    <3>2. JobFits(w)'
      BY <2>1, <3>1 DEF JobFits, Working, Asking, Counts
    <3> QED
      BY <2>1, <3>1, <3>2, JobsFrame
  <2>4. CASE ConnectFails(w) \/ QueryEnds(w)
    <3>1. PICK result \in {"rows", "error", "unreadable"} : QuerySettles(w, result)
      BY <2>4 DEF ConnectFails, QueryEnds
    <3>2. pc[w] \in Asking
      BY <2>4 DEF ConnectFails, QueryEnds, Asking, Counts
    <3> QED
      BY <2>1, <3>1, <3>2, SettlesMoves, SettlesFits, SettlesCache, JobsFrame
  <2>5. CASE Record(w)
    <3>1. UNCHANGED << stage, ready, cached >>
      BY <2>5 DEF Record, stageVars
    <3>2. CASE TakeDatabase(w)
      BY <2>1, <3>1, <3>2, TakeDatabaseMoves, TakeDatabaseFits, JobsFrame
    <3>3. CASE pc' = [pc EXCEPT ![w] = "ended"] /\ job' = [job EXCEPT ![w] = NoJob]
      <4>1. OnlyMoves(w) /\ pc'[w] = "ended"
        BY <2>1, <3>1, <3>3 DEF OnlyMoves, Types
      <4>2. JobFits(w)'
        BY <4>1 DEF JobFits, Working, Asking, Counts
      <4> QED
        BY <2>1, <3>1, <4>1, <4>2, JobsFrame
    <3> QED
      BY <2>5, <3>2, <3>3 DEF Record
  <2> QED
    BY <1>2, <2>2, <2>3, <2>4, <2>5 DEF Worker
<1>3. ASSUME NEW o \in Others, OtherStarts(o) \/ Other(o)
      PROVE  Jobs'
  <2>1. o \in Requests /\ o \notin Runners
    BY Constants, RunnersAssumption
  <2>2. UNCHANGED cached
    BY <1>3 DEF Other, OtherStarts, OtherEnds, Request, Wake, workVars
  <2>3. OnlyMoves(o)
    BY <1>3, <2>1, RequestMoves, WakeMoves, OtherMoves DEF Other
  <2> QED
    BY <2>1, <2>2, <2>3, JobsFrame
<1> QED
  BY <1>1, <1>2, <1>3 DEF Next

--------------------------------------------------------------------------------
(* Staged and Serial are kept. *)

LEMMA WorkerMoves ==
  ASSUME Types, Waiters, NEW w \in Runners, Worker(w)
  PROVE  OnlyMoves(w) /\ pc[w] \notin {"idle", "ended"}
<1>1. w \in Requests
  BY Constants
<1>2. CASE Take(w)
  <2>1. UNCHANGED << stage, ready >>
    BY <1>2 DEF Take, stageVars
  <2> QED
    BY <1>2, <2>1, TakeDatabaseMoves DEF Take
<1>3. CASE Request(w) \/ Wake(w) \/ TurnComes(w) \/ Connected(w)
  BY <1>1, <1>3, RequestMoves, WakeMoves, SessionMoves DEF Counts
<1>4. CASE ConnectFails(w) \/ QueryEnds(w)
  BY <1>4, SettlesMoves DEF ConnectFails, QueryEnds
<1>5. CASE Record(w)
  <2>1. UNCHANGED << stage, ready >> /\ pc[w] = "record"
    BY <1>5 DEF Record, stageVars
  <2>2. CASE pc' = [pc EXCEPT ![w] = "ended"] /\ job' = [job EXCEPT ![w] = NoJob]
    BY <1>1, <2>1, <2>2 DEF OnlyMoves, Types
  <2> QED
    BY <1>5, <2>1, <2>2, TakeDatabaseMoves DEF Record
<1> QED
  BY <1>2, <1>3, <1>4, <1>5 DEF Worker

LEMMA OtherStep ==
  ASSUME Types, Waiters, NEW o \in Others, OtherStarts(o) \/ Other(o)
  PROVE  OnlyMoves(o) /\ UNCHANGED << job, chain, connection >> /\ o \in Requests /\ o \notin Runners
<1>1. o \in Requests /\ o \notin Runners
  BY Constants, RunnersAssumption
<1>2. UNCHANGED << chain, connection >>
  BY DEF Other, OtherStarts, OtherEnds, Request, Wake, Enter, sessionVars
<1> QED
  BY <1>1, <1>2, RequestMoves, WakeMoves, OtherMoves DEF Other

(* In the steps of the refresh itself nobody has a query.                      *)
LEMMA RefreshIsQuiet ==
  ASSUME Types, Staged, Refresh
  PROVE  \A w \in Runners : pc[w] \in {"idle", "ended"} /\ pc'[w] \in {"idle", "next", "ended"}
<1>1. CASE Probe \/ ProbeSettles \/ ProbingEnds
  <2>1. stage = "probing" /\ (UNCHANGED pc \/ \A w \in Runners : pc'[w] \in {pc[w], "next"})
    BY <1>1, Constants DEF Probe, ProbeSettles, ProbingEnds
  <2> QED
    BY <2>1 DEF Staged
<1>2. CASE ColumnsEnd \/ CloseSession
  BY <1>2 DEF ColumnsEnd, CloseSession, Staged
<1> QED
  BY <1>1, <1>2 DEF Refresh

LEMMA StagedKept ==
  ASSUME Types, Waiters, Staged, Next
  PROVE  Staged'
<1>1. ASSUME NEW r \in Requests, OnlyMoves(r), r \in Runners => pc[r] \notin {"idle", "ended"}
      PROVE  Staged'
  <2>1. ASSUME NEW w \in Runners PROVE w # r => pc'[w] = pc[w]
    BY <1>1, Constants DEF OnlyMoves
  <2>2. UNCHANGED << stage, ready >>
    BY <1>1 DEF OnlyMoves
  <2> QED
    BY <1>1, <2>1, <2>2 DEF Staged, Types
<1>2. CASE Refresh
  <2>1. 0 \in ready'
    BY <1>2 DEF Staged, Refresh, Probe, ProbeSettles, ProbingEnds, ColumnsEnd, CloseSession, stageVars
  <2>2. CASE Probe \/ ProbeSettles
    BY <2>1, <2>2, RefreshIsQuiet DEF Staged, Probe, ProbeSettles, stageVars, Refresh
  <2>3. CASE ProbingEnds
    BY <2>1, <2>3, Constants DEF Staged, ProbingEnds
  <2>4. CASE ColumnsEnd \/ CloseSession
    BY <2>1, <2>4 DEF Staged, ColumnsEnd, CloseSession
  <2> QED
    BY <1>2, <2>2, <2>3, <2>4 DEF Refresh
<1>3. ASSUME NEW w \in Runners, Worker(w) PROVE Staged'
  BY <1>1, <1>3, WorkerMoves, Constants
<1>4. ASSUME NEW o \in Others, OtherStarts(o) \/ Other(o) PROVE Staged'
  BY <1>1, <1>4, OtherStep
<1> QED
  BY <1>2, <1>3, <1>4 DEF Next

(* A step that leaves the chains and the connections of the others alone.      *)
LEMMA SerialFrame ==
  ASSUME Types, Serial, NEW w \in Runners, OnlyMoves(w), UNCHANGED chain,
         pc'[w] \notin Counts,
         \A v \in Runners \ {w} : pc[v] = "querying" => connection'[job[v].slot] = "open"
  PROVE  Serial'
<1>1. \A v \in Runners \ {w} : pc'[v] = pc[v] /\ job'[v] = job[v]
  BY Constants DEF OnlyMoves
<1> QED
  BY <1>1 DEF Serial, Counts

LEMMA EnterSerial ==
  ASSUME Types, Serial, NEW w \in Runners, Enter(w), UNCHANGED << stage, ready, job, connection >>
  PROVE  Serial'
<1> DEFINE s == job[w].slot
<1>1. w \in Requests /\ w \notin Others /\ s \in Runners
  BY Constants, RunnersAssumption DEF Types, Job
<1>2. /\ OnlyMoves(w) /\ pc'[w] = "chained"
      /\ chain' = [chain EXCEPT ![s] = Append(chain[s], w)]
  BY <1>1, EnterMoves DEF Enter
<1>3. chain[s] \in Seq(Runners)
  BY <1>1 DEF Types
<1>4. /\ Len(chain'[s]) = Len(chain[s]) + 1 /\ chain'[s] # << >>
      /\ chain'[s][Len(chain[s]) + 1] = w
      /\ \A i \in 1 .. Len(chain[s]) : chain'[s][i] = chain[s][i]
      /\ chain[s] # << >> => Head(chain'[s]) = Head(chain[s])
  <2>1. chain'[s] = Append(chain[s], w)
    BY <1>1, <1>2 DEF Types
  <2> QED
    BY SMTT(30), <1>3, <2>1, AppendProperties, HeadTailAppend, LenProperties
<1>5. \A t \in Runners \ {s} : chain'[t] = chain[t]
  BY <1>2 DEF Types
<1>6. \A v \in Runners : v # w => pc'[v] = pc[v]
  BY <1>2, Constants DEF OnlyMoves
<1>7. \A v \in Runners : job[v].slot \in Runners
  BY DEF Types, Job
<1> HIDE DEF s
<1>8. ASSUME NEW v \in Runners, pc'[v] \in Counts
      PROVE  \E i \in 1 .. Len(chain'[job[v].slot]) : chain'[job[v].slot][i] = v
  <2>1. CASE v = w
    BY <1>3, <1>4, <2>1, LenProperties DEF s
  <2>2. CASE v # w
    <3>1. PICK i \in 1 .. Len(chain[job[v].slot]) : chain[job[v].slot][i] = v
      BY <1>6, <1>8, <2>2 DEF Serial
    <3>2. CASE job[v].slot = s
      <4>1. i \in 1 .. Len(chain'[s])
        BY <1>3, <1>4, <3>1, <3>2, LenProperties
      <4> QED
        BY <1>4, <3>1, <3>2, <4>1
    <3>3. CASE job[v].slot # s
      BY <1>5, <1>7, <3>1, <3>3
    <3> QED
      BY <3>2, <3>3
  <2> QED
    BY <2>1, <2>2
<1>9. ASSUME NEW v \in Runners, pc'[v] \in {"connecting", "querying"}
      PROVE  chain'[job[v].slot] # << >> /\ Head(chain'[job[v].slot]) = v
  BY <1>2, <1>4, <1>5, <1>6, <1>7, <1>9 DEF Serial
<1>10. ASSUME NEW v \in Runners, pc'[v] = "querying"
       PROVE  connection[job[v].slot] = "open"
  BY <1>2, <1>6, <1>10 DEF Serial
<1> QED
  BY <1>8, <1>9, <1>10 DEF Serial

LEMMA HeadIsFirst ==
  ASSUME NEW S, NEW s \in Seq(S), s # << >>
  PROVE  Head(s) = s[1] /\ Len(s) \in Nat \ {0}
BY EmptySeq, LenProperties

LEMMA SettlesSerial ==
  ASSUME Types, Serial, NEW w \in Runners, pc[w] \in {"connecting", "querying"},
         NEW result, QuerySettles(w, result),
         \A t \in Runners \ {job[w].slot} : connection'[t] = connection[t]
  PROVE  Serial'
<1> DEFINE s == job[w].slot
<1>1. s \in Runners /\ chain[s] \in Seq(Runners) /\ chain[s] # << >> /\ Head(chain[s]) = w
  BY DEF Types, Job, Serial
<1>2. Outcome(job[w], result).slot = s
  BY DEF Outcome, Types, Job
<1>3. chain' = [chain EXCEPT ![s] = Tail(chain[s])]
  BY <1>2 DEF QuerySettles
<1>4. OnlyMoves(w) /\ pc'[w] \notin Counts
  BY SettlesMoves DEF Counts
<1>5. \A v \in Runners \ {w} : pc'[v] = pc[v] /\ job'[v] = job[v]
  BY <1>4, Constants DEF OnlyMoves
<1>6. chain'[s] = Tail(chain[s]) /\ \A t \in Runners \ {s} : chain'[t] = chain[t]
  BY <1>1, <1>3 DEF Types
<1>7. /\ Len(chain[s]) \in Nat \ {0} /\ chain[s][1] = w
      /\ Len(chain'[s]) = Len(chain[s]) - 1
      /\ \A i \in 1 .. Len(chain'[s]) : chain'[s][i] = chain[s][i + 1]
  BY <1>1, <1>6, HeadIsFirst, HeadTailProperties
<1>8. \A v \in Runners : job[v].slot \in Runners
  BY DEF Types, Job
<1>9. \A v \in Runners \ {w} : pc[v] \in {"connecting", "querying"} => job[v].slot # s
  BY <1>1 DEF Serial
<1> HIDE DEF s
<1>10. ASSUME NEW v \in Runners, pc'[v] \in Counts
       PROVE  \E i \in 1 .. Len(chain'[job'[v].slot]) : chain'[job'[v].slot][i] = v
  <2>1. v # w /\ pc[v] \in Counts /\ job'[v] = job[v]
    BY <1>4, <1>5, <1>10
  <2>2. PICK i \in 1 .. Len(chain[job[v].slot]) : chain[job[v].slot][i] = v
    BY <2>1 DEF Serial
  <2>3. CASE job[v].slot = s
    <3>1. i # 1
      BY <1>7, <2>1, <2>2, <2>3
    <3>2. i - 1 \in 1 .. Len(chain'[s]) /\ (i - 1) + 1 = i
      BY <1>7, <2>2, <2>3, <3>1
    <3>3. chain'[s][i - 1] = v
      BY <1>7, <2>2, <2>3, <3>2
    <3> QED
      BY <2>1, <2>3, <3>2, <3>3
  <2>4. CASE job[v].slot # s
    BY <1>6, <1>8, <2>1, <2>2, <2>4
  <2> QED
    BY <2>3, <2>4
<1>11. ASSUME NEW v \in Runners, pc'[v] \in {"connecting", "querying"}
       PROVE  /\ chain'[job'[v].slot] # << >> /\ Head(chain'[job'[v].slot]) = v
              /\ pc'[v] = "querying" => connection'[job'[v].slot] = "open"
  <2>1. v # w /\ pc[v] = pc'[v] /\ job'[v] = job[v]
    BY <1>4, <1>5, <1>11 DEF Counts
  <2>2. job[v].slot \in Runners \ {s}
    BY <1>8, <1>9, <1>11, <2>1
  <2>3. connection'[job[v].slot] = connection[job[v].slot]
    BY <2>2 DEF s
  <2> QED
    BY <1>6, <1>11, <2>1, <2>2, <2>3 DEF Serial
<1> QED
  BY <1>10, <1>11 DEF Serial

LEMMA SerialKept ==
  ASSUME Types, Staged, Waiters, Serial, Next
  PROVE  Serial'
<1>1. CASE Refresh
  BY <1>1, RefreshIsQuiet DEF Serial, Counts
<1>2. ASSUME NEW w \in Runners, Worker(w)
      PROVE  Serial'
  <2>1. w \in Requests /\ OnlyMoves(w)
    BY <1>2, Constants, WorkerMoves
  <2>2. CASE Take(w)
    <3>1. pc'[w] \notin Counts /\ UNCHANGED << chain, connection >>
      BY <2>1, <2>2 DEF Take, TakeDatabase, Counts, Types, sessionVars
    <3> QED
      BY <2>1, <3>1, SerialFrame DEF Serial
  <2>3. CASE Request(w)
    <3>1. UNCHANGED << stage, ready, job, connection >>
      BY <2>3 DEF Request, stageVars, workVars
    <3>2. CASE Enter(w)
      BY <3>1, <3>2, EnterSerial
    <3>3. CASE pc' = [pc EXCEPT ![w] = "waiting"] /\ UNCHANGED chain
      <4>1. pc'[w] \notin Counts
        BY <2>1, <3>3 DEF Types, Counts
      <4> QED
        BY <2>1, <3>1, <3>3, <4>1, SerialFrame DEF Serial
    <3> QED
      BY <2>3, <3>2, <3>3 DEF Request
  <2>4. CASE Wake(w)
    BY <2>4, EnterSerial DEF Wake, stageVars, workVars
  <2>5. CASE TurnComes(w) \/ Connected(w)
    <3>1. /\ pc[w] \in Counts /\ UNCHANGED << job, chain >> /\ job[w].slot \in Runners
          /\ chain[job[w].slot] \in Seq(Runners)
      BY <2>5 DEF TurnComes, Connected, Counts, workVars, Types, Job
    <3>2. PICK i \in 1 .. Len(chain[job[w].slot]) : chain[job[w].slot][i] = w
      BY <3>1 DEF Serial
    <3>3. chain[job[w].slot] # << >>
      BY <3>1, <3>2, EmptySeq
    <3>4. Head(chain[job[w].slot]) = w
      BY <2>5 DEF TurnComes, Connected, IsTurn, Serial
    <3>5. \A v \in Runners : v # w => pc'[v] = pc[v]
      BY <2>1, Constants DEF OnlyMoves
    <3>6. \A v \in Runners : connection[job[v].slot] = "open" => connection'[job[v].slot] = "open"
      BY <2>5 DEF TurnComes, Connected, Types, Job
    <3>7. pc'[w] = "querying" => connection'[job[w].slot] = "open"
      BY <2>1, <2>5, <3>1 DEF TurnComes, Connected, Types
    <3> QED
      BY <3>1, <3>3, <3>4, <3>5, <3>6, <3>7 DEF Serial
  <2>6. CASE ConnectFails(w)
    <3>1. \A t \in Runners \ {job[w].slot} : connection'[t] = connection[t]
      BY <2>6 DEF ConnectFails, Types
    <3> QED
      BY <2>6, <3>1, SettlesSerial DEF ConnectFails
  <2>7. CASE QueryEnds(w)
    BY <2>7, SettlesSerial DEF QueryEnds
  <2>8. CASE Record(w)
    <3>1. pc'[w] \notin Counts /\ UNCHANGED chain
      BY <2>1, <2>8 DEF Record, TakeDatabase, Counts, Types
    <3>2. \A t \in Runners : connection'[t] = connection[t] \/ chain[t] = << >>
      BY <2>8 DEF Record, Types
    <3>3. \A v \in Runners \ {w} : pc[v] = "querying" => connection'[job[v].slot] = "open"
      BY <3>2 DEF Serial, Types, Job
    <3> QED
      BY <2>1, <3>1, <3>3, SerialFrame
  <2> QED
    BY <1>2, <2>2, <2>3, <2>4, <2>5, <2>6, <2>7, <2>8 DEF Worker
<1>3. ASSUME NEW o \in Others, OtherStarts(o) \/ Other(o)
      PROVE  Serial'
  <2>1. OnlyMoves(o) /\ UNCHANGED << job, chain, connection >> /\ o \notin Runners
    BY <1>3, OtherStep
  <2>2. \A w \in Runners : pc'[w] = pc[w]
    BY <2>1, Constants DEF OnlyMoves
  <2> QED
    BY <2>1, <2>2 DEF Serial
<1> QED
  BY <1>1, <1>2, <1>3 DEF Next

--------------------------------------------------------------------------------
(* Waiters is kept. *)

LEMMA KeyKeeps ==
  ASSUME NEW q \in Requests, NEW r, OnlyMoves(r), q # r \/ UNCHANGED job
  PROVE  KeyOf(q)' = KeyOf(q)
BY DEF OnlyMoves, KeyOf, Requests

LEMMA WaitsKeep ==
  ASSUME NEW r \in Requests, OnlyMoves(r), NEW k
  PROVE  \A q \in Requests : q # r /\ Waits(q, k) => Waits(q, k)'
BY KeyKeeps DEF Waits, OnlyMoves

LEMMA Listed ==
  ASSUME Types, Waiters, NEW k \in Keys
  PROVE  /\ waiting[k] \in Seq(Requests) /\ Len(waiting[k]) \in Nat
         /\ \A i \in 1 .. Len(waiting[k]) : waiting[k][i] \in Requests /\ Waits(waiting[k][i], k)
         /\ \A q \in woken[k] : q \in Requests /\ Waits(q, k)
<1>1. waiting[k] \in Seq(Requests) /\ woken[k] \in SUBSET Requests
  BY DEF Types
<1>2. Len(waiting[k]) \in Nat /\ \A i \in 1 .. Len(waiting[k]) : waiting[k][i] \in Requests
  BY <1>1, LenProperties, ElementOfSeq
<1> QED
  BY <1>1, <1>2 DEF Waiters, WaitersOf

(* The list of k is as it was, and the one who moves is not in it.             *)
LEMMA WaitersFrame ==
  ASSUME Types, Waiters, NEW r \in Requests, OnlyMoves(r), NEW k \in Keys,
         waiting'[k] = waiting[k], woken'[k] = woken[k], ~ Waits(r, k)
  PROVE  WaitersOf(k)'
<1>1. \A i \in 1 .. Len(waiting[k]) : Waits(waiting[k][i], k)'
  <2> SUFFICES ASSUME NEW i \in 1 .. Len(waiting[k]), NEW q \in Requests, q = waiting[k][i]
               PROVE  Waits(q, k)'
    BY Listed
  <2> QED
    BY Listed, WaitsKeep
<1>2. \A q \in woken[k] : Waits(q, k)'
  BY Listed, WaitsKeep
<1>3. WaitersOf(k)
  BY DEF Waiters
<1> QED
  BY <1>1, <1>2, <1>3 DEF WaitersOf

LEMMA WaitersRequest ==
  ASSUME Types, Waiters, NEW r \in Requests, Request(r)
  PROVE  Waiters'
<1> SUFFICES ASSUME NEW k \in Keys PROVE WaitersOf(k)'
  BY DEF Waiters
<1>1. OnlyMoves(r) /\ UNCHANGED << job, woken >> /\ pc[r] = "request"
  BY RequestMoves DEF Request
<1>2. ~ Waits(r, k) /\ WaitersOf(k)
  BY <1>1 DEF Waits, Waiters
<1>3. CASE waiting'[k] = waiting[k]
  BY <1>1, <1>2, <1>3, WaitersFrame
<1>4. CASE /\ k = KeyOf(r) /\ pc' = [pc EXCEPT ![r] = "waiting"]
           /\ waiting' = [waiting EXCEPT ![k] = Append(@, r)]
  <2> DEFINE n == Len(waiting[k])
  <2>1. waiting[k] \in Seq(Requests) /\ n \in Nat
    BY Listed
  <2>2. waiting'[k] = Append(waiting[k], r)
    BY <1>4 DEF Types
  <2>3. /\ Len(waiting'[k]) = n + 1 /\ waiting'[k][n + 1] = r
        /\ \A i \in 1 .. n : waiting'[k][i] = waiting[k][i]
    BY <2>1, <2>2, AppendProperties
  <2>4. Waits(r, k)'
    <3>1. KeyOf(r)' = KeyOf(r)
      BY <1>1, KeyKeeps
    <3>2. pc'[r] = "waiting"
      BY <1>4 DEF Types
    <3> QED
      BY <1>4, <3>1, <3>2 DEF Waits
  <2>5. ASSUME NEW i \in 1 .. n
        PROVE  waiting[k][i] # r /\ pc'[waiting[k][i]] = "waiting" /\ waiting[k][i] \notin woken[k]
    <3>1. PICK q \in Requests : q = waiting[k][i]
      BY Listed
    <3>2. Waits(q, k) /\ q # r
      BY <1>2, <3>1, Listed
    <3> QED
      BY <1>1, <1>2, <3>1, <3>2 DEF OnlyMoves, Waits, WaitersOf
  <2>6. ASSUME NEW q \in Requests, NEW i \in 1 .. n, q = waiting[k][i] PROVE Waits(q, k)'
    BY <1>1, <2>5, <2>6, Listed, WaitsKeep
  <2> HIDE DEF n
  <2>7. ASSUME NEW i \in 1 .. n + 1
        PROVE  \E q \in Requests : q = waiting'[k][i] /\ Waits(q, k)' /\ q \notin woken'[k]
    <3>1. CASE i = n + 1
      <4>1. r \notin woken[k]
        BY <1>2, Listed
      <4> QED
        BY <1>1, <2>3, <2>4, <3>1, <4>1
    <3>2. CASE i # n + 1
      <4>1. i \in 1 .. n
        BY <2>1, <3>2
      <4>2. PICK q \in Requests : q = waiting[k][i]
        BY <4>1, Listed DEF n
      <4> QED
        BY <1>1, <2>3, <2>5, <2>6, <4>1, <4>2
    <3> QED
      BY <3>1, <3>2
  <2>8. ASSUME NEW q \in woken'[k] PROVE Waits(q, k)'
    BY <1>1, <1>2, Listed, WaitsKeep
  <2>9. ASSUME NEW i \in 1 .. n + 1, NEW j \in 1 .. n + 1, waiting'[k][i] = waiting'[k][j]
        PROVE  i = j
    <3>1. i \in 1 .. n \/ i = n + 1
      BY <2>1
    <3>2. j \in 1 .. n \/ j = n + 1
      BY <2>1
    <3>3. \A a, b \in 1 .. n : waiting[k][a] = waiting[k][b] => a = b
      BY <1>2 DEF WaitersOf, n
    <3> QED
      BY <2>3, <2>5, <2>9, <3>1, <3>2, <3>3
  <2>10. ASSUME NEW i \in 1 .. n + 1 PROVE Waits(waiting[k][i], k)' /\ (waiting[k][i] \notin woken[k])'
    BY <2>7
  <2> QED
    BY <2>3, <2>8, <2>9, <2>10 DEF WaitersOf
<1> QED
  BY <1>3, <1>4, KeyIsKey DEF Request, Types

LEMMA WaitersWake ==
  ASSUME Types, Waiters, NEW r \in Requests, Wake(r)
  PROVE  Waiters'
<1> SUFFICES ASSUME NEW k \in Keys PROVE WaitersOf(k)'
  BY DEF Waiters
<1>1. OnlyMoves(r) /\ UNCHANGED << job, waiting >> /\ KeyOf(r) \in Keys /\ WaitersOf(k)
  BY WakeMoves, KeyIsKey DEF Wake, Waiters
<1>2. CASE k # KeyOf(r)
  <2>1. woken'[k] = woken[k] /\ ~ Waits(r, k)
    BY <1>1, <1>2 DEF Wake, Types, Waits
  <2> QED
    BY <1>1, <2>1, WaitersFrame
<1>3. CASE k = KeyOf(r)
  <2>1. woken'[k] = woken[k] \ {r} /\ r \in woken[k]
    BY <1>1, <1>3 DEF Wake, Types
  <2>2. \A q \in woken'[k] : Waits(q, k)'
    BY <1>1, <2>1, Listed, WaitsKeep
  <2>3. ASSUME NEW i \in 1 .. Len(waiting[k])
        PROVE  Waits(waiting[k][i], k)' /\ (waiting[k][i] \notin woken[k])'
    <3>1. PICK q \in Requests : q = waiting[k][i] /\ Waits(q, k)
      BY Listed
    <3>2. q \notin woken[k] /\ q # r
      BY <1>1, <2>1, <3>1 DEF WaitersOf
    <3>3. Waits(q, k)'
      BY <1>1, <3>1, <3>2, WaitsKeep
    <3>4. q = waiting'[k][i] /\ q \notin woken'[k]
      BY <1>1, <2>1, <3>1, <3>2
    <3> QED
      BY <3>3, <3>4
  <2> QED
    BY <1>1, <2>2, <2>3 DEF WaitersOf
<1> QED
  BY <1>2, <1>3

(* Who moves does not wait, and may leave the limiter.                         *)
LEMMA WaitersLeave ==
  ASSUME Types, Waiters, NEW r \in Requests, OnlyMoves(r), pc[r] # "waiting",
         NEW K \in Keys, Leave(K)
  PROVE  Waiters'
<1> SUFFICES ASSUME NEW k \in Keys PROVE WaitersOf(k)'
  BY DEF Waiters
<1>1. WaitersOf(k) /\ ~ Waits(r, k)
  BY DEF Waiters, Waits
<1>2. CASE waiting'[k] = waiting[k] /\ woken'[k] = woken[k]
  BY <1>1, <1>2, WaitersFrame
<1>3. CASE /\ k = K /\ waiting[k] # << >> /\ waiting' = [waiting EXCEPT ![k] = Tail(@)]
           /\ woken' = [woken EXCEPT ![k] = @ \union {Head(waiting[k])}]
  <2> DEFINE n == Len(waiting[k])
             h == Head(waiting[k])
  <2>1. waiting[k] \in Seq(Requests) /\ n \in Nat \ {0} /\ h = waiting[k][1]
    BY <1>3, Listed, HeadIsFirst
  <2>2. waiting'[k] = Tail(waiting[k]) /\ woken'[k] = woken[k] \union {h}
    BY <1>3 DEF Types
  <2>3. /\ Len(waiting'[k]) = n - 1
        /\ \A i \in 1 .. n - 1 : waiting'[k][i] = waiting[k][i + 1]
    <3> DEFINE t == Tail(waiting[k])
    <3>1. Len(t) = n - 1 /\ \A i \in 1 .. Len(t) : t[i] = waiting[k][i + 1]
      BY <1>3, <2>1, HeadTailProperties
    <3> HIDE DEF t, n
    <3> QED
      BY <2>2, <3>1 DEF t
  <2> HIDE DEF n
  <2>4. \A i \in 1 .. n : \E q \in Requests : q = waiting[k][i] /\ Waits(q, k) /\ q # r /\ q \notin woken[k]
    BY <1>1, Listed DEF n, WaitersOf
  <2>5. ASSUME NEW i \in 1 .. n - 1
        PROVE  \E q \in Requests : q = waiting'[k][i] /\ Waits(q, k)' /\ q \notin woken'[k]
    <3>1. i + 1 \in 1 .. n /\ i + 1 # 1 /\ 1 \in 1 .. n
      BY <2>1
    <3>2. PICK q \in Requests : q = waiting[k][i + 1] /\ Waits(q, k) /\ q # r /\ q \notin woken[k]
      BY <2>4, <3>1
    <3>3. q # h
      BY <1>1, <2>1, <3>1, <3>2 DEF WaitersOf, n
    <3> QED
      BY <2>2, <2>3, <3>2, <3>3, WaitsKeep
  <2>6. ASSUME NEW q \in woken'[k] PROVE Waits(q, k)'
    <3>1. q \in woken[k] \/ q = waiting[k][1]
      BY <2>1, <2>2
    <3>2. q \in Requests /\ Waits(q, k) /\ q # r
      BY <1>1, <2>1, <2>4, <3>1, Listed
    <3> QED
      BY <3>2, WaitsKeep
  <2>7. ASSUME NEW i \in 1 .. n - 1, NEW j \in 1 .. n - 1, waiting'[k][i] = waiting'[k][j]
        PROVE  i = j
    <3>1. i + 1 \in 1 .. n /\ j + 1 \in 1 .. n
      BY <2>1
    <3>2. i + 1 = j + 1
      BY <1>1, <2>3, <2>7, <3>1 DEF WaitersOf, n
    <3> QED
      BY <2>1, <3>2
  <2>8. ASSUME NEW i \in 1 .. n - 1 PROVE Waits(waiting[k][i], k)' /\ (waiting[k][i] \notin woken[k])'
    BY <2>5
  <2> QED
    BY <2>3, <2>6, <2>7, <2>8 DEF WaitersOf
<1>4. k # K => waiting'[k] = waiting[k] /\ woken'[k] = woken[k]
  BY DEF Leave, Types
<1> QED
  BY <1>2, <1>3, <1>4 DEF Leave

LEMMA WaitersKept ==
  ASSUME Types, Staged, Waiters, Next
  PROVE  Waiters'
<1>1. ASSUME NEW r \in Requests, OnlyMoves(r), pc[r] # "waiting", UNCHANGED << waiting, woken >>
      PROVE  Waiters'
  BY <1>1, WaitersFrame DEF Waiters, Waits
<1>2. CASE Refresh
  <2>1. UNCHANGED << waiting, woken, job >>
    BY <1>2 DEF Refresh, Probe, ProbeSettles, ProbingEnds, ColumnsEnd, CloseSession, limiterVars, workVars
  <2>2. ASSUME NEW k \in Keys, NEW q \in Requests, Waits(q, k) PROVE Waits(q, k)'
    <3>1. q \in Others
      BY <1>2, <2>2, RefreshIsQuiet DEF Waits, Requests
    <3>2. pc'[q] = pc[q]
      BY <1>2, <3>1, RunnersAssumption
         DEF Refresh, Probe, ProbeSettles, ProbingEnds, ColumnsEnd, CloseSession, Types, Requests
    <3> QED
      BY <2>2, <3>1, <3>2 DEF Waits, KeyOf
  <2>3. ASSUME NEW k \in Keys PROVE WaitersOf(k)'
    <3>1. \A i \in 1 .. Len(waiting[k]) : \E q \in Requests : q = waiting'[k][i] /\ Waits(q, k)'
      BY <2>1, <2>2, Listed
    <3>2. \A i \in 1 .. Len(waiting[k]) : Waits(waiting[k][i], k)'
      BY <3>1
    <3>3. \A q \in woken[k] : Waits(q, k)'
      BY <2>2, Listed
    <3> QED
      BY <2>1, <3>2, <3>3 DEF Waiters, WaitersOf
  <2> QED
    BY <2>3 DEF Waiters
<1>3. ASSUME NEW w \in Runners, Worker(w)
      PROVE  Waiters'
  <2>1. w \in Requests /\ OnlyMoves(w)
    BY <1>3, Constants, WorkerMoves
  <2>2. CASE Request(w) \/ Wake(w)
    BY <2>1, <2>2, WaitersRequest, WaitersWake
  <2>3. CASE ConnectFails(w) \/ QueryEnds(w)
    <3>1. Leave(KeyOf(w)) /\ pc[w] # "waiting"
      BY <2>3 DEF ConnectFails, QueryEnds, QuerySettles
    <3> QED
      BY <2>1, <3>1, KeyIsKey, WaitersLeave
  <2>4. CASE Take(w) \/ TurnComes(w) \/ Connected(w) \/ Record(w)
    <3>1. pc[w] # "waiting" /\ UNCHANGED << waiting, woken >>
      BY <2>4 DEF Take, TurnComes, Connected, Record, limiterVars
    <3> QED
      BY <1>1, <2>1, <3>1
  <2> QED
    BY <1>3, <2>2, <2>3, <2>4 DEF Worker
<1>4. ASSUME NEW o \in Others, OtherStarts(o) \/ Other(o)
      PROVE  Waiters'
  <2>1. o \in Requests /\ OnlyMoves(o)
    BY <1>4, OtherStep
  <2>2. CASE Request(o) \/ Wake(o)
    BY <2>1, <2>2, WaitersRequest, WaitersWake
  <2>3. CASE OtherEnds(o)
    BY <2>1, <2>3, Constants, WaitersLeave DEF OtherEnds
  <2>4. CASE OtherStarts(o)
    BY <1>1, <2>1, <2>4 DEF OtherStarts, limiterVars
  <2> QED
    BY <1>4, <2>2, <2>3, <2>4 DEF Other
<1> QED
  BY <1>2, <1>3, <1>4 DEF Next

--------------------------------------------------------------------------------
(* The list of databases, as long as the stage may still be complete: what has *)
(* been taken is fetched or in work, and the primary worker takes all of it.   *)

InWork(d) == \E w \in Runners : pc[w] \in Working /\ job[w].db = d

Progress ==
  /\ complete => /\ dead = DeadBefore
                 /\ \A i \in 1 .. next - 1 :
                      Databases[i] \in DeadBefore \/ Fetched(Databases[i]) \/ InWork(Databases[i])
  /\ pc[0] = "ended" => next > Len(Databases)

LEMMA ProgressStep ==
  ASSUME Types, Progress, NEW r \in Requests, OnlyMoves(r),
         \A d \in Names : cached[d] \subseteq cached'[d],
         complete' => complete /\ dead' = dead,
         \* What r worked on it goes on with, or has fetched.
         r \in Runners /\ pc[r] \in Working /\ complete' =>
           \E d \in Names : /\ d = job[r].db
                            /\ \/ pc'[r] \in Working /\ job'[r].db = d
                               \/ 1 .. QueriesOf(d) \subseteq cached'[d],
         \* What is taken is dead, or r works on it.
         \/ next' = next
         \/ /\ next' = next + 1 /\ next <= Len(Databases)
            /\ \/ Databases[next] \in dead
               \/ r \in Runners /\ pc'[r] \in Working /\ job'[r].db = Databases[next],
         r = 0 /\ pc'[r] = "ended" => next' > Len(Databases)
  PROVE  Progress'
<1>1. next \in Nat /\ Len(Databases) \in Nat /\ 0 \in Requests /\ next <= Len(Databases) + 1 /\ next >= 1
  BY Constants DEF Types
<1>2. pc'[0] = "ended" => next' > Len(Databases)
  BY <1>1 DEF Progress, OnlyMoves
<1>3. ASSUME complete', NEW i \in 1 .. next - 1, NEW d \in Names, d = Databases[i]
      PROVE  d \in DeadBefore \/ Fetched(d)' \/ InWork(d)'
  <2>1. CASE d \in DeadBefore
    BY <2>1
  <2>2. CASE Fetched(d)
    BY <2>2 DEF Fetched
  <2>3. CASE InWork(d)
    <3>1. PICK w \in Runners : pc[w] \in Working /\ job[w].db = d
      BY <2>3 DEF InWork
    <3>2. CASE w = r
      BY <1>3, <3>1, <3>2 DEF InWork, Fetched
    <3>3. CASE w # r
      BY <3>1, <3>3, Constants DEF InWork, OnlyMoves
    <3> QED
      BY <3>2, <3>3
  <2> QED
    BY <1>3, <2>1, <2>2, <2>3 DEF Progress
<1>4. ASSUME complete', NEW i \in 1 .. next' - 1, NEW d \in Names, d = Databases[i]
      PROVE  d \in DeadBefore \/ Fetched(d)' \/ InWork(d)'
  <2>1. CASE i \in 1 .. next - 1
    BY <1>3, <1>4, <2>1
  <2>2. CASE i \notin 1 .. next - 1
    <3>1. next' = next + 1 /\ i = next
      BY <1>1, <2>2
    <3>2. CASE Databases[next] \in dead
      BY <1>4, <3>1, <3>2 DEF Progress
    <3>3. CASE r \in Runners /\ pc'[r] \in Working /\ job'[r].db = Databases[next]
      BY <1>4, <3>1, <3>3 DEF InWork
    <3> QED
      BY <1>1, <3>1, <3>2, <3>3
  <2> QED
    BY <2>1, <2>2
<1>5. ASSUME complete', NEW i \in 1 .. next' - 1
      PROVE  Databases[i] \in DeadBefore \/ Fetched(Databases[i])' \/ InWork(Databases[i])'
  <2>1. Databases[i] \in Names
    <3>1. i \in 1 .. Len(Databases)
      BY <1>1
    <3> QED
      BY <3>1, Constants
  <2> QED
    BY <1>4, <1>5, <2>1
<1> QED
  BY <1>2, <1>5 DEF Progress

LEMMA SettlesDatabase ==
  ASSUME Types, Jobs, NEW w \in Runners, pc[w] \in Asking,
         NEW result \in {"rows", "error", "unreadable"}, QuerySettles(w, result)
  PROVE  job[w].db \in Names /\ job'[w].db = job[w].db
<1> DEFINE j == Outcome(job[w], result)
<1>1. j \in Job /\ j.db = job[w].db /\ j.db \in Names
  BY OutcomeFits
<1> HIDE DEF j
<1>2. \/ job' = [job EXCEPT ![w] = [j EXCEPT !.query = @ + 1]]
      \/ job' = [job EXCEPT ![w] = Attempt(j.db, 0)]
      \/ job' = [job EXCEPT ![w] = [j EXCEPT !.query = 0, !.rows = {}]]
  BY DEF QuerySettles, EndAttempt, j
<1>3. Attempt(j.db, 0).db = j.db
  BY DEF Attempt
<1>4. [j EXCEPT !.query = @ + 1].db = j.db /\ [j EXCEPT !.query = 0, !.rows = {}].db = j.db
  BY <1>1 DEF Job
<1>5. job'[w].db = j.db
  BY <1>2, <1>3, <1>4 DEF Types
<1> QED
  BY <1>1, <1>5

LEMMA ProgressKept ==
  ASSUME Types, Staged, Jobs, Waiters, Progress, Next
  PROVE  Progress'
<1>1. CASE Refresh
  <2>1. UNCHANGED << job, cached, dead, complete, next >>
    BY <1>1 DEF Refresh, Probe, ProbeSettles, ProbingEnds, ColumnsEnd, CloseSession, workVars
  <2>2. \A d : ~ InWork(d)
    BY <1>1, RefreshIsQuiet DEF InWork, Working, Asking, Counts
  <2>3. pc'[0] = "ended" => pc[0] = "ended"
    BY <1>1, Constants
       DEF Staged, Refresh, Probe, ProbeSettles, ProbingEnds, ColumnsEnd, CloseSession
  <2> QED
    BY <2>1, <2>2, <2>3 DEF Progress, Fetched
<1>2. ASSUME NEW w \in Runners, Worker(w)
      PROVE  Progress'
  <2>1. w \in Requests /\ OnlyMoves(w) /\ JobFits(w) /\ next \in Nat /\ Len(Databases) \in Nat
    BY <1>2, Constants, WorkerMoves DEF Jobs, Types
  <2>2. CASE Take(w)
    <3>1. UNCHANGED << stage, ready, cached, dead, complete >> /\ pc[w] = "next" /\ TakeDatabase(w)
      BY <2>2 DEF Take, stageVars
    <3>2. Attempt(Databases[next], w).db = Databases[next]
      BY DEF Attempt
    <3>3. \/ next' = next /\ next > Len(Databases)
          \/ /\ next' = next + 1 /\ next <= Len(Databases) /\ pc'[w] # "ended"
             /\ \/ Databases[next] \in dead
                \/ pc'[w] \in Working /\ job'[w].db = Databases[next]
      BY <3>1, <3>2, TakeDatabaseMoves DEF Working, Asking
    <3>4. pc[w] \notin Working
      BY <3>1 DEF Working, Asking, Counts
    <3> QED
      BY <2>1, <3>1, <3>3, <3>4, ProgressStep
  <2>3. CASE Request(w) \/ Wake(w) \/ TurnComes(w) \/ Connected(w)
    <3>1. UNCHANGED << job, cached, dead, complete, next >>
      BY <2>3 DEF Request, Wake, TurnComes, Connected, workVars
    <3>2. pc[w] \in Working /\ pc'[w] \in Working /\ pc'[w] # "ended"
      BY <2>1, <2>3, RequestMoves, WakeMoves, SessionMoves DEF Working, Asking, Counts
    <3>3. job[w].db \in Names
      BY <2>1, <3>2 DEF JobFits
    <3> QED
      BY <2>1, <3>1, <3>2, <3>3, ProgressStep
  <2>4. CASE ConnectFails(w) \/ QueryEnds(w)
    <3>1. PICK result \in {"rows", "error", "unreadable"} : QuerySettles(w, result)
      BY <2>4 DEF ConnectFails, QueryEnds
    <3>2. pc[w] \in Asking
      BY <2>4 DEF ConnectFails, QueryEnds, Asking, Counts
    <3>3. UNCHANGED << dead, complete, next >>
      BY <3>1 DEF QuerySettles
    <3>4. pc'[w] \in Working /\ pc'[w] # "ended" /\ job[w].db \in Names /\ job'[w].db = job[w].db
      BY <3>1, <3>2, SettlesMoves, SettlesDatabase DEF Working, Asking, Counts
    <3> QED
      BY <2>1, <3>1, <3>3, <3>4, SettlesCache, ProgressStep
  <2>5. CASE Record(w)
    <3>1. /\ UNCHANGED << stage, ready, cached >> /\ pc[w] = "record"
          /\ complete' => complete /\ dead' = dead /\ job[w].ok
      BY <2>5 DEF Record, stageVars
    <3>2. job[w].db \in Names /\ job[w].slot \in {w, 0} /\ (job[w].ok => Fetched(job[w].db))
      BY <2>1, <3>1 DEF JobFits, Working
    <3>3. /\ next' = next \/ /\ next' = next + 1 /\ next <= Len(Databases)
                             /\ \/ Databases[next] \in dead
                                \/ pc'[w] \in Working /\ job'[w].db = Databases[next]
          /\ w = 0 /\ pc'[w] = "ended" => next' > Len(Databases)
      <4>1. CASE TakeDatabase(w)
        <5>1. Attempt(Databases[next], w).db = Databases[next]
          BY DEF Attempt
        <5> QED
          BY <2>1, <3>1, <4>1, <5>1, TakeDatabaseMoves DEF Working, Asking
      <4>2. CASE job[w].slot # w /\ UNCHANGED next
        BY <3>2, <4>2
      <4> QED
        BY <2>5, <4>1, <4>2 DEF Record
    <3>4. complete' => 1 .. QueriesOf(job[w].db) \subseteq cached'[job[w].db]
      BY <3>1, <3>2 DEF Fetched
    <3> QED
      BY <2>1, <3>1, <3>2, <3>3, <3>4, ProgressStep
  <2> QED
    BY <1>2, <2>2, <2>3, <2>4, <2>5 DEF Worker
<1>3. ASSUME NEW o \in Others, OtherStarts(o) \/ Other(o)
      PROVE  Progress'
  <2>1. o \in Requests /\ OnlyMoves(o) /\ o \notin Runners /\ o # 0
    BY <1>3, OtherStep, Constants
  <2>2. UNCHANGED << cached, dead, complete, next >>
    BY <1>3 DEF Other, OtherStarts, OtherEnds, Request, Wake, workVars
  <2> QED
    BY <2>1, <2>2, ProgressStep
<1> QED
  BY <1>1, <1>2, <1>3 DEF Next

--------------------------------------------------------------------------------
(* A limiter counts its active queries. *)

ActiveOf(k) == {r \in Requests : pc[r] \in Counts /\ KeyOf(r) = k}

Counted == \A k \in Keys : active[k] = Cardinality(ActiveOf(k))

LEMMA ActiveFinite ==
  /\ IsFiniteSet(Requests) /\ Cardinality(Requests) \in Nat
  /\ \A k : /\ IsFiniteSet(ActiveOf(k))
            /\ Cardinality(ActiveOf(k)) \in 0 .. Cardinality(Requests)
<1>1. IsFiniteSet(Requests)
  <2>1. 0 \in Int /\ LastRunner \in Int
    BY RunnersAssumption
  <2>2. IsFiniteSet(0 .. LastRunner)
    BY <2>1, FS_Interval
  <2> QED
    BY <2>2, RunnersAssumption, FS_Union DEF Requests, Runners
<1>2. ASSUME NEW k
      PROVE  IsFiniteSet(ActiveOf(k)) /\ Cardinality(ActiveOf(k)) \in 0 .. Cardinality(Requests)
  <2>1. ActiveOf(k) \subseteq Requests
    BY DEF ActiveOf
  <2>2. /\ IsFiniteSet(ActiveOf(k)) /\ Cardinality(ActiveOf(k)) <= Cardinality(Requests)
    BY <1>1, <2>1, FS_Subset
  <2> QED
    BY <1>1, <2>2, FS_CardinalityType
<1> QED
  BY <1>1, <1>2, FS_CardinalityType

(* A step of r changes the active set of its own limiter only, by r itself.    *)
LEMMA ActiveStep ==
  ASSUME NEW r \in Requests, OnlyMoves(r), pc'[r] \in Counts => UNCHANGED job, NEW k
  PROVE  ActiveOf(k)' = IF pc'[r] \in Counts /\ KeyOf(r) = k THEN ActiveOf(k) \union {r}
                                                             ELSE ActiveOf(k) \ {r}
<1>1. ASSUME NEW q \in Requests, q # r
      PROVE  pc'[q] = pc[q] /\ KeyOf(q)' = KeyOf(q)
  BY <1>1, KeyKeeps DEF OnlyMoves
<1>2. pc'[r] \in Counts => KeyOf(r)' = KeyOf(r)
  BY KeyKeeps
<1> QED
  BY <1>1, <1>2 DEF ActiveOf

LEMMA CountedFrame ==
  ASSUME Counted, NEW r \in Requests, OnlyMoves(r), UNCHANGED active,
         \/ pc[r] \in Counts /\ pc'[r] \in Counts /\ UNCHANGED job
         \/ pc[r] \notin Counts /\ pc'[r] \notin Counts
  PROVE  Counted'
<1>1. ASSUME NEW k \in Keys PROVE ActiveOf(k)' = ActiveOf(k)
  BY ActiveStep DEF ActiveOf
<1> QED
  BY <1>1 DEF Counted

LEMMA CountedEnter ==
  ASSUME Types, Counted, NEW r \in Requests, OnlyMoves(r), UNCHANGED job,
         pc[r] \notin Counts, pc'[r] \in Counts,
         active' = [active EXCEPT ![KeyOf(r)] = @ + 1]
  PROVE  Counted'
<1> SUFFICES ASSUME NEW k \in Keys PROVE active'[k] = Cardinality(ActiveOf(k)')
  BY DEF Counted
<1>1. r \notin ActiveOf(k)
  BY DEF ActiveOf
<1>2. CASE k = KeyOf(r)
  <2>1. ActiveOf(k)' = ActiveOf(k) \union {r}
    BY <1>2, ActiveStep
  <2>2. Cardinality(ActiveOf(k) \union {r}) = Cardinality(ActiveOf(k)) + 1
    BY <1>1, ActiveFinite, FS_AddElement
  <2> QED
    BY <1>2, <2>1, <2>2 DEF Counted, Types
<1>3. CASE k # KeyOf(r)
  <2>1. ActiveOf(k)' = ActiveOf(k)
    BY <1>1, <1>3, ActiveStep
  <2> QED
    BY <1>3, <2>1 DEF Counted, Types
<1> QED
  BY <1>2, <1>3

LEMMA CountedLeave ==
  ASSUME Types, Counted, NEW r \in Requests, OnlyMoves(r), pc[r] \in Counts, pc'[r] \notin Counts,
         Leave(KeyOf(r))
  PROVE  Counted' /\ active[KeyOf(r)] > 0
<1>1. active' = [active EXCEPT ![KeyOf(r)] = @ - 1] /\ KeyOf(r) \in Keys
  BY KeyIsKey DEF Leave
<1>2. ASSUME NEW k \in Keys
      PROVE  active'[k] = Cardinality(ActiveOf(k)') /\ (k = KeyOf(r) => active[k] > 0)
  <2>1. ActiveOf(k)' = ActiveOf(k) \ {r}
    BY ActiveStep
  <2>2. CASE k = KeyOf(r)
    <3>1. r \in ActiveOf(k)
      BY <2>2 DEF ActiveOf
    <3>2. Cardinality(ActiveOf(k) \ {r}) = Cardinality(ActiveOf(k)) - 1 /\ Cardinality(ActiveOf(k)) > 0
      BY <3>1, ActiveFinite, FS_RemoveElement, FS_EmptySet, FS_CardinalityType
    <3> QED
      BY <1>1, <2>1, <2>2, <3>2 DEF Counted, Types
  <2>3. CASE k # KeyOf(r)
    <3>1. ActiveOf(k) \ {r} = ActiveOf(k)
      BY <2>3 DEF ActiveOf
    <3> QED
      BY <1>1, <2>1, <2>3, <3>1 DEF Counted, Types
  <2> QED
    BY <2>2, <2>3
<1> QED
  BY <1>1, <1>2 DEF Counted

LEMMA CountedKept ==
  ASSUME Types, Staged, Waiters, Counted, Next
  PROVE  Counted'
<1>1. CASE Refresh
  <2>1. UNCHANGED << active, job >>
    BY <1>1 DEF Refresh, Probe, ProbeSettles, ProbingEnds, ColumnsEnd, CloseSession, limiterVars, workVars
  <2>2. \A r \in Runners : pc[r] \notin Counts /\ pc'[r] \notin Counts
    BY <1>1, RefreshIsQuiet DEF Counts
  <2>3. \A o \in Others : pc'[o] = pc[o] /\ KeyOf(o)' = KeyOf(o)
    BY <1>1, RunnersAssumption
       DEF Refresh, Probe, ProbeSettles, ProbingEnds, ColumnsEnd, CloseSession, Types, Requests, KeyOf
  <2>4. \A k \in Keys : ActiveOf(k)' = ActiveOf(k)
    BY <2>2, <2>3 DEF ActiveOf, Requests
  <2> QED
    BY <2>1, <2>4 DEF Counted
<1>2. ASSUME NEW r \in Requests, Request(r) PROVE Counted'
  <2>1. OnlyMoves(r) /\ UNCHANGED job /\ pc[r] = "request"
    BY <1>2, RequestMoves
  <2>2. CASE pc' = [pc EXCEPT ![r] = "waiting"] /\ UNCHANGED active
    <3>1. pc'[r] = "waiting"
      BY <2>2 DEF Types
    <3> QED
      BY <2>1, <2>2, <3>1, CountedFrame DEF Counts
  <2>3. CASE Enter(r) /\ active' = [active EXCEPT ![KeyOf(r)] = @ + 1]
    <3>1. pc'[r] \in Counts
      BY <2>1, <2>3, EnterMoves DEF Counts, OnlyMoves
    <3> QED
      BY <2>1, <2>3, <3>1, CountedEnter DEF Counts
  <2> QED
    BY <1>2, <2>2, <2>3 DEF Request
<1>3. ASSUME NEW r \in Requests, Wake(r) PROVE Counted'
  BY <1>3, WakeMoves, CountedEnter DEF Wake, Counts
<1>4. ASSUME NEW w \in Runners, Worker(w)
      PROVE  Counted'
  <2>1. w \in Requests /\ OnlyMoves(w)
    BY <1>4, Constants, WorkerMoves
  <2>2. CASE Request(w) \/ Wake(w)
    BY <1>2, <1>3, <2>1, <2>2
  <2>3. CASE TurnComes(w) \/ Connected(w)
    BY <2>1, <2>3, SessionMoves, CountedFrame DEF TurnComes, Connected, limiterVars
  <2>4. CASE Take(w) \/ Record(w)
    <3>1. pc[w] \notin Counts /\ pc'[w] \notin Counts /\ UNCHANGED active
      BY <2>1, <2>4 DEF Take, Record, TakeDatabase, Counts, Types, limiterVars
    <3> QED
      BY <2>1, <3>1, CountedFrame
  <2>5. CASE ConnectFails(w) \/ QueryEnds(w)
    <3>1. PICK result \in {"rows", "error", "unreadable"} : QuerySettles(w, result)
      BY <2>5 DEF ConnectFails, QueryEnds
    <3>2. pc[w] \in Counts /\ pc'[w] \notin Counts /\ Leave(KeyOf(w))
      BY <2>5, <3>1, SettlesMoves DEF ConnectFails, QueryEnds, Counts, QuerySettles
    <3> QED
      BY <2>1, <3>2, CountedLeave
  <2> QED
    BY <1>4, <2>2, <2>3, <2>4, <2>5 DEF Worker
<1>5. ASSUME NEW o \in Others, OtherStarts(o) \/ Other(o)
      PROVE  Counted'
  <2>1. o \in Requests /\ OnlyMoves(o) /\ KeyOf(o) = Shared
    BY <1>5, OtherStep DEF KeyOf
  <2>2. CASE OtherStarts(o)
    <3>1. pc[o] = "idle" /\ pc'[o] = "request" /\ UNCHANGED active
      BY <2>1, <2>2 DEF OtherStarts, limiterVars, Types
    <3> QED
      BY <2>1, <3>1, CountedFrame DEF Counts
  <2>3. CASE OtherEnds(o)
    <3>1. pc[o] = "querying" /\ pc'[o] = "ended" /\ Leave(KeyOf(o))
      BY <2>1, <2>3 DEF OtherEnds, Types
    <3> QED
      BY <2>1, <3>1, CountedLeave DEF Counts
  <2> QED
    BY <1>2, <1>3, <1>5, <2>1, <2>2, <2>3 DEF Other
<1> QED
  BY <1>1, <1>4, <1>5 DEF Next

--------------------------------------------------------------------------------
(* Nobody waits for a wake-up that does not come. *)

WakeupOf(k) == waiting[k] # << >> => active[k] > 0 \/ woken[k] # {}

LEMMA WakeupFrame ==
  ASSUME NoLostWakeup, NEW k \in Keys, UNCHANGED << waiting, active, woken >>
  PROVE  WakeupOf(k)'
BY DEF NoLostWakeup, WakeupOf

LEMMA WakeupLeave ==
  ASSUME Types, NoLostWakeup, NEW K \in Keys, Leave(K), active[K] > 0, NEW k \in Keys
  PROVE  WakeupOf(k)'
<1>1. CASE k = K
  <2>1. active'[k] = active[k] - 1 /\ active[k] \in Int /\ Limit \in Nat /\ Limit >= 1
    BY <1>1, Constants DEF Leave, Types
  <2>2. CASE active[k] - 1 < Limit /\ waiting[k] # << >>
    <3>1. woken'[k] = woken[k] \union {Head(waiting[k])}
      BY <1>1, <2>2 DEF Leave, Types
    <3> QED
      BY <3>1 DEF WakeupOf
  <2>3. CASE active[k] - 1 >= Limit
    BY <2>1, <2>3 DEF WakeupOf
  <2>4. CASE active[k] - 1 < Limit /\ waiting[k] = << >>
    <3>1. waiting'[k] = << >>
      BY <1>1, <2>4 DEF Leave
    <3> QED
      BY <3>1 DEF WakeupOf
  <2> QED
    BY <2>1, <2>2, <2>3, <2>4
<1>2. CASE k # K
  <2>1. active'[k] = active[k] /\ waiting'[k] = waiting[k] /\ woken'[k] = woken[k]
    BY <1>2 DEF Leave, Types
  <2> QED
    BY <2>1 DEF NoLostWakeup, WakeupOf
<1> QED
  BY <1>1, <1>2

LEMMA WakeupAsk ==
  ASSUME Types, Counted, NoLostWakeup, NEW r \in Requests, Request(r) \/ Wake(r), NEW k \in Keys
  PROVE  WakeupOf(k)'
<1>1. KeyOf(r) \in Keys /\ Limit \in Nat /\ Limit >= 1
  BY KeyIsKey, Constants
<1>2. active[k] \in Int /\ active[k] >= 0
  BY ActiveFinite DEF Counted, Types
<1>3. CASE k # KeyOf(r)
  <2>1. active'[k] = active[k] /\ waiting'[k] = waiting[k] /\ woken'[k] = woken[k]
    BY <1>1, <1>3 DEF Request, Wake, Types
  <2> QED
    BY <2>1 DEF NoLostWakeup, WakeupOf
<1>4. CASE k = KeyOf(r)
  <2>1. CASE active'[k] = active[k] + 1
    BY <1>2, <2>1 DEF WakeupOf
  <2>2. CASE active'[k] = active[k] /\ active[k] >= Limit
    BY <1>1, <1>2, <2>2 DEF WakeupOf
  <2> QED
    BY <1>1, <1>4, <2>1, <2>2 DEF Request, Wake, Types
<1> QED
  BY <1>3, <1>4

LEMMA WakeupKept ==
  ASSUME Types, Staged, Waiters, Counted, NoLostWakeup, Next
  PROVE  NoLostWakeup'
<1> SUFFICES ASSUME NEW k \in Keys PROVE WakeupOf(k)'
  BY DEF NoLostWakeup, WakeupOf
<1>1. CASE Refresh
  BY <1>1, WakeupFrame DEF Refresh, Probe, ProbeSettles, ProbingEnds, ColumnsEnd, CloseSession, limiterVars
<1>2. ASSUME NEW w \in Runners, Worker(w)
      PROVE  WakeupOf(k)'
  <2>1. w \in Requests /\ OnlyMoves(w)
    BY <1>2, Constants, WorkerMoves
  <2>2. CASE Request(w) \/ Wake(w)
    BY <2>1, <2>2, WakeupAsk
  <2>3. CASE Take(w) \/ TurnComes(w) \/ Connected(w) \/ Record(w)
    BY <2>3, WakeupFrame DEF Take, TurnComes, Connected, Record, limiterVars
  <2>4. CASE ConnectFails(w) \/ QueryEnds(w)
    <3>1. PICK result \in {"rows", "error", "unreadable"} : QuerySettles(w, result)
      BY <2>4 DEF ConnectFails, QueryEnds
    <3>2. pc[w] \in Counts /\ pc'[w] \notin Counts /\ Leave(KeyOf(w))
      BY <2>4, <3>1, SettlesMoves DEF ConnectFails, QueryEnds, Counts, QuerySettles
    <3> QED
      BY <2>1, <3>2, KeyIsKey, CountedLeave, WakeupLeave
  <2> QED
    BY <1>2, <2>2, <2>3, <2>4 DEF Worker
<1>3. ASSUME NEW o \in Others, OtherStarts(o) \/ Other(o)
      PROVE  WakeupOf(k)'
  <2>1. o \in Requests /\ OnlyMoves(o) /\ KeyOf(o) = Shared /\ Shared \in Keys
    BY <1>3, OtherStep, Constants DEF KeyOf
  <2>2. CASE OtherStarts(o)
    BY <2>2, WakeupFrame DEF OtherStarts, limiterVars
  <2>3. CASE OtherEnds(o)
    <3>1. pc[o] \in Counts /\ pc'[o] \notin Counts /\ Leave(KeyOf(o))
      BY <2>1, <2>3 DEF OtherEnds, Types, Counts
    <3> QED
      BY <2>1, <3>1, CountedLeave, WakeupLeave
  <2> QED
    BY <1>3, <2>1, <2>2, <2>3, WakeupAsk DEF Other
<1> QED
  BY <1>1, <1>2, <1>3 DEF Next

--------------------------------------------------------------------------------

IInv == Types /\ Staged /\ Jobs /\ Waiters /\ Serial /\ Progress /\ Counted /\ NoLostWakeup

LEMMA InitIInv == Init => IInv
<1> SUFFICES ASSUME Init PROVE IInv
  OBVIOUS
<1>1. \A r \in Requests : pc[r] = "idle"
  BY DEF Init
<1>2. Types
  BY InitTypes
<1>3. Staged /\ Jobs /\ Serial
  BY <1>1, Constants DEF Init, Staged, Jobs, JobFits, Serial, Working, Asking, Counts
<1>4. \A k \in Keys : waiting[k] = << >> /\ woken[k] = {} /\ active[k] = 0
  BY DEF Init
<1>5. Waiters
  BY <1>4, EmptySeq DEF Waiters, WaitersOf
<1>6. Progress
  BY <1>1, Constants DEF Init, Progress
<1>7. Counted
  <2>1. \A k : ActiveOf(k) = {}
    BY <1>1 DEF ActiveOf, Counts
  <2> QED
    BY <1>4, <2>1, FS_EmptySet DEF Counted
<1>8. NoLostWakeup
  BY <1>4 DEF NoLostWakeup
<1> QED
  BY <1>2, <1>3, <1>5, <1>6, <1>7, <1>8 DEF IInv

LEMMA StepIInv == IInv /\ [Next]_vars => IInv'
<1>1. ASSUME IInv, Next PROVE IInv'
  BY <1>1, TypesKept, StagedKept, JobsKept, WaitersKept, SerialKept, ProgressKept, CountedKept,
     WakeupKept DEF IInv
<1>2. ASSUME IInv, UNCHANGED vars PROVE IInv'
  <2>1. /\ UNCHANGED << stage, probe, ready, next, pc, job, cached, dead, complete >>
        /\ UNCHANGED << active, waiting, woken, connection, chain, disposing >>
    BY <1>2 DEF vars, stageVars, workVars, limiterVars, sessionVars
  <2>2. Types' /\ Staged'
    BY <1>2, <2>1 DEF IInv, Types, Staged
  <2>3. Jobs' /\ Progress'
    BY <1>2, <2>1 DEF IInv, Jobs, JobFits, Progress, Fetched, InWork
  <2>4. Waiters' /\ Counted'
    BY <1>2, <2>1 DEF IInv, Waiters, WaitersOf, Waits, Counted, ActiveOf, KeyOf
  <2>5. Serial' /\ NoLostWakeup'
    BY <1>2, <2>1 DEF IInv, Serial, NoLostWakeup
  <2> QED
    BY <2>2, <2>3, <2>4, <2>5 DEF IInv
<1> QED
  BY <1>1, <1>2

LEMMA Invariance == Spec => []IInv
BY InitIInv, StepIInv, PTL DEF Spec

(* In every behaviour every variable keeps its type; the number of active      *)
(* queries of a limiter is that of the requests that have passed it.           *)
THEOREM TypeInvariance == Spec => []TypeOK
<1>1. IInv => TypeOK
  <2> SUFFICES ASSUME IInv PROVE TypeOK
    OBVIOUS
  <2>1. active \in [Keys -> 0 .. Cardinality(Requests)]
    BY ActiveFinite DEF IInv, Types, Counted
  <2> QED
    BY <2>1 DEF IInv, Types, TypeOK, Points, Job
<1> QED
  BY <1>1, Invariance, PTL

(* A session runs one query at a time, on an open connection, for any number   *)
(* of sessions and workers that have fallen back to the primary one            *)
(* (ConnectionScopedMetadataSession.run).                                      *)
THEOREM Serially == Spec => []SessionsAreSerial
<1>1. IInv => SessionsAreSerial
  BY DEF IInv, Serial, SessionsAreSerial
<1> QED
  BY <1>1, Invariance, PTL

(* The stage is not called complete while rows it may not do without are       *)
(* missing, for every list of databases and every failure                      *)
(* (prefetchAllColumnsForConnection).                                          *)
THEOREM Complete == Spec => []CompleteMeansFetched
<1>1. IInv => CompleteMeansFetched
  <2> SUFFICES ASSUME IInv, stage \in {"closing", "done"}, complete, NEW d \in Names \ DeadBefore
               PROVE  Fetched(d)
    BY DEF CompleteMeansFetched, Fetched
  <2>1. \A w \in Runners : pc[w] \in {"idle", "ended"}
    BY DEF IInv, Staged
  <2>2. ~ InWork(d)
    BY <2>1 DEF InWork, Working, Asking, Counts
  <2>3. next > Len(Databases) /\ next \in Nat
    BY Constants DEF IInv, Staged, Progress, Types
  <2>4. PICK i \in 1 .. Len(Databases) : d = Databases[i]
    BY DEF Names
  <2>5. i \in 1 .. next - 1
    BY <2>3, Constants
  <2> QED
    BY <2>2, <2>4, <2>5 DEF IInv, Progress
<1> QED
  BY <1>1, Invariance, PTL

(* Whoever waits in a limiter has somebody who will wake him, for every limit  *)
(* and every number of requests (runWithMetadataQueryConcurrencyLimit).        *)
THEOREM WakesUp == Spec => []NoLostWakeup
<1>1. IInv => NoLostWakeup
  BY DEF IInv
<1> QED
  BY <1>1, Invariance, PTL
================================================================================
