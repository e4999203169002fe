------------------------ MODULE DocumentCommandsProofs ------------------------
(***************************************************************************)
(* Theorems about DocumentCommands, for every set of runs, every mix of    *)
(* kinds, every number of statements and of cancellations.                 *)
(***************************************************************************)
EXTENDS DocumentCommands, TLAPS

Commands == {"running", "closing"}

(* A run that is under way has a statement left. *)
Counted == \A r \in Runs : Live(r) => run[r].left >= 1

(* Only a run that has sent a command is registered or has its signal aborted. *)
Registered ==
  /\ entry # None => run[entry].pc \in Commands
  /\ \A r \in aborted : run[r].pc \in Commands

(* A run that was alone when it was told to stop stays alone, and the flag stays
   up, as nobody else can register a command and clear it. *)
ToldStops ==
  \A r \in told :
    /\ run[r].pc # "new"
    /\ Live(r) => /\ current = r /\ pending /\ run[r].pc # "opening"
                  /\ \A o \in Runs \ {r} : ~Live(o)

(* A run that nobody asked to stop has the lease. *)
Unasked ==
  \A r \in Runs : Live(r) /\ r \notin asked => current = r /\ recovery = "none"

(* If it began alone as well and cleared the flag, nothing is aborted. *)
Untouched ==
  \A r \in Runs :
    Live(r) /\ r \notin asked /\ r \notin beside /\ kind[r] # "raw" =>
      /\ ~pending /\ r \notin aborted /\ run[r].result # "cancelled"
      /\ \A o \in Runs \ {r} : ~Live(o)

Blank == \A r \in Runs : run[r].pc = "new" => run[r].result = None

IInv ==
  /\ TypeOK /\ CommandReachable /\ Counted /\ Registered /\ ToldStops
  /\ Unasked /\ Untouched /\ Blank /\ CancelIsReported /\ FreshRunNotBlocked

LEMMA InitIInv == Init => IInv
<1> SUFFICES ASSUME Init PROVE IInv
  OBVIOUS
<1>1. TypeOK
  BY KindsAssumption DEF Init, TypeOK, Run, Steps, Results
<1>2. \A r \in Runs : run[r].pc = "new" /\ run[r].result = None
  BY DEF Init
<1>3. \A r \in Runs : ~Live(r)
  BY <1>2 DEF Live
<1> QED
  BY <1>1, <1>2, <1>3 DEF Init, IInv, CommandReachable, Counted, Registered, ToldStops, Unasked,
     Untouched, Blank, CancelIsReported, FreshRunNotBlocked

--------------------------------------------------------------------------------
(* The four things a step of a run can do to it. *)

(* A run goes on; no command is registered or unregistered. *)
Advances(r) ==
  /\ run' \in [Runs -> Run]
  /\ \A o \in Runs \ {r} : run'[o] = run[o]
  /\ run[r].pc \notin {"new", "done"} /\ run'[r].pc \notin {"new", "done"}
  /\ run'[r].left >= 1
  /\ run[r].pc \in Commands <=> run'[r].pc \in Commands
  /\ run'[r].pc = "running" => run[r].pc = "running"
  /\ run'[r].pc = "opening" => r \notin told
  /\ run'[r].result = "cancelled" => run[r].result = "cancelled" \/ r \in aborted
  /\ UNCHANGED << kind, managerVars, gateVars, cancels, historyVars >>

LEMMA AdvancesKeeps ==
  ASSUME IInv, NEW r \in Runs, Advances(r)
  PROVE  IInv'
<1> USE DEF vars, managerVars, gateVars, historyVars
<1>1. TypeOK'
  BY DEF IInv, TypeOK, Advances
<1>2. \A o \in Runs : Live(o)' <=> Live(o)
  BY DEF Advances, Live
<1>3. CommandReachable'
  BY DEF IInv, CommandReachable, Advances
<1>4. Counted'
  BY <1>2 DEF IInv, Counted, Advances
<1>5. Registered'
  BY DEF IInv, TypeOK, Registered, Advances
<1>6. ToldStops'
  BY <1>2 DEF IInv, TypeOK, ToldStops, Advances
<1>7. Unasked'
  BY <1>2 DEF IInv, Unasked, Advances
<1>8. Untouched'
  BY <1>2 DEF IInv, Untouched, Advances
<1>9. Blank' /\ CancelIsReported' /\ FreshRunNotBlocked'
  BY DEF IInv, TypeOK, Blank, CancelIsReported, FreshRunNotBlocked, Polls, Advances
<1> QED
  BY <1>1, <1>3, <1>4, <1>5, <1>6, <1>7, <1>8, <1>9 DEF IInv

(* A run ends without a command; success and cancellation need a reason. *)
Finishes(r, result) ==
  /\ result \in Results /\ Ends(r, result)
  /\ run[r].pc \notin {"new", "done"} \union Commands
  /\ result = "ok" => r \notin told \/ ~Polls(r)
  /\ result = "cancelled" => kind[r] = "raw" \/ r \in beside \/ r \in asked
  /\ UNCHANGED << kind, managerVars, cancels, historyVars >>

LEMMA FinishesKeeps ==
  ASSUME IInv, NEW r \in Runs, NEW result, Finishes(r, result)
  PROVE  IInv'
<1> USE DEF managerVars, historyVars
<1>1. /\ run' \in [Runs -> Run]
      /\ run'[r].pc = "done" /\ run'[r].result = result
      /\ \A o \in Runs \ {r} : run'[o] = run[o]
  BY ZenonT(30) DEF IInv, TypeOK, Finishes, Ends, Run, Steps
<1>2. /\ current' = IF current = r THEN None ELSE current
      /\ recovery' = recovery
  BY DEF Finishes, Ends
<1>3. /\ ~Live(r)' /\ Live(r)
      /\ \A o \in Runs \ {r} : Live(o)' <=> Live(o)
  BY <1>1 DEF Finishes, Live
<1>4. TypeOK'
  BY <1>1, <1>2 DEF IInv, TypeOK, Finishes
<1>5. CommandReachable' /\ Counted'
  BY <1>1, <1>3 DEF IInv, CommandReachable, Counted, Finishes
<1>6. Registered'
  BY <1>1 DEF IInv, TypeOK, Registered, Finishes
<1>7. ToldStops'
  BY <1>1, <1>2, <1>3 DEF IInv, TypeOK, ToldStops, Finishes
<1>8. Unasked'
  BY <1>1, <1>2, <1>3 DEF IInv, Unasked, Finishes
<1>9. Untouched'
  BY <1>1, <1>2, <1>3 DEF IInv, Untouched, Finishes
<1>10. Blank' /\ CancelIsReported' /\ FreshRunNotBlocked'
  BY <1>1 DEF IInv, TypeOK, Blank, CancelIsReported, FreshRunNotBlocked, Polls, Finishes
<1> QED
  BY <1>4, <1>5, <1>6, <1>7, <1>8, <1>9, <1>10 DEF IInv

(* A run that is not told to stop registers its command. *)
LEMMA SendsKeeps ==
  ASSUME IInv, NEW r \in Runs, Sends(r), run[r].pc \in {"poll", "opening"}, r \notin told,
         UNCHANGED << kind, disposed, cancels, historyVars >>
  PROVE  IInv'
<1> USE DEF managerVars, gateVars, historyVars
<1>1. CASE disposed
  <2>1. Finishes(r, "error")
    BY <1>1 DEF Sends, Finishes, Results, Commands
  <2> QED
    BY <2>1, FinishesKeeps
<1>2. CASE ~disposed
  <2>1. /\ run' \in [Runs -> Run]
        /\ run'[r].pc = "running" /\ run'[r].result = run[r].result /\ run'[r].left = run[r].left
        /\ \A o \in Runs \ {r} : run'[o] = run[o]
    BY <1>2 DEF IInv, TypeOK, Sends, Run, Steps
  <2>2. /\ entry' = r /\ pending' = FALSE
        /\ aborted' = (aborted \union ({entry} \ {None})) \union (IF pending THEN {r} ELSE {})
        /\ current' = current /\ recovery' = recovery
    BY <1>2 DEF Sends, RegisterCommand
  <2>3. Live(r) /\ \A o \in Runs : Live(o)' <=> Live(o)
    BY <2>1 DEF Live
  <2>4. TypeOK'
    BY <2>1, <2>2 DEF IInv, TypeOK
  <2>5. CommandReachable'
    BY <2>1, <2>2, RunsAssumption DEF IInv, TypeOK, CommandReachable
  <2>6. Counted'
    BY <2>1, <2>3 DEF IInv, Counted
  <2>7. Registered'
    BY <2>1, <2>2 DEF IInv, TypeOK, Registered, Commands
  <2>8. ToldStops'
    BY <2>1, <2>2, <2>3 DEF IInv, TypeOK, ToldStops
  <2>9. Unasked'
    BY <2>2, <2>3 DEF IInv, Unasked
  <2>10. Untouched'
    BY <2>1, <2>2, <2>3 DEF IInv, TypeOK, Untouched, Registered, Live, Commands
  <2>11. Blank' /\ CancelIsReported' /\ FreshRunNotBlocked'
    BY <2>1 DEF IInv, TypeOK, Blank, CancelIsReported, FreshRunNotBlocked, Polls
  <2> QED
    BY <2>4, <2>5, <2>6, <2>7, <2>8, <2>9, <2>10, <2>11 DEF IInv
<1> QED
  BY <1>1, <1>2

(* A run goes on to its next statement, or ends with the result of the last. *)
LEMMA NextStatementKeeps ==
  ASSUME IInv, NEW r \in Runs, NextStatement(r), run[r].pc = "after",
         run[r].result = "ok" => r \notin told \/ ~Polls(r),
         run[r].result # "cancelled",
         UNCHANGED << kind, managerVars, cancels, historyVars >>
  PROVE  IInv'
<1>1. CASE run[r].left = 1
  <2>1. Finishes(r, run[r].result)
    BY <1>1 DEF IInv, TypeOK, Run, NextStatement, Finishes, Commands
  <2> QED
    BY <2>1, FinishesKeeps
<1>2. CASE run[r].left # 1
  <2>1. run[r].left - 1 \in Nat /\ run[r].left - 1 >= 1
    BY <1>2 DEF IInv, TypeOK, Run, Counted, Live
  <2>2. run' = [run EXCEPT ![r].pc = "poll", ![r].left = @ - 1, ![r].attempt = 0]
    BY <1>2 DEF NextStatement
  <2>3. /\ run' \in [Runs -> Run]
        /\ run'[r].pc = "poll" /\ run'[r].left = run[r].left - 1
        /\ run'[r].result = run[r].result
        /\ \A o \in Runs \ {r} : run'[o] = run[o]
    BY <2>1, <2>2 DEF IInv, TypeOK, Run, Steps
  <2>4. Advances(r)
    BY <1>2, <2>1, <2>3 DEF NextStatement, Advances, Commands, managerVars, gateVars, historyVars
  <2> QED
    BY <2>4, AdvancesKeeps
<1> QED
  BY <1>1, <1>2

(* Why a batch or an explanation that had the document for itself and was not
   asked to stop finds no cancellation. *)
LEMMA NothingToFind ==
  ASSUME IInv, NEW r \in Runs, Live(r), kind[r] # "raw", r \notin beside, r \notin asked
  PROVE  ~IsAborted /\ ~Retired(r) /\ r \notin aborted /\ run[r].result # "cancelled"
  BY DEF IInv, TypeOK, Registered, Unasked, Untouched, Commands, Live, IsAborted, Retired

(* A cancellation is found by a poll of the run that was told. *)
LEMMA ToldIsPolled ==
  ASSUME IInv, NEW r \in told, Live(r)
  PROVE  IsAborted /\ run[r].pc # "opening"
  BY DEF IInv, ToldStops, IsAborted

--------------------------------------------------------------------------------
(* The actions of a run *)

LEMMA StartKeeps ==
  ASSUME IInv, NEW r \in Runs, Start(r)
  PROVE  IInv'
<1> DEFINE step == CASE kind[r] = "raw" -> "poll" [] kind[r] = "explain" -> "opening" [] OTHER -> "prepare"
           count == IF kind[r] \in {"batch", "keepGoing"} THEN Statements ELSE 1
<1>1. step \in {"poll", "opening", "prepare"} /\ count \in Nat /\ count >= 1
  BY BoundsAssumption
<1>2. run' = [run EXCEPT ![r].pc = step, ![r].left = count]
  BY DEF Start
<1> HIDE DEF step, count
<1>3. /\ run' \in [Runs -> Run]
      /\ run'[r].pc = step /\ run'[r].left = count /\ run'[r].result = run[r].result
      /\ \A o \in Runs \ {r} : run'[o] = run[o]
  BY ZenonT(30), <1>1, <1>2 DEF IInv, TypeOK, Run, Steps
<1>4. /\ run[r].pc = "new" /\ current = None /\ recovery = "none" /\ current' = r
      /\ beside' = IF \E o \in Runs : Live(o) THEN beside \union {r} ELSE beside
      /\ pending' = (pending /\ kind[r] = "raw")
      /\ kind' = kind /\ entry' = entry /\ aborted' = aborted /\ disposed' = disposed
      /\ recovery' = recovery /\ cancels' = cancels /\ asked' = asked /\ told' = told
  BY DEF Start
<1>5. /\ ~Live(r) /\ Live(r)'
      /\ \A o \in Runs \ {r} : Live(o)' <=> Live(o)
  BY <1>1, <1>3, <1>4 DEF Live
<1>6. TypeOK'
  BY <1>3, <1>4 DEF IInv, TypeOK
<1>7. CommandReachable' /\ Counted'
  BY <1>1, <1>3, <1>4, <1>5 DEF IInv, CommandReachable, Counted
<1>8. Registered'
  BY <1>3, <1>4 DEF IInv, TypeOK, Registered, Commands
<1>9. ToldStops'
  BY <1>3, <1>4, <1>5, RunsAssumption DEF IInv, TypeOK, ToldStops
<1>10. Unasked'
  BY <1>4, <1>5, RunsAssumption DEF IInv, Unasked
<1>11. Untouched'
  <2>1. SUFFICES ASSUME NEW o \in Runs, Live(o)', o \notin asked, o \notin beside', kind[o] # "raw"
                 PROVE  /\ ~pending' /\ o \notin aborted /\ run'[o].result # "cancelled"
                        /\ \A q \in Runs \ {o} : ~Live(q)'
    BY <1>4 DEF Untouched
  <2>2. o = r
    BY <2>1, <1>4, <1>5, RunsAssumption DEF IInv, Unasked
  <2>3. run[r].result = None
    BY <1>4 DEF IInv, Blank
  <2>4. r \notin aborted
    BY <1>4 DEF IInv, Registered, Commands
  <2> QED
    BY <2>1, <2>2, <2>3, <2>4, <1>3, <1>4, <1>5 DEF None
<1>12. Blank' /\ CancelIsReported' /\ FreshRunNotBlocked'
  BY <1>1, <1>3, <1>4 DEF IInv, TypeOK, Blank, CancelIsReported, FreshRunNotBlocked, Polls
<1> QED
  BY <1>6, <1>7, <1>8, <1>9, <1>10, <1>11, <1>12 DEF IInv

LEMMA PreparedKeeps ==
  ASSUME IInv, NEW r \in Runs, Prepared(r)
  PROVE  IInv'
<1>1. Live(r)
  BY DEF Prepared, Live
<1>2. CASE Retired(r)
  <2>1. kind[r] = "raw" \/ r \in beside \/ r \in asked
    BY <1>1, <1>2, NothingToFind
  <2>2. Finishes(r, "cancelled")
    BY <1>2, <2>1 DEF Prepared, Finishes, Results, Commands
  <2> QED
    BY <2>2, FinishesKeeps
<1>3. CASE ~Retired(r)
  <2>1. run' = [run EXCEPT ![r].pc = "poll", ![r].connected = TRUE]
    BY <1>3 DEF Prepared
  <2>2. /\ run' \in [Runs -> Run]
        /\ run'[r].pc = "poll" /\ run'[r].left = run[r].left /\ run'[r].result = run[r].result
        /\ \A o \in Runs \ {r} : run'[o] = run[o]
    BY ZenonT(30), <2>1 DEF IInv, TypeOK, Run, Steps
  <2>3. Advances(r)
    BY <1>1, <1>3, <2>2 DEF IInv, Counted, Prepared, Advances, Commands, managerVars, gateVars, historyVars
  <2> QED
    BY <2>3, AdvancesKeeps
<1> QED
  BY <1>2, <1>3

LEMMA PollFindsKeeps ==
  ASSUME IInv, NEW r \in Runs, PollFinds(r)
  PROVE  IInv'
<1>1. Live(r)
  BY DEF PollFinds, Live
<1>2. kind[r] = "raw" \/ r \in beside \/ r \in asked
  BY <1>1, NothingToFind DEF PollFinds
<1>3. Finishes(r, "cancelled")
  BY <1>2 DEF PollFinds, Finishes, Results, Commands
<1> QED
  BY <1>3, FinishesKeeps

LEMMA PollPassesKeeps ==
  ASSUME IInv, NEW r \in Runs, PollPasses(r)
  PROVE  IInv'
<1>1. Live(r)
  BY DEF PollPasses, Live
<1>2. r \notin told
  BY <1>1, ToldIsPolled DEF PollPasses
<1>3. CASE run[r].connected
  BY <1>2, <1>3, SendsKeeps DEF PollPasses, historyVars
<1>4. CASE ~run[r].connected
  <2>1. run' = [run EXCEPT ![r].pc = "opening"]
    BY <1>4 DEF PollPasses, Goes
  <2>2. /\ run' \in [Runs -> Run]
        /\ run'[r].pc = "opening" /\ run'[r].left = run[r].left /\ run'[r].result = run[r].result
        /\ \A o \in Runs \ {r} : run'[o] = run[o]
    BY <2>1 DEF IInv, TypeOK, Run, Steps
  <2>3. Advances(r)
    BY <1>1, <1>2, <1>4, <2>2 DEF IInv, Counted, PollPasses, Advances, Commands, managerVars, gateVars, historyVars
  <2> QED
    BY <2>3, AdvancesKeeps
<1> QED
  BY <1>3, <1>4

LEMMA OpenedKeeps ==
  ASSUME IInv, NEW r \in Runs, Opened(r)
  PROVE  IInv'
<1>1. Live(r) /\ run[r].pc = "opening"
  BY DEF Opened, Live
<1>2. r \notin told
  BY <1>1, ToldIsPolled
<1>3. CASE kind[r] = "raw" /\ Retired(r)
  <2>1. Finishes(r, "cancelled")
    BY <1>1, <1>3 DEF Opened, Finishes, Results, Commands, managerVars, historyVars
  <2> QED
    BY <2>1, FinishesKeeps
<1>4. CASE ~(kind[r] = "raw" /\ Retired(r))
  BY <1>1, <1>2, <1>4, SendsKeeps DEF Opened
<1> QED
  BY <1>3, <1>4

LEMMA AnswersKeeps ==
  ASSUME IInv, NEW r \in Runs, NEW o \in Results, Answers(r, o)
  PROVE  IInv'
<1> DEFINE result == IF o = "ok" /\ r \in aborted /\ Polls(r) THEN "cancelled" ELSE o
<1>1. result \in Results /\ (result = "cancelled" => r \in aborted)
  BY DEF Answers, Results
<1>2. run' = [run EXCEPT ![r].pc = "closing", ![r].result = result]
  BY DEF Answers
<1> HIDE DEF result
<1>3. /\ run' \in [Runs -> Run]
      /\ run'[r].pc = "closing" /\ run'[r].left = run[r].left /\ run'[r].result = result
      /\ \A q \in Runs \ {r} : run'[q] = run[q]
  BY <1>1, <1>2 DEF IInv, TypeOK, Run, Steps
<1>4. Advances(r)
  BY <1>1, <1>3 DEF IInv, Counted, Live, Answers, Advances, Commands, managerVars, gateVars, historyVars
<1> QED
  BY <1>4, AdvancesKeeps

LEMMA UnregistersKeeps ==
  ASSUME IInv, NEW r \in Runs, Unregisters(r)
  PROVE  IInv'
<1> USE DEF managerVars, gateVars, historyVars
<1>1. /\ run' \in [Runs -> Run]
      /\ run'[r].pc = "after" /\ run'[r].result = run[r].result /\ run'[r].left = run[r].left
      /\ \A o \in Runs \ {r} : run'[o] = run[o]
  BY DEF IInv, TypeOK, Unregisters, Goes, Run, Steps
<1>2. /\ run[r].pc = "closing"
      /\ entry' = IF entry = r THEN None ELSE entry
      /\ aborted' = aborted \ {r}
      /\ kind' = kind /\ pending' = pending /\ disposed' = disposed /\ current' = current
      /\ recovery' = recovery /\ cancels' = cancels
      /\ asked' = asked /\ beside' = beside /\ told' = told
  BY DEF Unregisters, UnregisterCommand
<1>3. \A o \in Runs : Live(o)' <=> Live(o)
  BY <1>1, <1>2 DEF Live
<1>4. TypeOK'
  BY <1>1, <1>2 DEF IInv, TypeOK
<1>5. CommandReachable' /\ Counted'
  BY <1>1, <1>2, <1>3 DEF IInv, CommandReachable, Counted
<1>6. Registered'
  BY <1>1, <1>2 DEF IInv, TypeOK, Registered
<1>7. ToldStops' /\ Unasked'
  BY <1>1, <1>2, <1>3 DEF IInv, TypeOK, ToldStops, Unasked
<1>8. Untouched'
  BY <1>1, <1>2, <1>3 DEF IInv, Untouched
<1>9. Blank' /\ CancelIsReported' /\ FreshRunNotBlocked'
  BY <1>1, <1>2 DEF IInv, TypeOK, Blank, CancelIsReported, FreshRunNotBlocked, Polls
<1> QED
  BY <1>4, <1>5, <1>6, <1>7, <1>8, <1>9 DEF IInv

LEMMA SucceededKeeps ==
  ASSUME IInv, NEW r \in Runs, Succeeded(r)
  PROVE  IInv'
<1>1. Live(r) /\ run[r].pc = "after" /\ run[r].result = "ok"
  BY DEF Succeeded, Live
<1>2. CASE Polls(r) /\ (Retired(r) \/ IsAborted)
  <2>1. kind[r] = "raw" \/ r \in beside \/ r \in asked
    BY <1>1, <1>2, NothingToFind
  <2>2. Finishes(r, "cancelled")
    BY <1>1, <1>2, <2>1 DEF Succeeded, Finishes, Results, Commands
  <2> QED
    BY <2>2, FinishesKeeps
<1>3. CASE ~(Polls(r) /\ (Retired(r) \/ IsAborted))
  <2>1. r \notin told \/ ~Polls(r)
    BY <1>1, <1>3, ToldIsPolled
  <2> QED
    BY <1>1, <1>3, <2>1, NextStatementKeeps DEF Succeeded
<1> QED
  BY <1>2, <1>3

LEMMA WasCancelledKeeps ==
  ASSUME IInv, NEW r \in Runs, WasCancelled(r)
  PROVE  IInv'
<1>1. Live(r)
  BY DEF WasCancelled, Live
<1>2. kind[r] = "raw" \/ r \in beside \/ r \in asked
  BY <1>1, NothingToFind DEF WasCancelled
<1>3. Finishes(r, "cancelled")
  BY <1>2 DEF WasCancelled, Finishes, Results, Commands
<1> QED
  BY <1>3, FinishesKeeps

LEMMA FailedKeeps ==
  ASSUME IInv, NEW r \in Runs, Failed(r)
  PROVE  IInv'
<1>1. CASE kind[r] = "keepGoing"
  BY <1>1, NextStatementKeeps DEF Failed, GoesOnAfterError
<1>2. CASE kind[r] # "keepGoing"
  <2>1. Finishes(r, "error")
    BY <1>2 DEF Failed, GoesOnAfterError, Finishes, Results, Commands
  <2> QED
    BY <2>1, FinishesKeeps
<1> QED
  BY <1>1, <1>2

LEMMA BrokeKeeps ==
  ASSUME IInv, NEW r \in Runs, NEW repeat \in BOOLEAN, Broke(r, repeat)
  PROVE  IInv'
<1>1. run[r].pc = "after" /\ run[r].result = "broken" /\ run[r].left \in Nat /\ run[r].left >= 1
  BY DEF Broke, IInv, TypeOK, Run, Counted, Live
<1>2. CASE repeat
  <2>1. run' = [run EXCEPT ![r].pc = "poll", ![r].connected = FALSE, ![r].attempt = 1]
    BY <1>2 DEF Broke
  <2>2. /\ run' \in [Runs -> Run]
        /\ run'[r].pc = "poll" /\ run'[r].left = run[r].left /\ run'[r].result = run[r].result
        /\ \A o \in Runs \ {r} : run'[o] = run[o]
    BY ZenonT(30), <2>1 DEF IInv, TypeOK, Run, Steps
  <2>3. Advances(r)
    BY <1>1, <1>2, <2>2 DEF Broke, Advances, Commands, managerVars, gateVars, historyVars
  <2> QED
    BY <2>3, AdvancesKeeps
<1>3. CASE ~repeat /\ kind[r] = "keepGoing" /\ run[r].left > 1
  <2>1. run' = [run EXCEPT ![r].pc = "poll", ![r].connected = FALSE, ![r].left = @ - 1, ![r].attempt = 0]
    BY <1>3 DEF Broke
  <2>2. run[r].left - 1 \in Nat /\ run[r].left - 1 >= 1
    BY <1>1, <1>3
  <2>3. /\ run' \in [Runs -> Run]
        /\ run'[r].pc = "poll" /\ run'[r].left = run[r].left - 1 /\ run'[r].result = run[r].result
        /\ \A o \in Runs \ {r} : run'[o] = run[o]
    BY <2>1, <2>2 DEF IInv, TypeOK, Run, Steps
  <2>4. Advances(r)
    BY <1>1, <1>3, <2>2, <2>3 DEF Broke, Advances, Commands, managerVars, gateVars, historyVars
  <2> QED
    BY <2>4, AdvancesKeeps
<1>4. CASE ~repeat /\ ~(kind[r] = "keepGoing" /\ run[r].left > 1)
  <2>1. Finishes(r, "error")
    BY <1>1, <1>4 DEF Broke, Finishes, Results, Commands
  <2> QED
    BY <2>1, FinishesKeeps
<1> QED
  BY <1>2, <1>3, <1>4

--------------------------------------------------------------------------------
(* The actions of the manager, the user and the gate *)

LEMMA StaleCleanupKeeps ==
  ASSUME IInv, NEW r \in Runs, StaleCleanup(r)
  PROVE  IInv'
<1> USE DEF StaleCleanup, gateVars, historyVars, Live
<1>1. TypeOK' /\ CommandReachable'
  BY DEF IInv, TypeOK, CommandReachable
<1>2. Counted' /\ Registered'
  BY DEF IInv, Counted, Registered
<1>3. ToldStops' /\ Unasked' /\ Untouched'
  BY DEF IInv, ToldStops, Unasked, Untouched
<1>4. Blank' /\ CancelIsReported' /\ FreshRunNotBlocked'
  BY DEF IInv, Blank, CancelIsReported, FreshRunNotBlocked, Polls
<1> QED
  BY <1>1, <1>2, <1>3, <1>4 DEF IInv

LEMMA DisposeKeeps ==
  ASSUME IInv, Dispose
  PROVE  IInv'
<1> USE DEF Dispose, gateVars, Live
<1>1. TypeOK'
  BY DEF IInv, TypeOK
<1>2. CommandReachable'
  BY RunsAssumption DEF IInv, CommandReachable
<1>3. Counted' /\ Registered'
  BY DEF IInv, TypeOK, Counted, Registered
<1>4. ToldStops' /\ Unasked' /\ Untouched'
  BY DEF ToldStops, Unasked, Untouched
<1>5. Blank' /\ CancelIsReported' /\ FreshRunNotBlocked'
  BY DEF IInv, Blank, CancelIsReported, FreshRunNotBlocked
<1> QED
  BY <1>1, <1>2, <1>3, <1>4, <1>5 DEF IInv

(* A cancellation, of a user or the first step of a recovery. *)
LEMMA CancelKeeps ==
  ASSUME IInv, Cancel, UNCHANGED << kind, run, current, beside >>,
         recovery' \in {"none", "cancelling", "replaced"},
         recovery' = recovery \/ recovery = "none"
  PROVE  IInv'
<1>1. /\ aborted' = aborted \union ({entry} \ {None}) /\ pending' = TRUE
      /\ entry' = entry /\ disposed' = disposed /\ cancels' = cancels + 1
      /\ asked' = asked \union {r \in Runs : Live(r)}
      /\ told' = told \union {r \in Runs : /\ current = r /\ Live(r) /\ run[r].pc # "opening"
                                            /\ \A o \in Runs \ {r} : ~Live(o)}
  BY DEF Cancel, AbortQuery
<1>2. \A r \in Runs : Live(r)' <=> Live(r)
  BY DEF Live
<1>3. TypeOK'
  BY <1>1 DEF IInv, TypeOK
<1>4. CommandReachable' /\ Counted'
  BY <1>1, <1>2 DEF IInv, CommandReachable, Counted
<1>5. Registered'
  BY <1>1 DEF IInv, TypeOK, Registered
<1>6. ToldStops'
  BY <1>1, <1>2 DEF IInv, TypeOK, ToldStops, Live
<1>7. Unasked' /\ Untouched'
  BY <1>1, <1>2 DEF Unasked, Untouched
<1>8. Blank' /\ CancelIsReported' /\ FreshRunNotBlocked'
  BY <1>1 DEF IInv, Blank, CancelIsReported, FreshRunNotBlocked, Polls, Live
<1> QED
  BY <1>3, <1>4, <1>5, <1>6, <1>7, <1>8 DEF IInv

LEMMA RecoveryGoesOnKeeps ==
  ASSUME IInv, RecoveryReplaces \/ RecoveryGivesUp
  PROVE  IInv'
<1>1. /\ recovery = "cancelling" /\ recovery' \in {"none", "replaced"}
      /\ UNCHANGED << kind, managerVars, run, current, cancels, historyVars >>
  BY DEF RecoveryReplaces, RecoveryGivesUp
<1> USE <1>1 DEF managerVars, historyVars, Live
<1>2. TypeOK' /\ CommandReachable' /\ Counted' /\ Registered'
  BY DEF IInv, TypeOK, CommandReachable, Counted, Registered
<1>3. ToldStops' /\ Unasked' /\ Untouched'
  BY DEF IInv, ToldStops, Unasked, Untouched
<1>4. Blank' /\ CancelIsReported' /\ FreshRunNotBlocked'
  BY DEF IInv, Blank, CancelIsReported, FreshRunNotBlocked, Polls
<1> QED
  BY <1>2, <1>3, <1>4 DEF IInv

LEMMA RecoveryRetiresKeeps ==
  ASSUME IInv, RecoveryRetires
  PROVE  IInv'
<1> USE DEF RecoveryRetires, Live
<1>1. TypeOK' /\ CommandReachable' /\ Counted' /\ Registered'
  BY DEF IInv, TypeOK, CommandReachable, Counted, Registered
<1>2. ToldStops'
  BY DEF IInv, TypeOK, ToldStops
<1>3. Unasked' /\ Untouched'
  BY DEF IInv, Unasked, Untouched
<1>4. Blank' /\ CancelIsReported' /\ FreshRunNotBlocked'
  BY DEF IInv, Blank, CancelIsReported, FreshRunNotBlocked, Polls
<1> QED
  BY <1>1, <1>2, <1>3, <1>4 DEF IInv

LEMMA StutterKeeps == IInv /\ UNCHANGED vars => IInv'
  BY DEF vars, managerVars, gateVars, historyVars, IInv, TypeOK, CommandReachable, Counted, Registered,
     ToldStops, Unasked, Untouched, Blank, CancelIsReported, FreshRunNotBlocked, Polls, Live

LEMMA NextKeeps == IInv /\ [Next]_vars => IInv'
<1> SUFFICES ASSUME IInv, Next PROVE IInv'
  BY StutterKeeps
<1>1. ASSUME NEW r \in Runs, Start(r) PROVE IInv'
  BY <1>1, StartKeeps
<1>2. ASSUME NEW r \in Runs, Prepared(r) PROVE IInv'
  BY <1>2, PreparedKeeps
<1>3. ASSUME NEW r \in Runs, PollFinds(r) PROVE IInv'
  BY <1>3, PollFindsKeeps
<1>4. ASSUME NEW r \in Runs, PollPasses(r) PROVE IInv'
  BY <1>4, PollPassesKeeps
<1>5. ASSUME NEW r \in Runs, Opened(r) PROVE IInv'
  BY <1>5, OpenedKeeps
<1>6. ASSUME NEW r \in Runs, NEW o \in Results \ {None}, Answers(r, o) PROVE IInv'
  BY <1>6, AnswersKeeps
<1>7. ASSUME NEW r \in Runs, Unregisters(r) PROVE IInv'
  BY <1>7, UnregistersKeeps
<1>8. ASSUME NEW r \in Runs, Succeeded(r) PROVE IInv'
  BY <1>8, SucceededKeeps
<1>9. ASSUME NEW r \in Runs, WasCancelled(r) PROVE IInv'
  BY <1>9, WasCancelledKeeps
<1>10. ASSUME NEW r \in Runs, Failed(r) PROVE IInv'
  BY <1>10, FailedKeeps
<1>11. ASSUME NEW r \in Runs, NEW repeat \in BOOLEAN, Broke(r, repeat) PROVE IInv'
  BY <1>11, BrokeKeeps
<1>12. ASSUME NEW r \in Runs, StaleCleanup(r) PROVE IInv'
  BY <1>12, StaleCleanupKeeps
<1>13. CASE UserCancels
  <2>1. recovery' = recovery /\ recovery \in {"none", "cancelling", "replaced"}
    BY <1>13 DEF UserCancels, gateVars, IInv, TypeOK
  <2> QED
    BY <1>13, <2>1, CancelKeeps DEF UserCancels, gateVars
<1>14. CASE RecoveryCancels
  BY <1>14, CancelKeeps DEF RecoveryCancels
<1>15. CASE RecoveryReplaces \/ RecoveryGivesUp
  BY <1>15, RecoveryGoesOnKeeps
<1>16. CASE RecoveryRetires
  BY <1>16, RecoveryRetiresKeeps
<1>17. CASE Dispose
  BY <1>17, DisposeKeeps
<1> QED
  BY <1>1, <1>2, <1>3, <1>4, <1>5, <1>6, <1>7, <1>8, <1>9, <1>10, <1>11, <1>12, <1>13, <1>14, <1>15,
     <1>16, <1>17 DEF Next

LEMMA Invariance == Spec => []IInv
<1> QED
  BY InitIInv, NextKeeps, PTL DEF Spec

--------------------------------------------------------------------------------
(* In every behaviour every variable keeps its type; a run under way always has
   a statement left. *)
THEOREM TypeInvariance == Spec => []TypeOK
<1>1. IInv => TypeOK
  BY DEF IInv
<1> QED
  BY <1>1, Invariance, PTL

(* However many runs a document has had, the command that nobody stopped is the
   one registered, so that a cancellation reaches it. *)
THEOREM Reachable == Spec => []CommandReachable
<1>1. IInv => CommandReachable
  BY DEF IInv
<1> QED
  BY <1>1, Invariance, PTL

(* A run that was alone when it was cancelled does not count as a success. *)
THEOREM Reported == Spec => []CancelIsReported
<1>1. IInv => CancelIsReported
  BY DEF IInv
<1> QED
  BY <1>1, Invariance, PTL

(* A cancellation before a batch began does not stop it. *)
THEOREM NotBlocked == Spec => []FreshRunNotBlocked
<1>1. IInv => FreshRunNotBlocked
  BY DEF IInv
<1> QED
  BY <1>1, Invariance, PTL

(* Only a poll that passes and an opened connection register a command; the flag
   of a run that was told stops the first, and it is not at the second. *)
LEMMA OnlySendsRegisters ==
  ASSUME IInv, Next, entry' # entry, entry' # None
  PROVE  entry' \notin told
<1>1. PICK r \in Runs : PollPasses(r) \/ Opened(r)
  BY DEF Next, Start, Prepared, PollFinds, Answers, Unregisters, UnregisterCommand, Succeeded,
     WasCancelled, Failed, Broke, StaleCleanup, UserCancels, RecoveryCancels, Cancel, AbortQuery,
     RecoveryReplaces, RecoveryGivesUp, RecoveryRetires, Dispose, managerVars
<1>2. Live(r) /\ (run[r].pc = "opening" \/ ~IsAborted)
  BY <1>1 DEF PollPasses, Opened, Live
<1>3. r \notin told
  BY <1>2, ToldIsPolled
<1>4. entry' = r /\ told' = told
  BY <1>1 DEF PollPasses, Opened, Sends, RegisterCommand, historyVars
<1> QED
  BY <1>3, <1>4

(* A run that was alone and not opening a connection when it was cancelled sends
   nothing any more. *)
THEOREM ToldRunStops == Spec => LoneRunStops
<1>1. IInv /\ [Next]_vars => [entry' # entry /\ entry' # None => entry' \notin told]_vars
  <2> SUFFICES ASSUME IInv, Next, entry' # entry, entry' # None PROVE entry' \notin told
    OBVIOUS
  <2> QED
    BY OnlySendsRegisters
<1> QED
  BY <1>1, Invariance, PTL DEF Spec, LoneRunStops
================================================================================
