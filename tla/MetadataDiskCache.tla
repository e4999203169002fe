--------------------------- MODULE MetadataDiskCache ---------------------------
(***************************************************************************)
(* src/metadata/diskStorage: the metadata cache that all windows share in  *)
(* one directory.  An index file names the snapshots, a directory per      *)
(* connection holds the payload: metadata, a manifest, and a column file   *)
(* and a foreign key file per database, all written over in place by the   *)
(* next save.  A refresh holds a lock file on its connection and a fence   *)
(* from the index; every read and write of the index happens under one     *)
(* save lock; a clear advances the generation.                             *)
(*                                                                         *)
(* Taking and giving back a lock is one step here (metadataDiskLock.ts     *)
(* takes several file operations), so is removing a directory, and the     *)
(* save lock, which has no heartbeat, is not held past its time limit by a *)
(* living window.  A file is renamed into place (writeGzipJson), so that   *)
(* writing one is a step.  Crashes are possible between any two steps; the *)
(* lock of a connection may run out while its owner is only suspended.     *)
(* There are never more connections than MAX_STORED_CONNECTIONS and all    *)
(* are known: nothing is evicted.                                          *)
(***************************************************************************)
EXTENDS Naturals, Sequences, FiniteSets

CONSTANTS
  Windows,       \* extension hosts
  Unaware,       \* those whose watcher has not looked at the index when all begins
  Conns,         \* connections
  Prefetches,    \* slots of a window for connection prefetches
  Relations,     \* slots of a window for refreshes of the foreign keys only
  Parts,         \* column files and foreign key files of a connection
  LeaseIds,      \* enough identities for the locks in use at one time
  MaxFence, MaxGeneration, MaxTime,    \* bounds of the counters
  MaxCrashes, MaxStalls                \* bounds of the faults

None == "none"
Slots == Prefetches \union Relations \union {"startup", "clear"}

ASSUME SlotsAssumption ==
  /\ Prefetches \intersect Relations = {}
  /\ {"startup", "clear"} \intersect (Prefetches \union Relations) = {}
ASSUME NamesAssumption ==
  /\ None \notin Windows \union Conns \union LeaseIds
  /\ "dead" \notin Windows /\ {"metadata", "manifest"} \intersect Parts = {}
  /\ Unaware \subseteq Windows
ASSUME BoundsAssumption ==
  {MaxFence, MaxGeneration, MaxTime, MaxCrashes, MaxStalls} \subseteq Nat

VARIABLES
  index, payload,            \* the files of the cache
  lockFile, saveLock,        \* the lock files
  owned,                     \* MetadataDiskLock.ownedLeases of each window
  task, queue, section,      \* refreshes; the writeQueue and where its head is
  prefetching, triggered,    \* CachePrefetcher of each window
  seenGeneration,            \* MetadataDiskIndexWatcher.knownGeneration
  now, horizon,              \* snapshots taken up to horizon have expired
  crashes, stalls

diskVars == << index, payload >>
memoryVars == << prefetching, triggered, seenGeneration >>
clockVars == << now, horizon >>
faultVars == << crashes, stalls >>
vars == << diskVars, lockFile, saveLock, owned, task, queue, section, memoryVars,
           clockVars, faultVars >>

Entry ==
  [here : BOOLEAN, ts : Nat, complete : BOOLEAN, fence : Nat, gen : Nat, parts : SUBSET Parts]
NoEntry ==
  [here |-> FALSE, ts |-> 0, complete |-> FALSE, fence |-> 0, gen |-> 0, parts |-> {}]
Index == [gen : Nat, nextFence : Nat, conns : [Conns -> Entry]]
EmptyIndex(generation) ==
  [gen |-> generation, nextFence |-> 1, conns |-> [c \in Conns |-> NoEntry]]

\* The stamp of a file is the save that wrote it (of which the metadata and the manifest
\* bear the time, and the parts nothing); a file of generation 0 is missing.
Files == {"metadata", "manifest"} \union Parts
Stamp == [gen : Nat, fence : Nat, ts : Nat]
Missing == [gen |-> 0, fence |-> 0, ts |-> 0]
NoPayload == [f \in Files |-> Missing]
StampOf(save) == [gen |-> save.gen, fence |-> save.fence, ts |-> save.ts]

LockFile == [id : LeaseIds \union {None}, stale : BOOLEAN]
Unlocked == [id |-> None, stale |-> FALSE]

Step == {"begin", "idle", "fence", "leased", "discard", "run", "checkpoint", "final",
         "expired", "remove", "reset"}
Task == [pc : Step, conn : Conns \union {None}, lease : LeaseIds \union {None},
         gen : Nat, fence : Nat, ts : Nat, current : BOOLEAN]
Idle == [pc |-> "idle", conn |-> None, lease |-> None, gen |-> 0, fence |-> 0, ts |-> 0,
         current |-> FALSE]
Outside == [at |-> "out", copy |-> EmptyIndex(1), parts |-> {}, todo |-> {}]
Waiting(steps) == {ws \in Windows \X Slots : task[ws[1]][ws[2]].pc \in steps}

FreshWindow ==
  [s \in Slots |-> IF s = "startup" THEN [Idle EXCEPT !.pc = "begin", !.current = TRUE] ELSE Idle]

\* All windows are open, on an index that names no snapshot.
Init ==
  /\ index = EmptyIndex(1) /\ payload = [c \in Conns |-> NoPayload]
  /\ lockFile = [c \in Conns |-> Unlocked] /\ saveLock = None
  /\ owned = [w \in Windows |-> [c \in Conns |-> None]]
  /\ task = [w \in Windows |-> [s \in Slots |-> Idle]]
  /\ queue = [w \in Windows |-> << >>]
  /\ section = [w \in Windows |-> Outside]
  /\ prefetching = [w \in Windows |-> {}]
  /\ triggered = [w \in Windows |-> [c \in Conns |-> 0]]
  /\ seenGeneration = [w \in Windows |-> IF w \in Unaware THEN 0 ELSE 1]
  /\ now = 0 /\ horizon = 0 /\ crashes = 0 /\ stalls = 0

--------------------------------------------------------------------------------
(* MetadataDiskLock *)

HasLease(w, c, id) == owned[w][c] = id /\ lockFile[c].id = id /\ id # None

\* acquireLock succeeds: the window has the lock already, nobody has it, its
\* process has died, or its heartbeat is too old.
CanLock(w, c) ==
  HasLease(w, c, owned[w][c]) \/ lockFile[c].id = None \/ lockFile[c].stale

\* crypto.randomUUID: an identity nobody refers to.
FreshLease ==
  CHOOSE id \in LeaseIds :
    /\ \A c \in Conns : lockFile[c].id # id /\ \A w \in Windows : owned[w][c] # id
    /\ \A w \in Windows, s \in Slots : task[w][s].lease # id

\* acquireLock and startHeartbeat; a window that has the lock gets the same lease.
LeaseFor(w, c) == IF HasLease(w, c, owned[w][c]) THEN owned[w][c] ELSE FreshLease

AcquireLock(w, c) ==
  /\ CanLock(w, c)
  /\ lockFile' = [lockFile EXCEPT ![c] = [id |-> LeaseFor(w, c), stale |-> FALSE]]
  /\ owned' = [owned EXCEPT ![w][c] = LeaseFor(w, c)]

ReleaseLock(w, c, id) ==
  /\ lockFile' = IF lockFile[c].id = id THEN [lockFile EXCEPT ![c] = Unlocked] ELSE lockFile
  /\ owned' = IF owned[w][c] = id THEN [owned EXCEPT ![w][c] = None] ELSE owned

--------------------------------------------------------------------------------
(* The write queue and the save lock *)

Enqueue(w, s) == queue' = [queue EXCEPT ![w] = Append(@, s)]
HeadIs(w, s, at) == queue[w] # << >> /\ Head(queue[w]) = s /\ section[w].at = at

\* withSaveLock gets the lock and the operation reads the index.
EnterSection(w) ==
  /\ queue[w] # << >> /\ section[w].at = "out"
  /\ saveLock \in {None, "dead"}
  /\ saveLock' = w
  /\ section' = [section EXCEPT ![w] = [Outside EXCEPT !.at = "read", !.copy = index]]
  /\ UNCHANGED << diskVars, lockFile, owned, task, queue, memoryVars, clockVars, faultVars >>

\* The operation ends, the save lock is released, the next operation may begin.
LeaveSection(w) ==
  /\ saveLock' = IF saveLock = w THEN None ELSE saveLock
  /\ section' = [section EXCEPT ![w] = Outside]
  /\ queue' = [queue EXCEPT ![w] = Tail(@)]

GoesOn(w, s) ==
  /\ task' = [task EXCEPT ![w][s] = [@ EXCEPT !.pc = "run", !.ts = 0]]
  /\ UNCHANGED << lockFile, owned >>

Ends(w, s) == task' = [task EXCEPT ![w][s] = Idle]

EndsAndReleases(w, s) ==
  /\ Ends(w, s)
  /\ ReleaseLock(w, task[w][s].conn, task[w][s].lease)

\* What the caller does when its operation has settled.
Settled(w, s) ==
  \/ task[w][s].pc \in {"discard", "checkpoint"} /\ GoesOn(w, s)
  \/ task[w][s].pc \in {"final", "remove"} /\ EndsAndReleases(w, s)
  \/ task[w][s].pc = "reset" /\ Ends(w, s) /\ UNCHANGED << lockFile, owned >>

--------------------------------------------------------------------------------
(* Starting a refresh *)

Expired(ts) == ts <= horizon

\* whenDiskReady; and the bound on the fences.
MayRefresh(w) ==
  /\ task[w]["startup"].pc = "idle"
  /\ index.nextFence + Cardinality(Waiting({"fence"})) <= MaxFence

StartPrefetch(w, p, c) ==
  LET last == triggered[w][c] IN
  /\ MayRefresh(w) /\ task[w][p].pc = "idle" /\ c \notin prefetching[w]
  /\ AcquireLock(w, c)
  /\ task' = [task EXCEPT ![w][p] =
       [Idle EXCEPT !.pc = "fence", !.conn = c, !.lease = LeaseFor(w, c),
                    !.ts = IF Expired(last) THEN last ELSE 0]]
  /\ prefetching' = [prefetching EXCEPT ![w] = @ \union {c}]
  /\ Enqueue(w, p)
  /\ UNCHANGED << diskVars, saveLock, section, triggered, seenGeneration, clockVars, faultVars >>

\* refreshIncompleteForeignKeyRelationships, of a connection with a fresh snapshot.
StartRelations(w, r, c) ==
  LET last == triggered[w][c] IN
  /\ MayRefresh(w) /\ task[w][r].pc = "idle" /\ last # 0 /\ ~ Expired(last)
  /\ AcquireLock(w, c)
  /\ task' = [task EXCEPT ![w][r] =
       [Idle EXCEPT !.pc = "fence", !.conn = c, !.lease = LeaseFor(w, c), !.ts = last,
                    !.current = TRUE]]
  /\ Enqueue(w, r)
  /\ UNCHANGED << diskVars, saveLock, section, memoryVars, clockVars, faultVars >>

\* acquirePrefetchLease: the fence comes from the index and is written back.
AllocateFence(w, s) ==
  LET copy == section[w].copy IN
  /\ HeadIs(w, s, "read") /\ task[w][s].pc = "fence"
  /\ index' = [copy EXCEPT !.nextFence = @ + 1, !.conns[task[w][s].conn].here = TRUE]
  /\ task' = [task EXCEPT ![w][s] =
       [@ EXCEPT !.gen = copy.gen, !.fence = copy.nextFence,
                 !.pc = IF s \in Prefetches /\ task[w][s].ts # 0 THEN "leased" ELSE "run"]]
  /\ LeaveSection(w)
  /\ UNCHANGED << payload, lockFile, owned, memoryVars, clockVars, faultVars >>

\* A bump of cacheGeneration: a startup and refreshes of foreign keys under way are
\* out of date.
Outdate(w, tasks) == [s \in Slots |-> [tasks[s] EXCEPT !.current = FALSE]]

\* discardExpiredConnectionMetadata: an expired snapshot is no base for the new one.
DiscardExpired(w, p) ==
  /\ task[w][p].pc = "leased"
  /\ task' = [task EXCEPT ![w] = [Outdate(w, @) EXCEPT ![p].pc = "discard"]]
  /\ triggered' = [triggered EXCEPT ![w][task[w][p].conn] = 0]
  /\ Enqueue(w, p)
  /\ UNCHANGED << diskVars, lockFile, saveLock, owned, section, prefetching, seenGeneration,
                  clockVars, faultVars >>

--------------------------------------------------------------------------------
(* Saving a snapshot *)

\* A checkpoint of a prefetch that is not over.
Checkpoint(w, p) ==
  /\ p \in Prefetches /\ task[w][p].pc = "run" /\ now < MaxTime
  /\ now' = now + 1
  /\ task' = [task EXCEPT ![w][p] = [@ EXCEPT !.pc = "checkpoint", !.ts = now + 1]]
  /\ Enqueue(w, p)
  /\ UNCHANGED << diskVars, lockFile, saveLock, owned, section, memoryVars, horizon, faultVars >>

\* A prefetch that got all the metadata.
PrefetchSucceeds(w, p) ==
  LET c == task[w][p].conn IN
  /\ p \in Prefetches /\ task[w][p].pc = "run" /\ now < MaxTime
  /\ now' = now + 1
  /\ triggered' = [triggered EXCEPT ![w][c] = now + 1]
  /\ prefetching' = [prefetching EXCEPT ![w] = @ \ {c}]
  /\ task' = [task EXCEPT ![w][p] = [@ EXCEPT !.pc = "final", !.ts = now + 1]]
  /\ Enqueue(w, p)
  /\ UNCHANGED << diskVars, lockFile, saveLock, owned, section, seenGeneration, horizon, faultVars >>

PrefetchFails(w, p) ==
  /\ p \in Prefetches /\ task[w][p].pc = "run"
  /\ prefetching' = [prefetching EXCEPT ![w] = @ \ {task[w][p].conn}]
  /\ EndsAndReleases(w, p)
  /\ UNCHANGED << diskVars, saveLock, queue, section, triggered, seenGeneration, clockVars, faultVars >>

\* The foreign keys join the snapshot in memory, which keeps its time.
RelationsSucceed(w, r) ==
  /\ r \in Relations /\ task[w][r].pc = "run"
  /\ task[w][r].current /\ triggered[w][task[w][r].conn] = task[w][r].ts
  /\ task' = [task EXCEPT ![w][r] = [@ EXCEPT !.pc = "final"]]
  /\ Enqueue(w, r)
  /\ UNCHANGED << diskVars, lockFile, saveLock, owned, section, memoryVars, clockVars, faultVars >>

RelationsEnd(w, r) ==
  /\ r \in Relations /\ task[w][r].pc = "run"
  /\ EndsAndReleases(w, r)
  /\ UNCHANGED << diskVars, saveLock, queue, section, memoryVars, clockVars, faultVars >>

\* Mutants: the guard on the generation, the guard on the fence is left out.
AcceptedFromAnyGeneration(w, s) ==
  LET t == task[w][s] IN
  t.fence >= section[w].copy.conns[t.conn].fence /\ HasLease(w, t.conn, t.lease)

AcceptedUnfenced(w, s) ==
  LET t == task[w][s] IN
  t.gen = section[w].copy.gen /\ HasLease(w, t.conn, t.lease)

\* saveConnectionV2's guards.
Accepted(w, s) ==
  LET t == task[w][s]  copy == section[w].copy IN
  /\ t.gen = copy.gen
  /\ t.fence >= copy.conns[t.conn].fence
  /\ HasLease(w, t.conn, t.lease)

\* saveConnectionV2 writes over the files of the last snapshot, one by one: the
\* metadata first, then the parts, then it prunes what the new snapshot has not,
\* then the manifest.  The index in the directory names the last snapshot until the end.
WriteFile(w, s, f, stamp) ==
  payload' = [payload EXCEPT ![task[w][s].conn][f] = stamp]

WriteMetadata(w, s) ==
  LET t == task[w][s] IN
  /\ HeadIs(w, s, "read") /\ t.pc \in {"checkpoint", "final"}
  /\ Accepted(w, s)
  /\ WriteFile(w, s, "metadata", StampOf(t))
  /\ \E parts \in SUBSET Parts :
       section' = [section EXCEPT ![w] =
                     [@ EXCEPT !.at = "parts", !.parts = parts, !.todo = Parts]]
  /\ UNCHANGED << index, lockFile, saveLock, owned, task, queue, memoryVars, clockVars, faultVars >>

WritePart(w, s, f) ==
  /\ HeadIs(w, s, "parts") /\ f \in section[w].todo \intersect section[w].parts
  /\ WriteFile(w, s, f, StampOf(task[w][s]))
  /\ section' = [section EXCEPT ![w].todo = @ \ {f}]
  /\ UNCHANGED << index, lockFile, saveLock, owned, task, queue, memoryVars, clockVars, faultVars >>

\* pruneStaleColumnFiles, pruneStaleForeignKeyRelationshipFiles; unlink may fail.
PrunePart(w, s, f) ==
  /\ HeadIs(w, s, "parts") /\ f \in section[w].todo
  /\ section[w].todo \intersect section[w].parts = {}
  /\ WriteFile(w, s, f, Missing) \/ UNCHANGED payload
  /\ section' = [section EXCEPT ![w].todo = @ \ {f}]
  /\ UNCHANGED << index, lockFile, saveLock, owned, task, queue, memoryVars, clockVars, faultVars >>

\* Mutant: nobody waits for the writes of the parts.
WriteManifestAtOnce(w, s) ==
  /\ HeadIs(w, s, "parts")
  /\ WriteFile(w, s, "manifest", StampOf(task[w][s]))
  /\ section' = [section EXCEPT ![w].at = "payload"]
  /\ UNCHANGED << index, lockFile, saveLock, owned, task, queue, memoryVars, clockVars, faultVars >>

WriteManifest(w, s) ==
  /\ HeadIs(w, s, "parts") /\ section[w].todo = {}
  /\ WriteFile(w, s, "manifest", StampOf(task[w][s]))
  /\ section' = [section EXCEPT ![w].at = "payload"]
  /\ UNCHANGED << index, lockFile, saveLock, owned, task, queue, memoryVars, clockVars, faultVars >>

\* Rejected, or the memory holds no complete snapshot of the connection.
SkipSnapshot(w, s) ==
  /\ HeadIs(w, s, "read") /\ task[w][s].pc \in {"checkpoint", "final"}
  /\ Settled(w, s) /\ LeaveSection(w)
  /\ UNCHANGED << diskVars, memoryVars, clockVars, faultVars >>

CommitSnapshot(w, s) ==
  LET t == task[w][s] IN
  /\ HeadIs(w, s, "payload")
  /\ index' = [section[w].copy EXCEPT !.conns[t.conn] =
       [here |-> TRUE, ts |-> t.ts, complete |-> t.pc = "final", fence |-> t.fence,
        gen |-> t.gen, parts |-> section[w].parts]]
  /\ Settled(w, s) /\ LeaveSection(w)
  /\ UNCHANGED << payload, memoryVars, clockVars, faultVars >>

--------------------------------------------------------------------------------
(* Removing snapshots *)

\* initializeDiskCache: fresh snapshots are taken over, an expired one is to go,
\* unless the memory was cleared meanwhile.
LoadManifests(w) ==
  LET entry(c) == index.conns[c] IN
  /\ task[w]["startup"].pc = "begin" /\ task[w]["startup"].current
  /\ triggered' = [triggered EXCEPT ![w] = [c \in Conns |->
       IF entry(c).complete /\ ~ Expired(entry(c).ts) THEN entry(c).ts ELSE @[c]]]
  /\ \/ \E c \in Conns : /\ entry(c).ts # 0 /\ Expired(entry(c).ts)
                         /\ task' = [task EXCEPT ![w]["startup"] =
                              [@ EXCEPT !.pc = "expired", !.conn = c, !.ts = entry(c).ts]]
     \/ /\ \A c \in Conns : entry(c).ts # 0 => ~ Expired(entry(c).ts)
        /\ Ends(w, "startup")
  /\ UNCHANGED << diskVars, lockFile, saveLock, owned, queue, section, prefetching, seenGeneration,
                  clockVars, faultVars >>

\* removeConnection without a lease takes the lock, unless this window has it.
RemoveExpired(w) ==
  LET c == task[w]["startup"].conn IN
  /\ task[w]["startup"].pc = "expired" /\ task[w]["startup"].current
  /\ owned[w][c] = None
  /\ AcquireLock(w, c)
  /\ task' = [task EXCEPT ![w]["startup"] = [@ EXCEPT !.pc = "remove", !.lease = LeaseFor(w, c)]]
  /\ Enqueue(w, "startup")
  /\ UNCHANGED << diskVars, saveLock, section, memoryVars, clockVars, faultVars >>

LeaveExpired(w) ==
  LET t == task[w]["startup"] IN
  /\ \/ t.pc = "expired" /\ (owned[w][t.conn] # None \/ ~ CanLock(w, t.conn))
     \/ t.pc \in {"begin", "expired"} /\ ~ t.current
  /\ Ends(w, "startup")
  /\ UNCHANGED << diskVars, lockFile, saveLock, owned, queue, section, memoryVars, clockVars,
                  faultVars >>

\* The watcher starts when the startup is over; its first look at an index tells it
\* the generation, and a clear before that goes unnoticed.
StartWatcher(w) ==
  /\ task[w]["startup"].pc = "idle" /\ seenGeneration[w] = 0
  /\ seenGeneration' = [seenGeneration EXCEPT ![w] = index.gen]
  /\ UNCHANGED << diskVars, lockFile, saveLock, owned, task, queue, section, prefetching, triggered,
                  clockVars, faultVars >>

\* Mutants: whatever snapshot is there is removed; the payload goes first.
RemoveAnyEntry(w, s) ==
  LET t == task[w][s] IN
  /\ HeadIs(w, s, "read") /\ t.pc \in {"discard", "remove"}
  /\ index' = [section[w].copy EXCEPT !.conns[t.conn] = NoEntry]
  /\ section' = [section EXCEPT ![w].at = "removed"]
  /\ UNCHANGED << payload, lockFile, saveLock, owned, task, queue, memoryVars, clockVars, faultVars >>

RemovePayloadFirst(w, s) ==
  LET t == task[w][s]  copy == section[w].copy IN
  /\ HeadIs(w, s, "read") /\ t.pc \in {"discard", "remove"}
  /\ copy.conns[t.conn].here => copy.conns[t.conn].ts = t.ts
  /\ payload' = [payload EXCEPT ![t.conn] = NoPayload]
  /\ section' = [section EXCEPT ![w].at = "removed"]
  /\ UNCHANGED << index, lockFile, saveLock, owned, task, queue, memoryVars, clockVars, faultVars >>

\* A snapshot taken in the meantime is not the one that was found expired.
RemoveEntry(w, s) ==
  LET t == task[w][s]  copy == section[w].copy IN
  /\ HeadIs(w, s, "read") /\ t.pc \in {"discard", "remove"}
  /\ copy.conns[t.conn].here => copy.conns[t.conn].ts = t.ts
  /\ index' = [copy EXCEPT !.conns[t.conn] = NoEntry]
  /\ section' = [section EXCEPT ![w].at = "removed"]
  /\ UNCHANGED << payload, lockFile, saveLock, owned, task, queue, memoryVars, clockVars, faultVars >>

KeepEntry(w, s) ==
  LET t == task[w][s]  entry == section[w].copy.conns[t.conn] IN
  /\ HeadIs(w, s, "read") /\ t.pc \in {"discard", "remove"}
  /\ entry.here /\ entry.ts # t.ts
  /\ Settled(w, s) /\ LeaveSection(w)
  /\ UNCHANGED << diskVars, memoryVars, clockVars, faultVars >>

ResetIndex(w) ==
  /\ HeadIs(w, "clear", "read")
  /\ index' = EmptyIndex(section[w].copy.gen + 1)
  /\ section' = [section EXCEPT ![w].at = "removed"]
  /\ UNCHANGED << payload, lockFile, saveLock, owned, task, queue, memoryVars, clockVars, faultVars >>

\* The payload goes after the index.
RemovePayload(w, s) ==
  /\ HeadIs(w, s, "removed")
  /\ payload' = IF s = "clear" THEN [c \in Conns |-> NoPayload]
                ELSE [payload EXCEPT ![task[w][s].conn] = NoPayload]
  /\ Settled(w, s) /\ LeaveSection(w)
  /\ UNCHANGED << index, memoryVars, clockVars, faultVars >>

--------------------------------------------------------------------------------
(* Clearing everything *)

\* clearLocalMetadataState and the bump of cacheGeneration.
ClearMemory(w) ==
  /\ triggered' = [triggered EXCEPT ![w] = [c \in Conns |-> 0]]
  /\ prefetching' = [prefetching EXCEPT ![w] = {}]

ClearCache(w) ==
  /\ task[w]["clear"].pc = "idle"
  /\ index.gen + Cardinality(Waiting({"reset"})) < MaxGeneration
  /\ ClearMemory(w)
  /\ task' = [task EXCEPT ![w] = [Outdate(w, @) EXCEPT !["clear"].pc = "reset"]]
  /\ Enqueue(w, "clear")
  /\ UNCHANGED << diskVars, lockFile, saveLock, owned, section, seenGeneration, clockVars, faultVars >>

\* The watcher of a window finds another generation in the index.
ObserveGeneration(w) ==
  /\ seenGeneration[w] \notin {0, index.gen}
  /\ seenGeneration' = [seenGeneration EXCEPT ![w] = index.gen]
  /\ ClearMemory(w)
  /\ task' = [task EXCEPT ![w] = Outdate(w, @)]
  /\ UNCHANGED << diskVars, lockFile, saveLock, owned, queue, section, clockVars, faultVars >>

--------------------------------------------------------------------------------
(* Faults and time *)

\* Mutant: a refresh that gets no fence ends without giving back its lease.
FailsWithLease(w, s) ==
  /\ queue[w] # << >> /\ Head(queue[w]) = s
  /\ section[w].at # "removed"
  /\ section[w].at = "out" => saveLock \in Windows
  /\ LeaveSection(w)
  /\ \/ /\ task[w][s].pc = "fence"
        /\ Ends(w, s)
        /\ prefetching' = IF s \in Prefetches
                          THEN [prefetching EXCEPT ![w] = @ \ {task[w][s].conn}]
                          ELSE prefetching
        /\ UNCHANGED << lockFile, owned >>
     \/ Settled(w, s) /\ UNCHANGED prefetching
  /\ UNCHANGED << diskVars, triggered, seenGeneration, clockVars, faultVars >>

\* withSaveLock gives up while another window saves, or the operation throws.
OperationFails(w, s) ==
  /\ queue[w] # << >> /\ Head(queue[w]) = s
  /\ section[w].at # "removed"
  /\ section[w].at = "out" => saveLock \in Windows
  /\ LeaveSection(w)
  /\ \/ /\ task[w][s].pc = "fence"
        /\ EndsAndReleases(w, s)
        /\ prefetching' = IF s \in Prefetches
                          THEN [prefetching EXCEPT ![w] = @ \ {task[w][s].conn}]
                          ELSE prefetching
     \/ Settled(w, s) /\ UNCHANGED prefetching
  /\ UNCHANGED << diskVars, triggered, seenGeneration, clockVars, faultVars >>

\* The host is suspended for longer than the time limit of its lock.
HeartbeatStalls(c) ==
  /\ stalls < MaxStalls /\ lockFile[c].id # None /\ ~ lockFile[c].stale
  /\ stalls' = stalls + 1
  /\ lockFile' = [lockFile EXCEPT ![c].stale = TRUE]
  /\ UNCHANGED << diskVars, saveLock, owned, task, queue, section, memoryVars, clockVars, crashes >>

\* heartbeat: still ours, or ours no more.
Heartbeat(w, c) ==
  /\ owned[w][c] # None
  /\ \/ /\ lockFile[c].id = owned[w][c] /\ lockFile[c].stale
        /\ lockFile' = [lockFile EXCEPT ![c].stale = FALSE]
        /\ UNCHANGED owned
     \/ /\ lockFile[c].id # owned[w][c]
        /\ owned' = [owned EXCEPT ![w][c] = None]
        /\ UNCHANGED lockFile
  /\ UNCHANGED << diskVars, saveLock, task, queue, section, memoryVars, clockVars, faultVars >>

\* The host dies and the window starts anew; what it left on disk stays there.
Crash(w) ==
  /\ crashes < MaxCrashes
  /\ crashes' = crashes + 1
  /\ lockFile' = [c \in Conns |->
       IF HasLease(w, c, owned[w][c]) THEN [lockFile[c] EXCEPT !.stale = TRUE] ELSE lockFile[c]]
  /\ saveLock' = IF saveLock = w THEN "dead" ELSE saveLock
  /\ owned' = [owned EXCEPT ![w] = [c \in Conns |-> None]]
  /\ task' = [task EXCEPT ![w] = FreshWindow]
  /\ queue' = [queue EXCEPT ![w] = << >>]
  /\ section' = [section EXCEPT ![w] = Outside]
  /\ prefetching' = [prefetching EXCEPT ![w] = {}]
  /\ triggered' = [triggered EXCEPT ![w] = [c \in Conns |-> 0]]
  /\ seenGeneration' = [seenGeneration EXCEPT ![w] = 0]
  /\ UNCHANGED << diskVars, clockVars, stalls >>

TimePasses ==
  /\ horizon < now
  /\ horizon' = now
  /\ UNCHANGED << diskVars, lockFile, saveLock, owned, task, queue, section, memoryVars, now,
                  faultVars >>

--------------------------------------------------------------------------------

Prefetching(w, p) ==
  \/ \E c \in Conns : StartPrefetch(w, p, c)
  \/ DiscardExpired(w, p) \/ Checkpoint(w, p)
  \/ PrefetchSucceeds(w, p) \/ PrefetchFails(w, p)

RefreshingRelations(w, r) ==
  \/ \E c \in Conns : StartRelations(w, r, c)
  \/ RelationsSucceed(w, r) \/ RelationsEnd(w, r)

Operation(w, s) ==
  \/ AllocateFence(w, s)
  \/ WriteMetadata(w, s) \/ SkipSnapshot(w, s)
  \/ \E f \in Parts : WritePart(w, s, f) \/ PrunePart(w, s, f)
  \/ WriteManifest(w, s) \/ CommitSnapshot(w, s)
  \/ RemoveEntry(w, s) \/ KeepEntry(w, s) \/ RemovePayload(w, s)

Starting(w) ==
  LoadManifests(w) \/ RemoveExpired(w) \/ LeaveExpired(w) \/ StartWatcher(w)

Fault ==
  \/ \E w \in Windows, s \in Slots : OperationFails(w, s)
  \/ \E c \in Conns : HeartbeatStalls(c)
  \/ \E w \in Windows : Crash(w)

Next ==
  \/ \E w \in Windows :
       \/ \E p \in Prefetches : Prefetching(w, p)
       \/ \E r \in Relations : RefreshingRelations(w, r)
       \/ EnterSection(w) \/ ResetIndex(w)
       \/ \E s \in Slots : Operation(w, s)
       \/ Starting(w) \/ ClearCache(w) \/ ObserveGeneration(w)
       \/ \E c \in Conns : Heartbeat(w, c)
  \/ TimePasses
  \/ Fault

Spec == Init /\ [][Next]_vars

\* The head of the write queue goes on or fails: withSaveLock waits for a bounded
\* time.  A refresh ends, since its queries do.  Nothing is assumed of users,
\* faults, the heartbeat and the watcher.
HeadMoves(w) ==
  EnterSection(w) \/ ResetIndex(w) \/ \E s \in Slots : Operation(w, s) \/ OperationFails(w, s)

Fairness ==
  \A w \in Windows :
    /\ WF_vars(HeadMoves(w)) /\ WF_vars(Starting(w))
    /\ \A p \in Prefetches :
         /\ WF_vars(DiscardExpired(w, p))
         /\ WF_vars(PrefetchSucceeds(w, p) \/ PrefetchFails(w, p))
    /\ \A r \in Relations : WF_vars(RelationsSucceed(w, r) \/ RelationsEnd(w, r))

FairSpec == Spec /\ Fairness

--------------------------------------------------------------------------------

TypeOK ==
  /\ index \in Index /\ payload \in [Conns -> [Files -> Stamp]]
  /\ lockFile \in [Conns -> LockFile] /\ saveLock \in Windows \union {None, "dead"}
  /\ owned \in [Windows -> [Conns -> LeaseIds \union {None}]]
  /\ task \in [Windows -> [Slots -> Task]]
  /\ queue \in [Windows -> Seq(Slots)]
  /\ section \in [Windows -> [at : {"out", "read", "parts", "payload", "removed"}, copy : Index,
                             parts : SUBSET Parts, todo : SUBSET Parts]]
  /\ prefetching \in [Windows -> SUBSET Conns]
  /\ triggered \in [Windows -> [Conns -> Nat]]
  /\ seenGeneration \in [Windows -> Nat]
  /\ now \in Nat /\ horizon \in Nat /\ crashes \in Nat /\ stalls \in Nat

\* A snapshot in the index was saved by a refresh that began after the last
\* clear: a refresh in flight during a clear, in any window, does not bring
\* back what was cleared (resetGeneration, saveConnectionV2).
ClearedStaysCleared ==
  \A c \in Conns : index.conns[c].ts # 0 => index.conns[c].gen = index.gen

\* The metadata and the manifest of a snapshot in the index are there, each of its
\* parts is there or was pruned, and all are of the save that the index names or of
\* a later one of its generation.
Recent(stamp, entry) == stamp.gen = entry.gen /\ stamp.fence >= entry.fence
FilesRecent ==
  \A c \in Conns :
    LET entry == index.conns[c]  files == payload[c] IN
    entry.ts # 0 =>
      /\ \A f \in {"metadata", "manifest"} : Recent(files[f], entry)
      /\ \A f \in entry.parts : files[f] = Missing \/ Recent(files[f], entry)

\* As long as its metadata are of the very save that the index names, so is every
\* other file that the index names.
FilesWhole ==
  \A c \in Conns :
    LET entry == index.conns[c]  files == payload[c] IN
    entry.ts # 0 /\ files["metadata"] = StampOf(entry) =>
      \A f \in {"manifest"} \union entry.parts : files[f] = StampOf(entry)

\* What a reader finds for a snapshot in the index, in the middle of a save and
\* wherever a host has died between two files: nothing that was cleared or is older
\* than the index says, and a whole snapshot unless a later save has begun to write
\* over it (saveConnectionV2 writes the metadata first and the index last,
\* removeConnection and resetGeneration write the index first).
MetadataVouch == FilesRecent /\ FilesWhole

\* A refresh never replaces the snapshot of a refresh with a later fence.
NoOlderSnapshot ==
  [][\A c \in Conns :
       LET old == index.conns[c]  new == index'.conns[c] IN
       new # old /\ new.ts # 0 /\ old.ts # 0 => new.fence >= old.fence]_vars

\* Every lease comes back, whichever operation of the refresh fails, so that a
\* connection is not locked for good by a host that goes on running
\* (acquirePrefetchLease, runConnectionPrefetch, removeConnection).
LeasesReturn ==
  \A w \in Windows, c \in Conns : owned[w][c] # None ~> owned[w][c] = None

\* A snapshot that has not expired leaves the index only by a clear, or for
\* another snapshot (removeConnection's expectedPrefetchCompletedAt).
FreshSnapshotsSurvive ==
  [][\A c \in Conns :
       index.conns[c].ts > horizon /\ index'.conns[c].ts = 0 => index'.gen > index.gen]_vars
================================================================================
