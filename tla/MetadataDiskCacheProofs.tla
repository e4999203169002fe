----------------------- MODULE MetadataDiskCacheProofs -----------------------
(***************************************************************************)
(* Theorems about MetadataDiskCache, for every set of windows, connections *)
(* and refreshes and any number of clears, crashes and suspended hosts.    *)
(* They need the save lock, the generation, the fences and the times of    *)
(* the saves, and nothing about the locks of the connections.              *)
(***************************************************************************)
EXTENDS MetadataDiskCache, SequenceTheorems, TLAPS

(* The types, except for the identities of the leases.                         *)
TaskOn(L) == [pc : Step, conn : Conns \union {None}, lease : L, gen : Nat, fence : Nat, ts : Nat,
              current : BOOLEAN]

TaskType == \E L : task \in [Windows -> [Slots -> TaskOn(L)]]

Places == {"out", "read", "parts", "payload", "removed"}

SectionType ==
  [Windows -> [at : Places, copy : Index, parts : SUBSET Parts, todo : SUBSET Parts]]
PayloadType == [Conns -> [Files -> Stamp]]

Types ==
  /\ index \in Index /\ payload \in PayloadType
  /\ saveLock \in Windows \union {None, "dead"}
  /\ queue \in [Windows -> Seq(Slots)]
  /\ section \in SectionType
  /\ triggered \in [Windows -> [Conns -> Nat]]
  /\ now \in Nat /\ horizon \in Nat
  /\ TaskType

(* What a task is about, at each of its points.  What is to be removed has     *)
(* expired, what is to be saved has a time.                                    *)
Busy == Step \ {"idle", "begin", "reset"}

Fits(s, t, upto) ==
  /\ t.pc \in Busy => t.conn \in Conns
  /\ s = "clear" => t.pc \in {"idle", "reset"}
  /\ s \in Relations => t.pc \in {"idle", "fence", "run", "final"} /\ (t.pc # "idle" => t.ts # 0)
  /\ t.pc \in {"checkpoint", "final"} => t.ts # 0
  /\ t.pc \in {"leased", "discard", "expired", "remove"} => t.ts <= upto
  /\ t.pc = "fence" /\ s \in Prefetches => t.ts <= upto

TaskFits(w, s) == Fits(s, task[w][s], horizon)

Tasks == \A w \in Windows, s \in Slots : TaskFits(w, s)

(* Who is in a section has the save lock, and nobody else; what he has read is *)
(* still there, what he is about to commit has been accepted, and the files    *)
(* that are no longer to be written have been.                                 *)
SectionFits(w) ==
  LET s == Head(queue[w])  t == task[w][s] IN
  /\ section[w].at # "out" <=> saveLock = w
  /\ section[w].at # "out" => queue[w] # << >>
  /\ section[w].at \in {"read", "parts", "payload"} => section[w].copy = index
  /\ section[w].at \in {"parts", "payload"} =>
       /\ t.pc \in {"checkpoint", "final"}
       /\ t.gen = index.gen /\ t.fence >= index.conns[t.conn].fence
       /\ payload[t.conn]["metadata"] = StampOf(t)
       /\ \A f \in section[w].parts \ section[w].todo : payload[t.conn][f] = StampOf(t)
  /\ section[w].at = "payload" =>
       section[w].todo = {} /\ payload[t.conn]["manifest"] = StampOf(t)
  /\ section[w].at = "removed" =>
       IF s = "clear" THEN \A c \in Conns : index.conns[c] = NoEntry
                      ELSE t.pc \in {"discard", "remove"} /\ index.conns[t.conn] = NoEntry

Sections == \A w \in Windows : SectionFits(w)

Stored ==
  /\ ClearedStaysCleared /\ FilesRecent
  /\ \A c \in Conns : index.conns[c].ts # 0 => index.conns[c].here

IInv == Types /\ Tasks /\ Sections /\ Stored

LEMMA NoEntryIsEntry == NoEntry \in Entry /\ NoEntry.ts = 0 /\ NoEntry.fence = 0
BY DEF NoEntry, Entry

LEMMA EmptyIndexIsIndex ==
  ASSUME NEW g \in Nat
  PROVE  /\ EmptyIndex(g) \in Index /\ EmptyIndex(g).gen = g
         /\ \A c \in Conns : EmptyIndex(g).conns[c] = NoEntry
BY NoEntryIsEntry DEF EmptyIndex, Index

LEMMA NoPayloadTyped == NoPayload \in [Files -> Stamp] /\ \A f \in Files : NoPayload[f] = Missing
BY DEF NoPayload, Missing, Stamp

LEMMA PartNames ==
  /\ {"metadata", "manifest"} \subseteq Files /\ Parts \subseteq Files
  /\ "metadata" \notin Parts /\ "manifest" \notin Parts
BY NamesAssumption DEF Files

LEMMA IdleIsTask ==
  /\ Idle \in TaskOn({None}) /\ Idle.pc = "idle"
  /\ \A L : Idle \in TaskOn(L \union {None})
BY DEF Idle, TaskOn, Step

LEMMA InitIInv == Init => IInv
<1> SUFFICES ASSUME Init PROVE IInv
  OBVIOUS
<1>1. index \in Index /\ \A c \in Conns : index.conns[c] = NoEntry
  BY EmptyIndexIsIndex DEF Init
<1>2. section \in SectionType /\ \A w \in Windows : section[w].at = "out"
  BY EmptyIndexIsIndex DEF Init, Outside, Places, SectionType
<1>3. task \in [Windows -> [Slots -> TaskOn({None})]]
  BY IdleIsTask DEF Init
<1>4. payload \in PayloadType
  BY NoPayloadTyped DEF Init, PayloadType
<1>5. Types
  <2>1. queue \in [Windows -> Seq(Slots)]
    BY EmptySeq DEF Init
  <2>2. triggered \in [Windows -> [Conns -> Nat]] /\ now \in Nat /\ horizon \in Nat
    BY DEF Init
  <2>3. saveLock \in Windows \union {None, "dead"}
    BY DEF Init
  <2> QED
    BY <1>1, <1>2, <1>3, <1>4, <2>1, <2>2, <2>3 DEF Types, TaskType
<1>6. Tasks
  <2>1. \A w \in Windows, s \in Slots : task[w][s].pc = "idle"
    BY IdleIsTask DEF Init
  <2> QED
    BY <2>1 DEF Tasks, TaskFits, Fits, Busy
<1>7. Sections
  BY <1>2, NamesAssumption DEF Init, Sections, SectionFits, None
<1>8. Stored
  BY <1>1, NoEntryIsEntry DEF Stored, ClearedStaysCleared, FilesRecent
<1> QED
  BY <1>5, <1>6, <1>7, <1>8 DEF IInv

--------------------------------------------------------------------------------
(* How tasks change. *)

(* The same task, whatever its lease and whether it is current.                *)
SameTask(t, u) == t.pc = u.pc /\ t.conn = u.conn /\ t.gen = u.gen /\ t.fence = u.fence /\ t.ts = u.ts

(* A task with these points is settled by the operation it waits for, or by a  *)
(* crash, and by nothing else.                                                 *)
Saving == {"checkpoint", "final", "discard", "remove"}

Undisturbed ==
  \A v \in Windows, q \in Slots :
    \/ SameTask(task'[v][q], task[v][q])
    \/ task[v][q].pc \notin Saving /\ TaskFits(v, q)'

(* Only tasks of w change.                                                     *)
Settling(w) ==
  \A v \in Windows, q \in Slots :
    SameTask(task'[v][q], task[v][q]) \/ (v = w /\ TaskFits(v, q)')

LEMMA TaskBecomes ==
  ASSUME NEW L, task \in [Windows -> [Slots -> TaskOn(L)]], NEW w \in Windows, NEW s \in Slots,
         NEW l, NEW t \in TaskOn(L \union {l}), task' = [task EXCEPT ![w][s] = t]
  PROVE  /\ TaskType' /\ task'[w][s] = t
         /\ \A v \in Windows, q \in Slots : v # w \/ q # s => SameTask(task'[v][q], task[v][q])
<1>1. TaskOn(L) \subseteq TaskOn(L \union {l})
  BY DEF TaskOn
<1>2. task' \in [Windows -> [Slots -> TaskOn(L \union {l})]]
  BY <1>1
<1> QED
  BY <1>2 DEF TaskType, SameTask

LEMMA OneTask ==
  ASSUME NEW w \in Windows, NEW s \in Slots, TaskFits(w, s)',
         \A v \in Windows, q \in Slots : v # w \/ q # s => SameTask(task'[v][q], task[v][q])
  PROVE  Settling(w) /\ (task[w][s].pc \notin Saving => Undisturbed)
<1>1. ASSUME NEW v \in Windows, NEW q \in Slots
      PROVE  SameTask(task'[v][q], task[v][q]) \/ (v = w /\ q = s)
  OBVIOUS
<1>2. Settling(w)
  BY <1>1 DEF Settling
<1>3. ASSUME task[w][s].pc \notin Saving PROVE Undisturbed
  BY <1>1, <1>3 DEF Undisturbed
<1> QED
  BY <1>2, <1>3

(* A window's caches are out of date: its tasks go on as they were.            *)
LEMMA OutdateSame ==
  ASSUME NEW L, NEW tasks \in [Slots -> TaskOn(L)], NEW w
  PROVE  /\ Outdate(w, tasks) \in [Slots -> TaskOn(L)]
         /\ \A s \in Slots : SameTask(Outdate(w, tasks)[s], tasks[s])
<1>1. ASSUME NEW s \in Slots
      PROVE  /\ [tasks[s] EXCEPT !.current = FALSE] \in TaskOn(L)
             /\ SameTask([tasks[s] EXCEPT !.current = FALSE], tasks[s])
  BY DEF TaskOn, SameTask
<1> QED
  BY <1>1 DEF Outdate

LEMMA StepsOfTask ==
  ASSUME NEW L, NEW t \in TaskOn(L), NEW x \in Step
  PROVE  /\ [t EXCEPT !.pc = x] \in TaskOn(L) /\ [t EXCEPT !.pc = x].pc = x
         /\ [t EXCEPT !.pc = x].conn = t.conn /\ [t EXCEPT !.pc = x].ts = t.ts
         /\ [t EXCEPT !.pc = x].gen = t.gen /\ [t EXCEPT !.pc = x].fence = t.fence
BY DEF TaskOn

(* What fits a task fits a task that differs in its lease only.                *)
LEMMA SameFits ==
  ASSUME NEW w \in Windows, NEW s \in Slots, Tasks, SameTask(task'[w][s], task[w][s]),
         horizon \in Nat, horizon' \in Nat, horizon' >= horizon, TaskType
  PROVE  TaskFits(w, s)'
<1>1. task[w][s].ts \in Nat
  BY DEF TaskType, TaskOn
<1>2. TaskFits(w, s)
  BY DEF Tasks
<1> QED
  BY <1>1, <1>2 DEF TaskFits, Fits, SameTask

--------------------------------------------------------------------------------
(* How the window that saves excludes the others. *)

LEMMA OneSaver ==
  ASSUME Sections, NEW w \in Windows, section[w].at # "out"
  PROVE  saveLock = w /\ \A v \in Windows : v # w => section[v].at = "out"
BY DEF Sections, SectionFits

(* A section in which nothing happens.                                         *)
LEMMA SameSection ==
  ASSUME NEW w \in Windows, SectionFits(w), section'[w] = section[w],
         section[w].at # "out" <=> saveLock' = w,
         index' = index, payload' = payload,
         queue'[w] # << >> /\ Head(queue'[w]) = Head(queue[w]),
         \/ Head(queue[w]) = "clear" /\ section[w].at = "removed"
         \/ SameTask(task'[w][Head(queue[w])], task[w][Head(queue[w])])
  PROVE  SectionFits(w)'
<1> DEFINE s == Head(queue[w])
<1>1. /\ section[w].at \in {"read", "parts", "payload"} => section[w].copy = index
      /\ section[w].at = "removed" /\ s = "clear" => \A c \in Conns : index.conns[c] = NoEntry
  BY DEF SectionFits
<1>2. CASE s = "clear" /\ section[w].at = "removed"
  BY <1>1, <1>2 DEF SectionFits
<1>3. CASE SameTask(task'[w][s], task[w][s])
  <2>1. StampOf(task'[w][s]) = StampOf(task[w][s])
    BY <1>3 DEF SameTask, StampOf
  <2> QED
    BY <1>3, <2>1 DEF SectionFits, SameTask
<1> QED
  BY <1>2, <1>3

(* A step that leaves the cache and the sections alone.                        *)
LEMMA QuietKeeps ==
  ASSUME IInv, TaskType', Undisturbed,
         triggered' \in [Windows -> [Conns -> Nat]], now' \in Nat, horizon' \in Nat,
         horizon' >= horizon, index' = index, payload' = payload, saveLock' = saveLock,
         section' = section,
         \/ queue' = queue
         \/ \E w \in Windows, s \in Slots : queue' = [queue EXCEPT ![w] = Append(@, s)]
  PROVE  IInv'
<1>1. /\ queue' \in [Windows -> Seq(Slots)]
      /\ \A v \in Windows : queue[v] # << >> => queue'[v] # << >> /\ Head(queue'[v]) = Head(queue[v])
  <2>1. CASE queue' = queue
    BY <2>1 DEF IInv, Types
  <2>2. CASE \E w \in Windows, s \in Slots : queue' = [queue EXCEPT ![w] = Append(@, s)]
    <3>1. PICK w \in Windows, s \in Slots : queue' = [queue EXCEPT ![w] = Append(@, s)]
      BY <2>2
    <3>2. queue \in [Windows -> Seq(Slots)]
      BY DEF IInv, Types
    <3>3. Append(queue[w], s) \in Seq(Slots)
      BY <3>2, AppendProperties
    <3>4. queue[w] # << >> => Append(queue[w], s) # << >> /\ Head(Append(queue[w], s)) = Head(queue[w])
      BY <3>2, AppendProperties, HeadTailAppend, HeadTailProperties
    <3> QED
      BY <3>1, <3>2, <3>3, <3>4
  <2> QED
    BY <2>1, <2>2
<1>2. Types'
  BY <1>1 DEF IInv, Types
<1>3. Tasks'
  <2> SUFFICES ASSUME NEW w \in Windows, NEW s \in Slots PROVE TaskFits(w, s)'
    BY DEF Tasks
  <2>1. CASE SameTask(task'[w][s], task[w][s])
    BY <2>1, SameFits DEF IInv, Types
  <2> QED
    BY <2>1 DEF Undisturbed
<1>4. Sections'
  <2> SUFFICES ASSUME NEW w \in Windows PROVE SectionFits(w)'
    BY DEF Sections
  <2>1. SectionFits(w)
    BY DEF IInv, Sections
  <2>2. CASE section[w].at \in {"out", "read"}
    BY <1>1, <2>1, <2>2 DEF SectionFits
  <2>3. CASE section[w].at \in {"parts", "payload", "removed"}
    <3> DEFINE s == Head(queue[w])
    <3>1. queue[w] # << >> /\ s \in Slots
      BY <2>1, <2>3, HeadTailProperties DEF SectionFits, IInv, Types
    <3>2. ASSUME ~ (s = "clear" /\ section[w].at = "removed")
          PROVE  SameTask(task'[w][s], task[w][s])
      <4>1. task[w][s].pc \in Saving
        BY <2>1, <2>3, <3>2 DEF SectionFits, Saving
      <4> QED
        BY <3>1, <4>1 DEF Undisturbed
    <3>3. section[w].at # "out" <=> saveLock' = w
      BY <2>1 DEF SectionFits
    <3>4. queue'[w] # << >> /\ Head(queue'[w]) = s
      BY <1>1, <3>1
    <3>5. section'[w] = section[w] /\ index' = index /\ payload' = payload
      OBVIOUS
    <3> QED
      BY <2>1, <3>2, <3>3, <3>4, <3>5, SameSection
  <2>4. section[w].at \in Places
    BY DEF IInv, Types, SectionType
  <2> QED
    BY <2>2, <2>3, <2>4 DEF Places
<1>5. Stored'
  BY DEF IInv, Stored, ClearedStaysCleared, FilesRecent
<1> QED
  BY <1>2, <1>3, <1>4, <1>5 DEF IInv

(* A window leaves its section, or gives up before it enters one.              *)
LEMMA LeaveKeeps ==
  ASSUME IInv, NEW w \in Windows, LeaveSection(w), queue[w] # << >>, TaskType', Settling(w),
         index' \in Index, payload' \in PayloadType, Stored',
         section[w].at = "out" => index' = index /\ payload' = payload,
         triggered' = triggered, now' = now, horizon' = horizon
  PROVE  IInv'
<1>1. queue' \in [Windows -> Seq(Slots)] /\ \A v \in Windows : v # w => queue'[v] = queue[v]
  <2>1. queue \in [Windows -> Seq(Slots)]
    BY DEF IInv, Types
  <2>2. Tail(queue[w]) \in Seq(Slots)
    BY <2>1, HeadTailProperties
  <2> QED
    BY <2>1, <2>2 DEF LeaveSection
<1>2. /\ section' \in SectionType /\ section'[w].at = "out"
      /\ \A v \in Windows : v # w => section'[v] = section[v]
  BY EmptyIndexIsIndex DEF IInv, Types, LeaveSection, Outside, Places, SectionType
<1>3. saveLock' \in Windows \union {None, "dead"} /\ saveLock' # w
  BY NamesAssumption DEF IInv, Types, LeaveSection
<1>4. Types'
  BY <1>1, <1>2, <1>3 DEF IInv, Types
<1>5. Tasks'
  <2> SUFFICES ASSUME NEW v \in Windows, NEW s \in Slots PROVE TaskFits(v, s)'
    BY DEF Tasks
  <2>1. CASE SameTask(task'[v][s], task[v][s])
    BY <2>1, SameFits DEF IInv, Types
  <2> QED
    BY <2>1 DEF Settling
<1>6. Sections'
  <2>1. SectionFits(w)'
    BY <1>2, <1>3 DEF SectionFits
  <2>2. ASSUME NEW v \in Windows, v # w PROVE SectionFits(v)'
    <3>1. SectionFits(v) /\ SectionFits(w)
      BY DEF IInv, Sections
    <3>2. section'[v] = section[v] /\ queue'[v] = queue[v]
      BY <1>1, <1>2, <2>2
    <3>3. section'[v].at # "out" <=> saveLock' = v
      BY <2>2, <3>1, <3>2, NamesAssumption DEF SectionFits, LeaveSection
    <3>4. CASE section[v].at = "out"
      BY <3>2, <3>3, <3>4 DEF SectionFits
    <3>5. CASE section[v].at # "out"
      <4>1. section[w].at = "out"
        BY <2>2, <3>5, OneSaver DEF IInv
      <4>2. index' = index /\ payload' = payload
        BY <4>1
      <4>3. Head(queue[v]) \in Slots
        BY <3>1, <3>5, HeadTailProperties DEF SectionFits, IInv, Types
      <4>4. SameTask(task'[v][Head(queue[v])], task[v][Head(queue[v])])
        BY <2>2, <4>3 DEF Settling
      <4> QED
        <5>1. /\ section[v].at # "out" <=> saveLock' = v
              /\ queue'[v] # << >> /\ Head(queue'[v]) = Head(queue[v])
          BY <3>1, <3>2, <3>3, <3>5 DEF SectionFits
        <5> QED
          BY <3>1, <3>2, <4>2, <4>4, <5>1, SameSection
    <3> QED
      BY <3>4, <3>5
  <2> QED
    BY <2>1, <2>2 DEF Sections
<1> QED
  BY <1>4, <1>5, <1>6 DEF IInv

(* A window goes on within its section.                                        *)
LEMMA MoveKeeps ==
  ASSUME IInv, NEW w \in Windows, section[w].at # "out",
         section' \in SectionType, \A v \in Windows : v # w => section'[v] = section[v],
         saveLock' = saveLock, task' = task, queue' = queue, triggered' = triggered,
         now' = now, horizon' = horizon,
         index' \in Index, payload' \in PayloadType, Stored', SectionFits(w)'
  PROVE  IInv'
<1>2. Types'
  BY DEF IInv, Types, TaskType
<1>3. Tasks'
  BY DEF IInv, Tasks, TaskFits, Fits
<1>4. Sections'
  <2> SUFFICES ASSUME NEW v \in Windows, v # w PROVE SectionFits(v)'
    BY DEF Sections
  <2>1. section[v].at = "out" /\ section'[v] = section[v] /\ SectionFits(v)
    BY OneSaver DEF IInv, Sections
  <2> QED
    BY <2>1 DEF SectionFits
<1> QED
  BY <1>2, <1>3, <1>4 DEF IInv

--------------------------------------------------------------------------------
(* The end of an operation. *)

LEMMA TaskEnds ==
  ASSUME TaskType, NEW w \in Windows, NEW s \in Slots, Ends(w, s)
  PROVE  TaskType' /\ Settling(w) /\ (task[w][s].pc \notin Saving => Undisturbed)
<1>1. PICK L : task \in [Windows -> [Slots -> TaskOn(L)]]
  BY DEF TaskType
<1>2. Idle \in TaskOn(L \union {None}) /\ Idle.pc = "idle"
  BY IdleIsTask
<1>3. /\ TaskType' /\ task'[w][s] = Idle
      /\ \A v \in Windows, q \in Slots : v # w \/ q # s => SameTask(task'[v][q], task[v][q])
  <2>1. task' = [task EXCEPT ![w][s] = Idle]
    BY DEF Ends
  <2> QED
    BY <1>1, <1>2, <2>1, TaskBecomes
<1>4. TaskFits(w, s)'
  BY <1>2, <1>3 DEF TaskFits, Fits, Busy
<1> QED
  BY <1>3, <1>4, OneTask

LEMMA TaskGoesOn ==
  ASSUME TaskType, Tasks, NEW w \in Windows, NEW s \in Slots, GoesOn(w, s),
         task[w][s].pc \in {"discard", "checkpoint"}
  PROVE  TaskType' /\ Settling(w)
<1>1. PICK L : task \in [Windows -> [Slots -> TaskOn(L)]]
  BY DEF TaskType
<1> DEFINE t == [task[w][s] EXCEPT !.pc = "run", !.ts = 0]
<1>2. /\ t \in TaskOn(L) /\ t.pc = "run" /\ t.conn = task[w][s].conn
  <2>1. task[w][s] \in TaskOn(L) /\ "run" \in Step /\ 0 \in Nat
    BY <1>1 DEF Step
  <2>2. t = [[task[w][s] EXCEPT !.pc = "run"] EXCEPT !.ts = 0]
    OBVIOUS
  <2> QED
    BY <2>1, <2>2 DEF TaskOn
<1>3. t \in TaskOn(L \union {None})
  BY <1>2 DEF TaskOn
<1>4. task' = [task EXCEPT ![w][s] = t]
  BY DEF GoesOn
<1> HIDE DEF t
<1>5. /\ TaskType' /\ task'[w][s] = t
      /\ \A v \in Windows, q \in Slots : v # w \/ q # s => SameTask(task'[v][q], task[v][q])
  BY <1>1, <1>3, <1>4, TaskBecomes
<1>6. s # "clear" /\ s \notin Relations /\ task[w][s].conn \in Conns
  BY DEF Tasks, TaskFits, Fits, Busy, Step
<1>7. TaskFits(w, s)'
  BY <1>2, <1>5, <1>6 DEF TaskFits, Fits
<1> QED
  BY <1>5, <1>7, OneTask

LEMMA SettledSettles ==
  ASSUME IInv, NEW w \in Windows, NEW s \in Slots, Settled(w, s)
  PROVE  TaskType' /\ Settling(w)
<1>1. CASE GoesOn(w, s) /\ task[w][s].pc \in {"discard", "checkpoint"}
  BY <1>1, TaskGoesOn DEF IInv, Types
<1>2. CASE Ends(w, s)
  BY <1>2, TaskEnds DEF IInv, Types
<1> QED
  BY <1>1, <1>2 DEF Settled, EndsAndReleases

(* The cache stays as it is and somebody's operation is over.                  *)
LEMMA LeaveQuietly ==
  ASSUME IInv, NEW w \in Windows, LeaveSection(w), queue[w] # << >>, TaskType', Settling(w),
         index' = index, payload' = payload, triggered' = triggered, now' = now,
         horizon' = horizon
  PROVE  IInv'
<1>1. Stored'
  BY DEF IInv, Stored, ClearedStaysCleared, FilesRecent
<1>2. index' \in Index /\ payload' \in PayloadType
  BY DEF IInv, Types
<1> QED
  BY <1>1, <1>2, LeaveKeeps

(* A task that no operation is at work for takes a step.                       *)
LEMMA TaskMoves ==
  ASSUME NEW L, task \in [Windows -> [Slots -> TaskOn(L)]], NEW w \in Windows, NEW s \in Slots,
         NEW l, NEW t \in TaskOn(L \union {l}), task' = [task EXCEPT ![w][s] = t],
         Fits(s, t, horizon'), task[w][s].pc \notin Saving
  PROVE  TaskType' /\ Undisturbed
<1>1. /\ TaskType' /\ task'[w][s] = t
      /\ \A v \in Windows, q \in Slots : v # w \/ q # s => SameTask(task'[v][q], task[v][q])
  BY TaskBecomes
<1>2. TaskFits(w, s)'
  BY <1>1 DEF TaskFits
<1> QED
  BY <1>1, <1>2, OneTask

LEMMA TasksStay == ASSUME TaskType, task' = task PROVE TaskType' /\ Undisturbed
BY DEF TaskType, Undisturbed, SameTask

LEMMA SlotNames ==
  /\ Prefetches \subseteq Slots /\ Relations \subseteq Slots
  /\ "startup" \in Slots /\ "clear" \in Slots
  /\ \A s \in Prefetches : s \notin Relations /\ s # "clear" /\ s # "startup"
  /\ \A s \in Relations : s \notin Prefetches /\ s # "clear" /\ s # "startup"
  /\ "startup" \notin Prefetches \union Relations /\ "clear" \notin Prefetches \union Relations
BY SlotsAssumption DEF Slots

--------------------------------------------------------------------------------
(* A refresh outside the sections. *)

LEMMA StartPrefetchKeeps ==
  ASSUME IInv, NEW w \in Windows, NEW p \in Prefetches, NEW c \in Conns, StartPrefetch(w, p, c)
  PROVE  IInv'
<1>1. PICK L : task \in [Windows -> [Slots -> TaskOn(L)]]
  BY DEF IInv, Types, TaskType
<1> DEFINE last == triggered[w][c]
           n == IF Expired(last) THEN last ELSE 0
           l == LeaseFor(w, c)
           t == [pc |-> "fence", conn |-> c, lease |-> l, gen |-> 0, fence |-> 0, ts |-> n,
                 current |-> FALSE]
<1>2. n \in Nat /\ n <= horizon /\ horizon' = horizon
  BY DEF IInv, Types, Expired, StartPrefetch, clockVars
<1>3. task' = [task EXCEPT ![w][p] = t]
  <2> DEFINE u == [Idle EXCEPT !.pc = "fence", !.conn = c, !.lease = l, !.ts = n]
  <2>1. task' = [task EXCEPT ![w][p] = u]
    BY DEF StartPrefetch
  <2> HIDE DEF n, l
  <2>2. u = [[[[Idle EXCEPT !.pc = "fence"] EXCEPT !.conn = c] EXCEPT !.lease = l] EXCEPT !.ts = n]
    OBVIOUS
  <2> HIDE DEF u
  <2>3. u = t
    BY <2>2 DEF Idle
  <2> QED
    BY <2>1, <2>3
<1>4. task[w][p].pc \notin Saving
  BY DEF StartPrefetch, Saving
<1> HIDE DEF n, l
<1>5. t \in TaskOn(L \union {l})
  BY <1>2 DEF TaskOn, Step
<1>6. Fits(p, t, horizon')
  BY <1>2, SlotNames DEF Fits
<1> HIDE DEF t
<1>7. TaskType' /\ Undisturbed
  BY <1>1, <1>3, <1>4, <1>5, <1>6, TaskMoves, SlotNames
<1>8. queue' = [queue EXCEPT ![w] = Append(@, p)] /\ p \in Slots
  BY SlotNames DEF StartPrefetch, Enqueue
<1>9. /\ triggered' \in [Windows -> [Conns -> Nat]] /\ now' \in Nat /\ horizon' \in Nat
      /\ horizon' >= horizon
      /\ index' = index /\ payload' = payload /\ saveLock' = saveLock /\ section' = section
  BY DEF StartPrefetch, IInv, Types, diskVars, clockVars
<1> QED
  BY <1>7, <1>8, <1>9, QuietKeeps

LEMMA StartRelationsKeeps ==
  ASSUME IInv, NEW w \in Windows, NEW r \in Relations, NEW c \in Conns, StartRelations(w, r, c)
  PROVE  IInv'
<1>1. PICK L : task \in [Windows -> [Slots -> TaskOn(L)]]
  BY DEF IInv, Types, TaskType
<1> DEFINE n == triggered[w][c]
           l == LeaseFor(w, c)
           t == [pc |-> "fence", conn |-> c, lease |-> l, gen |-> 0, fence |-> 0, ts |-> n,
                 current |-> TRUE]
<1>2. n \in Nat /\ n # 0
  BY DEF IInv, Types, StartRelations
<1>3. task' = [task EXCEPT ![w][r] = t]
  <2> DEFINE u == [Idle EXCEPT !.pc = "fence", !.conn = c, !.lease = l, !.ts = n,
                               !.current = TRUE]
  <2>1. task' = [task EXCEPT ![w][r] = u]
    BY DEF StartRelations
  <2> HIDE DEF n, l
  <2>2. u = [[[[[Idle EXCEPT !.pc = "fence"] EXCEPT !.conn = c] EXCEPT !.lease = l]
                     EXCEPT !.ts = n] EXCEPT !.current = TRUE]
    OBVIOUS
  <2> HIDE DEF u
  <2>3. u = t
    BY <2>2 DEF Idle
  <2> QED
    BY <2>1, <2>3
<1>4. task[w][r].pc \notin Saving
  BY DEF StartRelations, Saving
<1> HIDE DEF n, l
<1>5. t \in TaskOn(L \union {l})
  BY <1>2 DEF TaskOn, Step
<1>6. Fits(r, t, horizon')
  BY <1>2, SlotNames DEF Fits
<1> HIDE DEF t
<1>7. TaskType' /\ Undisturbed
  BY <1>1, <1>3, <1>4, <1>5, <1>6, TaskMoves, SlotNames
<1>8. queue' = [queue EXCEPT ![w] = Append(@, r)] /\ r \in Slots
  BY SlotNames DEF StartRelations, Enqueue
<1>9. /\ triggered' \in [Windows -> [Conns -> Nat]] /\ now' \in Nat /\ horizon' \in Nat
      /\ horizon' >= horizon
      /\ index' = index /\ payload' = payload /\ saveLock' = saveLock /\ section' = section
  BY DEF StartRelations, IInv, Types, diskVars, memoryVars, clockVars
<1> QED
  BY <1>7, <1>8, <1>9, QuietKeeps

(* The caches of a window are out of date, and one of its tasks takes a step.  *)
LEMMA OutdatedMoves ==
  ASSUME NEW L, task \in [Windows -> [Slots -> TaskOn(L)]], NEW w \in Windows, NEW s \in Slots,
         NEW o \in [Slots -> TaskOn(L)], \A q \in Slots : SameTask(o[q], task[w][q]),
         NEW u \in TaskOn(L), task' = [task EXCEPT ![w] = [o EXCEPT ![s] = u]],
         task[w][s].pc \notin Saving, Fits(s, u, horizon')
  PROVE  TaskType' /\ Undisturbed
<1>1. task' \in [Windows -> [Slots -> TaskOn(L)]]
  <2>1. [o EXCEPT ![s] = u] \in [Slots -> TaskOn(L)]
    OBVIOUS
  <2> QED
    BY <2>1
<1>2. /\ task'[w][s] = u
      /\ \A q \in Slots : q # s => task'[w][q] = o[q]
      /\ \A v \in Windows : v # w => task'[v] = task[v]
  OBVIOUS
<1>3. \A v \in Windows, q \in Slots : v # w \/ q # s => SameTask(task'[v][q], task[v][q])
  BY <1>2 DEF SameTask
<1>4. TaskFits(w, s)'
  BY <1>2 DEF TaskFits
<1> QED
  BY <1>1, <1>3, <1>4, OneTask DEF TaskType

LEMMA DiscardExpiredKeeps ==
  ASSUME IInv, NEW w \in Windows, NEW p \in Prefetches, DiscardExpired(w, p)
  PROVE  IInv'
<1>1. PICK L : task \in [Windows -> [Slots -> TaskOn(L)]]
  BY DEF IInv, Types, TaskType
<1>2. /\ p \in Slots /\ p # "clear" /\ p \notin Relations
      /\ task[w][p].pc = "leased" /\ horizon' = horizon
  BY SlotNames DEF DiscardExpired, clockVars
<1>3. task[w][p].conn \in Conns /\ task[w][p].ts <= horizon
  BY <1>2 DEF IInv, Tasks, TaskFits, Fits, Busy, Step
<1> DEFINE o == Outdate(w, task[w])
           u == [o[p] EXCEPT !.pc = "discard"]
<1>4. task' = [task EXCEPT ![w] = [o EXCEPT ![p] = u]]
  <2>1. task' = [task EXCEPT ![w] = [o EXCEPT ![p].pc = "discard"]]
    BY DEF DiscardExpired
  <2> QED
    BY <2>1
<1>5. o \in [Slots -> TaskOn(L)] /\ \A q \in Slots : SameTask(o[q], task[w][q])
  BY <1>1, OutdateSame
<1> HIDE DEF o
<1>6. u \in TaskOn(L) /\ u.pc = "discard" /\ u.conn = task[w][p].conn /\ u.ts = task[w][p].ts
  BY <1>2, <1>5 DEF TaskOn, Step, SameTask
<1> HIDE DEF u
<1>7. TaskType' /\ Undisturbed
  <2>1. Fits(p, u, horizon')
    BY <1>2, <1>3, <1>6 DEF Fits
  <2>2. task[w][p].pc \notin Saving
    BY <1>2 DEF Saving
  <2> QED
    BY <1>1, <1>2, <1>4, <1>5, <1>6, <2>1, <2>2, OutdatedMoves
<1>8. queue' = [queue EXCEPT ![w] = Append(@, p)]
  BY DEF DiscardExpired, Enqueue
<1>9. triggered' \in [Windows -> [Conns -> Nat]]
  <2>1. triggered \in [Windows -> [Conns -> Nat]]
    BY DEF IInv, Types
  <2>2. triggered' = [triggered EXCEPT ![w] = [triggered[w] EXCEPT ![task[w][p].conn] = 0]]
    BY DEF DiscardExpired
  <2>3. [triggered[w] EXCEPT ![task[w][p].conn] = 0] \in [Conns -> Nat]
    BY <2>1
  <2> QED
    BY <2>1, <2>2, <2>3
<1>10. /\ now' \in Nat /\ horizon' \in Nat /\ horizon' >= horizon
      /\ index' = index /\ payload' = payload /\ saveLock' = saveLock /\ section' = section
  BY DEF DiscardExpired, IInv, Types, diskVars, clockVars
<1> QED
  BY <1>2, <1>7, <1>8, <1>9, <1>10, QuietKeeps

LEMMA CheckpointKeeps ==
  ASSUME IInv, NEW w \in Windows, NEW p \in Prefetches, Checkpoint(w, p)
  PROVE  IInv'
<1>1. PICK L : task \in [Windows -> [Slots -> TaskOn(L)]]
  BY DEF IInv, Types, TaskType
<1> DEFINE n == now + 1
           u == [task[w][p] EXCEPT !.pc = "checkpoint", !.ts = n]
           t == [[task[w][p] EXCEPT !.pc = "checkpoint"] EXCEPT !.ts = n]
<1>2. n \in Nat /\ n # 0 /\ horizon' = horizon
  BY DEF IInv, Types, Checkpoint
<1>3. task' = [task EXCEPT ![w][p] = t]
  <2>1. task' = [task EXCEPT ![w][p] = u]
    BY DEF Checkpoint
  <2> HIDE DEF n
  <2>2. u = t
    OBVIOUS
  <2> QED
    BY <2>1, <2>2
<1>4. /\ p \in Slots /\ p # "clear" /\ p \notin Relations /\ task[w][p].pc = "run"
      /\ task[w][p].conn \in Conns
  BY SlotNames DEF Checkpoint, IInv, Tasks, TaskFits, Fits, Busy, Step
<1> HIDE DEF n
<1>5. t \in TaskOn(L \union {None}) /\ t.pc = "checkpoint" /\ t.ts = n /\ t.conn = task[w][p].conn
  <2>1. task[w][p] \in TaskOn(L)
    BY <1>1, <1>4
  <2> QED
    BY <1>2, <2>1 DEF TaskOn, Step
<1> HIDE DEF t
<1>6. Fits(p, t, horizon')
  BY <1>2, <1>4, <1>5 DEF Fits
<1>7. TaskType' /\ Undisturbed
  BY <1>1, <1>3, <1>4, <1>5, <1>6, TaskMoves DEF Saving
<1>8. queue' = [queue EXCEPT ![w] = Append(@, p)]
  BY DEF Checkpoint, Enqueue
<1>9. /\ triggered' \in [Windows -> [Conns -> Nat]] /\ now' \in Nat /\ horizon' \in Nat
      /\ horizon' >= horizon
      /\ index' = index /\ payload' = payload /\ saveLock' = saveLock /\ section' = section
  BY DEF Checkpoint, IInv, Types, diskVars, memoryVars
<1> QED
  BY <1>4, <1>7, <1>8, <1>9, QuietKeeps

LEMMA PrefetchSucceedsKeeps ==
  ASSUME IInv, NEW w \in Windows, NEW p \in Prefetches, PrefetchSucceeds(w, p)
  PROVE  IInv'
<1>1. PICK L : task \in [Windows -> [Slots -> TaskOn(L)]]
  BY DEF IInv, Types, TaskType
<1> DEFINE n == now + 1
           u == [task[w][p] EXCEPT !.pc = "final", !.ts = n]
           t == [[task[w][p] EXCEPT !.pc = "final"] EXCEPT !.ts = n]
<1>2. n \in Nat /\ n # 0 /\ horizon' = horizon
  BY DEF IInv, Types, PrefetchSucceeds
<1>3. task' = [task EXCEPT ![w][p] = t]
  <2>1. task' = [task EXCEPT ![w][p] = u]
    BY DEF PrefetchSucceeds
  <2> HIDE DEF n
  <2>2. u = t
    OBVIOUS
  <2> QED
    BY <2>1, <2>2
<1>4. /\ p \in Slots /\ p # "clear" /\ p \notin Relations /\ task[w][p].pc = "run"
      /\ task[w][p].conn \in Conns
  BY SlotNames DEF PrefetchSucceeds, IInv, Tasks, TaskFits, Fits, Busy, Step
<1> HIDE DEF n
<1>5. t \in TaskOn(L \union {None}) /\ t.pc = "final" /\ t.ts = n /\ t.conn = task[w][p].conn
  <2>1. task[w][p] \in TaskOn(L)
    BY <1>1, <1>4
  <2> QED
    BY <1>2, <2>1 DEF TaskOn, Step
<1> HIDE DEF t
<1>6. Fits(p, t, horizon')
  BY <1>2, <1>4, <1>5 DEF Fits
<1>7. TaskType' /\ Undisturbed
  BY <1>1, <1>3, <1>4, <1>5, <1>6, TaskMoves DEF Saving
<1>8. queue' = [queue EXCEPT ![w] = Append(@, p)]
  BY DEF PrefetchSucceeds, Enqueue
<1>9. triggered' \in [Windows -> [Conns -> Nat]]
  <2>1. triggered \in [Windows -> [Conns -> Nat]]
    BY DEF IInv, Types
  <2>2. triggered' = [triggered EXCEPT ![w] = [triggered[w] EXCEPT ![task[w][p].conn] = n]]
    BY DEF PrefetchSucceeds, n
  <2>3. [triggered[w] EXCEPT ![task[w][p].conn] = n] \in [Conns -> Nat]
    BY <1>2, <2>1
  <2> QED
    BY <2>1, <2>2, <2>3
<1>10. /\ now' \in Nat /\ horizon' \in Nat /\ horizon' >= horizon
       /\ index' = index /\ payload' = payload /\ saveLock' = saveLock /\ section' = section
  BY DEF PrefetchSucceeds, IInv, Types, diskVars
<1> QED
  BY <1>4, <1>7, <1>8, <1>9, <1>10, QuietKeeps

(* A refresh that ends outside the sections.                                   *)
LEMMA QuietEnd ==
  ASSUME IInv, NEW w \in Windows, NEW s \in Slots, Ends(w, s), task[w][s].pc \notin Saving,
         triggered' \in [Windows -> [Conns -> Nat]], now' = now, horizon' = horizon,
         index' = index, payload' = payload, saveLock' = saveLock, section' = section,
         queue' = queue
  PROVE  IInv'
<1>1. TaskType' /\ Undisturbed
  BY TaskEnds DEF IInv, Types
<1>2. now' \in Nat /\ horizon' \in Nat /\ horizon' >= horizon
  BY DEF IInv, Types
<1> QED
  BY <1>1, <1>2, QuietKeeps

LEMMA PrefetchFailsKeeps ==
  ASSUME IInv, NEW w \in Windows, NEW p \in Prefetches, PrefetchFails(w, p)
  PROVE  IInv'
<1>1. p \in Slots /\ Ends(w, p) /\ task[w][p].pc \notin Saving
  BY SlotNames DEF PrefetchFails, EndsAndReleases, Saving
<1>2. triggered' \in [Windows -> [Conns -> Nat]]
  BY DEF PrefetchFails, IInv, Types
<1>3. /\ now' = now /\ horizon' = horizon /\ index' = index /\ payload' = payload
      /\ saveLock' = saveLock /\ section' = section /\ queue' = queue
  BY DEF PrefetchFails, diskVars, clockVars
<1> QED
  BY <1>1, <1>2, <1>3, QuietEnd

LEMMA RelationsEndKeeps ==
  ASSUME IInv, NEW w \in Windows, NEW r \in Relations, RelationsEnd(w, r)
  PROVE  IInv'
<1>1. r \in Slots /\ Ends(w, r) /\ task[w][r].pc \notin Saving
  BY SlotNames DEF RelationsEnd, EndsAndReleases, Saving
<1>2. triggered' \in [Windows -> [Conns -> Nat]]
  BY DEF RelationsEnd, IInv, Types, memoryVars
<1>3. /\ now' = now /\ horizon' = horizon /\ index' = index /\ payload' = payload
      /\ saveLock' = saveLock /\ section' = section /\ queue' = queue
  BY DEF RelationsEnd, diskVars, clockVars
<1> QED
  BY <1>1, <1>2, <1>3, QuietEnd

LEMMA RelationsSucceedKeeps ==
  ASSUME IInv, NEW w \in Windows, NEW r \in Relations, RelationsSucceed(w, r)
  PROVE  IInv'
<1>1. PICK L : task \in [Windows -> [Slots -> TaskOn(L)]]
  BY DEF IInv, Types, TaskType
<1> DEFINE t == [task[w][r] EXCEPT !.pc = "final"]
<1>2. task' = [task EXCEPT ![w][r] = t]
  BY DEF RelationsSucceed
<1>3. r \in Slots /\ r # "clear" /\ task[w][r].pc = "run"
  BY SlotNames DEF RelationsSucceed
<1>4. task[w][r].conn \in Conns /\ task[w][r].ts # 0
  BY <1>3 DEF IInv, Tasks, TaskFits, Fits, Busy, Step
<1>5. t \in TaskOn(L \union {None}) /\ t.pc = "final" /\ t.conn = task[w][r].conn
      /\ t.ts = task[w][r].ts
  <2>1. task[w][r] \in TaskOn(L)
    BY <1>1, <1>3
  <2> QED
    BY <2>1 DEF TaskOn, Step
<1> HIDE DEF t
<1>6. Fits(r, t, horizon')
  BY <1>3, <1>4, <1>5, SlotNames DEF Fits
<1>7. TaskType' /\ Undisturbed
  BY <1>1, <1>2, <1>3, <1>5, <1>6, TaskMoves DEF Saving
<1>8. queue' = [queue EXCEPT ![w] = Append(@, r)]
  BY DEF RelationsSucceed, Enqueue
<1>9. /\ triggered' \in [Windows -> [Conns -> Nat]] /\ now' \in Nat /\ horizon' \in Nat
      /\ horizon' >= horizon
      /\ index' = index /\ payload' = payload /\ saveLock' = saveLock /\ section' = section
  BY DEF RelationsSucceed, IInv, Types, diskVars, memoryVars, clockVars
<1> QED
  BY <1>3, <1>7, <1>8, <1>9, QuietKeeps

--------------------------------------------------------------------------------
(* Starting up, clearing the memory, the locks of connections, time. *)

LEMMA LoadManifestsKeeps ==
  ASSUME IInv, NEW w \in Windows, LoadManifests(w)
  PROVE  IInv'
<1> DEFINE s == "startup"
<1>1. PICK L : task \in [Windows -> [Slots -> TaskOn(L)]]
  BY DEF IInv, Types, TaskType
<1>2. s \in Slots /\ s # "clear" /\ s \notin Relations /\ s \notin Prefetches
      /\ task[w][s].pc \notin Saving
  BY SlotNames DEF LoadManifests, Saving
<1>3. \A c \in Conns : index.conns[c].ts \in Nat
  BY DEF IInv, Types, Index, Entry
<1>4. triggered' \in [Windows -> [Conns -> Nat]]
  <2> DEFINE new == [c \in Conns |-> IF index.conns[c].complete /\ ~ Expired(index.conns[c].ts)
                                     THEN index.conns[c].ts ELSE triggered[w][c]]
  <2>1. triggered \in [Windows -> [Conns -> Nat]]
    BY DEF IInv, Types
  <2>2. triggered' = [triggered EXCEPT ![w] = new]
    BY DEF LoadManifests
  <2>3. new \in [Conns -> Nat]
    BY <1>3, <2>1
  <2> QED
    BY <2>1, <2>2, <2>3
<1>5. /\ now' = now /\ horizon' = horizon /\ index' = index /\ payload' = payload
      /\ saveLock' = saveLock /\ section' = section /\ queue' = queue
      /\ now \in Nat /\ horizon \in Nat
  BY DEF LoadManifests, diskVars, clockVars, IInv, Types
<1>6. CASE Ends(w, s)
  BY <1>2, <1>4, <1>5, <1>6, QuietEnd
<1>7. ASSUME NEW c \in Conns, Expired(index.conns[c].ts),
             task' = [task EXCEPT ![w][s] =
                        [@ EXCEPT !.pc = "expired", !.conn = c, !.ts = index.conns[c].ts]]
      PROVE  IInv'
  <2> DEFINE n == index.conns[c].ts
             u == [task[w][s] EXCEPT !.pc = "expired", !.conn = c, !.ts = n]
             t == [[[task[w][s] EXCEPT !.pc = "expired"] EXCEPT !.conn = c] EXCEPT !.ts = n]
  <2>1. n \in Nat /\ n <= horizon
    BY <1>3, <1>7 DEF Expired
  <2>2. task' = [task EXCEPT ![w][s] = u]
    BY <1>7
  <2> HIDE DEF n
  <2>3. u = t
    OBVIOUS
  <2>4. task' = [task EXCEPT ![w][s] = t]
    BY <2>2, <2>3
  <2>5. t \in TaskOn(L \union {None}) /\ t.pc = "expired" /\ t.conn = c /\ t.ts = n
    <3>1. task[w][s] \in TaskOn(L)
      BY <1>1, <1>2
    <3> QED
      BY <2>1, <3>1 DEF TaskOn, Step
  <2> HIDE DEF t
  <2>6. Fits(s, t, horizon')
    BY <1>2, <1>5, <2>1, <2>5 DEF Fits
  <2>7. TaskType' /\ Undisturbed
    BY <1>1, <1>2, <2>4, <2>5, <2>6, TaskMoves
  <2>8. horizon' >= horizon
    BY <1>5
  <2> QED
    BY <1>4, <1>5, <2>7, <2>8, QuietKeeps
<1> QED
  BY <1>6, <1>7 DEF LoadManifests

LEMMA RemoveExpiredKeeps ==
  ASSUME IInv, NEW w \in Windows, RemoveExpired(w)
  PROVE  IInv'
<1> DEFINE s == "startup"
           l == LeaseFor(w, task[w][s].conn)
           u == [task[w][s] EXCEPT !.pc = "remove", !.lease = l]
           t == [[task[w][s] EXCEPT !.pc = "remove"] EXCEPT !.lease = l]
<1>1. PICK L : task \in [Windows -> [Slots -> TaskOn(L)]]
  BY DEF IInv, Types, TaskType
<1>2. s \in Slots /\ s # "clear" /\ s \notin Relations /\ task[w][s].pc = "expired"
      /\ horizon' = horizon
  BY SlotNames DEF RemoveExpired, clockVars
<1>3. task[w][s].conn \in Conns /\ task[w][s].ts <= horizon
  BY <1>2 DEF IInv, Tasks, TaskFits, Fits, Busy, Step
<1>4. task' = [task EXCEPT ![w][s] = t]
  <2>1. task' = [task EXCEPT ![w][s] = u]
    BY DEF RemoveExpired
  <2> HIDE DEF l
  <2>2. u = t
    OBVIOUS
  <2> QED
    BY <2>1, <2>2
<1> HIDE DEF l
<1>5. t \in TaskOn(L \union {l}) /\ t.pc = "remove" /\ t.conn = task[w][s].conn
      /\ t.ts = task[w][s].ts
  <2>1. task[w][s] \in TaskOn(L)
    BY <1>1, <1>2
  <2> QED
    BY <2>1 DEF TaskOn, Step
<1> HIDE DEF t
<1>6. Fits(s, t, horizon')
  BY <1>2, <1>3, <1>5 DEF Fits
<1>7. TaskType' /\ Undisturbed
  BY <1>1, <1>2, <1>4, <1>5, <1>6, TaskMoves DEF Saving
<1>8. queue' = [queue EXCEPT ![w] = Append(@, s)]
  BY DEF RemoveExpired, Enqueue
<1>9. /\ triggered' \in [Windows -> [Conns -> Nat]] /\ now' \in Nat /\ horizon' \in Nat
      /\ horizon' >= horizon
      /\ index' = index /\ payload' = payload /\ saveLock' = saveLock /\ section' = section
  BY DEF RemoveExpired, IInv, Types, diskVars, memoryVars, clockVars
<1> QED
  BY <1>2, <1>7, <1>8, <1>9, QuietKeeps

LEMMA LeaveExpiredKeeps ==
  ASSUME IInv, NEW w \in Windows, LeaveExpired(w)
  PROVE  IInv'
<1>1. "startup" \in Slots /\ Ends(w, "startup") /\ task[w]["startup"].pc \notin Saving
  BY SlotNames DEF LeaveExpired, Saving
<1>2. triggered' \in [Windows -> [Conns -> Nat]]
  BY DEF LeaveExpired, IInv, Types, memoryVars
<1>3. /\ now' = now /\ horizon' = horizon /\ index' = index /\ payload' = payload
      /\ saveLock' = saveLock /\ section' = section /\ queue' = queue
  BY DEF LeaveExpired, diskVars, clockVars
<1> QED
  BY <1>1, <1>2, <1>3, QuietEnd

LEMMA ClearMemoryTyped ==
  ASSUME IInv, NEW w \in Windows, ClearMemory(w)
  PROVE  triggered' \in [Windows -> [Conns -> Nat]]
<1>1. triggered \in [Windows -> [Conns -> Nat]]
  BY DEF IInv, Types
<1>2. [c \in Conns |-> 0] \in [Conns -> Nat]
  OBVIOUS
<1>3. triggered' = [triggered EXCEPT ![w] = [c \in Conns |-> 0]]
  BY DEF ClearMemory
<1> QED
  BY <1>1, <1>2, <1>3

LEMMA ClearCacheKeeps ==
  ASSUME IInv, NEW w \in Windows, ClearCache(w)
  PROVE  IInv'
<1> DEFINE s == "clear"
           o == Outdate(w, task[w])
           u == [o[s] EXCEPT !.pc = "reset"]
<1>1. PICK L : task \in [Windows -> [Slots -> TaskOn(L)]]
  BY DEF IInv, Types, TaskType
<1>2. s \in Slots /\ s \notin Relations /\ s \notin Prefetches /\ task[w][s].pc = "idle"
      /\ horizon' = horizon
  BY SlotNames DEF ClearCache, clockVars
<1>3. task' = [task EXCEPT ![w] = [o EXCEPT ![s] = u]]
  <2>1. task' = [task EXCEPT ![w] = [o EXCEPT ![s].pc = "reset"]]
    BY DEF ClearCache
  <2> QED
    BY <2>1
<1>4. o \in [Slots -> TaskOn(L)] /\ \A q \in Slots : SameTask(o[q], task[w][q])
  BY <1>1, OutdateSame
<1> HIDE DEF o
<1>5. u \in TaskOn(L) /\ u.pc = "reset"
  <2>1. o[s] \in TaskOn(L)
    BY <1>2, <1>4
  <2> QED
    BY <2>1 DEF TaskOn, Step
<1> HIDE DEF u
<1>6. TaskType' /\ Undisturbed
  <2>1. Fits(s, u, horizon')
    BY <1>2, <1>5 DEF Fits, Busy
  <2>2. task[w][s].pc \notin Saving
    BY <1>2 DEF Saving
  <2> QED
    BY <1>1, <1>2, <1>3, <1>4, <1>5, <2>1, <2>2, OutdatedMoves
<1>7. queue' = [queue EXCEPT ![w] = Append(@, s)]
  BY DEF ClearCache, Enqueue
<1>8. triggered' \in [Windows -> [Conns -> Nat]]
  BY ClearMemoryTyped DEF ClearCache
<1>9. /\ now' \in Nat /\ horizon' \in Nat /\ horizon' >= horizon
      /\ index' = index /\ payload' = payload /\ saveLock' = saveLock /\ section' = section
  BY DEF ClearCache, IInv, Types, diskVars, clockVars
<1> QED
  BY <1>2, <1>6, <1>7, <1>8, <1>9, QuietKeeps

LEMMA ObserveGenerationKeeps ==
  ASSUME IInv, NEW w \in Windows, ObserveGeneration(w)
  PROVE  IInv'
<1> DEFINE o == Outdate(w, task[w])
<1>1. PICK L : task \in [Windows -> [Slots -> TaskOn(L)]]
  BY DEF IInv, Types, TaskType
<1>2. task' = [task EXCEPT ![w] = o]
  BY DEF ObserveGeneration
<1>3. o \in [Slots -> TaskOn(L)] /\ \A q \in Slots : SameTask(o[q], task[w][q])
  BY <1>1, OutdateSame
<1> HIDE DEF o
<1>4. TaskType' /\ Undisturbed
  <2>1. task' \in [Windows -> [Slots -> TaskOn(L)]]
    BY <1>1, <1>2, <1>3
  <2>2. \A v \in Windows, q \in Slots : SameTask(task'[v][q], task[v][q])
    BY <1>1, <1>2, <1>3 DEF SameTask
  <2> QED
    BY <2>1, <2>2 DEF TaskType, Undisturbed
<1>5. triggered' \in [Windows -> [Conns -> Nat]]
  BY ClearMemoryTyped DEF ObserveGeneration
<1>6. /\ now' \in Nat /\ horizon' \in Nat /\ horizon' >= horizon /\ queue' = queue
      /\ index' = index /\ payload' = payload /\ saveLock' = saveLock /\ section' = section
  BY DEF ObserveGeneration, IInv, Types, diskVars, clockVars
<1> QED
  BY <1>4, <1>5, <1>6, QuietKeeps

(* The other steps change nothing the invariant is about, or only the clock.   *)
LEMMA IdleKeeps ==
  ASSUME IInv, task' = task, queue' = queue, section' = section, saveLock' = saveLock,
         UNCHANGED diskVars, triggered' = triggered,
         now' = now, horizon' = horizon \/ (horizon < now /\ horizon' = now)
  PROVE  IInv'
<1>1. TaskType' /\ Undisturbed
  BY TasksStay DEF IInv, Types
<1>2. /\ triggered' \in [Windows -> [Conns -> Nat]] /\ now' \in Nat /\ horizon' \in Nat
      /\ horizon' >= horizon /\ index' = index /\ payload' = payload
  BY DEF IInv, Types, diskVars
<1> QED
  BY <1>1, <1>2, QuietKeeps

LEMMA OthersKeep ==
  ASSUME IInv,
         \/ \E w \in Windows : StartWatcher(w) \/ \E c \in Conns : Heartbeat(w, c)
         \/ \E c \in Conns : HeartbeatStalls(c)
         \/ TimePasses \/ UNCHANGED vars
  PROVE  IInv'
<1>1. /\ task' = task /\ queue' = queue /\ section' = section /\ saveLock' = saveLock
      /\ UNCHANGED diskVars /\ triggered' = triggered /\ now' = now
      /\ horizon' = horizon \/ (horizon < now /\ horizon' = now)
  BY DEF StartWatcher, Heartbeat, HeartbeatStalls, TimePasses, vars, memoryVars, clockVars,
         diskVars
<1> QED
  BY <1>1, IdleKeeps

--------------------------------------------------------------------------------
(* In a section. *)

LEMMA EnterSectionKeeps ==
  ASSUME IInv, NEW w \in Windows, EnterSection(w)
  PROVE  IInv'
<1>1. \A v \in Windows : section[v].at = "out"
  <2> SUFFICES ASSUME NEW v \in Windows PROVE section[v].at = "out"
    OBVIOUS
  <2>1. section[v].at # "out" <=> saveLock = v
    BY DEF IInv, Sections, SectionFits
  <2>2. saveLock \in {None, "dead"}
    BY DEF EnterSection
  <2> QED
    BY <2>1, <2>2, NamesAssumption
<1>2. /\ section' \in SectionType
      /\ section'[w].at = "read" /\ section'[w].copy = index
      /\ \A v \in Windows : v # w => section'[v] = section[v]
  <2> DEFINE u == [Outside EXCEPT !.at = "read", !.copy = index]
  <2>1. section' = [section EXCEPT ![w] =
                      [at |-> "read", copy |-> index, parts |-> {}, todo |-> {}]]
    <3>1. section' = [section EXCEPT ![w] = u]
      BY DEF EnterSection
    <3>2. u = [[Outside EXCEPT !.at = "read"] EXCEPT !.copy = index]
      OBVIOUS
    <3> HIDE DEF u
    <3>3. u = [at |-> "read", copy |-> index, parts |-> {}, todo |-> {}]
      BY <3>2 DEF Outside
    <3> QED
      BY <3>1, <3>3
  <2>2. [at |-> "read", copy |-> index, parts |-> {}, todo |-> {}]
           \in [at : Places, copy : Index, parts : SUBSET Parts, todo : SUBSET Parts]
    BY DEF IInv, Types, Places
  <2> QED
    BY <2>1, <2>2 DEF IInv, Types, SectionType
<1>3. /\ saveLock' = w /\ index' = index /\ payload' = payload /\ task' = task /\ queue' = queue
      /\ triggered' = triggered /\ now' = now /\ horizon' = horizon /\ queue[w] # << >>
  BY DEF EnterSection, diskVars, memoryVars, clockVars
<1>4. Types'
  BY <1>2, <1>3 DEF IInv, Types, TaskType
<1>5. Tasks'
  BY <1>3 DEF IInv, Tasks, TaskFits
<1>6. Sections'
  <2> SUFFICES ASSUME NEW v \in Windows PROVE SectionFits(v)'
    BY DEF Sections
  <2>1. CASE v = w
    BY <1>2, <1>3, <2>1 DEF SectionFits
  <2>2. CASE v # w
    BY <1>1, <1>2, <1>3, <2>2 DEF SectionFits
  <2> QED
    BY <2>1, <2>2
<1>7. Stored'
  BY <1>3 DEF IInv, Stored, ClearedStaysCleared, FilesRecent
<1> QED
  BY <1>4, <1>5, <1>6, <1>7 DEF IInv

(* What is known at the head of the queue.                                     *)
LEMMA AtHead ==
  ASSUME IInv, NEW w \in Windows, NEW s \in Slots, NEW x \in {"read", "parts", "payload", "removed"},
         HeadIs(w, s, x)
  PROVE  /\ s = Head(queue[w]) /\ queue[w] # << >> /\ section[w].at = x /\ saveLock = w
         /\ SectionFits(w) /\ TaskFits(w, s)
         /\ x # "removed" => section[w].copy = index
BY DEF HeadIs, IInv, Sections, Tasks, SectionFits

LEMMA AllocateFenceFacts ==
  ASSUME IInv, NEW w \in Windows, NEW s \in Slots, AllocateFence(w, s)
  PROVE  /\ index' \in Index /\ index'.gen = index.gen
         /\ \A d \in Conns : /\ index'.conns[d].ts = index.conns[d].ts
                             /\ index'.conns[d].gen = index.conns[d].gen
                             /\ index'.conns[d].fence = index.conns[d].fence
                             /\ index'.conns[d].parts = index.conns[d].parts
                             /\ index.conns[d].here => index'.conns[d].here
         /\ index'.nextFence = index.nextFence + 1
<1> DEFINE c == task[w][s].conn
<1>1. section[w].copy = index /\ TaskFits(w, s) /\ task[w][s].pc = "fence"
  BY AtHead DEF AllocateFence
<1>2. c \in Conns
  BY <1>1 DEF TaskFits, Fits, Busy, Step
<1> DEFINE cs == [index.conns EXCEPT ![c] = [index.conns[c] EXCEPT !.here = TRUE]]
           i == [index EXCEPT !.nextFence = @ + 1, !.conns[c].here = TRUE]
           j == [[index EXCEPT !.nextFence = @ + 1] EXCEPT !.conns = cs]
<1>3. index' = i
  BY <1>1 DEF AllocateFence
<1>4. /\ index \in [gen : Nat, nextFence : Nat, conns : [Conns -> Entry]]
      /\ index.nextFence + 1 \in Nat
  BY DEF IInv, Types, Index
<1>5. i = j
  BY <1>4
<1>6. [index.conns[c] EXCEPT !.here = TRUE] \in Entry
  BY <1>2, <1>4 DEF Entry
<1>7. cs \in [Conns -> Entry]
  BY <1>4, <1>6
<1>8. \A d \in Conns : /\ cs[d].ts = index.conns[d].ts /\ cs[d].gen = index.conns[d].gen
                       /\ cs[d].fence = index.conns[d].fence
                       /\ cs[d].parts = index.conns[d].parts
                       /\ index.conns[d].here => cs[d].here
  BY <1>2, <1>4 DEF Entry
<1> HIDE DEF cs
<1>9. j \in [gen : Nat, nextFence : Nat, conns : [Conns -> Entry]]
  BY <1>4, <1>7
<1>10. j.gen = index.gen /\ j.conns = cs /\ j.nextFence = index.nextFence + 1
  BY <1>4
<1> HIDE DEF i, j
<1> QED
  BY <1>3, <1>5, <1>8, <1>9, <1>10 DEF Index

LEMMA AllocateFenceKeeps ==
  ASSUME IInv, NEW w \in Windows, NEW s \in Slots, AllocateFence(w, s)
  PROVE  IInv'
<1> DEFINE c == task[w][s].conn
           copy == section[w].copy
           pc == IF s \in Prefetches /\ task[w][s].ts # 0 THEN "leased" ELSE "run"
           u == [task[w][s] EXCEPT !.gen = copy.gen, !.fence = copy.nextFence, !.pc = pc]
           t == [[[task[w][s] EXCEPT !.gen = index.gen] EXCEPT !.fence = index.nextFence]
                    EXCEPT !.pc = pc]
<1>1. PICK L : task \in [Windows -> [Slots -> TaskOn(L)]]
  BY DEF IInv, Types, TaskType
<1>2. /\ task[w][s].pc = "fence" /\ LeaveSection(w) /\ payload' = payload
      /\ triggered' = triggered /\ now' = now /\ horizon' = horizon
  BY DEF AllocateFence, memoryVars, clockVars
<1>3. queue[w] # << >> /\ copy = index /\ TaskFits(w, s) /\ section[w].at = "read"
  <2>1. HeadIs(w, s, "read")
    BY DEF AllocateFence
  <2> QED
    BY <2>1, AtHead
<1>4. c \in Conns /\ s # "clear"
  BY <1>2, <1>3 DEF TaskFits, Fits, Busy, Step
<1>5. task' = [task EXCEPT ![w][s] = t]
  <2>1. task' = [task EXCEPT ![w][s] = u]
    BY DEF AllocateFence
  <2>2. u = [[[task[w][s] EXCEPT !.gen = copy.gen] EXCEPT !.fence = copy.nextFence] EXCEPT !.pc = pc]
    OBVIOUS
  <2> HIDE DEF u
  <2> QED
    BY <1>3, <2>1, <2>2
<1>6. /\ index' \in Index /\ index'.gen = index.gen
      /\ \A d \in Conns : /\ index'.conns[d].ts = index.conns[d].ts
                          /\ index'.conns[d].gen = index.conns[d].gen
                          /\ index'.conns[d].fence = index.conns[d].fence
                          /\ index'.conns[d].parts = index.conns[d].parts
                          /\ index.conns[d].here => index'.conns[d].here
  BY AllocateFenceFacts
<1>7. t \in TaskOn(L \union {None}) /\ t.pc = pc /\ t.conn = c /\ t.ts = task[w][s].ts
  <2>1. task[w][s] \in TaskOn(L)
    BY <1>1
  <2>2. index.gen \in Nat /\ index.nextFence \in Nat
    BY DEF IInv, Types, Index
  <2> QED
    BY <2>1, <2>2 DEF TaskOn, Step
<1> HIDE DEF t
<1>8. Fits(s, t, horizon')
  BY <1>2, <1>3, <1>4, <1>7, SlotNames DEF TaskFits, Fits
<1>9. TaskType' /\ Settling(w)
  <2>1. /\ TaskType' /\ task'[w][s] = t
        /\ \A v \in Windows, q \in Slots : v # w \/ q # s => SameTask(task'[v][q], task[v][q])
    BY <1>1, <1>5, <1>7, TaskBecomes
  <2>2. TaskFits(w, s)'
    BY <1>8, <2>1 DEF TaskFits
  <2> QED
    BY <2>1, <2>2, OneTask
<1>10. Stored'
  BY <1>2, <1>6 DEF IInv, Stored, ClearedStaysCleared, FilesRecent, Recent
<1>11. payload' \in PayloadType
  BY <1>2 DEF IInv, Types
<1> QED
  BY <1>2, <1>3, <1>6, <1>9, <1>10, <1>11, LeaveKeeps

LEMMA SkipSnapshotKeeps ==
  ASSUME IInv, NEW w \in Windows, NEW s \in Slots, SkipSnapshot(w, s) \/ KeepEntry(w, s)
  PROVE  IInv'
<1>1. /\ queue[w] # << >> /\ LeaveSection(w) /\ Settled(w, s)
      /\ index' = index /\ payload' = payload /\ triggered' = triggered /\ now' = now
      /\ horizon' = horizon
  BY DEF SkipSnapshot, KeepEntry, HeadIs, diskVars, memoryVars, clockVars
<1>2. TaskType' /\ Settling(w)
  BY <1>1, SettledSettles
<1> QED
  BY <1>1, <1>2, LeaveQuietly

LEMMA OperationFailsKeeps ==
  ASSUME IInv, NEW w \in Windows, NEW s \in Slots, OperationFails(w, s)
  PROVE  IInv'
<1>1. /\ queue[w] # << >> /\ LeaveSection(w)
      /\ index' = index /\ payload' = payload /\ triggered' = triggered /\ now' = now
      /\ horizon' = horizon
  BY DEF OperationFails, diskVars, clockVars
<1>2. Ends(w, s) \/ Settled(w, s)
  BY DEF OperationFails, EndsAndReleases
<1>3. TaskType' /\ Settling(w)
  BY <1>2, SettledSettles, TaskEnds DEF IInv, Types
<1> QED
  BY <1>1, <1>3, LeaveQuietly

LEMMA TaskNumbers ==
  ASSUME TaskType, NEW w \in Windows, NEW s \in Slots
  PROVE  task[w][s].gen \in Nat /\ task[w][s].fence \in Nat /\ task[w][s].ts \in Nat
BY DEF TaskType, TaskOn

(* A file that a save writes or prunes.                                        *)
LEMMA FileBecomes ==
  ASSUME IInv, NEW w \in Windows, NEW s \in Slots, NEW f \in Files, NEW x \in Stamp,
         task[w][s].conn \in Conns, WriteFile(w, s, f, x), index' = index,
         \/ x = Missing /\ f \in Parts
         \/ /\ x = StampOf(task[w][s]) /\ task[w][s].gen = index.gen
            /\ task[w][s].fence >= index.conns[task[w][s].conn].fence
  PROVE  /\ payload' \in PayloadType /\ payload'[task[w][s].conn][f] = x
         /\ \A g \in Files : g # f => payload'[task[w][s].conn][g] = payload[task[w][s].conn][g]
         /\ \A d \in Conns : d # task[w][s].conn => payload'[d] = payload[d]
         /\ Stored'
<1> DEFINE c == task[w][s].conn
           files == [payload[c] EXCEPT ![f] = x]
<1>1. payload \in [Conns -> [Files -> Stamp]]
  BY DEF IInv, Types, PayloadType
<1>2. payload' = [payload EXCEPT ![c] = files]
  BY DEF WriteFile
<1>3. /\ files \in [Files -> Stamp] /\ files[f] = x
      /\ \A g \in Files : g # f => files[g] = payload[c][g]
  BY <1>1
<1> HIDE DEF files
<1>4. /\ payload' \in PayloadType /\ payload'[c] = files
      /\ \A d \in Conns : d # c => payload'[d] = payload[d]
  BY <1>1, <1>2, <1>3 DEF PayloadType
<1>5. ASSUME NEW d \in Conns, index.conns[d].ts # 0
      PROVE  /\ \A g \in {"metadata", "manifest"} : Recent(payload'[d][g], index.conns[d])
             /\ \A g \in index.conns[d].parts :
                  payload'[d][g] = Missing \/ Recent(payload'[d][g], index.conns[d])
  <2>1. /\ \A g \in {"metadata", "manifest"} : Recent(payload[d][g], index.conns[d])
        /\ \A g \in index.conns[d].parts :
             payload[d][g] = Missing \/ Recent(payload[d][g], index.conns[d])
        /\ index.conns[d].gen = index.gen
    BY <1>5 DEF IInv, Stored, FilesRecent, ClearedStaysCleared
  <2>2. index.conns[d].parts \subseteq Files
    BY PartNames DEF IInv, Types, Index, Entry
  <2>3. CASE d # c
    BY <1>4, <2>1, <2>3 DEF Recent
  <2>4. CASE d = c
    <3>1. (x = Missing /\ f \in Parts) \/ Recent(x, index.conns[d])
      <4>1. /\ StampOf(task[w][s]).gen = task[w][s].gen
            /\ StampOf(task[w][s]).fence = task[w][s].fence
        BY DEF StampOf
      <4> QED
        BY <2>1, <2>4, <4>1 DEF Recent
    <3>2. payload'[d][f] = x /\ \A g \in Files : g # f => payload'[d][g] = payload[d][g]
      BY <1>3, <1>4, <2>4
    <3> QED
      BY <2>1, <2>2, <3>1, <3>2, PartNames
  <2> QED
    BY <2>3, <2>4
<1>6. Stored'
  BY <1>5 DEF IInv, Stored, FilesRecent, ClearedStaysCleared
<1> QED
  BY <1>3, <1>4, <1>6

LEMMA StampTyped ==
  ASSUME TaskType, NEW w \in Windows, NEW s \in Slots
  PROVE  StampOf(task[w][s]) \in Stamp /\ Missing \in Stamp
BY TaskNumbers DEF StampOf, Stamp, Missing

LEMMA SavedFile ==
  ASSUME IInv, NEW w \in Windows, NEW s \in Slots, NEW f \in Files,
         task[w][s].conn \in Conns, WriteFile(w, s, f, StampOf(task[w][s])), index' = index,
         task[w][s].gen = index.gen, task[w][s].fence >= index.conns[task[w][s].conn].fence
  PROVE  /\ payload' \in PayloadType /\ payload'[task[w][s].conn][f] = StampOf(task[w][s])
         /\ \A g \in Files : g # f => payload'[task[w][s].conn][g] = payload[task[w][s].conn][g]
         /\ \A d \in Conns : d # task[w][s].conn => payload'[d] = payload[d]
         /\ Stored'
<1> DEFINE x == StampOf(task[w][s])
<1>1. x \in Stamp /\ x = StampOf(task[w][s])
  BY StampTyped DEF IInv, Types
<1> HIDE DEF x
<1>2. WriteFile(w, s, f, x)
  BY <1>1
<1> QED
  BY <1>1, <1>2, FileBecomes

(* The metadata of an accepted snapshot.                                       *)
LEMMA WriteMetadataKeeps ==
  ASSUME IInv, NEW w \in Windows, NEW s \in Slots, WriteMetadata(w, s)
  PROVE  IInv'
<1> DEFINE t == task[w][s]
<1>1. /\ s = Head(queue[w]) /\ queue[w] # << >> /\ section[w].at = "read" /\ saveLock = w
      /\ TaskFits(w, s) /\ section[w].copy = index
  BY AtHead DEF WriteMetadata
<1>2. t.pc \in {"checkpoint", "final"} /\ t.gen = index.gen /\ t.fence >= index.conns[t.conn].fence
  BY <1>1 DEF WriteMetadata, Accepted
<1>3. t.conn \in Conns
  BY <1>1, <1>2 DEF TaskFits, Fits, Busy, Step
<1>4. /\ WriteFile(w, s, "metadata", StampOf(t)) /\ index' = index
      /\ saveLock' = saveLock /\ task' = task /\ queue' = queue /\ triggered' = triggered
      /\ now' = now /\ horizon' = horizon
  BY DEF WriteMetadata, memoryVars, clockVars
<1>5. /\ payload' \in PayloadType /\ payload'[t.conn]["metadata"] = StampOf(t) /\ Stored'
  <2>1. "metadata" \in Files
    BY PartNames
  <2>2. /\ t.conn \in Conns /\ t.gen = index.gen /\ t.fence >= index.conns[t.conn].fence
        /\ WriteFile(w, s, "metadata", StampOf(t)) /\ index' = index
    BY <1>2, <1>3, <1>4
  <2> QED
    BY <2>1, <2>2, SavedFile
<1>6. PICK parts \in SUBSET Parts :
        section' = [section EXCEPT ![w] =
                      [@ EXCEPT !.at = "parts", !.parts = parts, !.todo = Parts]]
  BY DEF WriteMetadata
<1>7. /\ section' \in SectionType /\ section'[w].at = "parts" /\ section'[w].copy = section[w].copy
      /\ section'[w].parts \subseteq section'[w].todo
      /\ \A v \in Windows : v # w => section'[v] = section[v]
  <2> DEFINE y == [at |-> "parts", copy |-> section[w].copy, parts |-> parts, todo |-> Parts]
  <2>1. section \in SectionType
    BY DEF IInv, Types
  <2>2. section' = [section EXCEPT ![w] = y]
    <3> DEFINE u == [section[w] EXCEPT !.at = "parts", !.parts = parts, !.todo = Parts]
    <3>1. section' = [section EXCEPT ![w] = u]
      BY <1>6
    <3>2. u = [[[section[w] EXCEPT !.at = "parts"] EXCEPT !.parts = parts] EXCEPT !.todo = Parts]
      OBVIOUS
    <3>3. section[w] \in [at : Places, copy : Index, parts : SUBSET Parts, todo : SUBSET Parts]
      BY <2>1 DEF SectionType
    <3> HIDE DEF u
    <3>4. u = y
      BY <3>2, <3>3
    <3> QED
      BY <3>1, <3>4
  <2>3. y \in [at : Places, copy : Index, parts : SUBSET Parts, todo : SUBSET Parts]
    BY <2>1 DEF SectionType, Places
  <2>4. y.at = "parts" /\ y.copy = section[w].copy /\ y.parts \subseteq y.todo
    OBVIOUS
  <2> HIDE DEF y
  <2> QED
    BY <2>1, <2>2, <2>3, <2>4 DEF SectionType
<1>8. SectionFits(w)'
  BY <1>1, <1>2, <1>4, <1>5, <1>7 DEF SectionFits
<1>9. index' \in Index
  BY <1>4 DEF IInv, Types
<1> QED
  BY <1>1, <1>4, <1>5, <1>7, <1>8, <1>9, MoveKeeps

(* What is known in the middle of a save.                                      *)
LEMMA AtParts ==
  ASSUME IInv, NEW w \in Windows, NEW s \in Slots, HeadIs(w, s, "parts")
  PROVE  LET t == task[w][s] IN
         /\ s = Head(queue[w]) /\ queue[w] # << >> /\ section[w].at = "parts" /\ saveLock = w
         /\ section[w].copy = index /\ t.conn \in Conns
         /\ t.pc \in {"checkpoint", "final"} /\ t.gen = index.gen
         /\ t.fence >= index.conns[t.conn].fence
         /\ payload[t.conn]["metadata"] = StampOf(t)
         /\ \A f \in section[w].parts \ section[w].todo : payload[t.conn][f] = StampOf(t)
<1>1. /\ s = Head(queue[w]) /\ queue[w] # << >> /\ section[w].at = "parts" /\ saveLock = w
      /\ section[w].copy = index /\ TaskFits(w, s) /\ SectionFits(w)
  BY AtHead
<1>2. task[w][s].pc \in {"checkpoint", "final"}
  BY <1>1 DEF SectionFits
<1> QED
  BY <1>1, <1>2 DEF SectionFits, TaskFits, Fits, Busy, Step

LEMMA PartSectionMoves ==
  ASSUME IInv, NEW w \in Windows, NEW f \in Parts,
         section' = [section EXCEPT ![w].todo = @ \ {f}]
  PROVE  /\ section' \in SectionType /\ section'[w].at = section[w].at
         /\ section'[w].copy = section[w].copy /\ section'[w].parts = section[w].parts
         /\ section'[w].parts \subseteq Parts
         /\ section'[w].todo = section[w].todo \ {f}
         /\ \A v \in Windows : v # w => section'[v] = section[v]
<1>1. section \in SectionType
  BY DEF IInv, Types
<1> QED
  BY <1>1 DEF SectionType

(* A part is written, or pruned when the snapshot has none.                    *)
LEMMA PartKeeps ==
  ASSUME IInv, NEW w \in Windows, NEW s \in Slots, NEW f \in Parts,
         WritePart(w, s, f) \/ PrunePart(w, s, f)
  PROVE  IInv'
<1> DEFINE t == task[w][s]
<1>1. HeadIs(w, s, "parts") /\ index' = index /\ f \in section[w].todo
      /\ section' = [section EXCEPT ![w].todo = @ \ {f}]
      /\ saveLock' = saveLock /\ task' = task /\ queue' = queue /\ triggered' = triggered
      /\ now' = now /\ horizon' = horizon
  BY DEF WritePart, PrunePart, memoryVars, clockVars
<1>2. /\ s = Head(queue[w]) /\ queue[w] # << >> /\ section[w].at = "parts" /\ saveLock = w
      /\ section[w].copy = index /\ t.conn \in Conns
      /\ t.pc \in {"checkpoint", "final"} /\ t.gen = index.gen
      /\ t.fence >= index.conns[t.conn].fence
      /\ payload[t.conn]["metadata"] = StampOf(t)
      /\ \A g \in section[w].parts \ section[w].todo : payload[t.conn][g] = StampOf(t)
  BY <1>1, AtParts
<1>3. /\ section' \in SectionType /\ section'[w].at = section[w].at
      /\ section'[w].copy = section[w].copy /\ section'[w].parts = section[w].parts
      /\ section'[w].parts \subseteq Parts
      /\ section'[w].todo = section[w].todo \ {f}
      /\ \A v \in Windows : v # w => section'[v] = section[v]
  BY <1>1, PartSectionMoves
<1>4. /\ payload' \in PayloadType /\ Stored' /\ payload'[t.conn]["metadata"] = StampOf(t)
      /\ \A g \in section'[w].parts \ section'[w].todo : payload'[t.conn][g] = StampOf(t)
  <2>1. CASE WritePart(w, s, f)
    <3>1. WriteFile(w, s, f, StampOf(t))
      BY <2>1 DEF WritePart
    <3>2. /\ payload' \in PayloadType /\ payload'[t.conn][f] = StampOf(t)
          /\ \A g \in Files : g # f => payload'[t.conn][g] = payload[t.conn][g]
          /\ Stored'
      <4>1. f \in Files
        BY PartNames
      <4>2. /\ index' = index /\ t.conn \in Conns /\ t.gen = index.gen
            /\ t.fence >= index.conns[t.conn].fence
        BY <1>1, <1>2
      <4> QED
        BY <3>1, <4>1, <4>2, SavedFile
    <3> QED
      BY <1>2, <1>3, <3>2, PartNames
  <2>2. CASE PrunePart(w, s, f) /\ WriteFile(w, s, f, Missing)
    <3>1. f \notin section[w].parts
      BY <1>1, <2>2 DEF PrunePart
    <3>2. /\ payload' \in PayloadType
          /\ \A g \in Files : g # f => payload'[t.conn][g] = payload[t.conn][g]
          /\ Stored'
      <4>1. f \in Files /\ Missing \in Stamp
        BY StampTyped, PartNames DEF IInv, Types
      <4> QED
        BY <1>1, <1>2, <2>2, <4>1, FileBecomes
    <3> QED
      BY <1>2, <1>3, <3>1, <3>2, PartNames
  <2>3. CASE PrunePart(w, s, f) /\ payload' = payload
    <3>1. f \notin section[w].parts
      BY <1>1, <2>3 DEF PrunePart
    <3>2. payload' \in PayloadType /\ Stored'
      BY <1>1, <2>3 DEF IInv, Types, Stored, ClearedStaysCleared, FilesRecent
    <3> QED
      BY <1>2, <1>3, <2>3, <3>1, <3>2
  <2> QED
    BY <2>1, <2>2, <2>3 DEF PrunePart
<1>5. SectionFits(w)'
  BY <1>1, <1>2, <1>3, <1>4 DEF SectionFits
<1>6. index' \in Index
  BY <1>1 DEF IInv, Types
<1> QED
  BY <1>1, <1>2, <1>3, <1>4, <1>5, <1>6, MoveKeeps

LEMMA WriteManifestKeeps ==
  ASSUME IInv, NEW w \in Windows, NEW s \in Slots, WriteManifest(w, s)
  PROVE  IInv'
<1> DEFINE t == task[w][s]
<1>1. /\ HeadIs(w, s, "parts") /\ index' = index /\ section[w].todo = {}
      /\ WriteFile(w, s, "manifest", StampOf(t))
      /\ section' = [section EXCEPT ![w].at = "payload"]
      /\ saveLock' = saveLock /\ task' = task /\ queue' = queue /\ triggered' = triggered
      /\ now' = now /\ horizon' = horizon
  BY DEF WriteManifest, memoryVars, clockVars
<1>2. /\ s = Head(queue[w]) /\ queue[w] # << >> /\ section[w].at = "parts" /\ saveLock = w
      /\ section[w].copy = index /\ t.conn \in Conns
      /\ t.pc \in {"checkpoint", "final"} /\ t.gen = index.gen
      /\ t.fence >= index.conns[t.conn].fence
      /\ payload[t.conn]["metadata"] = StampOf(t)
      /\ \A g \in section[w].parts \ section[w].todo : payload[t.conn][g] = StampOf(t)
  BY <1>1, AtParts
<1>3. /\ section' \in SectionType /\ section'[w].at = "payload"
      /\ section'[w].copy = section[w].copy /\ section'[w].parts = section[w].parts
      /\ section'[w].parts \subseteq Parts /\ section'[w].todo = section[w].todo
      /\ \A v \in Windows : v # w => section'[v] = section[v]
  <2>1. section \in SectionType
    BY DEF IInv, Types
  <2> QED
    BY <1>1, <2>1 DEF SectionType, Places
<1>4. /\ payload' \in PayloadType /\ payload'[t.conn]["manifest"] = StampOf(t)
      /\ \A g \in Files : g # "manifest" => payload'[t.conn][g] = payload[t.conn][g]
      /\ Stored'
  <2>1. "manifest" \in Files
    BY PartNames
  <2>2. WriteFile(w, s, "manifest", StampOf(t)) /\ index' = index
    BY <1>1
  <2>3. t.conn \in Conns /\ t.gen = index.gen /\ t.fence >= index.conns[t.conn].fence
    BY <1>2
  <2> QED
    BY <2>1, <2>2, <2>3, SavedFile
<1>5. SectionFits(w)'
  <2>1. \A f \in section'[w].parts : payload'[t.conn][f] = StampOf(t)
    <3> SUFFICES ASSUME NEW f \in section'[w].parts PROVE payload'[t.conn][f] = StampOf(t)
      OBVIOUS
    <3>1. f \in section[w].parts \ section[w].todo /\ f \in Files /\ f # "manifest"
      BY <1>1, <1>3, PartNames
    <3>2. payload'[t.conn][f] = payload[t.conn][f]
      BY <1>4, <3>1
    <3>3. payload[t.conn][f] = StampOf(t)
      BY <1>2, <3>1
    <3> QED
      BY <3>2, <3>3
  <2>2. payload'[t.conn]["metadata"] = StampOf(t)
    BY <1>2, <1>4, PartNames DEF Files
  <2>3. /\ section'[w].at = "payload" /\ saveLock' = w /\ queue' = queue /\ queue[w] # << >>
        /\ section'[w].copy = index' /\ task' = task /\ index' = index
        /\ section'[w].todo = {} /\ payload'[t.conn]["manifest"] = StampOf(t)
    BY <1>1, <1>2, <1>3, <1>4
  <2>4. /\ s = Head(queue[w]) /\ t.pc \in {"checkpoint", "final"}
        /\ t.gen = index.gen /\ t.fence >= index.conns[t.conn].fence
    BY <1>2
  <2> QED
    BY <2>1, <2>2, <2>3, <2>4 DEF SectionFits
<1>6. index' \in Index
  BY <1>1 DEF IInv, Types
<1> QED
  BY <1>1, <1>2, <1>3, <1>4, <1>5, <1>6, MoveKeeps

(* What a section does to the entry of one connection.                         *)
LEMMA OneEntry ==
  ASSUME index \in Index, NEW c \in Conns, NEW e \in Entry,
         index' = [index EXCEPT !.conns[c] = e]
  PROVE  /\ index' \in Index /\ index'.gen = index.gen /\ index'.conns[c] = e
         /\ index'.nextFence = index.nextFence
         /\ \A d \in Conns : d # c => index'.conns[d] = index.conns[d]
<1> DEFINE cs == [index.conns EXCEPT ![c] = e]
<1>1. index \in [gen : Nat, nextFence : Nat, conns : [Conns -> Entry]]
  BY DEF Index
<1>2. index' = [index EXCEPT !.conns = cs]
  BY <1>1
<1>3. /\ cs \in [Conns -> Entry] /\ cs[c] = e
      /\ \A d \in Conns : d # c => cs[d] = index.conns[d]
  BY <1>1
<1> HIDE DEF cs
<1> QED
  BY <1>1, <1>2, <1>3 DEF Index

LEMMA CommitSnapshotFacts ==
  ASSUME IInv, NEW w \in Windows, NEW s \in Slots, CommitSnapshot(w, s)
  PROVE  LET t == task[w][s]  e == index'.conns[t.conn] IN
         /\ section[w].at = "payload" /\ queue[w] # << >> /\ t.conn \in Conns /\ t.ts # 0
         /\ t.pc \in {"checkpoint", "final"} /\ t.gen = index.gen
         /\ index' \in Index /\ index'.gen = index.gen /\ index'.nextFence = index.nextFence
         /\ e.here /\ e.ts = t.ts /\ e.gen = t.gen /\ e.fence = t.fence
         /\ t.fence >= index.conns[t.conn].fence
         /\ \A f \in {"metadata", "manifest"} \union e.parts :
              payload[t.conn][f] = StampOf(e)
         /\ \A c \in Conns : c # t.conn => index'.conns[c] = index.conns[c]
<1> DEFINE t == task[w][s]
           e == [here |-> TRUE, ts |-> t.ts, complete |-> t.pc = "final", fence |-> t.fence,
                 gen |-> t.gen, parts |-> section[w].parts]
<1>1. /\ s = Head(queue[w]) /\ queue[w] # << >> /\ section[w].at = "payload"
      /\ TaskFits(w, s) /\ section[w].copy = index /\ SectionFits(w)
  BY AtHead DEF CommitSnapshot
<1>2. /\ t.pc \in {"checkpoint", "final"}
      /\ t.gen = index.gen /\ t.fence >= index.conns[t.conn].fence
      /\ \A f \in {"metadata", "manifest"} \union section[w].parts :
           payload[t.conn][f] = StampOf(t)
  BY <1>1 DEF SectionFits
<1>3. t.conn \in Conns /\ t.ts # 0
  BY <1>1, <1>2 DEF TaskFits, Fits, Busy, Step
<1>4. /\ e \in Entry /\ e.here /\ e.ts = t.ts /\ e.fence = t.fence /\ e.gen = t.gen
      /\ e.parts = section[w].parts
  <2>1. section[w].parts \subseteq Parts
    BY DEF IInv, Types, SectionType
  <2> QED
    BY <2>1, TaskNumbers DEF IInv, Types, Entry
<1>5. index' = [index EXCEPT !.conns[t.conn] = e]
  BY <1>1 DEF CommitSnapshot
<1> HIDE DEF e
<1>6. /\ index' \in Index /\ index'.gen = index.gen /\ index'.conns[t.conn] = e
      /\ index'.nextFence = index.nextFence
      /\ \A d \in Conns : d # t.conn => index'.conns[d] = index.conns[d]
  BY <1>3, <1>4, <1>5, OneEntry DEF IInv, Types
<1>7. StampOf(e) = StampOf(t)
  BY <1>4 DEF StampOf
<1> QED
  BY <1>1, <1>2, <1>3, <1>4, <1>6, <1>7

LEMMA CommitSnapshotKeeps ==
  ASSUME IInv, NEW w \in Windows, NEW s \in Slots, CommitSnapshot(w, s)
  PROVE  IInv'
<1> DEFINE c == task[w][s].conn
           e == index'.conns[c]
<1>1. /\ section[w].at = "payload" /\ queue[w] # << >> /\ index' \in Index
      /\ index'.gen = index.gen /\ c \in Conns
      /\ e.here /\ e.gen = index.gen
      /\ \A f \in {"metadata", "manifest"} \union e.parts : payload[c][f] = StampOf(e)
      /\ \A d \in Conns : d # c => index'.conns[d] = index.conns[d]
  BY CommitSnapshotFacts
<1>2. /\ LeaveSection(w) /\ Settled(w, s) /\ payload' = payload /\ triggered' = triggered
      /\ now' = now /\ horizon' = horizon
  BY DEF CommitSnapshot, memoryVars, clockVars
<1>3. TaskType' /\ Settling(w)
  BY <1>2, SettledSettles
<1>4. payload' \in PayloadType
  BY <1>2 DEF IInv, Types
<1>5. Stored'
  <2>1. e.fence \in Nat
    BY <1>1 DEF Index, Entry
  <2>2. \A f \in {"metadata", "manifest"} \union e.parts : Recent(payload'[c][f], e)
    <3>1. Recent(StampOf(e), e)
      BY <2>1 DEF Recent, StampOf
    <3>2. payload' = payload /\ \A f \in {"metadata", "manifest"} \union e.parts :
                                 payload[c][f] = StampOf(e)
      BY <1>1, <1>2
    <3> QED
      BY <3>1, <3>2
  <2>3. ASSUME NEW d \in Conns, index'.conns[d].ts # 0
        PROVE  /\ index'.conns[d].gen = index'.gen /\ index'.conns[d].here
               /\ \A f \in {"metadata", "manifest"} : Recent(payload'[d][f], index'.conns[d])
               /\ \A f \in index'.conns[d].parts :
                    payload'[d][f] = Missing \/ Recent(payload'[d][f], index'.conns[d])
    <3>1. CASE d = c
      BY <1>1, <2>2, <3>1
    <3>2. CASE d # c
      BY <1>1, <1>2, <2>3, <3>2 DEF IInv, Stored, ClearedStaysCleared, FilesRecent
    <3> QED
      BY <3>1, <3>2
  <2> QED
    BY <2>3 DEF Stored, ClearedStaysCleared, FilesRecent
<1> QED
  BY <1>1, <1>2, <1>3, <1>4, <1>5, LeaveKeeps

(* What is removed from the index is no snapshot, or the one found expired.    *)
LEMMA RemoveEntryFacts ==
  ASSUME IInv, NEW w \in Windows, NEW s \in Slots, RemoveEntry(w, s)
  PROVE  LET c == task[w][s].conn IN
         /\ s = Head(queue[w]) /\ queue[w] # << >> /\ section[w].at = "read" /\ saveLock = w
         /\ s # "clear" /\ c \in Conns
         /\ index.conns[c].here => index.conns[c].ts <= horizon
         /\ index' \in Index /\ index'.gen = index.gen /\ index'.conns[c] = NoEntry
         /\ index'.nextFence = index.nextFence
         /\ \A d \in Conns : d # c => index'.conns[d] = index.conns[d]
<1> DEFINE t == task[w][s]
<1>1. /\ s = Head(queue[w]) /\ queue[w] # << >> /\ section[w].at = "read" /\ saveLock = w
      /\ TaskFits(w, s) /\ section[w].copy = index
  BY AtHead DEF RemoveEntry
<1>2. t.pc \in {"discard", "remove"} /\ (index.conns[t.conn].here => index.conns[t.conn].ts = t.ts)
  BY <1>1 DEF RemoveEntry
<1>3. s # "clear" /\ t.conn \in Conns /\ t.ts <= horizon
  BY <1>1, <1>2 DEF TaskFits, Fits, Busy, Step
<1>4. index' = [index EXCEPT !.conns[t.conn] = NoEntry]
  BY <1>1 DEF RemoveEntry
<1>5. /\ index' \in Index /\ index'.gen = index.gen /\ index'.conns[t.conn] = NoEntry
      /\ index'.nextFence = index.nextFence
      /\ \A d \in Conns : d # t.conn => index'.conns[d] = index.conns[d]
  BY <1>3, <1>4, NoEntryIsEntry, OneEntry DEF IInv, Types
<1> QED
  BY <1>1, <1>2, <1>3, <1>5

LEMMA RemoveEntryKeeps ==
  ASSUME IInv, NEW w \in Windows, NEW s \in Slots, RemoveEntry(w, s)
  PROVE  IInv'
<1> DEFINE c == task[w][s].conn
<1>1. /\ s = Head(queue[w]) /\ queue[w] # << >> /\ section[w].at = "read" /\ saveLock = w
      /\ s # "clear" /\ c \in Conns
      /\ index' \in Index /\ index'.gen = index.gen /\ index'.conns[c] = NoEntry
      /\ \A d \in Conns : d # c => index'.conns[d] = index.conns[d]
  BY RemoveEntryFacts
<1>2. /\ section' = [section EXCEPT ![w].at = "removed"] /\ payload' = payload
      /\ saveLock' = saveLock /\ task' = task /\ queue' = queue /\ triggered' = triggered
      /\ now' = now /\ horizon' = horizon /\ task[w][s].pc \in {"discard", "remove"}
  BY DEF RemoveEntry, memoryVars, clockVars
<1>3. /\ section' \in SectionType /\ section'[w].at = "removed"
      /\ \A v \in Windows : v # w => section'[v] = section[v]
  <2>1. section \in SectionType
    BY DEF IInv, Types
  <2> QED
    BY <1>2, <2>1 DEF SectionType, Places
<1>4. SectionFits(w)'
  BY <1>1, <1>2, <1>3 DEF SectionFits
<1>5. Stored'
  BY <1>1, <1>2, NoEntryIsEntry DEF IInv, Stored, ClearedStaysCleared, FilesRecent
<1>6. payload' \in PayloadType
  BY <1>2 DEF IInv, Types
<1> QED
  BY <1>1, <1>2, <1>3, <1>4, <1>5, <1>6, MoveKeeps

LEMMA ResetIndexFacts ==
  ASSUME IInv, NEW w \in Windows, ResetIndex(w)
  PROVE  /\ "clear" = Head(queue[w]) /\ queue[w] # << >> /\ section[w].at = "read"
         /\ saveLock = w /\ index.gen \in Nat /\ index'.gen = index.gen + 1
         /\ index' \in Index /\ \A c \in Conns : index'.conns[c] = NoEntry
<1>1. /\ "clear" = Head(queue[w]) /\ queue[w] # << >> /\ section[w].at = "read" /\ saveLock = w
      /\ section[w].copy = index
  BY AtHead, SlotNames DEF ResetIndex
<1>2. index.gen \in Nat /\ index.gen + 1 \in Nat
  BY DEF IInv, Types, Index
<1>3. index' = EmptyIndex(index.gen + 1)
  BY <1>1 DEF ResetIndex
<1> QED
  BY <1>1, <1>2, <1>3, EmptyIndexIsIndex

LEMMA ResetIndexKeeps ==
  ASSUME IInv, NEW w \in Windows, ResetIndex(w)
  PROVE  IInv'
<1>1. /\ "clear" = Head(queue[w]) /\ queue[w] # << >> /\ section[w].at = "read"
      /\ saveLock = w /\ index' \in Index /\ \A c \in Conns : index'.conns[c] = NoEntry
  BY ResetIndexFacts
<1>2. /\ section' = [section EXCEPT ![w].at = "removed"] /\ payload' = payload
      /\ saveLock' = saveLock /\ task' = task /\ queue' = queue /\ triggered' = triggered
      /\ now' = now /\ horizon' = horizon
  BY DEF ResetIndex, memoryVars, clockVars
<1>3. /\ section' \in SectionType /\ section'[w].at = "removed"
      /\ \A v \in Windows : v # w => section'[v] = section[v]
  <2>1. section \in SectionType
    BY DEF IInv, Types
  <2> QED
    BY <1>2, <2>1 DEF SectionType, Places
<1>4. SectionFits(w)'
  BY <1>1, <1>2, <1>3 DEF SectionFits
<1>5. Stored'
  BY <1>1, NoEntryIsEntry DEF Stored, ClearedStaysCleared, FilesRecent
<1>6. payload' \in PayloadType
  BY <1>2 DEF IInv, Types
<1> QED
  BY <1>1, <1>2, <1>3, <1>4, <1>5, <1>6, MoveKeeps

(* The payload goes when the index no longer names it.                         *)
LEMMA RemovePayloadKeeps ==
  ASSUME IInv, NEW w \in Windows, NEW s \in Slots, RemovePayload(w, s)
  PROVE  IInv'
<1>1. /\ s = Head(queue[w]) /\ queue[w] # << >> /\ section[w].at = "removed"
      /\ SectionFits(w)
  BY AtHead DEF RemovePayload
<1>2. /\ LeaveSection(w) /\ Settled(w, s) /\ index' = index /\ triggered' = triggered
      /\ now' = now /\ horizon' = horizon
  BY DEF RemovePayload, memoryVars, clockVars
<1>3. TaskType' /\ Settling(w)
  BY <1>2, SettledSettles
<1>4. NoPayload \in [Files -> Stamp] /\ payload \in PayloadType /\ index \in Index
  BY NoPayloadTyped DEF IInv, Types
<1>5. /\ payload' \in PayloadType
      /\ \A c \in Conns : index.conns[c].ts # 0 => payload'[c] = payload[c]
  <2>1. CASE s = "clear"
    <3>1. payload' = [c \in Conns |-> NoPayload]
      BY <2>1 DEF RemovePayload
    <3>2. \A c \in Conns : index.conns[c].ts = 0
      BY <1>1, <2>1, NoEntryIsEntry DEF SectionFits
    <3> QED
      BY <1>4, <3>1, <3>2 DEF PayloadType
  <2>2. CASE s # "clear"
    <3>1. payload' = [payload EXCEPT ![task[w][s].conn] = NoPayload]
      BY <2>2 DEF RemovePayload
    <3>2. index.conns[task[w][s].conn].ts = 0
      BY <1>1, <2>2, NoEntryIsEntry DEF SectionFits
    <3> QED
      BY <1>4, <3>1, <3>2 DEF PayloadType
  <2> QED
    BY <2>1, <2>2
<1>6. Stored'
  BY <1>2, <1>5 DEF IInv, Stored, ClearedStaysCleared, FilesRecent
<1> QED
  BY <1>1, <1>2, <1>3, <1>4, <1>5, <1>6, LeaveKeeps

(* A crash leaves the files as they are, in whatever section it happens.       *)
LEMMA CrashKeeps ==
  ASSUME IInv, NEW w \in Windows, Crash(w)
  PROVE  IInv'
<1>1. PICK L : task \in [Windows -> [Slots -> TaskOn(L)]]
  BY DEF IInv, Types, TaskType
<1>2. /\ index' = index /\ payload' = payload /\ now' = now /\ horizon' = horizon
      /\ task' = [task EXCEPT ![w] = FreshWindow]
      /\ queue' = [queue EXCEPT ![w] = << >>]
      /\ section' = [section EXCEPT ![w] = Outside]
      /\ saveLock' = IF saveLock = w THEN "dead" ELSE saveLock
      /\ triggered' = [triggered EXCEPT ![w] = [c \in Conns |-> 0]]
  BY DEF Crash, diskVars, clockVars
<1>3. /\ FreshWindow \in [Slots -> TaskOn(L \union {None})]
      /\ \A s \in Slots : FreshWindow[s].pc = IF s = "startup" THEN "begin" ELSE "idle"
  <2> DEFINE u == [Idle EXCEPT !.pc = "begin", !.current = TRUE]
  <2>1. u = [[Idle EXCEPT !.pc = "begin"] EXCEPT !.current = TRUE]
    OBVIOUS
  <2> HIDE DEF u
  <2>2. Idle \in TaskOn(L \union {None}) /\ Idle.pc = "idle"
    BY IdleIsTask
  <2>3. u \in TaskOn(L \union {None}) /\ u.pc = "begin"
    BY <2>1, <2>2 DEF TaskOn, Step
  <2>4. FreshWindow = [s \in Slots |-> IF s = "startup" THEN u ELSE Idle]
    BY DEF FreshWindow, u
  <2> QED
    BY <2>2, <2>3, <2>4
<1>4. /\ task' \in [Windows -> [Slots -> TaskOn(L \union {None})]]
      /\ task'[w] = FreshWindow /\ \A v \in Windows : v # w => task'[v] = task[v]
  <2>1. task \in [Windows -> [Slots -> TaskOn(L \union {None})]]
    <3>1. TaskOn(L) \subseteq TaskOn(L \union {None})
      BY DEF TaskOn
    <3> QED
      BY <1>1, <3>1
  <2> QED
    BY <1>2, <1>3, <2>1
<1>5. /\ section' \in SectionType /\ section'[w].at = "out"
      /\ \A v \in Windows : v # w => section'[v] = section[v] /\ queue'[v] = queue[v]
  BY <1>2, EmptyIndexIsIndex DEF IInv, Types, Outside, Places, SectionType
<1>6. saveLock' \in Windows \union {None, "dead"} /\ saveLock' # w
  BY <1>2, NamesAssumption DEF IInv, Types
<1>7. Types'
  <2>1. queue' \in [Windows -> Seq(Slots)]
    BY <1>2, EmptySeq DEF IInv, Types
  <2>2. [c \in Conns |-> 0] \in [Conns -> Nat]
    OBVIOUS
  <2>3. triggered' \in [Windows -> [Conns -> Nat]]
    BY <1>2, <2>2 DEF IInv, Types
  <2>4. TaskType'
    BY <1>4 DEF TaskType
  <2> QED
    BY <1>2, <1>5, <1>6, <2>1, <2>3, <2>4 DEF IInv, Types
<1>8. Tasks'
  <2> SUFFICES ASSUME NEW v \in Windows, NEW s \in Slots PROVE TaskFits(v, s)'
    BY DEF Tasks
  <2>1. CASE v = w
    <3>1. task'[v][s].pc = IF s = "startup" THEN "begin" ELSE "idle"
      BY <1>3, <1>4, <2>1
    <3> QED
      BY <3>1, SlotNames DEF TaskFits, Fits, Busy
  <2>2. CASE v # w
    BY <1>2, <1>4, <2>2 DEF IInv, Tasks, TaskFits
  <2> QED
    BY <2>1, <2>2
<1>9. Sections'
  <2> SUFFICES ASSUME NEW v \in Windows PROVE SectionFits(v)'
    BY DEF Sections
  <2>1. CASE v = w
    BY <1>5, <1>6, <2>1 DEF SectionFits
  <2>2. CASE v # w
    <3>1. SectionFits(v)
      BY DEF IInv, Sections
    <3>2. section'[v] = section[v] /\ queue'[v] = queue[v] /\ task'[v] = task[v]
      BY <1>4, <1>5, <2>2
    <3>3. saveLock' = v <=> saveLock = v
      BY <1>2, <2>2, NamesAssumption
    <3> QED
      BY <1>2, <3>1, <3>2, <3>3 DEF SectionFits
  <2> QED
    BY <2>1, <2>2
<1>10. Stored'
  BY <1>2 DEF IInv, Stored, ClearedStaysCleared, FilesRecent
<1> QED
  BY <1>7, <1>8, <1>9, <1>10 DEF IInv

--------------------------------------------------------------------------------
(* Every step. *)

LEMMA NextKeeps == IInv /\ [Next]_vars => IInv'
<1> SUFFICES ASSUME IInv, [Next]_vars PROVE IInv'
  OBVIOUS
<1>1. ASSUME NEW w \in Windows, NEW p \in Prefetches, Prefetching(w, p) PROVE IInv'
  BY <1>1, StartPrefetchKeeps, DiscardExpiredKeeps, CheckpointKeeps, PrefetchSucceedsKeeps,
     PrefetchFailsKeeps DEF Prefetching
<1>2. ASSUME NEW w \in Windows, NEW r \in Relations, RefreshingRelations(w, r) PROVE IInv'
  BY <1>2, StartRelationsKeeps, RelationsSucceedKeeps, RelationsEndKeeps DEF RefreshingRelations
<1>3. ASSUME NEW w \in Windows, NEW s \in Slots, Operation(w, s) PROVE IInv'
  BY <1>3, AllocateFenceKeeps, WriteMetadataKeeps, PartKeeps, WriteManifestKeeps,
     SkipSnapshotKeeps, CommitSnapshotKeeps, RemoveEntryKeeps, RemovePayloadKeeps DEF Operation
<1>4. ASSUME NEW w \in Windows, Starting(w) PROVE IInv'
  BY <1>4, LoadManifestsKeeps, RemoveExpiredKeeps, LeaveExpiredKeeps, OthersKeep DEF Starting
<1>5. ASSUME NEW w \in Windows,
             EnterSection(w) \/ ResetIndex(w) \/ ClearCache(w) \/ ObserveGeneration(w)
      PROVE  IInv'
  BY <1>5, EnterSectionKeeps, ResetIndexKeeps, ClearCacheKeeps, ObserveGenerationKeeps
<1>6. CASE Fault
  BY <1>6, OperationFailsKeeps, CrashKeeps, OthersKeep DEF Fault
<1>7. CASE TimePasses \/ UNCHANGED vars
  BY <1>7, OthersKeep
<1>8. ASSUME NEW w \in Windows, NEW c \in Conns, Heartbeat(w, c) PROVE IInv'
  BY <1>8, OthersKeep
<1> QED
  BY <1>1, <1>2, <1>3, <1>4, <1>5, <1>6, <1>7, <1>8 DEF Next

(* Who changes the files.                                                      *)
LEMMA Writers ==
  ASSUME [Next]_vars
  PROVE  \/ UNCHANGED diskVars
         \/ \E w \in Windows : ResetIndex(w)
         \/ \E w \in Windows, s \in Slots :
              \/ AllocateFence(w, s) \/ WriteMetadata(w, s) \/ WriteManifest(w, s)
              \/ \E f \in Parts : WritePart(w, s, f) \/ PrunePart(w, s, f)
              \/ CommitSnapshot(w, s) \/ RemoveEntry(w, s) \/ RemovePayload(w, s)
<1>1. ASSUME NEW w \in Windows, NEW p \in Prefetches, Prefetching(w, p) PROVE UNCHANGED diskVars
  BY <1>1 DEF Prefetching, StartPrefetch, DiscardExpired, Checkpoint, PrefetchSucceeds,
              PrefetchFails
<1>2. ASSUME NEW w \in Windows, NEW r \in Relations, RefreshingRelations(w, r)
      PROVE  UNCHANGED diskVars
  BY <1>2 DEF RefreshingRelations, StartRelations, RelationsSucceed, RelationsEnd
<1>3. ASSUME NEW w \in Windows, NEW s \in Slots, SkipSnapshot(w, s) \/ KeepEntry(w, s)
      PROVE  UNCHANGED diskVars
  BY <1>3 DEF SkipSnapshot, KeepEntry
<1>4. ASSUME NEW w \in Windows,
             \/ Starting(w) \/ EnterSection(w) \/ ClearCache(w) \/ ObserveGeneration(w)
             \/ \E d \in Conns : Heartbeat(w, d)
      PROVE  UNCHANGED diskVars
  BY <1>4 DEF Starting, LoadManifests, RemoveExpired, LeaveExpired, StartWatcher, EnterSection,
              ClearCache, ObserveGeneration, Heartbeat
<1>5. ASSUME Fault \/ TimePasses \/ UNCHANGED vars PROVE UNCHANGED diskVars
  BY <1>5 DEF Fault, OperationFails, HeartbeatStalls, Crash, TimePasses, vars
<1> QED
  BY <1>1, <1>2, <1>3, <1>4, <1>5 DEF Next, Operation

(* What a step can make of an entry of the index.                              *)
LEMMA EntryBecomes ==
  ASSUME IInv, [Next]_vars, NEW c \in Conns
  PROVE  LET old == index.conns[c]  new == index'.conns[c] IN
         \/ new.ts = old.ts /\ new.fence = old.fence
         \/ new.ts # 0 /\ new.fence >= old.fence
         \/ new.ts = 0 /\ (old.ts <= horizon \/ index'.gen > index.gen)
<1> DEFINE Goal == LET old == index.conns[c]  new == index'.conns[c] IN
         \/ new.ts = old.ts /\ new.fence = old.fence
         \/ new.ts # 0 /\ new.fence >= old.fence
         \/ new.ts = 0 /\ (old.ts <= horizon \/ index'.gen > index.gen)
<1>1. ASSUME index' = index PROVE Goal
  BY <1>1
<1>2. ASSUME NEW w \in Windows, NEW s \in Slots, AllocateFence(w, s) PROVE Goal
  BY <1>2, AllocateFenceFacts
<1>3. ASSUME NEW w \in Windows, NEW s \in Slots, CommitSnapshot(w, s) PROVE Goal
  BY <1>3, CommitSnapshotFacts
<1>4. ASSUME NEW w \in Windows, NEW s \in Slots, RemoveEntry(w, s) PROVE Goal
  <2>1. ASSUME c = task[w][s].conn
        PROVE  index'.conns[c].ts = 0 /\ index.conns[c].ts <= horizon
    <3>1. index'.conns[c] = NoEntry /\ (index.conns[c].here => index.conns[c].ts <= horizon)
      BY <1>4, <2>1, RemoveEntryFacts
    <3>2. index.conns[c].ts # 0 => index.conns[c].here
      BY DEF IInv, Stored
    <3>3. horizon \in Nat
      BY DEF IInv, Types
    <3> QED
      BY <3>1, <3>2, <3>3, NoEntryIsEntry
  <2>2. c # task[w][s].conn => index'.conns[c] = index.conns[c]
    BY <1>4, RemoveEntryFacts
  <2> QED
    BY <2>1, <2>2
<1>5. ASSUME NEW w \in Windows, ResetIndex(w) PROVE Goal
  BY <1>5, ResetIndexFacts, NoEntryIsEntry
<1> HIDE DEF Goal
<1>6. ASSUME NEW w \in Windows, NEW s \in Slots, NEW f \in Parts,
             WritePart(w, s, f) \/ PrunePart(w, s, f)
      PROVE  index' = index
  BY <1>6 DEF WritePart, PrunePart
<1>7. ASSUME NEW w \in Windows, NEW s \in Slots,
             WriteMetadata(w, s) \/ WriteManifest(w, s) \/ RemovePayload(w, s)
      PROVE  index' = index
  BY <1>7 DEF WriteMetadata, WriteManifest, RemovePayload
<1>8. Goal
  BY <1>1, <1>2, <1>3, <1>4, <1>5, <1>6, <1>7, Writers DEF diskVars
<1> QED
  BY <1>8 DEF Goal

--------------------------------------------------------------------------------
(* No two saves are alike: a fence is given out once per generation, and the   *)
(* saves of one refresh have different times.                                  *)

Held == {"leased", "discard", "run", "checkpoint", "final"}
SameKey(t, u) == t.pc \in Held /\ t.gen = u.gen /\ t.fence = u.fence

FenceFits(w, s) ==
  LET t == task[w][s] IN
  t.pc \in Held =>
    /\ t.gen <= index.gen
    /\ t.gen = index.gen => t.fence < index.nextFence
    /\ \A v \in Windows, q \in Slots : SameKey(task[v][q], t) => v = w /\ q = s
    /\ \A c \in Conns :
         LET e == index.conns[c] IN
         e.ts # 0 /\ e.gen = t.gen /\ e.fence = t.fence =>
           s \notin Relations /\ (t.pc \in {"checkpoint", "final"} => e.ts < t.ts)

Fences == \A w \in Windows, s \in Slots : FenceFits(w, s)

Times ==
  /\ \A w \in Windows, c \in Conns : triggered[w][c] <= now
  /\ \A w \in Windows, s \in Slots : task[w][s].ts <= now
  /\ \A c \in Conns : /\ index.conns[c].ts <= now
                      /\ index.conns[c].ts # 0 => index.conns[c].fence < index.nextFence

FInv == Fences /\ Times

(* A task gets no fence, and a time of its own if it is about to save.         *)
TaskGoes(v, q) ==
  LET t == task[v][q]  u == task'[v][q] IN
  /\ u.ts <= now'
  /\ u.pc \in Held =>
       /\ t.pc \in Held /\ u.gen = t.gen /\ u.fence = t.fence
       /\ u.pc \in {"checkpoint", "final"} =>
            (u.pc = t.pc /\ u.ts = t.ts) \/ u.ts > now \/ q \in Relations

TasksGo == \A v \in Windows, q \in Slots : TaskGoes(v, q)

(* Snapshots leave the index, or stay as they are.                             *)
EntriesGo ==
  /\ index'.gen >= index.gen
  /\ index'.gen = index.gen => index'.nextFence >= index.nextFence
  /\ \A c \in Conns :
       LET old == index.conns[c]  new == index'.conns[c] IN
       new.ts # 0 => index'.gen = index.gen /\ new.ts = old.ts /\ new.gen = old.gen
                                            /\ new.fence = old.fence

LEMMA Numbers ==
  ASSUME Types
  PROVE  /\ \A w \in Windows, s \in Slots :
              task[w][s].gen \in Nat /\ task[w][s].fence \in Nat /\ task[w][s].ts \in Nat
         /\ \A c \in Conns : index.conns[c].ts \in Nat /\ index.conns[c].fence \in Nat
                             /\ index.conns[c].gen \in Nat
         /\ index.gen \in Nat /\ index.nextFence \in Nat /\ now \in Nat /\ horizon \in Nat
         /\ \A w \in Windows, c \in Conns : triggered[w][c] \in Nat
<1>1. \A w \in Windows, s \in Slots :
        task[w][s].gen \in Nat /\ task[w][s].fence \in Nat /\ task[w][s].ts \in Nat
  BY TaskNumbers DEF Types
<1>2. /\ \A c \in Conns : index.conns[c].ts \in Nat /\ index.conns[c].fence \in Nat
                          /\ index.conns[c].gen \in Nat
      /\ index.gen \in Nat /\ index.nextFence \in Nat
  BY DEF Types, Index, Entry
<1>3. now \in Nat /\ horizon \in Nat /\ \A w \in Windows, c \in Conns : triggered[w][c] \in Nat
  BY DEF Types
<1> QED
  BY <1>1, <1>2, <1>3

LEMMA FencesStay ==
  ASSUME Types, Types', FInv, TasksGo, EntriesGo, now' >= now,
         \A w \in Windows, c \in Conns : triggered'[w][c] <= now'
  PROVE  FInv'
<1>1. Fences'
  <2> SUFFICES ASSUME NEW w \in Windows, NEW s \in Slots, task'[w][s].pc \in Held
               PROVE  FenceFits(w, s)'
    BY DEF Fences, FenceFits
  <2> DEFINE t == task[w][s]
             u == task'[w][s]
  <2>1. t.pc \in Held /\ u.gen = t.gen /\ u.fence = t.fence
    BY DEF TasksGo, TaskGoes
  <2>2. FenceFits(w, s)
    BY DEF FInv, Fences
  <2>3. u.gen <= index'.gen /\ (u.gen = index'.gen => u.fence < index'.nextFence)
    <3>1. t.gen <= index.gen /\ (t.gen = index.gen => t.fence < index.nextFence)
      BY <2>1, <2>2 DEF FenceFits
    <3>2. index'.gen >= index.gen /\ (index'.gen = index.gen => index'.nextFence >= index.nextFence)
      BY DEF EntriesGo
    <3>3. /\ t.gen \in Nat /\ t.fence \in Nat /\ index.gen \in Nat /\ index.nextFence \in Nat
          /\ index'.gen \in Nat /\ index'.nextFence \in Nat
      BY Numbers DEF Types, Index
    <3> QED
      BY <2>1, <3>1, <3>2, <3>3
  <2>4. ASSUME NEW v \in Windows, NEW q \in Slots, SameKey(task'[v][q], u)
        PROVE  v = w /\ q = s
    <3>1. SameKey(task[v][q], t)
      BY <2>1, <2>4 DEF SameKey, TasksGo, TaskGoes
    <3> QED
      BY <2>1, <2>2, <3>1 DEF FenceFits
  <2>5. ASSUME NEW c \in Conns, index'.conns[c].ts # 0, index'.conns[c].gen = u.gen,
               index'.conns[c].fence = u.fence
        PROVE  s \notin Relations /\ (u.pc \in {"checkpoint", "final"} => index'.conns[c].ts < u.ts)
    <3>1. /\ index.conns[c].ts # 0 /\ index.conns[c].gen = t.gen /\ index.conns[c].fence = t.fence
          /\ index'.conns[c].ts = index.conns[c].ts
      BY <2>1, <2>5 DEF EntriesGo
    <3>2. s \notin Relations /\ (t.pc \in {"checkpoint", "final"} => index.conns[c].ts < t.ts)
      BY <2>1, <2>2, <3>1 DEF FenceFits
    <3>3. index.conns[c].ts <= now
      BY DEF FInv, Times
    <3>4. u.pc \in {"checkpoint", "final"} => (u.pc = t.pc /\ u.ts = t.ts) \/ u.ts > now
      BY <3>2 DEF TasksGo, TaskGoes
    <3>5. index.conns[c].ts \in Nat /\ u.ts \in Nat /\ now \in Nat
      <4>1. PICK L : task' \in [Windows -> [Slots -> TaskOn(L)]]
        BY DEF Types, TaskType
      <4>2. task'[w][s] \in TaskOn(L)
        BY <4>1
      <4>3. u.ts \in Nat
        BY <4>2 DEF TaskOn
      <4>4. index.conns[c].ts \in Nat /\ now \in Nat
        BY Numbers
      <4> QED
        BY <4>3, <4>4
    <3> QED
      BY <3>1, <3>2, <3>3, <3>4, <3>5
  <2> QED
    BY <2>3, <2>4, <2>5 DEF FenceFits
<1>2. Times'
  <2>1. ASSUME NEW c \in Conns
        PROVE  /\ index'.conns[c].ts <= now'
               /\ index'.conns[c].ts # 0 => index'.conns[c].fence < index'.nextFence
    <3>1. CASE index'.conns[c].ts = 0
      <4>1. now' \in Nat
        BY DEF Types
      <4>2. 0 <= now'
        BY <4>1
      <4> QED
        BY <3>1, <4>2
    <3>2. CASE index'.conns[c].ts # 0
      <4>1. /\ index'.gen = index.gen /\ index'.conns[c].ts = index.conns[c].ts
            /\ index'.conns[c].fence = index.conns[c].fence
            /\ index'.nextFence >= index.nextFence
        BY <3>2 DEF EntriesGo
      <4>2. index.conns[c].ts <= now /\ (index.conns[c].ts # 0 => index.conns[c].fence < index.nextFence)
        BY DEF FInv, Times
      <4>3. /\ index.conns[c].ts \in Nat /\ index.conns[c].fence \in Nat
            /\ index.nextFence \in Nat /\ index'.nextFence \in Nat /\ now \in Nat /\ now' \in Nat
        BY Numbers DEF Types, Index
      <4> QED
        BY <3>2, <4>1, <4>2, <4>3
    <3> QED
      BY <3>1, <3>2
  <2> QED
    BY <2>1 DEF Times, TasksGo, TaskGoes
<1> QED
  BY <1>1, <1>2 DEF FInv

LEMMA IndexStays == ASSUME Types, index' = index PROVE EntriesGo
BY Numbers DEF EntriesGo

LEMMA SameGoes ==
  ASSUME Types, FInv, now' \in Nat, now' >= now, NEW v \in Windows, NEW q \in Slots,
         SameTask(task'[v][q], task[v][q])
  PROVE  TaskGoes(v, q)
<1>1. task[v][q].ts <= now /\ task[v][q].ts \in Nat /\ now \in Nat
  BY Numbers DEF FInv, Times
<1> QED
  BY <1>1 DEF TaskGoes, SameTask

(* One task takes a step.                                                      *)
LEMMA OneGoes ==
  ASSUME Types, FInv, now' \in Nat, now' >= now, NEW w \in Windows, NEW s \in Slots, NEW u,
         task' = [task EXCEPT ![w][s] = u], task'[w][s] = u => TaskGoes(w, s)
  PROVE  TasksGo
<1>1. PICK L : task \in [Windows -> [Slots -> TaskOn(L)]]
  BY DEF Types, TaskType
<1>2. /\ task'[w][s] = u
      /\ \A v \in Windows, q \in Slots : v # w \/ q # s => task'[v][q] = task[v][q]
  BY <1>1
<1>3. ASSUME NEW v \in Windows, NEW q \in Slots PROVE TaskGoes(v, q)
  <2>1. CASE v = w /\ q = s
    BY <1>2, <2>1
  <2>2. CASE v # w \/ q # s
    BY <1>2, <2>2, SameGoes DEF SameTask
  <2> QED
    BY <2>1, <2>2
<1> QED
  BY <1>3 DEF TasksGo

LEMMA EndGoes ==
  ASSUME Types, FInv, now' = now, NEW w \in Windows, NEW s \in Slots,
         Settled(w, s) \/ Ends(w, s)
  PROVE  TasksGo
<1>1. now' \in Nat /\ now' >= now
  BY Numbers
<1>2. CASE Ends(w, s)
  <2>1. Idle.pc \notin Held /\ Idle.ts <= now'
    BY <1>1 DEF Idle, Held
  <2>2. task'[w][s] = Idle => TaskGoes(w, s)
    BY <2>1 DEF TaskGoes
  <2> QED
    BY <1>1, <1>2, <2>2, OneGoes DEF Ends
<1>3. CASE GoesOn(w, s) /\ task[w][s].pc \in {"discard", "checkpoint"}
  <2> DEFINE t == task[w][s]
             u == [t EXCEPT !.pc = "run", !.ts = 0]
  <2>1. PICK L : t \in TaskOn(L)
    BY DEF Types, TaskType
  <2>2. u.pc = "run" /\ u.gen = t.gen /\ u.fence = t.fence /\ u.ts = 0
    <3>1. u = [[t EXCEPT !.pc = "run"] EXCEPT !.ts = 0]
      OBVIOUS
    <3> QED
      BY <2>1, <3>1 DEF TaskOn
  <2>3. task' = [task EXCEPT ![w][s] = u]
    BY <1>3 DEF GoesOn
  <2> HIDE DEF u
  <2>4. task'[w][s] = u => TaskGoes(w, s)
    BY <1>1, <1>3, <2>2 DEF TaskGoes, Held
  <2> QED
    BY <1>1, <2>3, <2>4, OneGoes
<1> QED
  BY <1>2, <1>3 DEF Settled, EndsAndReleases

LEMMA SamesGo ==
  ASSUME Types, FInv, now' \in Nat, now' >= now,
         \A v \in Windows, q \in Slots : SameTask(task'[v][q], task[v][q])
  PROVE  TasksGo
BY SameGoes DEF TasksGo

(* A task gets another point and another time, and keeps the rest.             *)
LEMMA TimedTask ==
  ASSUME NEW L, NEW t \in TaskOn(L), NEW x \in Step, NEW n \in Nat
  PROVE  LET u == [t EXCEPT !.pc = x, !.ts = n] IN
         u.pc = x /\ u.ts = n /\ u.gen = t.gen /\ u.fence = t.fence
<1>1. [t EXCEPT !.pc = x, !.ts = n] = [[t EXCEPT !.pc = x] EXCEPT !.ts = n]
  OBVIOUS
<1> QED
  BY <1>1 DEF TaskOn

(* A refresh that begins has no fence yet.                                     *)
LEMMA BeginGoes ==
  ASSUME IInv, FInv, NEW w \in Windows, NEW s \in Slots, NEW c \in Conns,
         (s \in Prefetches /\ StartPrefetch(w, s, c)) \/ (s \in Relations /\ StartRelations(w, s, c))
  PROVE  TasksGo /\ now' = now
<1>1. now' = now /\ now' >= now /\ now' \in Nat
  BY DEF StartPrefetch, StartRelations, clockVars, IInv, Types
<1> DEFINE last == triggered[w][c]
           n == IF Expired(last) THEN last ELSE 0
           l == LeaseFor(w, c)
           u == [Idle EXCEPT !.pc = "fence", !.conn = c, !.lease = l, !.ts = n]
           r == [Idle EXCEPT !.pc = "fence", !.conn = c, !.lease = l, !.ts = last, !.current = TRUE]
<1>2. last <= now /\ last \in Nat /\ n <= now
  BY Numbers DEF FInv, Times, IInv
<1>3. task' = [task EXCEPT ![w][s] = u] \/ task' = [task EXCEPT ![w][s] = r]
  BY DEF StartPrefetch, StartRelations
<1> HIDE DEF last, n, l
<1>4. u.pc = "fence" /\ u.ts = n
  <2>1. u = [[[[Idle EXCEPT !.pc = "fence"] EXCEPT !.conn = c] EXCEPT !.lease = l] EXCEPT !.ts = n]
    OBVIOUS
  <2> HIDE DEF u
  <2> QED
    BY <2>1 DEF Idle
<1>5. r.pc = "fence" /\ r.ts = last
  <2>1. r = [[[[[Idle EXCEPT !.pc = "fence"] EXCEPT !.conn = c] EXCEPT !.lease = l]
                EXCEPT !.ts = last] EXCEPT !.current = TRUE]
    OBVIOUS
  <2> HIDE DEF r
  <2> QED
    BY <2>1 DEF Idle
<1> HIDE DEF u, r
<1>6. task'[w][s] = u \/ task'[w][s] = r => TaskGoes(w, s)
  BY <1>1, <1>2, <1>4, <1>5 DEF TaskGoes, Held
<1> QED
  BY <1>1, <1>3, <1>6, OneGoes DEF IInv

(* What is saved next has a time of its own.                                   *)
LEMMA SaveGoes ==
  ASSUME IInv, FInv, NEW w \in Windows, NEW s \in Slots,
         \/ s \in Prefetches /\ (Checkpoint(w, s) \/ PrefetchSucceeds(w, s))
         \/ s \in Relations /\ RelationsSucceed(w, s)
  PROVE  TasksGo /\ now' \in Nat /\ now' >= now
<1>1. PICK L : task \in [Windows -> [Slots -> TaskOn(L)]]
  BY DEF IInv, Types, TaskType
<1>2. now \in Nat /\ task[w][s].ts <= now /\ task[w][s].ts \in Nat /\ task[w][s] \in TaskOn(L)
  BY <1>1, Numbers DEF IInv, FInv, Times
<1> DEFINE t == task[w][s]
           n == now + 1
<1>3. ASSUME NEW x \in {"checkpoint", "final"}, t.pc = "run", now' = now + 1,
             task' = [task EXCEPT ![w][s] = [@ EXCEPT !.pc = x, !.ts = now + 1]]
      PROVE  TasksGo /\ now' \in Nat /\ now' >= now
  <2> DEFINE u == [t EXCEPT !.pc = x, !.ts = n]
  <2>1. n \in Nat /\ now' = n /\ n > now /\ now' >= now
    BY <1>2, <1>3
  <2>2. task' = [task EXCEPT ![w][s] = u]
    BY <1>3
  <2> HIDE DEF n
  <2>3. u.pc = x /\ u.ts = n /\ u.gen = t.gen /\ u.fence = t.fence
    BY <1>2, <2>1, TimedTask DEF Step
  <2> HIDE DEF u
  <2>4. task'[w][s] = u => TaskGoes(w, s)
    BY <1>3, <2>1, <2>3 DEF TaskGoes, Held
  <2> QED
    BY <2>1, <2>2, <2>4, OneGoes DEF IInv
<1>4. CASE s \in Relations /\ RelationsSucceed(w, s)
  <2> DEFINE u == [t EXCEPT !.pc = "final"]
  <2>1. t.pc = "run" /\ now' = now /\ task' = [task EXCEPT ![w][s] = u]
    BY <1>4 DEF RelationsSucceed, clockVars
  <2>2. u.ts = t.ts /\ u.gen = t.gen /\ u.fence = t.fence
    BY <1>2, StepsOfTask DEF Step
  <2> HIDE DEF u
  <2>3. task'[w][s] = u => TaskGoes(w, s)
    BY <1>2, <1>4, <2>1, <2>2 DEF TaskGoes, Held
  <2>4. now' \in Nat /\ now' >= now
    BY <1>2, <2>1
  <2> QED
    BY <2>1, <2>3, <2>4, OneGoes DEF IInv
<1>5. CASE s \in Prefetches /\ Checkpoint(w, s)
  <2>1. /\ t.pc = "run" /\ now' = now + 1
        /\ task' = [task EXCEPT ![w][s] = [@ EXCEPT !.pc = "checkpoint", !.ts = now + 1]]
    BY <1>5 DEF Checkpoint
  <2> QED
    BY <1>3, <2>1
<1>6. CASE s \in Prefetches /\ PrefetchSucceeds(w, s)
  <2>1. /\ t.pc = "run" /\ now' = now + 1
        /\ task' = [task EXCEPT ![w][s] = [@ EXCEPT !.pc = "final", !.ts = now + 1]]
    BY <1>6 DEF PrefetchSucceeds
  <2> QED
    BY <1>3, <2>1
<1> QED
  BY <1>4, <1>5, <1>6

(* The caches of a window are out of date, and one of its tasks takes a step.  *)
LEMMA OutdatedGo ==
  ASSUME IInv, FInv, now' = now, NEW w \in Windows, NEW s \in Slots,
         NEW x \in Step, x \in Held => task[w][s].pc \in Held /\ x \notin {"checkpoint", "final"},
         task' = [task EXCEPT ![w] = [Outdate(w, @) EXCEPT ![s].pc = x]]
  PROVE  TasksGo
<1>1. PICK L : task \in [Windows -> [Slots -> TaskOn(L)]]
  BY DEF IInv, Types, TaskType
<1> DEFINE o == Outdate(w, task[w])
           u == [o[s] EXCEPT !.pc = x]
<1>2. task' = [task EXCEPT ![w] = [o EXCEPT ![s] = u]]
  OBVIOUS
<1>3. o \in [Slots -> TaskOn(L)] /\ \A q \in Slots : SameTask(o[q], task[w][q])
  BY <1>1, OutdateSame
<1> HIDE DEF o
<1>4. u.pc = x /\ u.ts = task[w][s].ts /\ u.gen = task[w][s].gen /\ u.fence = task[w][s].fence
  BY <1>3, StepsOfTask DEF SameTask
<1> HIDE DEF u
<1>5. /\ task'[w][s] = u
      /\ \A q \in Slots : q # s => task'[w][q] = o[q]
      /\ \A v \in Windows : v # w => task'[v] = task[v]
  BY <1>1, <1>2, <1>3
<1>6. now' \in Nat /\ now' >= now
  BY Numbers DEF IInv
<1>7. TaskGoes(w, s)
  <2>1. task[w][s].ts <= now'
    BY DEF FInv, Times
  <2> QED
    BY <1>4, <1>5, <2>1 DEF TaskGoes
<1>8. \A v \in Windows, q \in Slots : v # w \/ q # s => SameTask(task'[v][q], task[v][q])
  BY <1>3, <1>5 DEF SameTask
<1>9. ASSUME NEW v \in Windows, NEW q \in Slots, v # w \/ q # s PROVE TaskGoes(v, q)
  BY <1>6, <1>8, <1>9, SameGoes DEF IInv
<1> QED
  BY <1>7, <1>9 DEF TasksGo

(* The startup of a window takes a step.                                       *)
LEMMA StartupGoes ==
  ASSUME IInv, FInv, NEW w \in Windows, LoadManifests(w) \/ RemoveExpired(w) \/ LeaveExpired(w)
  PROVE  TasksGo
<1> DEFINE s == "startup"
           t == task[w][s]
<1>1. PICK L : task \in [Windows -> [Slots -> TaskOn(L)]]
  BY DEF IInv, Types, TaskType
<1>2. /\ now' = now /\ now' \in Nat /\ now' >= now /\ s \in Slots /\ t \in TaskOn(L)
      /\ t.ts <= now
  <2>1. now' = now
    BY DEF LoadManifests, RemoveExpired, LeaveExpired, clockVars
  <2>2. s \in Slots /\ now \in Nat
    BY SlotNames DEF IInv, Types
  <2>3. t \in TaskOn(L) /\ t.ts <= now
    BY <1>1, <2>2 DEF FInv, Times
  <2> QED
    BY <2>1, <2>2, <2>3
<1>3. CASE Ends(w, s)
  BY <1>2, <1>3, EndGoes DEF IInv
<1>4. ASSUME NEW c \in Conns,
             task' = [task EXCEPT ![w][s] =
                        [@ EXCEPT !.pc = "expired", !.conn = c, !.ts = index.conns[c].ts]]
      PROVE  TasksGo
  <2> DEFINE n == index.conns[c].ts
             u == [t EXCEPT !.pc = "expired", !.conn = c, !.ts = n]
  <2>1. n <= now
    BY DEF FInv, Times
  <2>2. task' = [task EXCEPT ![w][s] = u]
    BY <1>4
  <2> HIDE DEF n
  <2>3. u.pc = "expired" /\ u.ts = n
    <3>1. u = [[[t EXCEPT !.pc = "expired"] EXCEPT !.conn = c] EXCEPT !.ts = n]
      OBVIOUS
    <3> HIDE DEF u
    <3> QED
      BY <1>2, <3>1 DEF TaskOn
  <2> HIDE DEF u
  <2>4. task'[w][s] = u => TaskGoes(w, s)
    BY <1>2, <2>1, <2>3 DEF TaskGoes, Held
  <2> QED
    BY <1>2, <2>2, <2>4, OneGoes DEF IInv
<1>5. CASE RemoveExpired(w)
  <2> DEFINE l == LeaseFor(w, t.conn)
             u == [t EXCEPT !.pc = "remove", !.lease = l]
  <2>1. task' = [task EXCEPT ![w][s] = u]
    BY <1>5 DEF RemoveExpired
  <2> HIDE DEF l
  <2>2. u.pc = "remove" /\ u.ts = t.ts
    <3>1. u = [[t EXCEPT !.pc = "remove"] EXCEPT !.lease = l]
      OBVIOUS
    <3> HIDE DEF u
    <3> QED
      BY <1>2, <3>1 DEF TaskOn
  <2> HIDE DEF u
  <2>3. task'[w][s] = u => TaskGoes(w, s)
    BY <1>2, <2>2 DEF TaskGoes, Held
  <2> QED
    BY <1>2, <2>1, <2>3, OneGoes DEF IInv
<1> QED
  BY <1>3, <1>4, <1>5 DEF LoadManifests, LeaveExpired

(* A window that begins anew holds no fence.                                   *)
LEMMA CrashGoes ==
  ASSUME IInv, FInv, NEW w \in Windows, Crash(w)
  PROVE  TasksGo /\ now' = now
<1>1. /\ task' = [task EXCEPT ![w] = FreshWindow] /\ now' = now /\ now' \in Nat /\ now' >= now
  BY Numbers DEF Crash, clockVars, IInv
<1>2. \A s \in Slots : FreshWindow[s].pc \in {"begin", "idle"} /\ FreshWindow[s].ts = 0
  <2> DEFINE u == [Idle EXCEPT !.pc = "begin", !.current = TRUE]
  <2>1. u = [[Idle EXCEPT !.pc = "begin"] EXCEPT !.current = TRUE]
    OBVIOUS
  <2> HIDE DEF u
  <2>2. u.pc = "begin" /\ u.ts = 0 /\ Idle.pc = "idle" /\ Idle.ts = 0
    BY <2>1 DEF Idle
  <2>3. FreshWindow = [s \in Slots |-> IF s = "startup" THEN u ELSE Idle]
    BY DEF FreshWindow, u
  <2> QED
    BY <2>2, <2>3
<1>3. task'[w] = FreshWindow /\ \A v \in Windows : v # w => task'[v] = task[v]
  BY <1>1 DEF IInv, Types, TaskType
<1>4. ASSUME NEW v \in Windows, NEW q \in Slots PROVE TaskGoes(v, q)
  <2>1. CASE v = w
    BY <1>1, <1>2, <1>3, <2>1 DEF TaskGoes, Held
  <2>2. CASE v # w
    BY <1>1, <1>3, <2>2, SameGoes DEF SameTask, IInv
  <2> QED
    BY <2>1, <2>2
<1> QED
  BY <1>1, <1>4 DEF TasksGo

(* A step that gives out no fence and commits no snapshot.                     *)
LEMMA TasksGoOn ==
  ASSUME IInv, FInv, [Next]_vars,
         \A w \in Windows, s \in Slots : ~ AllocateFence(w, s)
  PROVE  TasksGo /\ now' \in Nat /\ now' >= now
<1> DEFINE Goal == TasksGo /\ now' \in Nat /\ now' >= now
<1>1. now \in Nat
  BY DEF IInv, Types
<1>2. ASSUME NEW w \in Windows, NEW s \in Slots, now' = now, Settled(w, s) \/ Ends(w, s)
      PROVE  Goal
  BY <1>1, <1>2, EndGoes DEF IInv
<1>3. ASSUME now' = now, task' = task PROVE Goal
  BY <1>1, <1>3, SamesGo DEF SameTask, IInv
<1>4. ASSUME NEW w \in Windows, NEW p \in Prefetches, Prefetching(w, p) PROVE Goal
  <2>1. p \in Slots
    BY SlotNames
  <2>2. CASE \E c \in Conns : StartPrefetch(w, p, c)
    BY <1>1, <2>1, <2>2, BeginGoes
  <2>3. CASE DiscardExpired(w, p)
    <3>1. /\ now' = now /\ task[w][p].pc \in Held /\ "discard" \in Step
          /\ "discard" \notin {"checkpoint", "final"}
          /\ task' = [task EXCEPT ![w] = [Outdate(w, @) EXCEPT ![p].pc = "discard"]]
      BY <2>3 DEF DiscardExpired, clockVars, Held, Step
    <3>2. TasksGo
      BY <2>1, <3>1, OutdatedGo
    <3> QED
      BY <1>1, <3>1, <3>2
  <2>4. CASE Checkpoint(w, p) \/ PrefetchSucceeds(w, p)
    BY <2>1, <2>4, SaveGoes
  <2>5. CASE PrefetchFails(w, p)
    BY <1>2, <2>1, <2>5 DEF PrefetchFails, EndsAndReleases, clockVars
  <2> QED
    BY <1>4, <2>2, <2>3, <2>4, <2>5 DEF Prefetching
<1>5. ASSUME NEW w \in Windows, NEW r \in Relations, RefreshingRelations(w, r) PROVE Goal
  <2>1. r \in Slots
    BY SlotNames
  <2>2. CASE \E c \in Conns : StartRelations(w, r, c)
    BY <1>1, <2>1, <2>2, BeginGoes
  <2>3. CASE RelationsSucceed(w, r)
    BY <2>1, <2>3, SaveGoes
  <2>4. CASE RelationsEnd(w, r)
    BY <1>2, <2>1, <2>4 DEF RelationsEnd, EndsAndReleases, clockVars
  <2> QED
    BY <1>5, <2>2, <2>3, <2>4 DEF RefreshingRelations
<1>6. ASSUME NEW w \in Windows, NEW s \in Slots, Operation(w, s) PROVE Goal
  <2>1. CASE \/ WriteMetadata(w, s) \/ WriteManifest(w, s) \/ RemoveEntry(w, s)
             \/ \E f \in Parts : WritePart(w, s, f) \/ PrunePart(w, s, f)
    BY <1>3, <2>1 DEF WriteMetadata, WriteManifest, RemoveEntry, WritePart, PrunePart, clockVars
  <2>2. CASE \/ SkipSnapshot(w, s) \/ CommitSnapshot(w, s) \/ KeepEntry(w, s)
             \/ RemovePayload(w, s)
    BY <1>2, <2>2 DEF SkipSnapshot, CommitSnapshot, KeepEntry, RemovePayload, clockVars
  <2> QED
    BY <1>6, <2>1, <2>2 DEF Operation
<1>7. ASSUME NEW w \in Windows, LoadManifests(w) \/ RemoveExpired(w) \/ LeaveExpired(w) PROVE Goal
  <2>1. now' = now
    BY <1>7 DEF LoadManifests, RemoveExpired, LeaveExpired, clockVars
  <2>2. TasksGo
    BY <1>7, StartupGoes
  <2> QED
    BY <1>1, <2>1, <2>2
<1>8. ASSUME NEW w \in Windows, EnterSection(w) \/ ResetIndex(w) \/ StartWatcher(w) PROVE Goal
  BY <1>3, <1>8 DEF EnterSection, ResetIndex, StartWatcher, clockVars
<1>9. ASSUME NEW w \in Windows, ClearCache(w) PROVE Goal
  <2>1. /\ now' = now /\ "clear" \in Slots
        /\ task' = [task EXCEPT ![w] = [Outdate(w, @) EXCEPT !["clear"].pc = "reset"]]
    BY <1>9, SlotNames DEF ClearCache, clockVars
  <2>2. "reset" \in Step /\ "reset" \notin Held
    BY DEF Held, Step
  <2>3. TasksGo
    BY <2>1, <2>2, OutdatedGo
  <2> QED
    BY <1>1, <2>1, <2>3
<1>10. ASSUME NEW w \in Windows, ObserveGeneration(w) PROVE Goal
  <2>1. now' = now /\ task' = [task EXCEPT ![w] = Outdate(w, @)]
    BY <1>10 DEF ObserveGeneration, clockVars
  <2>2. PICK L : task \in [Windows -> [Slots -> TaskOn(L)]]
    BY DEF IInv, Types, TaskType
  <2>3. \A v \in Windows, q \in Slots : SameTask(task'[v][q], task[v][q])
    BY <2>1, <2>2, OutdateSame DEF SameTask
  <2> QED
    BY <1>1, <2>1, <2>3, SamesGo DEF IInv
<1>11. ASSUME Fault PROVE Goal
  <2>1. ASSUME NEW w \in Windows, NEW s \in Slots, OperationFails(w, s) PROVE Goal
    BY <1>2, <2>1 DEF OperationFails, EndsAndReleases, clockVars
  <2>2. ASSUME NEW c \in Conns, HeartbeatStalls(c) PROVE Goal
    BY <1>3, <2>2 DEF HeartbeatStalls, clockVars
  <2>3. ASSUME NEW w \in Windows, Crash(w) PROVE Goal
    BY <1>1, <2>3, CrashGoes
  <2> QED
    BY <1>11, <2>1, <2>2, <2>3 DEF Fault
<1>12. ASSUME TimePasses \/ UNCHANGED vars PROVE Goal
  BY <1>3, <1>12 DEF TimePasses, vars, clockVars
<1>13. ASSUME NEW w \in Windows, NEW c \in Conns, Heartbeat(w, c) PROVE Goal
  BY <1>3, <1>13 DEF Heartbeat, clockVars
<1> HIDE DEF Goal
<1>14. Goal
  BY <1>4, <1>5, <1>6, <1>7, <1>8, <1>9, <1>10, <1>11, <1>12, <1>13 DEF Next, Starting
<1> QED
  BY <1>14 DEF Goal

(* No snapshot is used that is younger than the clock.                         *)
LEMMA TriggersGo ==
  ASSUME IInv, FInv, [Next]_vars, now' \in Nat, now' >= now
  PROVE  \A v \in Windows, d \in Conns : triggered'[v][d] <= now'
<1> DEFINE Goal == \A v \in Windows, d \in Conns : triggered'[v][d] <= now'
<1>1. /\ now \in Nat /\ triggered \in [Windows -> [Conns -> Nat]] /\ 0 <= now'
      /\ \A v \in Windows, d \in Conns : triggered[v][d] \in Nat /\ triggered[v][d] <= now'
  BY DEF IInv, Types, FInv, Times
<1>2. ASSUME triggered' = triggered PROVE Goal
  BY <1>1, <1>2
<1>3. ASSUME NEW w \in Windows, NEW new, \A d \in Conns : new[d] <= now',
             triggered' = [triggered EXCEPT ![w] = new]
      PROVE  Goal
  <2>1. ASSUME NEW v \in Windows, NEW d \in Conns PROVE triggered'[v][d] <= now'
    BY <1>1, <1>3
  <2> QED
    BY <2>1
<1>4. ASSUME NEW w \in Windows, NEW c, NEW n, n <= now',
             triggered' = [triggered EXCEPT ![w][c] = n]
      PROVE  Goal
  <2> DEFINE new == [triggered[w] EXCEPT ![c] = n]
  <2>1. triggered' = [triggered EXCEPT ![w] = new]
    BY <1>4
  <2>2. \A d \in Conns : new[d] <= now'
    BY <1>1, <1>4
  <2> HIDE DEF new
  <2> QED
    BY <1>3, <2>1, <2>2
<1>5. ASSUME NEW w \in Windows, ClearMemory(w) PROVE Goal
  <2> DEFINE new == [c \in Conns |-> 0]
  <2>1. triggered' = [triggered EXCEPT ![w] = new] /\ \A d \in Conns : new[d] <= now'
    BY <1>1, <1>5 DEF ClearMemory
  <2> HIDE DEF new
  <2> QED
    BY <1>3, <2>1
<1>6. ASSUME NEW w \in Windows, NEW p \in Prefetches, Prefetching(w, p) PROVE Goal
  <2>1. CASE DiscardExpired(w, p)
    BY <1>1, <1>4, <2>1 DEF DiscardExpired
  <2>2. CASE PrefetchSucceeds(w, p)
    <3>1. now + 1 <= now' /\ triggered' = [triggered EXCEPT ![w][task[w][p].conn] = now + 1]
      BY <1>1, <2>2 DEF PrefetchSucceeds
    <3> QED
      BY <1>4, <3>1
  <2>3. CASE (\E c \in Conns : StartPrefetch(w, p, c)) \/ Checkpoint(w, p) \/ PrefetchFails(w, p)
    BY <1>2, <2>3 DEF StartPrefetch, Checkpoint, PrefetchFails, memoryVars
  <2> QED
    BY <1>6, <2>1, <2>2, <2>3 DEF Prefetching
<1>7. ASSUME NEW w \in Windows, NEW r \in Relations, RefreshingRelations(w, r) PROVE Goal
  BY <1>2, <1>7 DEF RefreshingRelations, StartRelations, RelationsSucceed, RelationsEnd, memoryVars
<1>8. ASSUME NEW w \in Windows, NEW s \in Slots, Operation(w, s) PROVE Goal
  BY <1>2, <1>8 DEF Operation, AllocateFence, WriteMetadata, WritePart, PrunePart, WriteManifest,
                    SkipSnapshot, CommitSnapshot, RemoveEntry, KeepEntry, RemovePayload, memoryVars
<1>9. ASSUME NEW w \in Windows, LoadManifests(w) PROVE Goal
  <2> DEFINE new == [c \in Conns |-> IF index.conns[c].complete /\ ~ Expired(index.conns[c].ts)
                                     THEN index.conns[c].ts ELSE triggered[w][c]]
  <2>1. triggered' = [triggered EXCEPT ![w] = new]
    BY <1>9 DEF LoadManifests
  <2>2. now' = now
    BY <1>9 DEF LoadManifests, clockVars
  <2>3. \A d \in Conns : new[d] <= now'
    BY <1>1, <2>2 DEF FInv, Times
  <2> HIDE DEF new
  <2> QED
    BY <1>3, <2>1, <2>3
<1>10. ASSUME NEW w \in Windows,
              \/ RemoveExpired(w) \/ LeaveExpired(w) \/ StartWatcher(w) \/ EnterSection(w)
              \/ ResetIndex(w) \/ \E c \in Conns : Heartbeat(w, c)
       PROVE  Goal
  BY <1>2, <1>10 DEF RemoveExpired, LeaveExpired, StartWatcher, EnterSection, ResetIndex,
                     Heartbeat, memoryVars
<1>11. ASSUME NEW w \in Windows, ClearCache(w) \/ ObserveGeneration(w) PROVE Goal
  BY <1>5, <1>11 DEF ClearCache, ObserveGeneration
<1>12. ASSUME Fault PROVE Goal
  <2>1. ASSUME NEW w \in Windows, Crash(w) PROVE Goal
    <3>1. ClearMemory(w)
      BY <2>1 DEF Crash, ClearMemory
    <3> QED
      BY <1>5, <3>1
  <2>2. ASSUME NEW w \in Windows, NEW s \in Slots, OperationFails(w, s) PROVE Goal
    BY <1>2, <2>2 DEF OperationFails
  <2>3. ASSUME NEW c \in Conns, HeartbeatStalls(c) PROVE Goal
    BY <1>2, <2>3 DEF HeartbeatStalls, memoryVars
  <2> QED
    BY <1>12, <2>1, <2>2, <2>3 DEF Fault
<1>13. ASSUME TimePasses \/ UNCHANGED vars PROVE Goal
  BY <1>2, <1>13 DEF TimePasses, vars, memoryVars
<1> HIDE DEF Goal
<1>14. Goal
  BY <1>6, <1>7, <1>8, <1>9, <1>10, <1>11, <1>12, <1>13 DEF Next, Starting
<1> QED
  BY <1>14 DEF Goal

(* A refresh gets a fence that no other refresh has and no snapshot bears.     *)
LEMMA AllocateFenceFits ==
  ASSUME IInv, IInv', FInv, NEW w \in Windows, NEW s \in Slots, AllocateFence(w, s)
  PROVE  FInv'
<1> DEFINE pc == IF s \in Prefetches /\ task[w][s].ts # 0 THEN "leased" ELSE "run"
           u == [task[w][s] EXCEPT !.gen = index.gen, !.fence = index.nextFence, !.pc = pc]
<1>1. PICK L : task \in [Windows -> [Slots -> TaskOn(L)]]
  BY DEF IInv, Types, TaskType
<1>2. /\ section[w].copy = index /\ now' = now /\ triggered' = triggered
      /\ task' = [task EXCEPT ![w][s] = u]
  <2>1. HeadIs(w, s, "read")
    BY DEF AllocateFence
  <2>2. section[w].copy = index
    BY <2>1, AtHead
  <2> QED
    BY <2>2 DEF AllocateFence, clockVars, memoryVars
<1>3. /\ u.pc \in {"leased", "run"} /\ u.gen = index.gen /\ u.fence = index.nextFence
      /\ u.ts = task[w][s].ts
  <2>1. u = [[[task[w][s] EXCEPT !.gen = index.gen] EXCEPT !.fence = index.nextFence] EXCEPT !.pc = pc]
    OBVIOUS
  <2>2. task[w][s] \in TaskOn(L)
    BY <1>1
  <2> HIDE DEF u
  <2> QED
    BY <2>1, <2>2 DEF TaskOn
<1> HIDE DEF u
<1>4. /\ task'[w][s] = u
      /\ \A v \in Windows, q \in Slots : v # w \/ q # s => task'[v][q] = task[v][q]
  BY <1>1, <1>2
<1>5. /\ index.gen \in Nat /\ index.nextFence \in Nat /\ index'.gen = index.gen
      /\ index'.nextFence = index.nextFence + 1
      /\ \A d \in Conns : /\ index'.conns[d].ts = index.conns[d].ts
                          /\ index'.conns[d].gen = index.conns[d].gen
                          /\ index'.conns[d].fence = index.conns[d].fence
  BY AllocateFenceFacts DEF IInv, Types, Index
<1>6. \A d \in Conns : index.conns[d].ts # 0 => index.conns[d].fence < index.nextFence
  BY DEF FInv, Times
<1>7. ASSUME NEW v \in Windows, NEW q \in Slots, v # w \/ q # s
      PROVE  (~ SameKey(task[v][q], u) /\ ~ SameKey(u, task[v][q])) \/ task[v][q].pc \notin Held
  <2>1. FenceFits(v, q)
    BY DEF FInv, Fences
  <2>2. task[v][q].fence \in Nat
    BY Numbers DEF IInv
  <2> QED
    BY <1>3, <1>5, <2>1, <2>2 DEF FenceFits, SameKey
<1>8. ASSUME NEW v \in Windows, NEW q \in Slots PROVE FenceFits(v, q)'
  <2>1. CASE v = w /\ q = s
    <3>1. u.gen <= index'.gen /\ u.fence < index'.nextFence
      BY <1>3, <1>5
    <3>2. ASSUME NEW x \in Windows, NEW y \in Slots, SameKey(task'[x][y], u)
          PROVE  x = w /\ y = s
      BY <1>4, <1>7, <3>2 DEF SameKey
    <3>3. ASSUME NEW c \in Conns, index'.conns[c].ts # 0, index'.conns[c].fence = u.fence
          PROVE  FALSE
      <4>1. index.conns[c].fence \in Nat
        BY Numbers DEF IInv
      <4> QED
        BY <1>3, <1>5, <1>6, <3>3, <4>1
    <3> QED
      BY <1>4, <2>1, <3>1, <3>2, <3>3 DEF FenceFits
  <2>2. CASE (v # w \/ q # s) /\ task[v][q].pc \in Held
    <3>1. FenceFits(v, q) /\ task'[v][q] = task[v][q]
      BY <1>4, <2>2 DEF FInv, Fences
    <3>2. /\ task[v][q].gen <= index'.gen
          /\ task[v][q].gen = index'.gen => task[v][q].fence < index'.nextFence
      <4>1. task[v][q].gen \in Nat /\ task[v][q].fence \in Nat
        BY Numbers DEF IInv
      <4> QED
        BY <1>5, <2>2, <3>1, <4>1 DEF FenceFits
    <3>3. ASSUME NEW x \in Windows, NEW y \in Slots, SameKey(task'[x][y], task[v][q])
          PROVE  x = v /\ y = q
      <4>1. x # w \/ y # s
        BY <1>4, <1>7, <2>2, <3>3
      <4> QED
        BY <1>4, <2>2, <3>1, <3>3, <4>1 DEF FenceFits
    <3>4. \A c \in Conns :
            LET e == index'.conns[c] IN
            e.ts # 0 /\ e.gen = task[v][q].gen /\ e.fence = task[v][q].fence =>
              q \notin Relations /\ (task[v][q].pc \in {"checkpoint", "final"} => e.ts < task[v][q].ts)
      BY <1>5, <2>2, <3>1 DEF FenceFits
    <3> QED
      BY <3>1, <3>2, <3>3, <3>4 DEF FenceFits
  <2>3. CASE (v # w \/ q # s) /\ task[v][q].pc \notin Held
    BY <1>4, <2>3 DEF FenceFits
  <2> QED
    BY <2>1, <2>2, <2>3
<1>9. Times'
  <2>1. \A v \in Windows, q \in Slots : task'[v][q].ts <= now'
    BY <1>2, <1>3, <1>4 DEF FInv, Times
  <2>2. ASSUME NEW c \in Conns
        PROVE  /\ index'.conns[c].ts <= now'
               /\ index'.conns[c].ts # 0 => index'.conns[c].fence < index'.nextFence
    <3>1. index.conns[c].fence \in Nat /\ index.conns[c].ts <= now
      BY Numbers DEF IInv, FInv, Times
    <3> QED
      BY <1>2, <1>5, <1>6, <3>1
  <2> QED
    BY <1>2, <2>1, <2>2 DEF FInv, Times
<1> QED
  BY <1>8, <1>9 DEF FInv, Fences

(* The snapshot that a refresh commits is its own and no other's.              *)
LEMMA CommitFits ==
  ASSUME IInv, IInv', FInv, NEW w \in Windows, NEW s \in Slots, CommitSnapshot(w, s), TasksGo
  PROVE  FInv'
<1> DEFINE T == task[w][s]
           c == T.conn
           E == index'.conns[c]
<1>1. /\ c \in Conns /\ T.ts # 0 /\ T.pc \in {"checkpoint", "final"} /\ T.gen = index.gen
      /\ index'.gen = index.gen /\ index'.nextFence = index.nextFence
      /\ E.ts = T.ts /\ E.gen = T.gen /\ E.fence = T.fence
      /\ \A d \in Conns : d # c => index'.conns[d] = index.conns[d]
  BY CommitSnapshotFacts
<1>2. now' = now /\ triggered' = triggered /\ Settled(w, s)
  BY DEF CommitSnapshot, clockVars, memoryVars
<1>3. FenceFits(w, s) /\ T.pc \in Held
  BY <1>1 DEF FInv, Fences, Held
<1>4. task'[w][s].pc \in Held => T.pc = "checkpoint" /\ task'[w][s].pc = "run"
  <2>1. PICK L : task \in [Windows -> [Slots -> TaskOn(L)]]
    BY DEF IInv, Types, TaskType
  <2>2. CASE Ends(w, s)
    <3>1. task'[w][s] = Idle
      BY <2>1, <2>2 DEF Ends
    <3> QED
      BY <3>1 DEF Idle, Held
  <2>3. CASE T.pc \in {"discard", "checkpoint"} /\ GoesOn(w, s)
    <3> DEFINE u == [T EXCEPT !.pc = "run", !.ts = 0]
    <3>1. task' = [task EXCEPT ![w][s] = u]
      BY <2>3 DEF GoesOn
    <3>2. u.pc = "run"
      BY <2>1, TimedTask DEF Step
    <3> HIDE DEF u
    <3>3. task'[w][s] = u
      BY <2>1, <3>1
    <3> QED
      BY <1>1, <2>3, <3>2, <3>3
  <2> QED
    BY <1>2, <2>2, <2>3 DEF Settled, EndsAndReleases
<1>5. T.pc = "checkpoint" => s \notin Relations
  BY DEF IInv, Tasks, TaskFits, Fits
<1>6. ASSUME NEW v \in Windows, NEW q \in Slots, task'[v][q].pc \in Held
      PROVE  FenceFits(v, q)'
  <2> DEFINE t == task[v][q]
             u == task'[v][q]
  <2>1. /\ t.pc \in Held /\ u.gen = t.gen /\ u.fence = t.fence /\ FenceFits(v, q)
        /\ u.pc \in {"checkpoint", "final"} =>
             (u.pc = t.pc /\ u.ts = t.ts) \/ u.ts > now \/ q \in Relations
    BY <1>6 DEF TasksGo, TaskGoes, FInv, Fences
  <2>2. u.gen <= index'.gen /\ (u.gen = index'.gen => u.fence < index'.nextFence)
    BY <1>1, <2>1 DEF FenceFits
  <2>3. ASSUME NEW x \in Windows, NEW y \in Slots, SameKey(task'[x][y], u)
        PROVE  x = v /\ y = q
    <3>1. SameKey(task[x][y], t)
      BY <2>1, <2>3 DEF SameKey, TasksGo, TaskGoes
    <3> QED
      BY <2>1, <3>1 DEF FenceFits
  <2>4. ASSUME NEW d \in Conns, index'.conns[d].ts # 0, index'.conns[d].gen = u.gen,
               index'.conns[d].fence = u.fence
        PROVE  q \notin Relations /\ (u.pc \in {"checkpoint", "final"} => index'.conns[d].ts < u.ts)
    <3>1. CASE d = c
      <4>1. SameKey(t, T)
        BY <1>1, <2>1, <2>4, <3>1 DEF SameKey
      <4>2. v = w /\ q = s
        BY <1>3, <4>1 DEF FenceFits
      <4> QED
        BY <1>4, <1>5, <1>6, <4>2
    <3>2. CASE d # c
      <4>1. index'.conns[d] = index.conns[d]
        BY <1>1, <3>2
      <4>2. q \notin Relations /\ (t.pc \in {"checkpoint", "final"} => index.conns[d].ts < t.ts)
        BY <2>1, <2>4, <4>1 DEF FenceFits
      <4>3. index.conns[d].ts <= now /\ index.conns[d].ts \in Nat /\ now \in Nat
        BY Numbers DEF FInv, Times, IInv
      <4>4. u.ts \in Nat
        <5>1. PICK L : task' \in [Windows -> [Slots -> TaskOn(L)]]
          BY DEF IInv, Types, TaskType
        <5> QED
          BY <5>1 DEF TaskOn
      <4> QED
        BY <2>1, <4>1, <4>2, <4>3, <4>4
    <3> QED
      BY <3>1, <3>2
  <2> QED
    BY <2>2, <2>3, <2>4 DEF FenceFits
<1>7. Times'
  <2>1. ASSUME NEW d \in Conns
        PROVE  /\ index'.conns[d].ts <= now'
               /\ index'.conns[d].ts # 0 => index'.conns[d].fence < index'.nextFence
    <3>1. CASE d = c
      BY <1>1, <1>2, <1>3, <3>1 DEF FenceFits, FInv, Times
    <3>2. CASE d # c
      BY <1>1, <1>2, <3>2 DEF FInv, Times
    <3> QED
      BY <3>1, <3>2
  <2> QED
    BY <1>2, <2>1 DEF FInv, Times, TasksGo, TaskGoes
<1>8. Fences'
  BY <1>6 DEF Fences, FenceFits
<1> QED
  BY <1>7, <1>8 DEF FInv

(* Entries that leave the index, or stay as they are.                          *)
LEMMA EntriesGoOn ==
  ASSUME IInv, [Next]_vars,
         \A w \in Windows, s \in Slots : ~ AllocateFence(w, s) /\ ~ CommitSnapshot(w, s)
  PROVE  EntriesGo
<1>1. ASSUME index' = index PROVE EntriesGo
  BY <1>1, IndexStays DEF IInv
<1>2. ASSUME NEW w \in Windows, NEW s \in Slots, RemoveEntry(w, s) PROVE EntriesGo
  <2> DEFINE c == task[w][s].conn
  <2>1. /\ index'.gen = index.gen /\ index'.nextFence = index.nextFence
        /\ c \in Conns /\ index'.conns[c].ts = 0
        /\ \A d \in Conns : d # c => index'.conns[d] = index.conns[d]
    BY <1>2, RemoveEntryFacts, NoEntryIsEntry
  <2>2. index.gen \in Nat /\ index.nextFence \in Nat
    BY DEF IInv, Types, Index
  <2> QED
    BY <2>1, <2>2 DEF EntriesGo
<1>3. ASSUME NEW w \in Windows, ResetIndex(w) PROVE EntriesGo
  BY <1>3, ResetIndexFacts, NoEntryIsEntry DEF EntriesGo
<1>4. ASSUME NEW w \in Windows, NEW s \in Slots,
             \/ WriteMetadata(w, s) \/ WriteManifest(w, s) \/ RemovePayload(w, s)
             \/ \E f \in Parts : WritePart(w, s, f) \/ PrunePart(w, s, f)
      PROVE  index' = index
  BY <1>4 DEF WriteMetadata, WritePart, PrunePart, WriteManifest, RemovePayload
<1> QED
  BY <1>1, <1>2, <1>3, <1>4, Writers DEF diskVars

LEMMA InitFInv == Init => FInv
<1> SUFFICES ASSUME Init PROVE FInv
  OBVIOUS
<1>1. \A w \in Windows, s \in Slots : task[w][s] = Idle
  BY DEF Init
<1>2. \A w \in Windows, c \in Conns : triggered[w][c] = 0
  BY DEF Init
<1>3. \A c \in Conns : index.conns[c].ts = 0
  BY EmptyIndexIsIndex, NoEntryIsEntry DEF Init
<1>4. now = 0 /\ Idle.ts = 0 /\ Idle.pc \notin Held
  BY DEF Init, Idle, Held
<1> QED
  BY <1>1, <1>2, <1>3, <1>4 DEF FInv, Fences, FenceFits, Times

LEMMA FencesKept == IInv /\ IInv' /\ FInv /\ [Next]_vars => FInv'
<1> SUFFICES ASSUME IInv, IInv', FInv, [Next]_vars PROVE FInv'
  OBVIOUS
<1>1. CASE \E w \in Windows, s \in Slots : AllocateFence(w, s)
  BY <1>1, AllocateFenceFits
<1>2. CASE \A w \in Windows, s \in Slots : ~ AllocateFence(w, s)
  <2>1. TasksGo /\ now' \in Nat /\ now' >= now
    BY <1>2, TasksGoOn
  <2>2. CASE \E w \in Windows, s \in Slots : CommitSnapshot(w, s)
    BY <2>1, <2>2, CommitFits
  <2>3. CASE \A w \in Windows, s \in Slots : ~ CommitSnapshot(w, s)
    <3>1. EntriesGo
      BY <1>2, <2>3, EntriesGoOn
    <3>2. \A w \in Windows, c \in Conns : triggered'[w][c] <= now'
      BY <2>1, TriggersGo
    <3> QED
      BY <2>1, <3>1, <3>2, FencesStay DEF IInv
  <2> QED
    BY <2>2, <2>3
<1> QED
  BY <1>1, <1>2

--------------------------------------------------------------------------------
(* The files of a snapshot. *)

Whole(c) ==
  LET entry == index.conns[c] IN
  entry.ts # 0 /\ payload[c]["metadata"] = StampOf(entry) =>
    \A f \in {"manifest"} \union entry.parts : payload[c][f] = StampOf(entry)

(* The metadata of a save are not those of any snapshot in the index.          *)
LEMMA OtherMetadata ==
  ASSUME IInv, FInv, NEW w \in Windows, NEW s \in Slots, NEW c \in Conns,
         task[w][s].pc \in {"checkpoint", "final"}, index.conns[c].ts # 0
  PROVE  StampOf(task[w][s]) # StampOf(index.conns[c])
<1>1. SUFFICES ASSUME StampOf(task[w][s]) = StampOf(index.conns[c]) PROVE FALSE
  OBVIOUS
<1> DEFINE t == task[w][s]
           e == index.conns[c]
<1>2. e.gen = t.gen /\ e.fence = t.fence /\ e.ts = t.ts
  BY <1>1 DEF StampOf
<1>3. FenceFits(w, s) /\ t.pc \in Held
  BY DEF FInv, Fences, Held
<1>4. e.ts < t.ts /\ e.ts \in Nat
  BY <1>2, <1>3, Numbers DEF FenceFits, IInv
<1> QED
  BY <1>2, <1>4

(* A save in the middle writes over a snapshot that is no longer whole, or the *)
(* first one of its connection.                                                *)
LEMMA WriteWhole ==
  ASSUME IInv, IInv', FInv, FilesWhole, NEW w \in Windows, NEW s \in Slots,
         \/ WriteMetadata(w, s) \/ WriteManifest(w, s)
         \/ \E f \in Parts : WritePart(w, s, f) \/ PrunePart(w, s, f)
  PROVE  FilesWhole'
<1> DEFINE t == task[w][s]
           c == t.conn
<1>1. /\ index' = index /\ task' = task /\ queue' = queue /\ s = Head(queue[w])
      /\ t.pc \in {"checkpoint", "final"}
  <2>1. CASE WriteMetadata(w, s)
    BY <2>1 DEF WriteMetadata, HeadIs
  <2>2. CASE WriteManifest(w, s) \/ \E f \in Parts : WritePart(w, s, f) \/ PrunePart(w, s, f)
    <3>1. index' = index /\ task' = task /\ queue' = queue /\ HeadIs(w, s, "parts")
      BY <2>2 DEF WriteManifest, WritePart, PrunePart
    <3> QED
      BY <3>1, AtParts
  <2> QED
    BY <2>1, <2>2
<1>2. section'[w].at \in {"parts", "payload"}
  <2>1. section \in SectionType
    BY DEF IInv, Types
  <2>2. CASE WriteMetadata(w, s)
    <3>1. PICK parts \in SUBSET Parts :
            section' = [section EXCEPT ![w] =
                          [@ EXCEPT !.at = "parts", !.parts = parts, !.todo = Parts]]
      BY <2>2 DEF WriteMetadata
    <3> DEFINE u == [section[w] EXCEPT !.at = "parts", !.parts = parts, !.todo = Parts]
    <3>2. u.at = "parts"
      <4>1. u = [[[section[w] EXCEPT !.at = "parts"] EXCEPT !.parts = parts] EXCEPT !.todo = Parts]
        OBVIOUS
      <4> HIDE DEF u
      <4> QED
        BY <2>1, <4>1 DEF SectionType
    <3>3. section' = [section EXCEPT ![w] = u]
      BY <3>1
    <3> HIDE DEF u
    <3> QED
      BY <2>1, <3>2, <3>3 DEF SectionType
  <2>3. CASE WriteManifest(w, s)
    BY <2>1, <2>3 DEF WriteManifest, SectionType
  <2>4. ASSUME NEW f \in Parts, WritePart(w, s, f) \/ PrunePart(w, s, f)
        PROVE  section'[w].at \in {"parts", "payload"}
    <3>1. HeadIs(w, s, "parts") /\ section' = [section EXCEPT ![w].todo = @ \ {f}]
      BY <2>4 DEF WritePart, PrunePart
    <3> QED
      BY <3>1, PartSectionMoves DEF HeadIs
  <2> QED
    BY <2>2, <2>3, <2>4
<1>3. payload'[c]["metadata"] = StampOf(t)
  <2>1. SectionFits(w)'
    BY DEF IInv, Sections
  <2> QED
    BY <1>1, <1>2, <2>1 DEF SectionFits
<1>4. \A d \in Conns : d # c => payload'[d] = payload[d]
  <2>1. payload' = payload \/ \E g \in Files, x \in Stamp : WriteFile(w, s, g, x)
    BY StampTyped, PartNames
       DEF WriteMetadata, WriteManifest, WritePart, PrunePart, IInv, Types
  <2>2. payload \in [Conns -> [Files -> Stamp]]
    BY DEF IInv, Types, PayloadType
  <2> QED
    BY <2>1, <2>2 DEF WriteFile
<1>5. ASSUME NEW d \in Conns PROVE Whole(d)'
  <2>1. CASE d = c
    BY <1>1, <1>3, <2>1, OtherMetadata DEF Whole
  <2>2. CASE d # c
    BY <1>1, <1>4, <2>2 DEF Whole, FilesWhole
  <2> QED
    BY <2>1, <2>2
<1> QED
  BY <1>5 DEF Whole, FilesWhole

(* The payload goes where the index names none.                                *)
LEMMA RemovePayloadFacts ==
  ASSUME IInv, NEW w \in Windows, NEW s \in Slots, RemovePayload(w, s)
  PROVE  index' = index /\ \A c \in Conns : index.conns[c].ts # 0 => payload'[c] = payload[c]
<1>1. SectionFits(w) /\ s = Head(queue[w]) /\ section[w].at = "removed" /\ index' = index
  BY AtHead DEF RemovePayload
<1>2. payload \in PayloadType
  BY DEF IInv, Types
<1>3. CASE s = "clear"
  BY <1>1, <1>3, NoEntryIsEntry DEF SectionFits
<1>4. CASE s # "clear"
  <2>1. payload' = [payload EXCEPT ![task[w][s].conn] = NoPayload]
    BY <1>4 DEF RemovePayload
  <2>2. index.conns[task[w][s].conn].ts = 0
    BY <1>1, <1>4, NoEntryIsEntry DEF SectionFits
  <2> QED
    BY <1>1, <1>2, <2>1, <2>2 DEF PayloadType
<1> QED
  BY <1>3, <1>4

LEMMA WholeKept == IInv /\ IInv' /\ FInv /\ FilesWhole /\ [Next]_vars => FilesWhole'
<1> SUFFICES ASSUME IInv, IInv', FInv, FilesWhole, [Next]_vars PROVE FilesWhole'
  OBVIOUS
<1>1. CASE UNCHANGED diskVars
  BY <1>1 DEF FilesWhole, diskVars
<1>2. ASSUME NEW w \in Windows, NEW s \in Slots, AllocateFence(w, s) PROVE FilesWhole'
  <2>1. payload' = payload
    BY <1>2 DEF AllocateFence
  <2>2. \A c \in Conns : /\ index'.conns[c].ts = index.conns[c].ts
                         /\ index'.conns[c].parts = index.conns[c].parts
                         /\ StampOf(index'.conns[c]) = StampOf(index.conns[c])
    BY <1>2, AllocateFenceFacts DEF StampOf
  <2> QED
    BY <2>1, <2>2 DEF FilesWhole
<1>3. ASSUME NEW w \in Windows, NEW s \in Slots,
             \/ WriteMetadata(w, s) \/ WriteManifest(w, s)
             \/ \E f \in Parts : WritePart(w, s, f) \/ PrunePart(w, s, f)
      PROVE  FilesWhole'
  BY <1>3, WriteWhole
<1>4. ASSUME NEW w \in Windows, NEW s \in Slots, CommitSnapshot(w, s) PROVE FilesWhole'
  <2> DEFINE c == task[w][s].conn
             e == index'.conns[c]
  <2>1. /\ \A f \in {"metadata", "manifest"} \union e.parts : payload[c][f] = StampOf(e)
        /\ \A d \in Conns : d # c => index'.conns[d] = index.conns[d]
    BY <1>4, CommitSnapshotFacts
  <2>2. payload' = payload
    BY <1>4 DEF CommitSnapshot
  <2>3. ASSUME NEW d \in Conns PROVE Whole(d)'
    <3>1. CASE d = c
      BY <2>1, <2>2, <3>1 DEF Whole
    <3>2. CASE d # c
      BY <2>1, <2>2, <3>2 DEF Whole, FilesWhole
    <3> QED
      BY <3>1, <3>2
  <2> QED
    BY <2>3 DEF Whole, FilesWhole
<1>5. ASSUME NEW w \in Windows, NEW s \in Slots, RemoveEntry(w, s) PROVE FilesWhole'
  <2>1. payload' = payload
    BY <1>5 DEF RemoveEntry
  <2> DEFINE c == task[w][s].conn
  <2>2. /\ c \in Conns /\ index'.conns[c].ts = 0
        /\ \A d \in Conns : d # c => index'.conns[d] = index.conns[d]
    BY <1>5, RemoveEntryFacts, NoEntryIsEntry
  <2> HIDE DEF c
  <2> QED
    BY <2>1, <2>2 DEF FilesWhole
<1>6. ASSUME NEW w \in Windows, ResetIndex(w) PROVE FilesWhole'
  <2>1. \A c \in Conns : index'.conns[c].ts = 0
    BY <1>6, ResetIndexFacts, NoEntryIsEntry
  <2> QED
    BY <2>1 DEF FilesWhole
<1>7. ASSUME NEW w \in Windows, NEW s \in Slots, RemovePayload(w, s) PROVE FilesWhole'
  BY <1>7, RemovePayloadFacts DEF FilesWhole
<1> QED
  BY <1>1, <1>2, <1>3, <1>4, <1>5, <1>6, <1>7, Writers

--------------------------------------------------------------------------------

(* The types, the exclusion of the sections and what they are about to commit, *)
(* in every reachable state.                                                   *)
THEOREM Invariance == Spec => []IInv
<1> QED
  BY InitIInv, NextKeeps, PTL DEF Spec

(* What was cleared in one window is not saved again by a refresh that another *)
(* window had under way (resetGeneration, saveConnectionV2).                   *)
THEOREM Cleared == Spec => []ClearedStaysCleared
<1>1. IInv => ClearedStaysCleared
  BY DEF IInv, Stored
<1> QED
  BY <1>1, Invariance, PTL

(* A refresh never replaces the snapshot of a refresh with a later fence, even *)
(* if its lease was taken over while its host was suspended.                   *)
THEOREM Fenced == Spec => NoOlderSnapshot
<1> DEFINE A == \A c \in Conns :
                  LET old == index.conns[c]  new == index'.conns[c] IN
                  new # old /\ new.ts # 0 /\ old.ts # 0 => new.fence >= old.fence
<1>1. IInv /\ [Next]_vars => A
  <2> SUFFICES ASSUME IInv, [Next]_vars, NEW c \in Conns, index'.conns[c].ts # 0
               PROVE  index'.conns[c].fence >= index.conns[c].fence
    OBVIOUS
  <2>1. index.conns[c].fence \in Nat
    BY DEF IInv, Types, Index, Entry
  <2> QED
    BY <2>1, EntryBecomes
<1> HIDE DEF A
<1>2. IInv /\ [Next]_vars => [A]_vars
  BY <1>1
<1>3. Spec => [][A]_vars
  BY <1>2, Invariance, PTL DEF Spec
<1> QED
  BY <1>3 DEF NoOlderSnapshot, A

(* A snapshot that has not expired leaves the index only by a clear or for     *)
(* another one (removeConnection's expectedPrefetchCompletedAt).               *)
THEOREM FreshSurvive == Spec => FreshSnapshotsSurvive
<1> DEFINE A == \A c \in Conns :
                  index.conns[c].ts > horizon /\ index'.conns[c].ts = 0 => index'.gen > index.gen
<1>1. IInv /\ [Next]_vars => A
  <2> SUFFICES ASSUME IInv, [Next]_vars, NEW c \in Conns, index.conns[c].ts > horizon,
                      index'.conns[c].ts = 0
               PROVE  index'.gen > index.gen
    OBVIOUS
  <2>1. index.conns[c].ts \in Nat /\ horizon \in Nat
    BY DEF IInv, Types, Index, Entry
  <2> QED
    BY <2>1, EntryBecomes
<1> HIDE DEF A
<1>2. IInv /\ [Next]_vars => [A]_vars
  BY <1>1
<1>3. Spec => [][A]_vars
  BY <1>2, Invariance, PTL DEF Spec
<1> QED
  BY <1>3 DEF FreshSnapshotsSurvive, A

(* A reader finds, in the middle of a save and wherever a host has died between *)
(* two files, no file older than the snapshot that the index names, and every   *)
(* file of it unless a later save has begun to write over it (saveConnectionV2, *)
(* removeConnection, resetGeneration).                                          *)
THEOREM Vouched == Spec => []MetadataVouch
<1>1. Init => IInv /\ FInv /\ FilesWhole
  <2>1. Init => FilesWhole
    BY EmptyIndexIsIndex, NoEntryIsEntry DEF Init, FilesWhole
  <2> QED
    BY <2>1, InitIInv, InitFInv
<1>2. (IInv /\ FInv /\ FilesWhole) /\ [Next]_vars => (IInv /\ FInv /\ FilesWhole)'
  BY NextKeeps, FencesKept, WholeKept
<1>3. IInv /\ FInv /\ FilesWhole => MetadataVouch
  BY DEF IInv, Stored, MetadataVouch
<1> QED
  BY <1>1, <1>2, <1>3, PTL DEF Spec
================================================================================
