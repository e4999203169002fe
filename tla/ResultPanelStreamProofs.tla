------------------------ MODULE ResultPanelStreamProofs ------------------------
(***************************************************************************)
(* Theorems about the result panel: types, that a page that waits for a    *)
(* hydrate gets one, and, if no tab is closed, that rows stay in order.    *)
(*                                                                         *)
(* The handlers of the host are compositions of a few functions on its     *)
(* record.  Each of these has a lemma that says of its result g how it     *)
(* follows from h: its type, and what becomes of hydrates under way and of *)
(* a request kept for later (Follows).  The second part says so again of   *)
(* the rows: what the messages posted carry and what those under way may   *)
(* still rely on (Orderly), and what a handler of the page makes of them   *)
(* (ViewFits).                                                             *)
(***************************************************************************)
EXTENDS ResultPanelStream, SequenceTheorems, TLAPS

----------------------------------------------------------------------------
(* Types.                                                                  *)

Row == Nat \X (Nat \ {0})
HostResults == [id : Nat, rows : Seq(Row), cancelled : BOOLEAN]
ShownResults == [id : Nat, rows : Seq(Row), total : Nat, complete : BOOLEAN,
                 cancelled : BOOLEAN]

Hydrates == [type : {"hydrate"}, source : Sources, results : Seq(HostResults),
             executing : BOOLEAN, completed : BOOLEAN, version : Nat, sync : Nat]
Switches == [type : {"setActiveSource"}, source : Sources,
             executing : BOOLEAN, completed : BOOLEAN]
Appends == [type : {"appendRows"}, id : Nat, index : Nat, seq : Nat, from : Nat,
            total : Nat, rows : Seq(Row), first : BOOLEAN]
Completions == [type : {"streamingComplete"}, id : Nat, index : Nat, total : Nat,
                last : Nat]
ToView == Hydrates \union Switches \union Appends \union Completions
            \union [type : {"cancelExecution", "log"}]

ToHost == [type : {"ready", "requestResultSync"}]
            \union [type : {"cancelQuery"}, counts : Seq(Nat)]
            \union [type : {"closeResult"}, index : Nat]

HostState ==
  [active : Sources, focus : Sources, ready : BOOLEAN, executing : BOOLEAN,
   cancelled : BOOLEAN, completed : BOOLEAN, results : Seq(HostResults),
   log : BOOLEAN, version : Nat, sent : Nat, stale : BOOLEAN, globalDirty : BOOLEAN,
   lastSentActive : Sources \union {NoSource}, finalizeVersion : Nat \union {None},
   seq : Nat \union {None}, tracked : Nat \union {None}, pendingSync : BOOLEAN,
   syncVersion : Nat, html : BOOLEAN, out : Seq(ToView)]

Cursors == [id : Nat, next : Nat \union {-1}, row : Nat \union {-1},
            lost : BOOLEAN, terminal : BOOLEAN]
Contents == [log : BOOLEAN, results : Seq(ShownResults)]
Keys == [source : Sources, bytes : Seq(Nat), executing : BOOLEAN,
         completed : BOOLEAN, version : Nat, sync : Nat]
ViewState ==
  [active : Sources \union {NoSource}, log : BOOLEAN, results : Seq(ShownResults),
   cache : [Sources -> Contents], cursor : Cursors, pending : BOOLEAN,
   executing : BOOLEAN, completed : BOOLEAN, key : Keys \union {NoKey},
   out : Seq(ToHost)]

Executors == [phase : {"idle", "between", "started", "streaming"}, id : Nat, rows : Nat]
Chunks == {c \in [id : Nat, first : BOOLEAN, last : BOOLEAN, columns : BOOLEAN,
                  from : Nat, total : Nat] : c.from <= c.total}

----------------------------------------------------------------------------
(* What a handler of the host does to syncs.                               *)

IsSync(m) == m.type = "hydrate" /\ m.source = "S"

(* A hydrate of S later than n is posted, or the page starts anew.         *)
Renewed(h, n) == h.html \/ \E i \in DOMAIN h.out : IsSync(h.out[i]) /\ n < h.out[i].sync

Sound(h) ==
  /\ h \in HostState
  /\ h.sent <= h.version
  /\ \A i \in DOMAIN h.out : IsSync(h.out[i]) => h.out[i].sync <= h.syncVersion

Follows(h, g) ==
  /\ Sound(g)
  /\ g.focus = h.focus
  /\ h.syncVersion <= g.syncVersion
  /\ \A n \in Nat : Renewed(h, n) => Renewed(g, n)
  /\ h.pendingSync => g.pendingSync \/ Renewed(g, h.syncVersion)

(* Assignments to the other fields.                                        *)
LEMMA OthersFollow ==
  ASSUME NEW h, NEW g \in HostState, Sound(h), g.sent <= g.version, g.focus = h.focus,
         g.syncVersion = h.syncVersion, g.html = h.html, g.out = h.out,
         g.pendingSync = h.pendingSync
  PROVE  Follows(h, g)
BY SMT DEF Follows, Sound, Renewed, HostState

LEMMA FollowsItself ==
  ASSUME NEW h, Sound(h)
  PROVE  Follows(h, h)
BY DEF Follows, Sound, HostState

LEMMA FollowsOn ==
  ASSUME NEW h, NEW g, NEW k, Sound(h), Follows(h, g), Follows(g, k)
  PROVE  Follows(h, k)
<1>1. h.syncVersion \in Nat /\ g.syncVersion \in Nat /\ k.syncVersion \in Nat
  BY DEF Follows, Sound, HostState
<1>2. h.syncVersion <= k.syncVersion
  BY <1>1 DEF Follows
<1>3. h.pendingSync => k.pendingSync \/ Renewed(k, h.syncVersion)
  <2>1. Renewed(k, g.syncVersion) => Renewed(k, h.syncVersion)
    <3>1. \A i \in DOMAIN k.out : IsSync(k.out[i]) => k.out[i].sync \in Nat
      BY SMTT(30) DEF Follows, Sound, HostState, IsSync, ToView, Hydrates, Switches, Appends,
             Completions
    <3>2. h.syncVersion <= g.syncVersion
      BY DEF Follows
    <3> QED BY <1>1, <3>1, <3>2, SMT DEF Renewed
  <2> QED BY <1>1, <2>1 DEF Follows
<1> QED BY <1>1, <1>2, <1>3 DEF Follows

LEMMA PostFollows ==
  ASSUME NEW h, NEW m \in ToView, Sound(h), IsSync(m) => m.sync <= h.syncVersion
  PROVE  /\ Follows(h, Post(h, m))
         /\ Post(h, m) = [h EXCEPT !.out = Append(h.out, m)]
         /\ IsSync(m) => \A n : n < m.sync => Renewed(Post(h, m), n)
<1> DEFINE q == Append(h.out, m)
           g == [h EXCEPT !.out = q]
<1>1. h \in HostState /\ h.out \in Seq(ToView)
  BY DEF Sound, HostState
<1>2. /\ q \in Seq(ToView) /\ DOMAIN q = 1 .. Len(h.out) + 1 /\ Len(h.out) \in Nat
      /\ DOMAIN h.out = 1 .. Len(h.out)
      /\ q[Len(h.out) + 1] = m /\ \A i \in DOMAIN h.out : q[i] = h.out[i]
  BY <1>1
<1> HIDE DEF q
<1>3. g \in HostState /\ g.out = q /\ g.syncVersion = h.syncVersion /\ g.focus = h.focus
      /\ g.html = h.html /\ g.pendingSync = h.pendingSync /\ g.sent = h.sent
      /\ g.version = h.version
  BY Zenon, <1>1, <1>2 DEF HostState
<1>4. Post(h, m) = g
  BY DEF Post, q
<1> HIDE DEF g
<1>5. Sound(g)
  BY <1>2, <1>3 DEF Sound
<1>6. \A n : Renewed(h, n) => Renewed(g, n)
  BY <1>2, <1>3 DEF Renewed
<1>7. IsSync(m) => \A n : n < m.sync => Renewed(g, n)
  BY <1>2, <1>3 DEF Renewed
<1>8. h.syncVersion \in Nat
  BY <1>1 DEF HostState
<1>9. Follows(h, g)
  BY <1>3, <1>5, <1>6, <1>8 DEF Follows
<1>10. g = [h EXCEPT !.out = Append(h.out, m)]
  BY DEF g, q
<1> QED BY Zenon, <1>4, <1>7, <1>9, <1>10
LEMMA ActiveSourceMsgType ==
  ASSUME NEW h \in HostState
  PROVE  ActiveSourceMsg(h) \in ToView /\ ~IsSync(ActiveSourceMsg(h))
BY DEF HostState, ActiveSourceMsg, ToView, Switches, IsSync

LEMMA HydrateMsgType ==
  ASSUME NEW h \in HostState
  PROVE  /\ HydrateMsg(h) \in ToView /\ HydrateMsg(h).sync = h.syncVersion
         /\ IsSync(HydrateMsg(h)) <=> h.active = "S"
<1> DEFINE results == IF h.active = "S" THEN h.results ELSE << >>
           version == IF h.active = "S" THEN h.version ELSE 0
<1>1. results \in Seq(HostResults) /\ version \in Nat
  BY DEF HostState
<1>2. HydrateMsg(h) = [type |-> "hydrate", source |-> h.active, results |-> results,
                       executing |-> h.executing, completed |-> h.completed,
                       version |-> version, sync |-> h.syncVersion]
  BY DEF HydrateMsg
<1> HIDE DEF results, version
<1> QED BY <1>1, <1>2 DEF HostState, ToView, Hydrates, IsSync

LEMMA BumpFollows ==
  ASSUME NEW h, Sound(h)
  PROVE  Follows(h, Bump(h)) /\ Bump(h).active = h.active /\ Bump(h).results = h.results
         /\ Bump(h).pendingSync = h.pendingSync
<1> DEFINE dirty == h.globalDirty \/ h.active = "S"
           version == h.version + 1
           g == [h EXCEPT !.version = version, !.globalDirty = dirty]
<1>0. dirty \in BOOLEAN /\ version \in Nat /\ h.sent <= version
  BY DEF Sound, HostState
<1> HIDE DEF dirty, version
<1>1. /\ g \in HostState /\ g.sent <= g.version /\ g.focus = h.focus
      /\ g.syncVersion = h.syncVersion /\ g.html = h.html /\ g.out = h.out
      /\ g.pendingSync = h.pendingSync /\ g.active = h.active /\ g.results = h.results
  BY Zenon, <1>0 DEF Sound, HostState
<1>2. Bump(h) = g
  BY DEF Bump, dirty, version
<1> HIDE DEF g
<1> QED BY <1>1, <1>2, OthersFollow

LEMMA LightweightFollows ==
  ASSUME NEW h, Sound(h)
  PROVE  /\ Follows(h, Lightweight(h)) /\ Lightweight(h).active = h.active
         /\ Lightweight(h).pendingSync = h.pendingSync
         /\ Lightweight(h).results = h.results
         /\ Lightweight(h).syncVersion = h.syncVersion
<1>1. h \in HostState
  BY DEF Sound
<1>2. CASE h.ready
  <2>1. Lightweight(h) = Post(h, ActiveSourceMsg(h))
    BY <1>2 DEF Lightweight
  <2>2. Follows(h, Post(h, ActiveSourceMsg(h)))
        /\ Post(h, ActiveSourceMsg(h)) = [h EXCEPT !.out = Append(h.out, ActiveSourceMsg(h))]
    BY <1>1, PostFollows, ActiveSourceMsgType
  <2> QED BY <1>1, <2>1, <2>2 DEF HostState
<1>3. CASE ~h.ready
  BY <1>3, FollowsItself DEF Lightweight
<1> QED BY <1>2, <1>3

LEMMA MarkSentFollows ==
  ASSUME NEW h, Sound(h)
  PROVE  /\ Follows(h, MarkSent(h)) /\ MarkSent(h).active = h.active
         /\ MarkSent(h).pendingSync = h.pendingSync /\ MarkSent(h).results = h.results
         /\ MarkSent(h).syncVersion = h.syncVersion
<1> DEFINE sent == IF h.active = "S" THEN h.version ELSE h.sent
           g == [h EXCEPT !.sent = sent, !.globalDirty = FALSE]
<1>1. sent \in Nat /\ sent <= h.version /\ h \in HostState
  BY DEF Sound, HostState
<1> HIDE DEF sent
<1>2. /\ g \in HostState /\ g.sent <= g.version /\ g.focus = h.focus
      /\ g.syncVersion = h.syncVersion /\ g.html = h.html /\ g.out = h.out
      /\ g.pendingSync = h.pendingSync /\ g.active = h.active /\ g.results = h.results
  BY Zenon, <1>1 DEF HostState
<1>3. MarkSent(h) = g
  BY DEF MarkSent, sent
<1> HIDE DEF g
<1> QED BY <1>2, <1>3, OthersFollow

(* A hydrate of S that is posted is later than every sync before it.       *)
LEMMA HydrateFollows ==
  ASSUME NEW h, Sound(h)
  PROVE  /\ Follows(h, Hydrate(h)) /\ Hydrate(h).active = h.active
         /\ Hydrate(h).pendingSync = h.pendingSync /\ Hydrate(h).results = h.results
         /\ Hydrate(h).syncVersion = h.syncVersion
         /\ h.active = "S" => \A n : n < h.syncVersion => Renewed(Hydrate(h), n)
<1> DEFINE log == h.log \/ h.active = "S"
           logged == [h EXCEPT !.log = log]
           Alike(g) == /\ g.focus = h.focus /\ g.active = h.active
                       /\ g.pendingSync = h.pendingSync /\ g.results = h.results
                       /\ g.syncVersion = h.syncVersion /\ g.out = h.out
           M == MarkSent(logged)
           stale == M.stale /\ h.active # "S"
           final == IF h.active = "S" /\ h.completed THEN h.version ELSE M.finalizeVersion
           marked == [M EXCEPT !.stale = stale, !.finalizeVersion = final,
                               !.lastSentActive = h.active]
<1>1. h \in HostState
  BY DEF Sound
<1>2. logged \in HostState /\ logged.sent <= logged.version /\ Alike(logged)
      /\ logged.html = h.html
  BY ZenonT(30) DEF Sound, HostState
<1> HIDE DEF logged
<1>3. Follows(h, logged) /\ Sound(logged)
  BY <1>2, OthersFollow DEF Follows
<1>4. CASE ~h.ready
  <2> DEFINE g == [logged EXCEPT !.html = TRUE]
  <2>1. Hydrate(h) = g
    BY <1>4 DEF Hydrate, logged
  <2>2. g \in HostState /\ Alike(g) /\ g.html /\ g.sent = logged.sent
        /\ g.version = logged.version
    BY Zenon, <1>2 DEF HostState
  <2> HIDE DEF g
  <2>3. Sound(g)
    BY <1>2, <1>3, <2>2 DEF Sound
  <2>4. \A n : Renewed(g, n)
    BY <2>2 DEF Renewed
  <2>5. Follows(h, g)
    BY <1>1, <2>2, <2>3, <2>4 DEF Follows, HostState
  <2> QED BY <2>1, <2>2, <2>4, <2>5
<1>5. CASE h.ready
  <2>1. /\ Follows(logged, M) /\ M.active = h.active /\ M.pendingSync = h.pendingSync
        /\ M.results = h.results /\ M.syncVersion = h.syncVersion
    BY <1>2, <1>3, MarkSentFollows
  <2>2. Sound(M) /\ M \in HostState
    BY <2>1 DEF Follows, Sound
  <2> HIDE DEF M
  <2>3. stale \in BOOLEAN /\ final \in Nat \union {None}
    BY <1>1, <2>2 DEF HostState
  <2> HIDE DEF stale, final
  <2>4. /\ marked \in HostState /\ marked.sent = M.sent /\ marked.version = M.version
        /\ marked.focus = M.focus /\ marked.syncVersion = M.syncVersion
        /\ marked.html = M.html /\ marked.out = M.out
        /\ marked.pendingSync = M.pendingSync /\ marked.active = M.active
        /\ marked.results = M.results
    BY ZenonT(30), <1>1, <1>2, <2>2, <2>3 DEF HostState
  <2>5. Hydrate(h) = Post(marked, HydrateMsg(h))
    BY <1>1, <1>5 DEF Hydrate, marked, logged, M, stale, final
  <2> HIDE DEF marked
  <2>6. Follows(M, marked) /\ Sound(marked)
    BY <2>2, <2>4, OthersFollow DEF Follows, Sound
  <2>7. /\ Follows(marked, Post(marked, HydrateMsg(h)))
        /\ Post(marked, HydrateMsg(h)) = [marked EXCEPT !.out = Append(marked.out, HydrateMsg(h))]
        /\ IsSync(HydrateMsg(h)) =>
             \A n : n < HydrateMsg(h).sync => Renewed(Post(marked, HydrateMsg(h)), n)
    <3>1. HydrateMsg(h).sync <= marked.syncVersion
      BY <1>1, <2>1, <2>4, HydrateMsgType DEF HostState
    <3> QED BY <1>1, <2>6, <3>1, HydrateMsgType, PostFollows
  <2>8. Follows(h, Post(marked, HydrateMsg(h)))
    BY <1>3, <2>1, <2>2, <2>6, <2>7, FollowsOn
  <2>9. h.active = "S" => \A n : n < h.syncVersion => Renewed(Hydrate(h), n)
    BY Zenon, <1>1, <2>5, <2>7, HydrateMsgType
  <2>10. /\ Hydrate(h).active = marked.active /\ Hydrate(h).results = marked.results
         /\ Hydrate(h).pendingSync = marked.pendingSync
         /\ Hydrate(h).syncVersion = marked.syncVersion
    BY <2>4, <2>5, <2>7 DEF HostState
  <2> QED BY <2>1, <2>4, <2>5, <2>8, <2>9, <2>10
<1> QED BY <1>4, <1>5

(* Nothing but messages, versions and marks changes.                       *)
Reports(h, g) ==
  /\ Follows(h, g)
  /\ g.active = h.active /\ g.pendingSync = h.pendingSync
  /\ g.results = h.results /\ g.syncVersion = h.syncVersion

LEMMA ReportsOn ==
  ASSUME NEW h, NEW g, NEW k, Sound(h), Reports(h, g), Reports(g, k)
  PROVE  Reports(h, k)
BY FollowsOn DEF Reports

LEMMA UpdateViewReports ==
  ASSUME NEW h, Sound(h)
  PROVE  /\ Reports(h, UpdateView(h))
         /\ h.active = "S" /\ h.stale =>
              \A n : n < h.syncVersion => Renewed(UpdateView(h), n)
<1>1. h \in HostState
  BY DEF Sound
<1>2. Reports(h, h) /\ Reports(h, Hydrate(h))
  BY FollowsItself, HydrateFollows DEF Reports
<1>3. ASSUME NEW g, Reports(h, g) PROVE Reports(h, Lightweight(g))
  <2>1. Sound(g)
    BY <1>3 DEF Reports, Follows
  <2>2. Reports(g, Lightweight(g))
    BY <2>1, LightweightFollows DEF Reports
  <2> QED BY <1>3, <2>2, ReportsOn
<1>4. Reports(h, MarkSent(h))
  BY MarkSentFollows DEF Reports
<1>5. Reports(h, [MarkSent(h) EXCEPT !.finalizeVersion = h.version])
  <2> DEFINE M == MarkSent(h)
             g == [M EXCEPT !.finalizeVersion = h.version]
  <2>1. Sound(M) /\ M \in HostState /\ h.version \in Nat
    BY <1>1, <1>4 DEF Reports, Follows, Sound, HostState
  <2> HIDE DEF M
  <2>2. /\ g \in HostState /\ g.sent = M.sent /\ g.version = M.version /\ g.focus = M.focus
        /\ g.syncVersion = M.syncVersion /\ g.html = M.html /\ g.out = M.out
        /\ g.pendingSync = M.pendingSync /\ g.active = M.active /\ g.results = M.results
    BY Zenon, <2>1 DEF HostState
  <2> HIDE DEF g
  <2>3. Reports(M, g)
    BY <2>1, <2>2, OthersFollow DEF Reports, Sound
  <2>4. Reports(h, M)
    BY <1>4 DEF M
  <2>5. Reports(h, g)
    BY <2>3, <2>4, ReportsOn
  <2> QED BY <2>5 DEF g, M
<1>6. Reports(h, UpdateView(h))
  BY <1>2, <1>3, <1>4, <1>5 DEF UpdateView
<1>7. h.stale => UpdateView(h) = Hydrate(h)
  BY DEF UpdateView, AlreadyStreamed, StillStreaming, Stable
<1> QED BY <1>6, <1>7, HydrateFollows

(* Beginning a sync, when it is asked for or when S is shown again.        *)
Synced(h) == [h EXCEPT !.pendingSync = FALSE, !.syncVersion = h.syncVersion + 1,
                       !.stale = TRUE]

LEMMA SyncedIsSound ==
  ASSUME NEW h, Sound(h)
  PROVE  /\ Sound(Synced(h)) /\ Synced(h).focus = h.focus /\ Synced(h).active = h.active
         /\ Synced(h).stale /\ ~Synced(h).pendingSync /\ Synced(h).results = h.results
         /\ Synced(h).syncVersion = h.syncVersion + 1
         /\ Synced(h).html = h.html /\ Synced(h).out = h.out
<1> DEFINE v == h.syncVersion + 1
           g1 == [h EXCEPT !.pendingSync = FALSE]
           g2 == [g1 EXCEPT !.syncVersion = v]
           Alike(k) == /\ k \in HostState /\ k.sent = h.sent /\ k.version = h.version
                       /\ k.focus = h.focus /\ k.active = h.active /\ k.html = h.html
                       /\ k.out = h.out /\ k.results = h.results
                       /\ k.pendingSync = FALSE
           g == Synced(h)
<1>1. h \in HostState /\ v \in Nat /\ h.syncVersion <= v
  BY DEF Sound, HostState
<1>2. g = [g2 EXCEPT !.stale = TRUE]
  BY DEF Synced
<1> HIDE DEF v
<1>3. Alike(g1)
  BY Zenon, <1>1 DEF HostState
<1> HIDE DEF g1
<1>4. Alike(g2) /\ g2.syncVersion = v
  BY <1>1, <1>3 DEF HostState
<1> HIDE DEF g2, g
<1>5. Alike(g) /\ g.syncVersion = v /\ g.stale = TRUE
  BY Zenon, <1>2, <1>4 DEF HostState
<1>6. \A i \in DOMAIN h.out : IsSync(h.out[i]) => h.out[i].sync \in Nat
  BY <1>1 DEF HostState, IsSync, ToView, Hydrates, Switches, Appends, Completions
<1>7. h.syncVersion \in Nat
  BY <1>1 DEF HostState
<1>8. Sound(g)
  BY <1>1, <1>5, <1>6, <1>7 DEF Sound
<1> QED BY <1>5, <1>8 DEF g, v

LEMMA ResumeFollows ==
  ASSUME NEW h, NEW s \in Sources, Sound(h), s = "S" /\ h.pendingSync
  PROVE  /\ Sound(Resume(h, s)) /\ Resume(h, s).focus = h.focus
         /\ Resume(h, s).active = h.active /\ Resume(h, s).stale
         /\ ~Resume(h, s).pendingSync /\ Resume(h, s).results = h.results
         /\ Resume(h, s).syncVersion = h.syncVersion + 1
         /\ Resume(h, s).html = h.html /\ Resume(h, s).out = h.out
<1>1. Resume(h, s) = Synced(h)
  BY DEF Resume, Synced
<1> QED BY <1>1, SyncedIsSound

(* A request that was kept is answered when its source is shown again.     *)
LEMMA SetActiveSourceFollows ==
  ASSUME NEW h, NEW s \in Sources, Sound(h), ~(h.pendingSync /\ s = "S" /\ h.active = "S")
  PROVE  /\ Follows(h, SetActiveSource(h, s))
         /\ SetActiveSource(h, s).active = s
         /\ SetActiveSource(h, s).pendingSync = (h.pendingSync /\ s # "S")
         /\ SetActiveSource(h, s).results = h.results
<1>1. h \in HostState
  BY DEF Sound
<1>2. CASE h.active = s
  <2>1. SetActiveSource(h, s) = h
    BY <1>2 DEF SetActiveSource
  <2>2. h.pendingSync = (h.pendingSync /\ s # "S")
    BY <1>1, <1>2 DEF HostState
  <2> QED BY <1>2, <2>1, <2>2, FollowsItself
<1>3. CASE h.active # s
  <2> DEFINE moved == [h EXCEPT !.active = s]
             updated == UpdateView(moved)
             shown == Resume(updated, s)
             told == Post(shown, ActiveSourceMsg(shown))
  <2>1. SetActiveSource(h, s) = UpdateView(told)
    BY <1>3 DEF SetActiveSource
  <2>2. /\ moved \in HostState /\ moved.sent = h.sent /\ moved.version = h.version
        /\ moved.focus = h.focus /\ moved.syncVersion = h.syncVersion
        /\ moved.html = h.html /\ moved.out = h.out
        /\ moved.pendingSync = h.pendingSync /\ moved.active = s
        /\ moved.results = h.results
    BY Zenon, <1>1 DEF HostState
  <2> HIDE DEF moved
  <2>3. Follows(h, moved) /\ Sound(moved)
    BY <2>2, OthersFollow DEF Follows, Sound
  <2>4. Reports(moved, updated)
    BY <2>3, UpdateViewReports
  <2> HIDE DEF updated
  <2>5. Follows(h, updated) /\ updated.active = s /\ updated.results = h.results
        /\ updated.pendingSync = h.pendingSync /\ updated.syncVersion = h.syncVersion
        /\ Sound(updated) /\ updated \in HostState
    BY <2>2, <2>3, <2>4, FollowsOn DEF Reports, Follows, Sound
  <2>6. ASSUME NEW g, Sound(g)
        PROVE  Reports(g, Post(g, ActiveSourceMsg(g)))
               /\ Post(g, ActiveSourceMsg(g)).stale = g.stale
    <3>1. g \in HostState
      BY <2>6 DEF Sound
    <3>2. Follows(g, Post(g, ActiveSourceMsg(g)))
          /\ Post(g, ActiveSourceMsg(g)) = [g EXCEPT !.out = Append(g.out, ActiveSourceMsg(g))]
      BY <2>6, <3>1, PostFollows, ActiveSourceMsgType
    <3> QED BY <3>1, <3>2 DEF HostState, Reports
  <2>7. CASE ~(s = "S" /\ updated.pendingSync)
    <3>1. shown = updated
      BY <2>7 DEF Resume
    <3>2. Reports(updated, told) /\ Sound(told)
      BY <2>5, <2>6, <3>1 DEF Reports, Follows
    <3>3. Reports(told, UpdateView(told))
      BY <3>2, UpdateViewReports
    <3>4. Reports(updated, UpdateView(told))
      BY <2>5, <3>2, <3>3, ReportsOn
    <3>5. Follows(h, UpdateView(told))
      BY <2>5, <3>4, FollowsOn DEF Reports
    <3>6. UpdateView(told).active = s /\ UpdateView(told).pendingSync = h.pendingSync
          /\ UpdateView(told).results = h.results
      BY <2>5, <3>4 DEF Reports
    <3>7. h.pendingSync = (h.pendingSync /\ s # "S")
      BY <1>1, <2>5, <2>7 DEF HostState
    <3> QED BY <2>1, <3>5, <3>6, <3>7
  <2>8. CASE s = "S" /\ updated.pendingSync
    <3>1. /\ Sound(shown) /\ shown.focus = h.focus /\ shown.active = s /\ shown.stale
          /\ ~shown.pendingSync /\ shown.results = h.results
          /\ shown.syncVersion = h.syncVersion + 1
          /\ shown.html = updated.html /\ shown.out = updated.out
      BY <2>5, <2>8, ResumeFollows DEF Follows
    <3> HIDE DEF shown
    <3>2. Reports(shown, told) /\ Sound(told) /\ told.stale
      BY <2>6, <3>1 DEF Reports, Follows
    <3> HIDE DEF told
    <3> DEFINE g == UpdateView(told)
    <3>3. Reports(told, g) /\ \A n : n < told.syncVersion => Renewed(g, n)
      BY <2>8, <3>1, <3>2, UpdateViewReports DEF Reports
    <3> HIDE DEF g
    <3>4. Reports(shown, g)
      BY <3>1, <3>2, <3>3, ReportsOn
    <3>5. told.syncVersion = h.syncVersion + 1 /\ h.syncVersion \in Nat
      BY <1>1, <3>1, <3>2 DEF Reports, HostState
    <3>6. Renewed(g, h.syncVersion)
      BY <3>3, <3>5
    <3>7. \A n \in Nat : Renewed(h, n) => Renewed(g, n)
      <4>1. \A n : Renewed(updated, n) <=> Renewed(shown, n)
        BY <3>1 DEF Renewed
      <4> QED BY <2>5, <3>4, <4>1 DEF Follows, Reports
    <3>8. Follows(h, g)
      BY <3>1, <3>4, <3>5, <3>6, <3>7 DEF Follows, Reports
    <3>9. g.active = s /\ ~g.pendingSync /\ g.results = h.results /\ g \in HostState
      BY <3>1, <3>4 DEF Reports, Follows, Sound
    <3>10. g.pendingSync = (h.pendingSync /\ s # "S")
      BY <2>8, <3>9 DEF HostState
    <3> QED BY <2>1, <3>8, <3>9, <3>10 DEF g
  <2> QED BY <2>7, <2>8
<1> QED BY <1>2, <1>3
----------------------------------------------------------------------------
(* The host shows the editor that has the focus, and keeps no request for  *)
(* a source it shows.                                                      *)

Apt(h) == Sound(h) /\ (h.pendingSync => h.focus # "S")
Steady(h) == Apt(h) /\ h.active = h.focus

Keeps(h, g) ==
  Follows(h, g) /\ g.active = h.active /\ g.pendingSync = h.pendingSync

LEMMA OthersKeep ==
  ASSUME NEW h, NEW g \in HostState, Sound(h), g.sent <= g.version, g.focus = h.focus,
         g.syncVersion = h.syncVersion, g.html = h.html, g.out = h.out,
         g.pendingSync = h.pendingSync, g.active = h.active
  PROVE  Keeps(h, g)
BY OthersFollow DEF Keeps

LEMMA KeepsOn ==
  ASSUME NEW h, NEW g, NEW k, Sound(h), Keeps(h, g), Keeps(g, k)
  PROVE  Keeps(h, k)
BY FollowsOn DEF Keeps

LEMMA KeepsSteady ==
  ASSUME NEW h, NEW g, Steady(h), Keeps(h, g)
  PROVE  Steady(g)
BY DEF Steady, Apt, Keeps, Follows

LEMMA KeepsApt ==
  ASSUME NEW h, NEW g, Apt(h), Keeps(h, g)
  PROVE  Apt(g)
BY DEF Apt, Keeps, Follows

LEMMA BumpKeeps ==
  ASSUME NEW h, Sound(h)
  PROVE  Keeps(h, Bump(h))
BY BumpFollows DEF Keeps

LEMMA PostKeeps ==
  ASSUME NEW h, NEW m \in ToView, Sound(h), ~IsSync(m)
  PROVE  Keeps(h, Post(h, m))
<1>1. Follows(h, Post(h, m)) /\ Post(h, m) = [h EXCEPT !.out = Append(h.out, m)]
  BY PostFollows
<1> QED BY <1>1 DEF Keeps, Sound, HostState

LEMMA TellsActive ==
  ASSUME NEW h, Sound(h)
  PROVE  Keeps(h, Post(h, ActiveSourceMsg(h)))
<1>1. h \in HostState
  BY DEF Sound
<1> QED BY <1>1, PostKeeps, ActiveSourceMsgType

LEMMA FollowEditorSettles ==
  ASSUME NEW h, Apt(h)
  PROVE  Follows(h, FollowEditor(h)) /\ Steady(FollowEditor(h))
<1> DEFINE g == FollowEditor(h)
<1>1. h.focus \in Sources /\ Sound(h)
  BY DEF Apt, Sound, HostState
<1>2. ~(h.pendingSync /\ h.focus = "S" /\ h.active = "S")
  BY DEF Apt
<1>3. Follows(h, g) /\ g.active = h.focus /\ g.pendingSync = (h.pendingSync /\ h.focus # "S")
  BY <1>1, <1>2, SetActiveSourceFollows DEF FollowEditor
<1>4. g.focus = h.focus /\ Sound(g)
  BY <1>3 DEF Follows
<1> HIDE DEF g
<1>5. Steady(g)
  BY Zenon, <1>3, <1>4 DEF Steady, Apt
<1> QED BY <1>3, <1>5 DEF g

LEMMA UpdateWebviewSettles ==
  ASSUME NEW h, Apt(h)
  PROVE  Follows(h, UpdateWebview(h)) /\ Steady(UpdateWebview(h))
<1> DEFINE g == FollowEditor(h)
           k == UpdateView(g)
<1>1. Follows(h, g) /\ Steady(g) /\ Sound(g) /\ Sound(h)
  BY FollowEditorSettles DEF Steady, Apt
<1> HIDE DEF g
<1>2. Keeps(g, k)
  BY <1>1, UpdateViewReports DEF Reports, Keeps
<1> HIDE DEF k
<1>3. Follows(h, k)
  BY <1>1, <1>2, FollowsOn DEF Keeps
<1>4. Steady(k)
  BY <1>1, <1>2, KeepsSteady
<1> QED BY <1>3, <1>4 DEF UpdateWebview, g, k

LEMMA UpdateWebviewRenews ==
  ASSUME NEW h, Steady(h), h.active = "S", h.stale
  PROVE  \A n : n < h.syncVersion => Renewed(UpdateWebview(h), n)
<1>1. FollowEditor(h) = h
  BY DEF Steady, Apt, FollowEditor, SetActiveSource
<1> QED BY <1>1, UpdateViewReports DEF Steady, Apt, UpdateWebview

Settles(h, g) == Follows(h, g) /\ Steady(g)

LEMMA KeepsThenSettles ==
  ASSUME NEW h, NEW g, Apt(h), Keeps(h, g)
  PROVE  Settles(h, UpdateWebview(g))
<1>1. Apt(g)
  BY KeepsApt
<1>2. Follows(g, UpdateWebview(g)) /\ Steady(UpdateWebview(g))
  BY <1>1, UpdateWebviewSettles
<1> QED BY <1>2, FollowsOn DEF Settles, Keeps, Apt

LEMMA SettlesThenKeeps ==
  ASSUME NEW h, NEW g, NEW k, Apt(h), Settles(h, g), Keeps(g, k)
  PROVE  Settles(h, k)
BY KeepsSteady, FollowsOn DEF Settles, Keeps, Apt

LEMMA SettlesOn ==
  ASSUME NEW h, NEW g, NEW k, Apt(h), Settles(h, g), Settles(g, k)
  PROVE  Settles(h, k)
BY FollowsOn DEF Settles, Apt

----------------------------------------------------------------------------
(* The operations of the host.                                             *)

LEMMA NoResults == << >> \in Seq(HostResults)
  OBVIOUS

LEMMA StartExecutionSettles ==
  ASSUME NEW h, Steady(h), NEW keep \in BOOLEAN
  PROVE  Settles(h, StartExecution(h, keep))
<1> DEFINE results == IF keep THEN h.results ELSE << >>
           cleared == ~keep /\ h.results # << >>
           emptied == [h EXCEPT !.executing = TRUE, !.cancelled = FALSE]
           logged == [emptied EXCEPT !.completed = FALSE, !.results = results]
           active == [logged EXCEPT !.log = TRUE, !.active = "S"]
           started == UpdateWebview(Bump(active))
           stale == started.stale \/ cleared \/ ~h.log
           forgot == [started EXCEPT !.tracked = None, !.seq = None, !.stale = stale]
           Alike(k) == /\ k \in HostState /\ k.sent = h.sent /\ k.version = h.version
                       /\ k.focus = h.focus /\ k.html = h.html /\ k.out = h.out
                       /\ k.syncVersion = h.syncVersion /\ k.pendingSync = h.pendingSync
<1>1. h \in HostState /\ Apt(h) /\ Sound(h) /\ h.sent <= h.version
  BY DEF Steady, Apt, Sound
<1>2. results \in Seq(HostResults)
  BY <1>1, NoResults DEF HostState
<1>3. StartExecution(h, keep) = UpdateWebview(forgot)
  BY DEF StartExecution
<1> HIDE DEF results, cleared
<1>4. Alike(emptied)
  BY Zenon, <1>1 DEF HostState
<1> HIDE DEF emptied
<1>5. Alike(logged)
  BY Zenon, <1>2, <1>4 DEF HostState
<1> HIDE DEF logged
<1>6. Alike(active)
  BY Zenon, <1>5 DEF HostState, Sources
<1> HIDE DEF active
<1>7. Follows(h, active) /\ Apt(active) /\ Sound(active)
  BY <1>1, <1>6, OthersFollow DEF Follows, Apt
<1>8. Settles(active, started)
  BY <1>7, BumpKeeps, KeepsThenSettles
<1> HIDE DEF started
<1>9. Settles(h, started) /\ Apt(started) /\ started \in HostState
      /\ started.sent <= started.version
  BY <1>1, <1>7, <1>8, FollowsOn DEF Settles, Steady, Apt, Sound
<1>10. stale \in BOOLEAN
  BY <1>9 DEF HostState
<1> HIDE DEF stale
<1>11. /\ forgot \in HostState /\ forgot.sent = started.sent /\ forgot.version = started.version
       /\ forgot.focus = started.focus /\ forgot.html = started.html /\ forgot.out = started.out
       /\ forgot.syncVersion = started.syncVersion /\ forgot.pendingSync = started.pendingSync
       /\ forgot.active = started.active
  BY Zenon, <1>9, <1>10 DEF HostState
<1> HIDE DEF forgot
<1>12. Keeps(started, forgot)
  BY <1>9, <1>11, OthersKeep DEF Apt
<1>13. Settles(started, UpdateWebview(forgot))
  BY <1>9, <1>12, KeepsThenSettles
<1> QED BY <1>1, <1>3, <1>9, <1>13, SettlesOn
LEMMA SteadyFollowsEditor ==
  ASSUME NEW h, Steady(h)
  PROVE  FollowEditor(h) = h
BY DEF Steady, Apt, FollowEditor, SetActiveSource

LEMMA LogExecutionStartSettles ==
  ASSUME NEW h, Steady(h)
  PROVE  Settles(h, LogExecutionStart(h))
<1> DEFINE forgot == [h EXCEPT !.completed = FALSE, !.tracked = None, !.seq = None]
           told == IF h.completed /\ h.active = "S"
                   THEN Post(forgot, ActiveSourceMsg(forgot)) ELSE forgot
           logged == Bump(told)
           log == [type |-> "log"]
<1>1. h \in HostState /\ Apt(h) /\ Sound(h) /\ FollowEditor(h) = h
  BY SteadyFollowsEditor DEF Steady, Apt, Sound
<1>2. /\ forgot \in HostState /\ forgot.sent = h.sent /\ forgot.version = h.version
      /\ forgot.focus = h.focus /\ forgot.html = h.html /\ forgot.out = h.out
      /\ forgot.syncVersion = h.syncVersion /\ forgot.pendingSync = h.pendingSync
      /\ forgot.active = h.active
  BY Zenon, <1>1 DEF HostState
<1>3. LogExecutionStart(h) = IF h.active = "S" THEN Post(logged, log) ELSE logged
  BY <1>1 DEF LogExecutionStart
<1> HIDE DEF forgot
<1>4. Keeps(h, forgot) /\ Sound(forgot)
  BY <1>1, <1>2, OthersKeep DEF Sound, Keeps, Follows
<1>5. Keeps(h, told) /\ Sound(told)
  BY <1>1, <1>4, TellsActive, KeepsOn DEF Keeps, Follows
<1> HIDE DEF told
<1>6. Keeps(h, logged) /\ Sound(logged)
  BY <1>1, <1>5, BumpKeeps, KeepsOn DEF Keeps, Follows
<1> HIDE DEF logged
<1>7. log \in ToView /\ ~IsSync(log)
  BY DEF ToView, IsSync
<1> HIDE DEF log
<1>8. Keeps(logged, Post(logged, log))
  BY <1>6, <1>7, PostKeeps
<1>9. Keeps(h, LogExecutionStart(h))
  BY <1>1, <1>3, <1>6, <1>8, KeepsOn
<1> QED BY <1>9, KeepsSteady DEF Settles, Keeps

LEMMA RowsOfType ==
  ASSUME NEW c \in Chunks
  PROVE  RowsOf(c) \in Seq(Row)
<1> DEFINE n == c.total - c.from
<1>1. n \in Nat /\ c.from \in Nat /\ c.id \in Nat
  BY DEF Chunks
<1>2. \A i \in 1 .. n : << c.id, c.from + i >> \in Row
  BY <1>1 DEF Row
<1>3. [i \in 1 .. n |-> << c.id, c.from + i >>] \in Seq(Row)
  <2> DEFINE f == [i \in 1 .. n |-> << c.id, c.from + i >>]
  <2>1. f \in [1 .. n -> Row]
    BY <1>2
  <2> HIDE DEF f
  <2>2. f \in Seq(Row)
    BY <1>1, <2>1
  <2> QED BY <2>2 DEF f
<1> QED BY <1>3 DEF RowsOf

LEMMA StoreChunkKeeps ==
  ASSUME NEW h, Sound(h), NEW c \in Chunks
  PROVE  /\ Keeps(h, StoreChunk(h, c))
         /\ Streams(h, c) => StoreChunk(h, c).results # << >>
<1>1. h \in HostState /\ h.results \in Seq(HostResults)
  BY DEF Sound, HostState
<1>2. CASE Streams(h, c) /\ c.first
  <2> DEFINE r == [id |-> c.id, rows |-> RowsOf(c), cancelled |-> FALSE]
             results == Append(h.results, r)
             g == [h EXCEPT !.results = results]
  <2>1. r \in HostResults
    BY RowsOfType DEF HostResults, Chunks
  <2> HIDE DEF r
  <2>2. results \in Seq(HostResults) /\ results # << >>
    BY <1>1, <2>1
  <2> HIDE DEF results
  <2>3. /\ g \in HostState /\ g.sent = h.sent /\ g.version = h.version
        /\ g.focus = h.focus /\ g.html = h.html /\ g.out = h.out
        /\ g.syncVersion = h.syncVersion /\ g.pendingSync = h.pendingSync
        /\ g.active = h.active /\ g.results = results
    BY <1>1, <2>2 DEF HostState
  <2>4. StoreChunk(h, c) = Bump(g)
    BY <1>2 DEF StoreChunk, results, r
  <2> HIDE DEF g
  <2>5. Keeps(h, g) /\ Sound(g)
    BY <2>3, OthersKeep DEF Sound, Keeps, Follows
  <2>6. Keeps(h, Bump(g)) /\ Bump(g).results = results
    BY <2>3, <2>5, BumpKeeps, BumpFollows, KeepsOn
  <2> QED BY <2>2, <2>4, <2>6
<1>3. CASE Streams(h, c) /\ ~c.first
  <2> DEFINE n == Len(h.results)
             r == [h.results[n] EXCEPT !.rows = h.results[n].rows \o RowsOf(c)]
             results == [h.results EXCEPT ![n] = r]
             g == [h EXCEPT !.results = results]
  <2>1. n \in DOMAIN h.results /\ h.results[n] \in HostResults
    <3>1. h.results # << >>
      BY <1>3 DEF Streams
    <3> QED BY <1>1, <3>1
  <2>2. h.results[n].rows \o RowsOf(c) \in Seq(Row)
    BY <2>1, RowsOfType DEF HostResults
  <2>3. r \in HostResults
    BY Zenon, <2>1, <2>2 DEF HostResults
  <2> HIDE DEF r
  <2>4. results \in Seq(HostResults) /\ Len(results) = Len(h.results)
    BY <1>1, <2>1, <2>3
  <2>5. results # << >>
    BY <1>1, <2>1, <2>4
  <2> HIDE DEF results
  <2>6. /\ g \in HostState /\ g.sent = h.sent /\ g.version = h.version
        /\ g.focus = h.focus /\ g.html = h.html /\ g.out = h.out
        /\ g.syncVersion = h.syncVersion /\ g.pendingSync = h.pendingSync
        /\ g.active = h.active /\ g.results = results
    BY Zenon, <1>1, <2>4 DEF HostState
  <2>7. StoreChunk(h, c) = g
    BY <1>3 DEF StoreChunk, results, r
  <2> HIDE DEF g
  <2>8. Keeps(h, g)
    BY <2>6, OthersKeep DEF Sound
  <2> QED BY <2>5, <2>6, <2>7, <2>8
<1>4. CASE ~Streams(h, c)
  <2>1. StoreChunk(h, c) \in {h, Bump(h)}
    BY <1>4 DEF StoreChunk
  <2>2. Keeps(h, h)
    BY FollowsItself DEF Keeps
  <2> QED BY <1>4, <2>1, <2>2, BumpKeeps
<1> QED BY <1>2, <1>3, <1>4

LEMMA BeginResultKeeps ==
  ASSUME NEW h, Sound(h), NEW c
  PROVE  Keeps(h, BeginResult(h, c))
<1> DEFINE reset == [h EXCEPT !.completed = FALSE, !.tracked = 0, !.seq = 0]
<1>1. h \in HostState
  BY DEF Sound
<1>2. /\ reset \in HostState /\ reset.sent = h.sent /\ reset.version = h.version
      /\ reset.focus = h.focus /\ reset.html = h.html /\ reset.out = h.out
      /\ reset.syncVersion = h.syncVersion /\ reset.pendingSync = h.pendingSync
      /\ reset.active = h.active
  BY Zenon, <1>1 DEF HostState
<1>3. BeginResult(h, c) \in {h, reset, Post(reset, ActiveSourceMsg(reset))}
  BY DEF BeginResult
<1> HIDE DEF reset
<1>4. Keeps(h, reset) /\ Sound(reset)
  BY <1>2, OthersKeep DEF Sound, Keeps, Follows
<1>5. Keeps(h, Post(reset, ActiveSourceMsg(reset)))
  BY <1>4, TellsActive, KeepsOn
<1>6. Keeps(h, h)
  BY FollowsItself DEF Keeps
<1> QED BY <1>3, <1>4, <1>5, <1>6

LEMMA SendChunkKeeps ==
  ASSUME NEW h, Sound(h), NEW c \in Chunks, h.results # << >>
  PROVE  Keeps(h, SendChunk(h, c))
<1> DEFINE told == IF c.first THEN Post(h, ActiveSourceMsg(h)) ELSE h
           seq == IF h.seq = None THEN 0 ELSE h.seq
           m == AppendRowsMsg(h, c)
           sent == Post(told, m)
           next == m.seq + 1
           g == [sent EXCEPT !.seq = next]
<1>1. h \in HostState /\ h.results \in Seq(HostResults)
  BY DEF Sound, HostState
<1>2. Last(h.results) \in HostResults /\ Len(h.results) \in Nat
  BY <1>1 DEF Last
<1>3. seq \in Nat /\ RowsOf(c) \in Seq(Row)
  BY <1>1, RowsOfType DEF HostState
<1>4. m = [type |-> "appendRows", id |-> Last(h.results).id, index |-> Len(h.results),
           seq |-> seq, from |-> c.from, total |-> c.total, rows |-> RowsOf(c),
           first |-> c.first]
  BY DEF AppendRowsMsg
<1> HIDE DEF m, seq
<1>5. m \in Appends /\ ~IsSync(m) /\ m.seq \in Nat
  BY <1>2, <1>3, <1>4 DEF Appends, HostResults, Chunks, IsSync
<1>6. m \in ToView
  BY <1>5 DEF ToView
<1>7. Keeps(h, told) /\ Sound(told)
  BY TellsActive, FollowsItself DEF Keeps, Follows
<1>8. SendChunk(h, c) = g
  BY DEF SendChunk, m
<1> HIDE DEF told
<1>9. Keeps(h, sent) /\ Sound(sent)
  BY <1>5, <1>6, <1>7, PostKeeps, KeepsOn DEF Keeps, Follows
<1> HIDE DEF sent
<1>10. next \in Nat \union {None}
  BY <1>5
<1> HIDE DEF next
<1>11. /\ g \in HostState /\ g.sent = sent.sent /\ g.version = sent.version
       /\ g.focus = sent.focus /\ g.html = sent.html /\ g.out = sent.out
       /\ g.syncVersion = sent.syncVersion /\ g.pendingSync = sent.pendingSync
       /\ g.active = sent.active
  BY Zenon, <1>9, <1>10 DEF Sound, HostState
<1> HIDE DEF g
<1>12. Keeps(sent, g)
  BY <1>9, <1>11, OthersKeep DEF Sound
<1> QED BY <1>8, <1>9, <1>12, KeepsOn
LEMMA EndResultKeeps ==
  ASSUME NEW h, Sound(h), NEW c \in Chunks
  PROVE  Keeps(h, EndResult(h, c))
<1> DEFINE places == IndexOf(h, h.tracked)
           completed == h.completed \/ places # {}
           done == [h EXCEPT !.completed = completed]
           index == CHOOSE i \in places : TRUE
           last == IF h.seq > 0 THEN h.seq - 1 ELSE 0
           m == [type |-> "streamingComplete", id |-> h.tracked, index |-> index,
                 total |-> c.total, last |-> last]
           told == IF places # {} /\ h.active = "S" THEN Post(done, m) ELSE done
           g == [told EXCEPT !.tracked = None, !.seq = None]
<1>1. h \in HostState /\ h.results \in Seq(HostResults)
  BY DEF Sound, HostState
<1>2. completed \in BOOLEAN
  BY <1>1 DEF HostState
<1>3. last \in Nat
  BY <1>1 DEF HostState, None
<1>4. ASSUME places # {} PROVE index \in Nat /\ h.tracked \in Nat
  <2>1. index \in places
    BY <1>4
  <2>2. index \in DOMAIN h.results /\ h.results[index].id = h.tracked
    BY <2>1 DEF IndexOf
  <2> HIDE DEF index
  <2>3. index \in Nat /\ h.results[index] \in HostResults
    BY <1>1, <2>2
  <2> QED BY <2>2, <2>3 DEF HostResults
<1>5. EndResult(h, c) = g
  BY DEF EndResult
<1> HIDE DEF completed, index, last
<1>6. ASSUME places # {} PROVE m \in ToView /\ ~IsSync(m)
  BY <1>3, <1>4, <1>6 DEF ToView, Completions, Chunks, IsSync
<1>7. /\ done \in HostState /\ done.sent = h.sent /\ done.version = h.version
      /\ done.focus = h.focus /\ done.html = h.html /\ done.out = h.out
      /\ done.syncVersion = h.syncVersion /\ done.pendingSync = h.pendingSync
      /\ done.active = h.active
  BY Zenon, <1>1, <1>2 DEF HostState
<1> HIDE DEF places, done, m
<1>8. Keeps(h, done) /\ Sound(done)
  BY <1>7, OthersKeep DEF Sound, Keeps, Follows
<1>9. Keeps(h, told) /\ Sound(told)
  BY <1>6, <1>8, PostKeeps, KeepsOn DEF Keeps, Follows
<1> HIDE DEF told
<1>10. /\ g \in HostState /\ g.sent = told.sent /\ g.version = told.version
       /\ g.focus = told.focus /\ g.html = told.html /\ g.out = told.out
       /\ g.syncVersion = told.syncVersion /\ g.pendingSync = told.pendingSync
       /\ g.active = told.active
  BY Zenon, <1>9 DEF Sound, HostState
<1> HIDE DEF g
<1>11. Keeps(told, g)
  BY <1>9, <1>10, OthersKeep DEF Sound
<1> QED BY <1>5, <1>9, <1>11, KeepsOn

LEMMA AppendStreamingChunkSettles ==
  ASSUME NEW h, Steady(h), NEW c \in Chunks
  PROVE  Settles(h, AppendStreamingChunk(h, c))
<1> DEFINE begun == BeginResult(h, c)
           stored == StoreChunk(begun, c)
           id == [stored EXCEPT !.tracked = c.id]
           tracked == IF c.first /\ Streams(begun, c) THEN id ELSE stored
           sent == IF Streams(begun, c) /\ begun.active = "S"
                   THEN SendChunk(tracked, c) ELSE tracked
           ended == IF c.last THEN EndResult(sent, c) ELSE sent
<1>1. Sound(h) /\ FollowEditor(h) = h
  BY SteadyFollowsEditor DEF Steady, Apt
<1>2. AppendStreamingChunk(h, c) = ended
  BY <1>1 DEF AppendStreamingChunk
<1>3. Keeps(h, begun) /\ Sound(begun)
  BY <1>1, BeginResultKeeps DEF Keeps, Follows
<1> HIDE DEF begun
<1>4. Keeps(begun, stored) /\ (Streams(begun, c) => stored.results # << >>)
  BY <1>3, StoreChunkKeeps
<1> HIDE DEF stored
<1>5. Keeps(h, stored) /\ Sound(stored) /\ stored \in HostState
  BY <1>1, <1>3, <1>4, KeepsOn DEF Keeps, Follows, Sound
<1>6. /\ id \in HostState /\ id.sent = stored.sent /\ id.version = stored.version
      /\ id.focus = stored.focus /\ id.html = stored.html /\ id.out = stored.out
      /\ id.syncVersion = stored.syncVersion /\ id.pendingSync = stored.pendingSync
      /\ id.active = stored.active /\ id.results = stored.results
  BY Zenon, <1>5 DEF HostState, Chunks
<1> HIDE DEF id
<1>7. Keeps(stored, id)
  BY <1>5, <1>6, OthersKeep DEF Sound
<1>8. Keeps(h, id)
  BY <1>1, <1>5, <1>7, KeepsOn
<1>9. Keeps(h, tracked) /\ Sound(tracked) /\ (Streams(begun, c) => tracked.results # << >>)
  BY <1>4, <1>5, <1>6, <1>8 DEF Keeps, Follows
<1> HIDE DEF tracked
<1>10. Keeps(h, sent) /\ Sound(sent)
  BY <1>1, <1>9, SendChunkKeeps, KeepsOn DEF Keeps, Follows
<1> HIDE DEF sent
<1>11. Keeps(h, ended)
  BY <1>1, <1>10, EndResultKeeps, KeepsOn
<1> HIDE DEF ended
<1> QED BY <1>2, <1>11, KeepsSteady DEF Settles, Keeps

LEMMA CutToType ==
  ASSUME NEW rows \in Seq(Row), NEW n \in Nat
  PROVE  CutTo(rows, n) \in Seq(Row)
<1> DEFINE k == IF n < Len(rows) THEN n ELSE Len(rows)
<1>1. k \in Nat /\ k <= Len(rows)
  OBVIOUS
<1> HIDE DEF k
<1>2. SubSeq(rows, 1, k) \in Seq(Row)
  BY <1>1
<1> QED BY <1>2 DEF CutTo, k

LEMMA CancelExecutionSettles ==
  ASSUME NEW h, Steady(h), NEW counts \in Seq(Nat)
  PROVE  Settles(h, CancelExecution(h, counts))
<1> DEFINE Rows1(i) == IF i \in DOMAIN counts THEN CutTo(h.results[i].rows, counts[i])
                       ELSE h.results[i].rows
           Cut(i) == [h.results[i] EXCEPT !.cancelled = TRUE, !.rows = Rows1(i)]
           cut == [i \in DOMAIN h.results |-> Cut(i)]
           begun == [h EXCEPT !.executing = FALSE, !.cancelled = TRUE, !.results = cut]
           stopped == UpdateWebview(Bump(begun))
           unnumbered == [stopped EXCEPT !.seq = None]
           m == [type |-> "cancelExecution"]
<1>1. h \in HostState /\ Apt(h) /\ Sound(h) /\ h.results \in Seq(HostResults)
  BY DEF Steady, Apt, Sound, HostState
<1>2. ASSUME NEW i \in DOMAIN h.results PROVE Cut(i) \in HostResults
  <2>1. h.results[i] \in HostResults
    BY <1>1
  <2>2. h.results[i].rows \in Seq(Row)
    BY <2>1 DEF HostResults
  <2>3. i \in DOMAIN counts => counts[i] \in Nat
    OBVIOUS
  <2>4. Rows1(i) \in Seq(Row)
    BY <2>2, <2>3, CutToType
  <2> HIDE DEF Rows1
  <2> QED BY Zenon, <2>1, <2>4 DEF HostResults
<1>3. CancelExecution(h, counts) = Post(UpdateWebview(unnumbered), m)
  BY DEF CancelExecution
<1>4. cut \in Seq(HostResults)
  <2>1. DOMAIN h.results = 1 .. Len(h.results) /\ Len(h.results) \in Nat
    BY <1>1
  <2> HIDE DEF Cut
  <2>2. cut \in [1 .. Len(h.results) -> HostResults]
    BY <1>2, <2>1
  <2> HIDE DEF cut
  <2> QED BY <2>1, <2>2
<1> HIDE DEF cut
<1>5. /\ begun \in HostState /\ begun.sent = h.sent /\ begun.version = h.version
      /\ begun.focus = h.focus /\ begun.html = h.html /\ begun.out = h.out
      /\ begun.syncVersion = h.syncVersion /\ begun.pendingSync = h.pendingSync
      /\ begun.active = h.active
  BY Zenon, <1>1, <1>4 DEF HostState
<1> HIDE DEF begun
<1>6. Keeps(h, begun) /\ Sound(begun)
  BY <1>1, <1>5, OthersKeep DEF Sound, Keeps, Follows
<1>7. Keeps(h, Bump(begun))
  BY <1>1, <1>6, BumpKeeps, KeepsOn
<1>8. Settles(h, stopped) /\ Apt(stopped) /\ Sound(stopped) /\ stopped \in HostState
  BY <1>1, <1>7, KeepsThenSettles DEF Settles, Steady, Apt, Sound
<1> HIDE DEF stopped
<1>9. /\ unnumbered \in HostState /\ unnumbered.sent = stopped.sent
      /\ unnumbered.version = stopped.version /\ unnumbered.focus = stopped.focus
      /\ unnumbered.html = stopped.html /\ unnumbered.out = stopped.out
      /\ unnumbered.syncVersion = stopped.syncVersion
      /\ unnumbered.pendingSync = stopped.pendingSync
      /\ unnumbered.active = stopped.active
  BY Zenon, <1>8 DEF HostState
<1> HIDE DEF unnumbered
<1>10. Keeps(stopped, unnumbered)
  BY <1>8, <1>9, OthersKeep DEF Sound
<1>11. Settles(stopped, UpdateWebview(unnumbered))
  BY <1>8, <1>10, KeepsThenSettles
<1>12. Settles(h, UpdateWebview(unnumbered)) /\ Sound(UpdateWebview(unnumbered))
  BY <1>1, <1>8, <1>11, SettlesOn DEF Settles, Follows
<1>13. m \in ToView /\ ~IsSync(m)
  BY DEF ToView, IsSync
<1> HIDE DEF m
<1>14. Keeps(UpdateWebview(unnumbered), Post(UpdateWebview(unnumbered), m))
  BY <1>12, <1>13, PostKeeps
<1> QED BY <1>1, <1>3, <1>12, <1>14, SettlesThenKeeps

LEMMA FinalizeExecutionSettles ==
  ASSUME NEW h, Steady(h)
  PROVE  Settles(h, FinalizeExecution(h))
<1> DEFINE ended == [h EXCEPT !.tracked = None, !.seq = None, !.executing = FALSE]
           updated == UpdateWebview(Bump(ended))
<1>1. h \in HostState /\ Apt(h) /\ Sound(h)
  BY DEF Steady, Apt, Sound
<1>2. /\ ended \in HostState /\ ended.sent = h.sent /\ ended.version = h.version
      /\ ended.focus = h.focus /\ ended.html = h.html /\ ended.out = h.out
      /\ ended.syncVersion = h.syncVersion /\ ended.pendingSync = h.pendingSync
      /\ ended.active = h.active
  BY Zenon, <1>1 DEF HostState
<1>3. FinalizeExecution(h) = UpdateWebview(updated)
  BY DEF FinalizeExecution
<1> HIDE DEF ended
<1>4. Keeps(h, ended) /\ Sound(ended)
  BY <1>1, <1>2, OthersKeep DEF Sound, Keeps, Follows
<1>5. Keeps(h, Bump(ended))
  BY <1>1, <1>4, BumpKeeps, KeepsOn
<1>6. Settles(h, updated) /\ Apt(updated)
  BY <1>1, <1>5, KeepsThenSettles DEF Settles, Steady
<1> HIDE DEF updated
<1>7. Settles(updated, UpdateWebview(updated))
  BY <1>6, FollowsItself, UpdateWebviewSettles DEF Settles
<1> QED BY <1>1, <1>3, <1>6, <1>7, SettlesOn

LEMMA ForceHydrateSettles ==
  ASSUME NEW h, Steady(h)
  PROVE  Settles(h, ForceHydrate(h))
<1> DEFINE stale == h.stale \/ h.log
           marked == [h EXCEPT !.stale = stale]
<1>1. h \in HostState /\ Apt(h) /\ Sound(h) /\ stale \in BOOLEAN
  BY DEF Steady, Apt, Sound, HostState
<1>2. ForceHydrate(h) \in {h, UpdateWebview(marked)}
  BY DEF ForceHydrate
<1> HIDE DEF stale
<1>3. /\ marked \in HostState /\ marked.sent = h.sent /\ marked.version = h.version
      /\ marked.focus = h.focus /\ marked.html = h.html /\ marked.out = h.out
      /\ marked.syncVersion = h.syncVersion /\ marked.pendingSync = h.pendingSync
      /\ marked.active = h.active
  BY Zenon, <1>1 DEF HostState
<1> HIDE DEF marked
<1>4. Keeps(h, marked)
  BY <1>1, <1>3, OthersKeep DEF Sound
<1>5. Settles(h, UpdateWebview(marked)) /\ Settles(h, h)
  BY <1>1, <1>4, KeepsThenSettles, FollowsItself DEF Settles
<1> QED BY <1>2, <1>5
LEMMA RemoveAtType ==
  ASSUME NEW S, NEW s \in Seq(S), NEW i \in DOMAIN s
  PROVE  RemoveAt(s, i) \in Seq(S)
<1>1. i \in 1 .. Len(s) /\ Len(s) \in Nat
  OBVIOUS
<1>2. SubSeq(s, 1, i - 1) \in Seq(S)
  BY <1>1
<1>3. SubSeq(s, i + 1, Len(s)) \in Seq(S)
  BY <1>1
<1> QED BY <1>2, <1>3 DEF RemoveAt

LEMMA CloseResultSettles ==
  ASSUME NEW h, Steady(h), NEW i \in Nat
  PROVE  Settles(h, CloseResult(h, i))
<1> DEFINE results == RemoveAt(h.results, i)
           bumped == Bump(h)
           removed == [bumped EXCEPT !.results = results]
           marked == [removed EXCEPT !.stale = TRUE, !.globalDirty = TRUE]
           closed == UpdateWebview(marked)
<1>1. h \in HostState /\ Apt(h) /\ Sound(h)
  BY DEF Steady, Apt, Sound
<1>2. CASE i \notin DOMAIN h.results
  BY <1>2, ForceHydrateSettles DEF CloseResult
<1>3. CASE i \in DOMAIN h.results
  <2>1. results \in Seq(HostResults)
    <3>1. h.results \in Seq(HostResults)
      BY <1>1 DEF HostState
    <3> QED BY <1>3, <3>1, RemoveAtType
  <2>2. bumped.results = h.results
    BY <1>1, BumpFollows
  <2>3. CloseResult(h, i) = ForceHydrate(closed)
    BY <1>3, <2>2 DEF CloseResult
  <2>4. Keeps(h, bumped) /\ Sound(bumped) /\ bumped \in HostState
    BY <1>1, BumpKeeps DEF Keeps, Follows, Sound
  <2> HIDE DEF results, bumped
  <2>5. /\ removed \in HostState /\ removed.sent = bumped.sent
        /\ removed.version = bumped.version /\ removed.focus = bumped.focus
        /\ removed.html = bumped.html /\ removed.out = bumped.out
        /\ removed.syncVersion = bumped.syncVersion
        /\ removed.pendingSync = bumped.pendingSync /\ removed.active = bumped.active
    BY Zenon, <2>1, <2>4 DEF HostState
  <2> HIDE DEF removed
  <2>6. /\ marked \in HostState /\ marked.sent = bumped.sent
        /\ marked.version = bumped.version /\ marked.focus = bumped.focus
        /\ marked.html = bumped.html /\ marked.out = bumped.out
        /\ marked.syncVersion = bumped.syncVersion
        /\ marked.pendingSync = bumped.pendingSync /\ marked.active = bumped.active
    BY Zenon, <2>5 DEF HostState
  <2> HIDE DEF marked
  <2>7. Keeps(bumped, marked)
    BY <2>4, <2>6, OthersKeep DEF Sound
  <2>8. Settles(h, closed) /\ Steady(closed)
    BY <1>1, <2>4, <2>7, KeepsOn, KeepsThenSettles DEF Settles
  <2> HIDE DEF closed
  <2> QED BY <1>1, <2>3, <2>8, ForceHydrateSettles, SettlesOn
<1> QED BY <1>2, <1>3

LEMMA ViewReadySettles ==
  ASSUME NEW h, Steady(h)
  PROVE  Settles(h, ViewReady(h))
<1> DEFINE g == [h EXCEPT !.ready = TRUE]
<1>1. h \in HostState /\ Apt(h) /\ Sound(h)
  BY DEF Steady, Apt, Sound
<1>2. /\ g \in HostState /\ g.sent = h.sent /\ g.version = h.version /\ g.focus = h.focus
      /\ g.html = h.html /\ g.out = h.out /\ g.syncVersion = h.syncVersion
      /\ g.pendingSync = h.pendingSync /\ g.active = h.active
  BY Zenon, <1>1 DEF HostState
<1>3. ViewReady(h) = ForceHydrate(g)
  BY DEF ViewReady
<1> HIDE DEF g
<1>4. Keeps(h, g)
  BY <1>1, <1>2, OthersKeep DEF Sound
<1>5. Settles(h, g)
  BY <1>4, KeepsSteady DEF Settles, Keeps
<1>6. Settles(g, ForceHydrate(g))
  BY <1>5, ForceHydrateSettles DEF Settles
<1> QED BY <1>1, <1>3, <1>5, <1>6, SettlesOn

(* A request is answered at once or kept until its source is shown.        *)
LEMMA ResultSyncRequestSettles ==
  ASSUME NEW h, Steady(h)
  PROVE  /\ Settles(h, ResultSyncRequest(h))
         /\ \/ ResultSyncRequest(h).pendingSync
            \/ Renewed(ResultSyncRequest(h), h.syncVersion)
<1>1. h \in HostState /\ Apt(h) /\ Sound(h) /\ h.syncVersion \in Nat /\ h.active \in Sources
  BY DEF Steady, Apt, Sound, HostState
<1>2. CASE h.active # "S"
  <2> DEFINE g == [h EXCEPT !.pendingSync = TRUE]
  <2>1. ResultSyncRequest(h) = g
    BY <1>2 DEF ResultSyncRequest
  <2>2. /\ g \in HostState /\ g.sent = h.sent /\ g.version = h.version /\ g.focus = h.focus
        /\ g.html = h.html /\ g.out = h.out /\ g.syncVersion = h.syncVersion
        /\ g.pendingSync = TRUE /\ g.active = h.active
    BY Zenon, <1>1 DEF HostState
  <2> HIDE DEF g
  <2>3. Sound(g)
    BY <1>1, <2>2 DEF Sound
  <2>4. \A n : Renewed(h, n) <=> Renewed(g, n)
    BY <2>2 DEF Renewed
  <2>5. Follows(h, g)
    BY <1>1, <2>2, <2>3, <2>4 DEF Follows
  <2>6. Steady(g)
    BY <1>2, <2>2, <2>3 DEF Steady, Apt
  <2> QED BY <2>1, <2>2, <2>5, <2>6 DEF Settles
<1>3. CASE h.active = "S"
  <2> DEFINE g == Synced(h)
             k == UpdateWebview(g)
  <2>1. ResultSyncRequest(h) = k
    BY <1>3 DEF ResultSyncRequest, Synced
  <2>2. /\ Sound(g) /\ g.focus = h.focus /\ g.active = h.active /\ g.stale
        /\ ~g.pendingSync /\ g.syncVersion = h.syncVersion + 1
        /\ g.html = h.html /\ g.out = h.out
    BY <1>1, SyncedIsSound
  <2> HIDE DEF g
  <2>3. Steady(g)
    BY <2>2 DEF Steady, Apt
  <2>4. Follows(g, k) /\ Steady(k)
    BY <2>3, UpdateWebviewSettles DEF Steady
  <2>5. \A n : n < g.syncVersion => Renewed(k, n)
    BY <1>3, <2>2, <2>3, UpdateWebviewRenews
  <2>6. Renewed(k, h.syncVersion)
    BY <1>1, <2>2, <2>5
  <2>7. \A n : Renewed(h, n) => Renewed(g, n)
    BY <2>2 DEF Renewed
  <2> HIDE DEF k
  <2>8. h.syncVersion <= k.syncVersion
    BY <1>1, <2>2, <2>4 DEF Follows, Sound, HostState
  <2>9. Follows(h, k)
    BY <2>2, <2>4, <2>6, <2>7, <2>8 DEF Follows
  <2> QED BY <2>1, <2>4, <2>6, <2>9 DEF Settles
<1> QED BY <1>2, <1>3
----------------------------------------------------------------------------
(* The page: every handler but that of a hydrate leaves the key alone,     *)
(* begins to wait only together with a request, and sends nothing else.    *)

Asked(v) == \E i \in DOMAIN v.out : v.out[i].type = "requestResultSync"
OnlyAsks(v) == \A i \in DOMAIN v.out : v.out[i].type = "requestResultSync"

Waits(v, w) ==
  /\ w \in ViewState
  /\ w.key = v.key
  /\ w.pending => v.pending \/ Asked(w)
  /\ Asked(v) => Asked(w)
  /\ OnlyAsks(v) => OnlyAsks(w)

LEMMA OthersWait ==
  ASSUME NEW v, NEW w \in ViewState, w.key = v.key, w.pending = v.pending, w.out = v.out
  PROVE  Waits(v, w)
BY DEF Waits, Asked, OnlyAsks

LEMMA WaitsOn ==
  ASSUME NEW u, NEW v, NEW w, Waits(u, v), Waits(v, w)
  PROVE  Waits(u, w)
BY DEF Waits

LEMMA CursorTypes ==
  /\ NoCursor \in Cursors
  /\ \A id, next, row \in Nat : Cursor(id, next, row) \in Cursors
BY DEF NoCursor, Cursor, Cursors

LEMMA DesyncType ==
  ASSUME NEW c \in Cursors, NEW id \in Nat
  PROVE  Desync(c, id).cursor \in Cursors
BY DEF Desync, Cursors

LEMMA JudgeType ==
  ASSUME NEW c \in Cursors, NEW m \in Appends
  PROVE  Judge(c, m).cursor \in Cursors
<1>1. m.id \in Nat /\ m.total \in Nat
  BY DEF Appends
<1>2. CASE Foreign(c, m.id)
  BY <1>2 DEF Judge, Stale
<1>3. CASE ~Foreign(c, m.id) /\ Repeats(c, m)
  <2>1. ~Continues(c, m)
    BY <1>3 DEF Repeats, Continues, Cursors, Appends
  <2>2. Judge(c, m) = Duplicate(c)
    BY <1>3, <2>1 DEF Judge
  <2> QED BY <2>2 DEF Duplicate
<1>4. CASE ~Foreign(c, m.id) /\ ~Repeats(c, m) /\ Continues(c, m)
  <2> DEFINE next == c.next + 1
             d == [c EXCEPT !.next = next, !.row = m.total]
  <2>1. next \in Nat
    BY DEF Cursors
  <2>2. Judge(c, m) = Apply(d)
    BY <1>4 DEF Judge
  <2> HIDE DEF next
  <2>3. d \in Cursors
    BY Zenon, <1>1, <2>1 DEF Cursors
  <2> HIDE DEF d
  <2> QED BY <2>2, <2>3 DEF Apply
<1>5. CASE ~Foreign(c, m.id) /\ ~Repeats(c, m) /\ ~Continues(c, m)
  <2>1. Judge(c, m) = Desync(c, m.id)
    BY <1>5 DEF Judge
  <2> QED BY <1>1, <2>1, DesyncType
<1> QED BY <1>2, <1>3, <1>4, <1>5

LEMMA EvaluateType ==
  ASSUME NEW c \in Cursors, NEW m \in Appends, NEW base
  PROVE  Evaluate(c, m, base).cursor \in Cursors
<1>1. m.id \in Nat /\ m.seq \in Nat /\ m.from \in Nat
  BY DEF Appends
<1>2. Baseline(c, m, base) \in Cursors
  BY <1>1, CursorTypes DEF Baseline
<1>3. Desync(c, m.id).cursor \in Cursors /\ Judge(Baseline(c, m, base), m).cursor \in Cursors
      /\ Duplicate(c).cursor \in Cursors
  BY <1>1, <1>2, DesyncType, JudgeType DEF Duplicate
<1>4. Evaluate(c, m, base) \in {Duplicate(c), Desync(c, m.id), Judge(Baseline(c, m, base), m)}
  BY DEF Evaluate
<1> QED BY <1>3, <1>4

LEMMA CompleteType ==
  ASSUME NEW c \in Cursors, NEW id \in Nat, NEW last \in Nat
  PROVE  Complete(c, id, last).cursor \in Cursors
<1> DEFINE d == [c EXCEPT !.terminal = TRUE]
<1>1. d \in Cursors
  BY Zenon DEF Cursors
<1>2. Complete(c, id, last) \in {Stale(c), Duplicate(c), Desync(c, id), Apply(d)}
  BY DEF Complete
<1> HIDE DEF d
<1>3. Desync(c, id).cursor \in Cursors
  BY DesyncType
<1> QED BY <1>1, <1>2, <1>3 DEF Stale, Duplicate, Apply

LEMMA RequestWaits ==
  ASSUME NEW v \in ViewState
  PROVE  Waits(v, Request(v))
<1> DEFINE m == [type |-> "requestResultSync"]
           out == Append(v.out, m)
           g == [v EXCEPT !.pending = TRUE, !.out = out]
<1>1. CASE v.pending
  <2>1. Request(v) = v
    BY <1>1 DEF Request
  <2> QED BY <2>1 DEF Waits
<1>2. CASE ~v.pending
  <2>1. Request(v) = g
    BY <1>2 DEF Request
  <2>2. m \in ToHost /\ m.type = "requestResultSync"
    BY DEF ToHost
  <2> HIDE DEF m
  <2>3. v.out \in Seq(ToHost)
    BY DEF ViewState
  <2>4. /\ out \in Seq(ToHost) /\ \E i \in DOMAIN out : out[i] = m
        /\ \A i \in DOMAIN out : out[i] = m \/ (i \in DOMAIN v.out /\ out[i] = v.out[i])
    <3>1. /\ out \in Seq(ToHost) /\ out[Len(v.out) + 1] = m /\ Len(v.out) + 1 \in DOMAIN out
          /\ \A i \in DOMAIN out : out[i] = m \/ (i \in DOMAIN v.out /\ out[i] = v.out[i])
      BY <2>2, <2>3
    <3> HIDE DEF out
    <3> QED BY <3>1
  <2> HIDE DEF out
  <2>5. g \in ViewState /\ g.key = v.key /\ g.out = out
    BY Zenon, <2>4 DEF ViewState
  <2> HIDE DEF g
  <2>6. Asked(g) /\ (OnlyAsks(v) => OnlyAsks(g))
    BY <2>2, <2>4, <2>5 DEF Asked, OnlyAsks
  <2> QED BY <2>1, <2>5, <2>6 DEF Waits
<1> QED BY <1>1, <1>2

LEMMA PersistKeeps ==
  ASSUME NEW v \in ViewState
  PROVE  /\ Persist(v) \in ViewState /\ Persist(v).key = v.key
         /\ Persist(v).pending = v.pending /\ Persist(v).out = v.out
<1> DEFINE content == [log |-> v.log, results |-> v.results]
           cache == [v.cache EXCEPT ![v.active] = content]
           g == [v EXCEPT !.cache = cache]
<1>1. CASE v.active = NoSource \/ ~v.log
  <2>1. Persist(v) = v
    BY <1>1 DEF Persist
  <2> QED BY <2>1
<1>2. CASE ~(v.active = NoSource \/ ~v.log)
  <2>1. Persist(v) = g
    BY <1>2 DEF Persist
  <2>2. content \in Contents /\ v.cache \in [Sources -> Contents]
    BY DEF Contents, ViewState
  <2> HIDE DEF content
  <2>3. cache \in [Sources -> Contents]
    BY Zenon, <2>2
  <2> HIDE DEF cache
  <2>4. g \in ViewState /\ g.key = v.key /\ g.pending = v.pending /\ g.out = v.out
    BY Zenon, <2>3 DEF ViewState
  <2> HIDE DEF g
  <2> QED BY <2>1, <2>4
<1> QED BY <1>1, <1>2

LEMMA PersistWaits ==
  ASSUME NEW v \in ViewState
  PROVE  Waits(v, Persist(v))
BY PersistKeeps, OthersWait

LEMMA UnmarkType ==
  ASSUME NEW results \in Seq(ShownResults)
  PROVE  Unmark(results) \in Seq(ShownResults) /\ Len(Unmark(results)) = Len(results)
<1> DEFINE U(i) == [results[i] EXCEPT !.complete = FALSE]
           u == [i \in DOMAIN results |-> U(i)]
<1>1. DOMAIN results = 1 .. Len(results) /\ Len(results) \in Nat
  OBVIOUS
<1>2. ASSUME NEW i \in DOMAIN results PROVE U(i) \in ShownResults
  <2>1. results[i] \in ShownResults
    OBVIOUS
  <2> QED BY Zenon, <2>1 DEF ShownResults
<1>3. Unmark(results) = u
  BY DEF Unmark
<1> HIDE DEF U
<1>4. u \in [1 .. Len(results) -> ShownResults]
  BY <1>1, <1>2
<1> HIDE DEF u
<1> QED BY <1>1, <1>3, <1>4
LEMMA ShowSourceWaits ==
  ASSUME NEW v \in ViewState, NEW m \in Switches
  PROVE  Waits(v, ShowSource(v, m))
<1> DEFINE fresh == [v EXCEPT !.cursor = NoCursor, !.pending = FALSE]
           switched == IF v.active = m.source THEN v ELSE fresh
           saved == Persist(switched)
           executing == m.source = "S" /\ m.executing
           told == [saved EXCEPT !.active = m.source, !.executing = m.executing,
                                 !.completed = m.completed]
           cached == saved.cache[m.source]
           unmarked == [told EXCEPT !.results = Unmark(told.results)]
           restored == [told EXCEPT !.log = cached.log, !.results = cached.results]
<1>1. m.source \in Sources /\ m.executing \in BOOLEAN /\ m.completed \in BOOLEAN
  BY DEF Switches
<1>2. fresh \in ViewState /\ fresh.key = v.key /\ fresh.pending = FALSE /\ fresh.out = v.out
  BY Zenon, CursorTypes DEF ViewState
<1>3. ShowSource(v, m) \in {unmarked, told, restored}
  BY DEF ShowSource
<1> HIDE DEF fresh
<1>4. Waits(v, switched) /\ switched \in ViewState
  BY <1>2, OthersWait DEF Waits, Asked, OnlyAsks
<1> HIDE DEF switched
<1>5. Waits(v, saved) /\ saved \in ViewState
  BY <1>4, PersistWaits, WaitsOn DEF Waits
<1> HIDE DEF saved
<1>6. told \in ViewState /\ told.key = saved.key /\ told.pending = saved.pending
      /\ told.out = saved.out
  BY Zenon, <1>1, <1>5 DEF ViewState
<1> HIDE DEF told
<1>7. Waits(v, told)
  BY <1>5, <1>6, OthersWait, WaitsOn
<1>8. Waits(v, unmarked)
  <2> DEFINE results == Unmark(told.results)
  <2>1. results \in Seq(ShownResults)
    BY <1>6, UnmarkType DEF ViewState
  <2>2. unmarked = [told EXCEPT !.results = results]
    OBVIOUS
  <2> HIDE DEF unmarked, results
  <2>3. unmarked \in ViewState /\ unmarked.key = told.key /\ unmarked.pending = told.pending
        /\ unmarked.out = told.out
    BY Zenon, <1>6, <2>1, <2>2 DEF ViewState
  <2> QED BY <1>7, <2>3, OthersWait, WaitsOn
<1>9. Waits(v, restored)
  <2>1. cached \in Contents
    BY <1>1, <1>5 DEF ViewState
  <2> HIDE DEF cached
  <2>2. cached.log \in BOOLEAN /\ cached.results \in Seq(ShownResults)
    BY <2>1 DEF Contents
  <2>3. restored \in ViewState /\ restored.key = told.key /\ restored.pending = told.pending
        /\ restored.out = told.out
    BY Zenon, <1>6, <2>2 DEF ViewState
  <2> HIDE DEF restored
  <2> QED BY <1>7, <2>3, OthersWait, WaitsOn
<1> HIDE DEF restored, unmarked
<1> QED BY <1>3, <1>7, <1>8, <1>9

LEMMA CancelWaits ==
  ASSUME NEW v \in ViewState
  PROVE  Waits(v, Cancel(v))
<1> DEFINE stopped == [v EXCEPT !.executing = FALSE, !.completed = FALSE, !.cursor = NoCursor]
           C(i) == [stopped.results[i] EXCEPT !.cancelled = TRUE, !.complete = FALSE]
           results == [i \in DOMAIN stopped.results |-> C(i)]
           g == [stopped EXCEPT !.results = results]
<1>1. stopped \in ViewState /\ stopped.key = v.key /\ stopped.pending = v.pending
      /\ stopped.out = v.out
  BY Zenon, CursorTypes DEF ViewState
<1>2. Cancel(v) \in {stopped, g}
  BY DEF Cancel
<1> HIDE DEF stopped
<1>3. stopped.results \in Seq(ShownResults)
  BY <1>1 DEF ViewState
<1>4. ASSUME NEW i \in DOMAIN stopped.results PROVE C(i) \in ShownResults
  <2>1. stopped.results[i] \in ShownResults
    BY <1>3
  <2> QED BY Zenon, <2>1 DEF ShownResults
<1> HIDE DEF C
<1>5. results \in Seq(ShownResults)
  <2>1. DOMAIN stopped.results = 1 .. Len(stopped.results) /\ Len(stopped.results) \in Nat
    BY <1>3
  <2>2. results \in [1 .. Len(stopped.results) -> ShownResults]
    BY <1>4, <2>1
  <2> HIDE DEF results
  <2> QED BY <2>1, <2>2
<1> HIDE DEF results
<1>6. g \in ViewState /\ g.key = v.key /\ g.pending = v.pending /\ g.out = v.out
  BY Zenon, <1>1, <1>5 DEF ViewState
<1> HIDE DEF g
<1> QED BY <1>1, <1>2, <1>6, OthersWait

LEMMA ReplacedType ==
  ASSUME NEW S, NEW s \in Seq(S), NEW i, NEW x \in S
  PROVE  [s EXCEPT ![i] = x] \in Seq(S) /\ DOMAIN [s EXCEPT ![i] = x] = DOMAIN s
<1> DEFINE t == [s EXCEPT ![i] = x]
<1>1. s \in [1 .. Len(s) -> S] /\ Len(s) \in Nat
  OBVIOUS
<1>2. t \in [1 .. Len(s) -> S]
  BY Zenon, <1>1
<1> HIDE DEF t
<1>3. t \in Seq(S) /\ DOMAIN t = DOMAIN s
  BY <1>1, <1>2
<1> QED BY <1>3 DEF t

LEMMA PlaceShellWaits ==
  ASSUME NEW v \in ViewState, NEW m \in Appends
  PROVE  Waits(v, PlaceShell(v, m))
<1> DEFINE unmarked == Unmark(v.results)
           appended == Append(unmarked, Shell(m.id))
           replaced == [unmarked EXCEPT ![m.index] = Shell(m.id)]
           results == IF m.index > Len(v.results) THEN appended ELSE replaced
           g == [v EXCEPT !.completed = FALSE, !.results = results]
<1>1. unmarked \in Seq(ShownResults)
  BY UnmarkType DEF ViewState
<1>2. << >> \in Seq(Row)
  OBVIOUS
<1>3. Shell(m.id) \in ShownResults
  BY <1>2 DEF Shell, ShownResults, Appends
<1>4. PlaceShell(v, m) = g
  BY DEF PlaceShell
<1> HIDE DEF unmarked
<1>5. appended \in Seq(ShownResults) /\ replaced \in Seq(ShownResults)
  BY <1>1, <1>3, ReplacedType, AppendProperties
<1> HIDE DEF appended, replaced
<1>6. results \in Seq(ShownResults)
  BY <1>5
<1> HIDE DEF results
<1>7. g \in ViewState /\ g.key = v.key /\ g.pending = v.pending /\ g.out = v.out
  BY Zenon, <1>6 DEF ViewState
<1> HIDE DEF g
<1> QED BY <1>4, <1>7, OthersWait

LEMMA AddRowsWaits ==
  ASSUME NEW v \in ViewState, NEW m \in Appends
  PROVE  Waits(v, AddRows(v, m))
<1> DEFINE w == IF m.first THEN PlaceShell(v, m) ELSE v
           i == IF m.first /\ m.index > Len(v.results) THEN Len(w.results) ELSE m.index
           rows == w.results[i].rows \o m.rows
           g1 == [w EXCEPT !.results[i].rows = rows]
           g == [g1 EXCEPT !.results[i].total = m.total]
<1>1. Waits(v, w) /\ w \in ViewState /\ w.results \in Seq(ShownResults)
  BY PlaceShellWaits DEF Waits, ViewState
<1>2. /\ i \notin DOMAIN w.results => AddRows(v, m) = Request(w)
      /\ i \in DOMAIN w.results => AddRows(v, m) \in {w, Persist(g)}
  BY DEF AddRows
<1> HIDE DEF w, i
<1>3. CASE i \notin DOMAIN w.results
  BY <1>1, <1>2, <1>3, RequestWaits, WaitsOn
<1>4. CASE i \in DOMAIN w.results
  <2>1. w.results[i] \in ShownResults
    BY <1>1, <1>4
  <2>2. rows \in Seq(Row) /\ m.total \in Nat
    BY <2>1 DEF ShownResults, Appends
  <2> HIDE DEF rows
  <2> DEFINE r1 == [w.results[i] EXCEPT !.rows = rows]
             q1 == [w.results EXCEPT ![i] = r1]
             r2 == [q1[i] EXCEPT !.total = m.total]
             q2 == [q1 EXCEPT ![i] = r2]
  <2>3. r1 \in ShownResults
    BY Zenon, <2>1, <2>2 DEF ShownResults
  <2>4. g1 = [w EXCEPT !.results = q1]
    OBVIOUS
  <2> HIDE DEF g1, r1
  <2>5. q1 \in Seq(ShownResults) /\ DOMAIN q1 = DOMAIN w.results
    BY <1>1, <2>3, ReplacedType
  <2> HIDE DEF q1
  <2>6. /\ g1 \in ViewState /\ g1.key = w.key /\ g1.pending = w.pending /\ g1.out = w.out
        /\ g1.results = q1
    BY Zenon, <1>1, <2>4, <2>5 DEF ViewState
  <2>7. g = [g1 EXCEPT !.results = q2]
    BY <2>6
  <2>8. r2 \in ShownResults
    <3>1. q1[i] \in ShownResults
      BY <1>4, <2>5
    <3> QED BY Zenon, <2>2, <3>1 DEF ShownResults
  <2> HIDE DEF g, r2
  <2>9. q2 \in Seq(ShownResults)
    BY <2>5, <2>8, ReplacedType
  <2> HIDE DEF q2
  <2>10. g \in ViewState /\ g.key = w.key /\ g.pending = w.pending /\ g.out = w.out
    BY Zenon, <2>6, <2>7, <2>9 DEF ViewState
  <2>11. Waits(w, Persist(g))
    BY <2>10, OthersWait, PersistWaits, WaitsOn
  <2>12. Waits(v, Persist(g))
    BY <1>1, <2>11, WaitsOn
  <2> QED BY <1>1, <1>2, <1>4, <2>12
<1> QED BY <1>3, <1>4

(* Only the cursor changes.                                                *)
LEMMA JudgedWaits ==
  ASSUME NEW v \in ViewState, NEW c \in Cursors
  PROVE  Waits(v, [v EXCEPT !.cursor = c])
<1> DEFINE g == [v EXCEPT !.cursor = c]
<1>1. g \in ViewState /\ g.key = v.key /\ g.pending = v.pending /\ g.out = v.out
  BY Zenon DEF ViewState
<1> HIDE DEF g
<1>2. Waits(v, g)
  BY <1>1, OthersWait
<1> QED BY <1>2 DEF g

LEMMA AppendRowsWaits ==
  ASSUME NEW v \in ViewState, NEW m \in Appends
  PROVE  Waits(v, AppendRows(v, m))
<1> DEFINE d == Evaluate(v.cursor, m, Base(v, m.index))
           judged == [v EXCEPT !.cursor = d.cursor]
<1>1. v.cursor \in Cursors
  BY DEF ViewState
<1>2. d.cursor \in Cursors
  BY <1>1, EvaluateType
<1>3. AppendRows(v, m) \in {v, Request(v), Request(judged), AddRows(judged, m), judged}
  BY DEF AppendRows
<1> HIDE DEF d
<1>4. Waits(v, judged) /\ judged \in ViewState
  BY <1>2, JudgedWaits DEF Waits
<1> HIDE DEF judged
<1>5. Waits(v, Request(v)) /\ Waits(v, v)
  BY RequestWaits DEF Waits
<1>6. Waits(v, Request(judged)) /\ Waits(v, AddRows(judged, m))
  BY <1>4, RequestWaits, AddRowsWaits, WaitsOn
<1> QED BY <1>3, <1>4, <1>5, <1>6
LEMMA StreamingCompleteWaits ==
  ASSUME NEW v \in ViewState, NEW m \in Completions
  PROVE  Waits(v, StreamingComplete(v, m))
<1> DEFINE d == Complete(v.cursor, m.id, m.last)
           judged == [v EXCEPT !.cursor = d.cursor]
           r == [judged.results[m.index] EXCEPT !.complete = TRUE]
           q1 == [judged.results EXCEPT ![m.index] = r]
           g1 == [judged EXCEPT !.completed = TRUE, !.results = q1]
           s == [q1[m.index] EXCEPT !.total = m.total]
           q2 == [q1 EXCEPT ![m.index] = s]
           g == [judged EXCEPT !.completed = TRUE, !.results[m.index].complete = TRUE,
                               !.results[m.index].total = m.total]
           Fits == ~(m.index \notin DOMAIN v.results \/ v.results[m.index].id # m.id)
<1>1. v.cursor \in Cursors /\ m.id \in Nat /\ m.last \in Nat /\ m.total \in Nat
  BY DEF ViewState, Completions
<1>2. d.cursor \in Cursors
  BY <1>1, CompleteType
<1>3. StreamingComplete(v, m) =
        IF Elsewhere(v) THEN v
        ELSE IF ~Fits THEN Request(v)
        ELSE IF d.kind = "desync" THEN Request(judged)
        ELSE IF d.kind = "apply" THEN Persist(g)
        ELSE judged
  BY DEF StreamingComplete
<1> HIDE DEF d
<1>4. Waits(v, judged) /\ judged \in ViewState
  BY <1>2, JudgedWaits DEF Waits
<1>5. judged.results = v.results
  BY <1>2 DEF ViewState
<1> HIDE DEF judged
<1>6. Waits(v, Request(v)) /\ Waits(v, v) /\ Waits(v, Request(judged))
  BY <1>4, RequestWaits, WaitsOn DEF Waits
<1>7. ASSUME Fits PROVE Waits(v, Persist(g))
  <2>1. judged.results \in Seq(ShownResults) /\ m.index \in DOMAIN judged.results
    BY <1>4, <1>5, <1>7 DEF ViewState
  <2>2. judged.results[m.index] \in ShownResults
    BY <2>1
  <2>3. r \in ShownResults
    BY Zenon, <2>2 DEF ShownResults
  <2>4. q1 \in Seq(ShownResults) /\ DOMAIN q1 = DOMAIN judged.results
    BY <2>1, <2>3, ReplacedType
  <2>5. g = [g1 EXCEPT !.results[m.index].total = m.total]
    OBVIOUS
  <2> HIDE DEF r, q1, g
  <2>6. /\ g1 \in ViewState /\ g1.key = judged.key /\ g1.pending = judged.pending
        /\ g1.out = judged.out /\ g1.results = q1
    BY Zenon, <1>4, <2>4 DEF ViewState
  <2> HIDE DEF g1
  <2>7. g = [g1 EXCEPT !.results = q2]
    BY <2>5, <2>6
  <2>8. s \in ShownResults
    <3>1. q1[m.index] \in ShownResults
      BY <2>1, <2>4
    <3> QED BY Zenon, <1>1, <3>1 DEF ShownResults
  <2> HIDE DEF s
  <2>9. q2 \in Seq(ShownResults)
    BY Zenon, <2>4, <2>8, ReplacedType
  <2> HIDE DEF q2
  <2>10. g \in ViewState /\ g.key = judged.key /\ g.pending = judged.pending
         /\ g.out = judged.out
    BY Zenon, <2>6, <2>7, <2>9 DEF ViewState
  <2>11. Waits(judged, Persist(g))
    BY <2>10, OthersWait, PersistWaits, WaitsOn
  <2> QED BY <1>4, <2>11, WaitsOn
<1> HIDE DEF g, Fits
<1> QED BY <1>3, <1>4, <1>6, <1>7

LEMMA LogRowsWaits ==
  ASSUME NEW v \in ViewState
  PROVE  Waits(v, LogRows(v))
<1>1. Waits(v, v)
  BY DEF Waits
<1> QED BY <1>1, RequestWaits DEF LogRows

LEMMA ShownType ==
  ASSUME NEW results \in Seq(HostResults)
  PROVE  /\ [i \in DOMAIN results |-> Shown(results[i])] \in Seq(ShownResults)
         /\ [i \in DOMAIN results |-> Len(results[i].rows)] \in Seq(Nat)
<1>1. results \in [1 .. Len(results) -> HostResults] /\ Len(results) \in Nat
  OBVIOUS
<1>2. ASSUME NEW i \in DOMAIN results
      PROVE  Shown(results[i]) \in ShownResults /\ Len(results[i].rows) \in Nat
  <2>1. results[i] \in HostResults
    BY <1>1
  <2>2. results[i].rows \in Seq(Row)
    BY <2>1 DEF HostResults
  <2> QED BY <2>1, <2>2, LenProperties DEF HostResults, ShownResults, Shown
<1> DEFINE f == [i \in DOMAIN results |-> Shown(results[i])]
           g == [i \in DOMAIN results |-> Len(results[i].rows)]
<1>3. f \in [1 .. Len(results) -> ShownResults] /\ g \in [1 .. Len(results) -> Nat]
  BY <1>1, <1>2
<1> HIDE DEF f, g
<1>4. f \in Seq(ShownResults) /\ g \in Seq(Nat)
  BY SMTT(30), <1>1, <1>3
<1> QED BY <1>4 DEF f, g

(* A hydrate the page has not had yet ends its waiting, if it is of S.     *)
LEMMA ReplaceAnswers ==
  ASSUME NEW v \in ViewState, NEW m \in Hydrates
  PROVE  /\ Replace(v, m) \in ViewState /\ Replace(v, m).out = v.out
         /\ \/ Replace(v, m) = v /\ v.key.source = m.source /\ v.key.sync = m.sync
            \/ /\ Replace(v, m).key.source = m.source /\ Replace(v, m).key.sync = m.sync
               /\ Replace(v, m).pending = (v.pending /\ m.source # "S")
<1> DEFINE key == HydrateKey(m)
           results == [i \in DOMAIN m.results |-> Shown(m.results[i])]
           bytes == [i \in DOMAIN m.results |-> Len(m.results[i].rows)]
           P == Persist(v)
           cursor == IF m.source = "S" THEN NoCursor ELSE P.cursor
           pending == P.pending /\ ~(m.source = "S")
           g == [P EXCEPT !.key = key, !.active = m.source, !.log = TRUE,
                   !.results = results, !.cursor = cursor, !.pending = pending,
                   !.executing = m.executing, !.completed = m.completed]
<1>1. results \in Seq(ShownResults) /\ bytes \in Seq(Nat)
  BY ShownType DEF Hydrates
<1>2. key = [source |-> m.source, bytes |-> bytes, executing |-> m.executing,
             completed |-> m.completed, version |-> m.version, sync |-> m.sync]
  BY DEF HydrateKey
<1>3. Replace(v, m) = IF key = v.key THEN v ELSE Persist(g)
  BY DEF Replace
<1> HIDE DEF key, results, bytes
<1>4. key \in Keys /\ key.source = m.source /\ key.sync = m.sync
  BY <1>1, <1>2 DEF Keys, Hydrates
<1>5. P \in ViewState /\ P.key = v.key /\ P.pending = v.pending /\ P.out = v.out
  BY PersistKeeps
<1> HIDE DEF P
<1>6. cursor \in Cursors /\ pending \in BOOLEAN
  BY <1>5, CursorTypes DEF ViewState
<1>7. pending = (v.pending /\ m.source # "S")
  BY <1>5
<1> HIDE DEF cursor, pending
<1> DEFINE g1 == [P EXCEPT !.key = key, !.active = m.source, !.log = TRUE]
           g2 == [g1 EXCEPT !.results = results, !.cursor = cursor, !.pending = pending]
<1>8. g1 \in ViewState /\ g1.key = key /\ g1.out = v.out
  BY Zenon, <1>4, <1>5 DEF ViewState, Hydrates
<1>9. g = [g2 EXCEPT !.executing = m.executing, !.completed = m.completed]
  OBVIOUS
<1> HIDE DEF g1, g
<1>10. g2 \in ViewState /\ g2.key = key /\ g2.out = v.out /\ g2.pending = pending
  BY Zenon, <1>1, <1>6, <1>8 DEF ViewState
<1> HIDE DEF g2
<1>11. g \in ViewState /\ g.key = key /\ g.out = v.out /\ g.pending = pending
  BY Zenon, <1>9, <1>10 DEF ViewState, Hydrates
<1>12. Persist(g) \in ViewState /\ Persist(g).key = key /\ Persist(g).out = v.out
       /\ Persist(g).pending = pending
  BY <1>11, PersistKeeps
<1> QED BY <1>3, <1>4, <1>7, <1>12
----------------------------------------------------------------------------
(* The inductive invariant.                                                *)

KeyBefore(v, n) == v.key.source = "S" => v.key.sync < n

(* A hydrate of S is under way that the page has not had yet.              *)
Coming(v, q) == \E i \in DOMAIN q : IsSync(q[i]) /\ KeyBefore(v, q[i].sync)
Requested(q) == \E i \in DOMAIN q : q[i].type = "requestResultSync"

HostAtRest == Steady(host) /\ host.out = << >> /\ host.html = FALSE
PageAtRest == view \in ViewState /\ view.out = << >>
Channels == toView \in Seq(ToView) /\ toHost \in Seq(ToHost)

(* A page that loads has nothing to wait for.                              *)
StartsAnew == page = "loading" => view = FreshView

(* No hydrate of S is later than the syncs the host has counted.           *)
SyncsCounted ==
  /\ \A i \in DOMAIN toView : IsSync(toView[i]) => toView[i].sync <= host.syncVersion
  /\ KeyBefore(view, host.syncVersion + 1)

Awaited ==
  view.pending => Requested(toHost) \/ host.pendingSync \/ Coming(view, toView)

IInv ==
  /\ HostAtRest /\ PageAtRest /\ Channels
  /\ stream \in Executors /\ page \in {"loading", "listening", "loaded"}
  /\ left \in Budget /\ faulty \in BOOLEAN
  /\ StartsAnew /\ SyncsCounted /\ Awaited

LEMMA FreshViewType == FreshView \in ViewState
<1>1. << >> \in Seq(ShownResults) /\ << >> \in Seq(ToHost)
  OBVIOUS
<1>2. NoContent \in Contents
  BY <1>1 DEF NoContent, Contents
<1>3. [s \in Sources |-> NoContent] \in [Sources -> Contents]
  BY <1>2
<1> QED BY <1>1, <1>3, CursorTypes DEF FreshView, ViewState

LEMMA ConcatIs ==
  ASSUME NEW S, NEW s \in Seq(S), NEW t \in Seq(S)
  PROVE  /\ s \o t \in Seq(S)
         /\ \A i \in DOMAIN s : i \in DOMAIN (s \o t) /\ (s \o t)[i] = s[i]
         /\ \A i \in DOMAIN t : Len(s) + i \in DOMAIN (s \o t) /\ (s \o t)[Len(s) + i] = t[i]
         /\ \A i \in DOMAIN (s \o t) :
              \/ i \in DOMAIN s /\ (s \o t)[i] = s[i]
              \/ i - Len(s) \in DOMAIN t /\ (s \o t)[i] = t[i - Len(s)]
<1>1. /\ s \o t \in Seq(S) /\ Len(s \o t) = Len(s) + Len(t)
      /\ Len(s) \in Nat /\ Len(t) \in Nat
      /\ \A i \in 1 .. (Len(s) + Len(t)) :
           (s \o t)[i] = IF i <= Len(s) THEN s[i] ELSE t[i - Len(s)]
  BY ConcatProperties, LenProperties
<1>2. DOMAIN s = 1 .. Len(s) /\ DOMAIN t = 1 .. Len(t)
      /\ DOMAIN (s \o t) = 1 .. (Len(s) + Len(t))
  BY <1>1, LenProperties
<1> QED BY <1>1, <1>2

LEMMA TailIs ==
  ASSUME NEW S, NEW s \in Seq(S), s # << >>
  PROVE  /\ Tail(s) \in Seq(S) /\ Head(s) \in S /\ 1 \in DOMAIN s /\ Head(s) = s[1]
         /\ \A i \in DOMAIN Tail(s) : i + 1 \in DOMAIN s /\ Tail(s)[i] = s[i + 1]
         /\ \A i \in DOMAIN s : i # 1 => i - 1 \in DOMAIN Tail(s) /\ Tail(s)[i - 1] = s[i]
<1>1. Len(s) \in Nat /\ Len(s) > 0 /\ DOMAIN s = 1 .. Len(s)
  OBVIOUS
<1>2. Tail(s) \in Seq(S) /\ Len(Tail(s)) = Len(s) - 1 /\ DOMAIN Tail(s) = 1 .. (Len(s) - 1)
  BY <1>1, HeadTailProperties, LenProperties
<1>3. \A i \in 1 .. (Len(s) - 1) : Tail(s)[i] = s[i + 1]
  BY <1>1
<1> QED BY <1>1, <1>2, <1>3

LEMMA PostedType ==
  ASSUME NEW m \in ToView
  PROVE  IsSync(m) => m \in Hydrates /\ m.sync \in Nat
BY DEF ToView, IsSync, Hydrates, Switches, Appends, Completions

(* What the page may rely on, whatever editor has the focus.               *)
Answers(h, g) ==
  /\ Steady(g)
  /\ h.syncVersion <= g.syncVersion
  /\ \A n \in Nat : Renewed(h, n) => Renewed(g, n)
  /\ h.pendingSync => g.pendingSync \/ Renewed(g, h.syncVersion)

(* A handler of the host preserves the invariant, if the request it        *)
(* consumes, if any, is kept or answered.                                  *)
LEMMA HostBecomesKeeps ==
  ASSUME NEW h, IInv, Answers(host, h), HostBecomes(h), toHost' \in Seq(ToHost),
         Requested(toHost) =>
           Requested(toHost') \/ h.pendingSync \/ Renewed(h, host.syncVersion),
         stream' \in Executors, left' \in Budget
  PROVE  IInv'
<1>1. /\ Sound(h) /\ h \in HostState /\ h.out \in Seq(ToView) /\ h.syncVersion \in Nat
      /\ host.syncVersion \in Nat /\ host.syncVersion <= h.syncVersion
      /\ h.html \in BOOLEAN
  BY DEF IInv, HostAtRest, Answers, Steady, Apt, Sound, HostState
<1>2. /\ toView \in Seq(ToView) /\ view \in ViewState /\ view.out = << >>
  BY DEF IInv, Channels, PageAtRest
<1>3. << >> \in Seq(ToView)
  OBVIOUS
<1>4. /\ host' \in HostState /\ host'.out = << >> /\ host'.html = FALSE
      /\ host'.active = h.active /\ host'.focus = h.focus /\ host'.sent = h.sent
      /\ host'.version = h.version /\ host'.pendingSync = h.pendingSync
      /\ host'.syncVersion = h.syncVersion
  <2> DEFINE g1 == [h EXCEPT !.out = << >>]
  <2>1. /\ g1 \in HostState /\ g1.out = << >>
        /\ g1.active = h.active /\ g1.focus = h.focus /\ g1.sent = h.sent
        /\ g1.version = h.version /\ g1.pendingSync = h.pendingSync
        /\ g1.syncVersion = h.syncVersion
    BY Zenon, <1>1, <1>3 DEF HostState
  <2>2. host' = [g1 EXCEPT !.html = FALSE]
    BY DEF HostBecomes
  <2> HIDE DEF g1
  <2> QED BY Zenon, <2>1, <2>2 DEF HostState
<1>5. Steady(host)'
  <2>1. Sound(host)'
    BY <1>1, <1>4 DEF Sound
  <2> QED BY <1>4, <2>1 DEF Answers, Steady, Apt
<1>6. toView' \in Seq(ToView) /\ (toView' = h.out \/ toView' = toView \o h.out)
      /\ (~h.html => toView' = toView \o h.out)
  BY Zenon, <1>1, <1>2, ConcatIs DEF HostBecomes
<1>7. view' \in ViewState /\ view'.out = << >>
  BY <1>2, FreshViewType DEF HostBecomes, FreshView
<1>8. page' \in {"loading", "listening", "loaded"} /\ (page' = "loading" => view' = FreshView)
  BY DEF HostBecomes, IInv, StartsAnew
<1>9. \A i \in DOMAIN toView' : IsSync(toView'[i]) => toView'[i].sync <= host'.syncVersion
  <2>1. SUFFICES ASSUME NEW i \in DOMAIN toView', IsSync(toView'[i])
                 PROVE  toView'[i].sync <= h.syncVersion
    BY <1>4
  <2>2. CASE i \in DOMAIN toView /\ toView'[i] = toView[i]
    <3>1. toView[i].sync <= host.syncVersion /\ toView[i].sync \in Nat
      BY <1>2, <2>1, <2>2, PostedType DEF IInv, SyncsCounted
    <3> QED BY <1>1, <2>2, <3>1
  <2>3. CASE i - Len(toView) \in DOMAIN h.out /\ toView'[i] = h.out[i - Len(toView)]
    BY <1>1, <2>1, <2>3 DEF Sound
  <2>4. CASE toView' = h.out
    BY <1>1, <2>1, <2>4 DEF Sound
  <2> QED BY SMTT(30), <1>1, <1>2, <1>6, <2>2, <2>3, <2>4, ConcatIs
<1>10. KeyBefore(view', h.syncVersion + 1)
  <2>1. CASE view' = FreshView
    BY <2>1 DEF KeyBefore, FreshView, NoKey, NoSource
  <2>2. CASE view' = view
    <3>1. KeyBefore(view, host.syncVersion + 1)
      BY DEF IInv, SyncsCounted
    <3>2. view.key \in Keys \union {NoKey}
      BY <1>2 DEF ViewState
    <3>3. view.key.source = "S" => view.key.sync \in Nat
      BY <3>2 DEF Keys, NoKey, NoSource
    <3> QED BY <1>1, <2>2, <3>1, <3>3 DEF KeyBefore
  <2> QED BY <2>1, <2>2 DEF HostBecomes
<1>11. view'.pending => Requested(toHost') \/ h.pendingSync \/ Coming(view', toView')
  <2>1. SUFFICES ASSUME view'.pending
                 PROVE  Requested(toHost') \/ h.pendingSync \/ Coming(view', toView')
    OBVIOUS
  <2>2. ~h.html /\ view' = view /\ view.pending
    BY <2>1 DEF HostBecomes, FreshView
  <2>3. ASSUME Coming(view, toView) PROVE Coming(view', toView')
    <3>1. PICK i \in DOMAIN toView : IsSync(toView[i]) /\ KeyBefore(view, toView[i].sync)
      BY <2>3 DEF Coming
    <3>2. i \in DOMAIN toView' /\ toView'[i] = toView[i]
      BY <1>1, <1>2, <1>6, <2>2, ConcatIs
    <3> QED BY <2>2, <3>1, <3>2 DEF Coming
  <2>4. ASSUME Renewed(h, host.syncVersion) PROVE Coming(view', toView')
    <3>1. PICK i \in DOMAIN h.out : IsSync(h.out[i]) /\ host.syncVersion < h.out[i].sync
      BY <2>2, <2>4 DEF Renewed
    <3>2. toView' = toView \o h.out
      BY <1>6, <2>2
    <3>3. Len(toView) + i \in DOMAIN toView' /\ toView'[Len(toView) + i] = h.out[i]
      BY <1>1, <1>2, <3>1, <3>2, ConcatIs
    <3>4. h.out[i].sync \in Nat
      BY <1>1, <3>1, PostedType
    <3>5. view.key.source = "S" => view.key.sync \in Nat
      BY <1>2 DEF ViewState, Keys, NoKey, NoSource
    <3>6. KeyBefore(view, h.out[i].sync)
      BY <1>1, <3>1, <3>4, <3>5 DEF IInv, SyncsCounted, KeyBefore
    <3> QED BY <2>2, <3>1, <3>3, <3>6 DEF Coming
  <2>5. Requested(toHost) \/ host.pendingSync \/ Coming(view, toView)
    BY <2>2 DEF IInv, Awaited
  <2>6. host.pendingSync => h.pendingSync \/ Renewed(h, host.syncVersion)
    BY DEF Answers
  <2> QED BY <2>3, <2>4, <2>5, <2>6
<1>12. HostAtRest' /\ PageAtRest' /\ Channels'
  BY <1>4, <1>5, <1>6, <1>7 DEF HostAtRest, PageAtRest, Channels
<1>13. SyncsCounted'
  BY <1>4, <1>9, <1>10 DEF SyncsCounted
<1>14. Awaited'
  BY <1>4, <1>11 DEF Awaited
<1>15. StartsAnew' /\ (page \in {"loading", "listening", "loaded"})' /\ (faulty \in BOOLEAN)'
  BY <1>8 DEF StartsAnew, HostBecomes, IInv
<1> QED BY <1>12, <1>13, <1>14, <1>15 DEF IInv
LEMMA HandleIs ==
  ASSUME NEW v, NEW m \in ToView
  PROVE  \/ m \in Hydrates /\ Handle(v, m) = Replace(v, m)
         \/ m \in Switches /\ ~IsSync(m) /\ Handle(v, m) = ShowSource(v, m)
         \/ m \in Appends /\ ~IsSync(m) /\ Handle(v, m) = AppendRows(v, m)
         \/ m \in Completions /\ ~IsSync(m) /\ Handle(v, m) = StreamingComplete(v, m)
         \/ ~IsSync(m) /\ Handle(v, m) = Cancel(v)
         \/ ~IsSync(m) /\ Handle(v, m) = LogRows(v)
<1>1. CASE m \in Hydrates
  <2>1. m.type = "hydrate"
    BY <1>1 DEF Hydrates
  <2> QED BY <1>1, <2>1 DEF Handle
<1>2. CASE m \in Switches
  <2>1. m.type = "setActiveSource"
    BY <1>2 DEF Switches
  <2> QED BY <1>2, <2>1 DEF Handle, IsSync
<1>3. CASE m \in Appends
  <2>1. m.type = "appendRows"
    BY <1>3 DEF Appends
  <2> QED BY <1>3, <2>1 DEF Handle, IsSync
<1>4. CASE m \in Completions
  <2>1. m.type = "streamingComplete"
    BY <1>4 DEF Completions
  <2> QED BY <1>4, <2>1 DEF Handle, IsSync
<1>5. CASE m \in [type : {"cancelExecution", "log"}]
  <2>1. m.type = "cancelExecution" \/ m.type = "log"
    BY <1>5
  <2> QED BY <2>1 DEF Handle, IsSync
<1> QED BY <1>1, <1>2, <1>3, <1>4, <1>5 DEF ToView

(* A step of the page preserves the invariant, if it asks when it begins   *)
(* to wait and takes no hydrate it waits for unread.                       *)
LEMMA ViewBecomesKeeps ==
  ASSUME IInv, page # "loading", NEW w \in ViewState, NEW message \in Seq(ToHost),
         ViewBecomes(w, message), toView' \in Seq(ToView), left' \in Budget,
         \A i \in DOMAIN toView' :
           IsSync(toView'[i]) => toView'[i].sync <= host.syncVersion,
         KeyBefore(w, host.syncVersion + 1),
         w.pending => \/ Asked(w)
                      \/ view.pending /\ (Coming(view, toView) => Coming(w, toView'))
  PROVE  IInv'
<1>1. toHost \in Seq(ToHost) /\ w.out \in Seq(ToHost)
  BY DEF IInv, Channels, ViewState
<1>2. << >> \in Seq(ToHost)
  OBVIOUS
<1>3. /\ view' \in ViewState /\ view'.out = << >> /\ view'.key = w.key
      /\ view'.pending = w.pending
  BY Zenon, <1>2 DEF ViewBecomes, ViewState
<1>4. /\ toHost \o w.out \in Seq(ToHost) /\ toHost' = (toHost \o w.out) \o message
      /\ toHost' \in Seq(ToHost)
  BY <1>1, ConcatIs DEF ViewBecomes
<1>5. Requested(toHost) \/ Asked(w) => Requested(toHost')
  <2>1. Requested(toHost) \/ Asked(w) => Requested(toHost \o w.out)
    <3>1. ASSUME Requested(toHost) PROVE Requested(toHost \o w.out)
      BY <1>1, <3>1, ConcatIs DEF Requested
    <3>2. ASSUME Asked(w) PROVE Requested(toHost \o w.out)
      <4>1. PICK i \in DOMAIN w.out : w.out[i].type = "requestResultSync"
        BY <3>2 DEF Asked
      <4>2. Len(toHost) + i \in DOMAIN (toHost \o w.out)
            /\ (toHost \o w.out)[Len(toHost) + i] = w.out[i]
        BY <1>1, ConcatIs
      <4> QED BY <4>1, <4>2 DEF Requested
    <3> QED BY <3>1, <3>2
  <2>2. ASSUME Requested(toHost \o w.out) PROVE Requested(toHost')
    BY <1>4, <2>2, ConcatIs DEF Requested
  <2> QED BY <2>1, <2>2
<1>6. host' = host /\ stream' = stream /\ page' = page /\ faulty' = faulty
  BY DEF ViewBecomes
<1>7. HostAtRest' /\ PageAtRest' /\ Channels'
  BY <1>3, <1>4, <1>6 DEF IInv, HostAtRest, PageAtRest, Channels, Steady, Apt, Sound
<1>8. SyncsCounted'
  BY <1>3, <1>6 DEF SyncsCounted, KeyBefore
<1>9. Awaited'
  <2>1. SUFFICES ASSUME w.pending
                 PROVE  Requested(toHost') \/ host.pendingSync \/ Coming(view', toView')
    BY <1>3, <1>6 DEF Awaited
  <2>2. CASE Asked(w)
    BY <1>5, <2>2
  <2>3. CASE view.pending /\ (Coming(view, toView) => Coming(w, toView'))
    <3>1. Requested(toHost) \/ host.pendingSync \/ Coming(view, toView)
      BY <2>3 DEF IInv, Awaited
    <3>2. Coming(w, toView') => Coming(view', toView')
      BY <1>3 DEF Coming, KeyBefore
    <3> QED BY <1>5, <2>3, <3>1, <3>2
  <2> QED BY <2>1, <2>2, <2>3
<1>10. StartsAnew'
  BY <1>6 DEF StartsAnew
<1> QED BY <1>6, <1>7, <1>8, <1>9, <1>10 DEF IInv

(* Messages of S still under way are those of before.                      *)
LEMMA FewerSyncs ==
  ASSUME IInv, NEW q, \A i \in DOMAIN q : \E j \in DOMAIN toView : q[i] = toView[j]
  PROVE  \A i \in DOMAIN q : IsSync(q[i]) => q[i].sync <= host.syncVersion
BY DEF IInv, SyncsCounted

LEMMA ViewReceivesKeeps ==
  ASSUME IInv, ViewReceives
  PROVE  IInv'
<1> DEFINE m == Head(toView)
           w == Handle(view, m)
<1>1. toView \in Seq(ToView) /\ toView # << >> /\ page # "loading" /\ view \in ViewState
      /\ toView' = Tail(toView) /\ ViewBecomes(w, << >>) /\ left' \in Budget
      /\ view.out = << >>
  BY DEF IInv, Channels, PageAtRest, ViewReceives
<1>2. /\ m \in ToView /\ m = toView[1] /\ 1 \in DOMAIN toView
      /\ toView' \in Seq(ToView)
      /\ \A i \in DOMAIN toView' : i + 1 \in DOMAIN toView /\ toView'[i] = toView[i + 1]
      /\ \A i \in DOMAIN toView : i # 1 => i - 1 \in DOMAIN toView' /\ toView'[i - 1] = toView[i]
  BY <1>1, TailIs
<1>3. \A i \in DOMAIN toView' : IsSync(toView'[i]) => toView'[i].sync <= host.syncVersion
  BY <1>2, FewerSyncs
<1>4. << >> \in Seq(ToHost)
  OBVIOUS
<1>5. KeyBefore(view, host.syncVersion + 1) /\ host.syncVersion \in Nat
  BY DEF IInv, SyncsCounted, HostAtRest, Steady, Apt, Sound, HostState
<1> HIDE DEF m
<1>6. CASE m \in Hydrates /\ w = Replace(view, m)
  <2>1. /\ w \in ViewState /\ w.out = << >>
        /\ \/ w = view /\ view.key.source = m.source /\ view.key.sync = m.sync
           \/ w.key.source = m.source /\ w.key.sync = m.sync
              /\ w.pending = (view.pending /\ m.source # "S")
    BY <1>1, <1>6, ReplaceAnswers
  <2>2. IsSync(m) => m.sync <= host.syncVersion /\ m.sync \in Nat
    BY <1>2, PostedType DEF IInv, SyncsCounted
  <2>3. m.source = "S" => IsSync(m)
    BY <1>6 DEF Hydrates, IsSync
  <2>4. KeyBefore(w, host.syncVersion + 1)
    BY <1>5, <2>1, <2>2, <2>3 DEF KeyBefore
  <2>5. ASSUME w.pending PROVE view.pending /\ (Coming(view, toView) => Coming(w, toView'))
    <3>1. view.pending
      BY Zenon, <2>1, <2>5
    <3>2. ASSUME Coming(view, toView) PROVE Coming(w, toView')
      <4>1. PICK i \in DOMAIN toView : IsSync(toView[i]) /\ KeyBefore(view, toView[i].sync)
        BY <3>2 DEF Coming
      <4>2. toView[i].sync \in Nat
        BY <1>1, <4>1, PostedType
      <4>3. i # 1
        <5>1. SUFFICES ASSUME i = 1 PROVE FALSE
          OBVIOUS
        <5>2. m.source = "S"
          BY <1>2, <4>1, <5>1 DEF IsSync
        <5>3. w = view /\ view.key.source = "S" /\ view.key.sync = m.sync
          BY Zenon, <2>1, <2>5, <5>2
        <5> QED BY <1>2, <4>1, <4>2, <5>1, <5>3 DEF KeyBefore
      <4>4. KeyBefore(w, toView[i].sync)
        BY Zenon, <2>1, <2>5, <4>1 DEF KeyBefore
      <4> QED BY <1>2, <4>1, <4>3, <4>4 DEF Coming
    <3> QED BY <3>1, <3>2
  <2> HIDE DEF w
  <2> QED BY Zenon, <1>1, <1>2, <1>3, <1>4, <2>1, <2>4, <2>5, ViewBecomesKeeps
<1>7. CASE Waits(view, w) /\ ~IsSync(m)
  <2>1. w \in ViewState /\ w.key = view.key /\ (w.pending => view.pending \/ Asked(w))
    BY <1>7 DEF Waits
  <2>2. KeyBefore(w, host.syncVersion + 1)
    BY <1>5, <2>1 DEF KeyBefore
  <2>3. ASSUME Coming(view, toView) PROVE Coming(w, toView')
    <3>1. PICK i \in DOMAIN toView : IsSync(toView[i]) /\ KeyBefore(view, toView[i].sync)
      BY <2>3 DEF Coming
    <3>2. i # 1
      BY <1>2, <1>7, <3>1
    <3>3. KeyBefore(w, toView[i].sync)
      BY <2>1, <3>1 DEF KeyBefore
    <3> QED BY <1>2, <3>1, <3>2, <3>3 DEF Coming
  <2> HIDE DEF w
  <2> QED BY Zenon, <1>1, <1>2, <1>3, <1>4, <2>1, <2>2, <2>3, ViewBecomesKeeps
<1> QED BY <1>1, <1>2, <1>6, <1>7, HandleIs, ShowSourceWaits, AppendRowsWaits,
           StreamingCompleteWaits, CancelWaits, LogRowsWaits
LEMMA SpendType ==
  ASSUME left \in Budget, NEW kind \in {"executions", "statements", "disturbances"},
         Spend(kind)
  PROVE  left' \in Budget
<1>1. CASE kind = "executions"
  BY <1>1 DEF Budget, Spend
<1>2. CASE kind = "statements"
  BY <1>2 DEF Budget, Spend
<1>3. CASE kind = "disturbances"
  BY <1>3 DEF Budget, Spend
<1> QED BY <1>1, <1>2, <1>3

(* The host's own steps consume no request.                                *)
LEMMA RefocusKeeps ==
  ASSUME IInv, NEW h, Answers(host, h), HostBecomes(h), toHost' = toHost,
         stream' \in Executors, left' \in Budget
  PROVE  IInv'
<1>1. toHost' \in Seq(ToHost) /\ (Requested(toHost) => Requested(toHost'))
  BY DEF IInv, Channels
<1> QED BY <1>1, HostBecomesKeeps

LEMMA OwnStepKeeps ==
  ASSUME IInv, NEW h, Settles(host, h), HostBecomes(h), toHost' = toHost,
         stream' \in Executors, left' \in Budget
  PROVE  IInv'
<1>1. Answers(host, h)
  BY DEF Settles, Follows, Answers
<1> QED BY <1>1, RefocusKeeps

LEMMA HostStepsKeep ==
  ASSUME IInv,
         Start \/ StatementStarts \/ ChunkArrives \/ Finalize
           \/ SwitchEditor \/ CancelCommand \/ ReloadPage
  PROVE  IInv'
<1>1. Steady(host) /\ Sound(host) /\ host \in HostState
  BY DEF IInv, HostAtRest, Steady, Apt, Sound
<1>2. left \in Budget /\ stream \in Executors
  BY DEF IInv
<1>3. << >> \in Seq(Nat)
  OBVIOUS
<1>4. CASE Start
  <2>1. PICK keep \in BOOLEAN : HostBecomes(StartExecution(host, keep))
    BY <1>4 DEF Start
  <2>2. left' \in Budget /\ stream' \in Executors /\ toHost' = toHost
    BY <1>2, <1>4, SpendType DEF Start, Executors
  <2>3. Settles(host, StartExecution(host, keep))
    BY <1>1, StartExecutionSettles
  <2> QED BY <2>1, <2>2, <2>3, OwnStepKeeps
<1>5. CASE StatementStarts
  <2>1. left' \in Budget /\ stream' \in Executors /\ toHost' = toHost
        /\ HostBecomes(LogExecutionStart(host))
    BY <1>2, <1>5, SpendType DEF StatementStarts, Executors
  <2>2. Settles(host, LogExecutionStart(host))
    BY <1>1, LogExecutionStartSettles
  <2> QED BY <2>1, <2>2, OwnStepKeeps
<1>6. CASE ChunkArrives
  <2> DEFINE first == stream.phase = "started"
             C(total, last, columns) ==
               [id |-> stream.id, first |-> first, last |-> last, columns |-> columns,
                from |-> stream.rows, total |-> total]
  <2>1. PICK total \in stream.rows .. left.rows, last \in BOOLEAN, columns \in BOOLEAN :
          /\ HostBecomes(AppendStreamingChunk(host, C(total, last, columns)))
          /\ stream' = [stream EXCEPT !.phase = IF last THEN "between" ELSE "streaming",
                                      !.rows = total]
    BY Zenon, <1>6 DEF ChunkArrives
  <2>2. left' = left /\ toHost' = toHost
    BY Zenon, <1>6 DEF ChunkArrives
  <2>3. stream.id \in Nat /\ stream.rows \in Nat /\ total \in Nat /\ stream.rows <= total
    BY <1>2 DEF Executors, Budget
  <2>4. first \in BOOLEAN
    OBVIOUS
  <2> HIDE DEF first
  <2>5. C(total, last, columns) \in Chunks
    BY <2>3, <2>4 DEF Chunks
  <2>6. stream' \in Executors
    BY Zenon, <1>2, <2>1, <2>3 DEF Executors
  <2> HIDE DEF C
  <2>7. Settles(host, AppendStreamingChunk(host, C(total, last, columns)))
    BY <1>1, <2>5, AppendStreamingChunkSettles
  <2> QED BY <1>2, <2>1, <2>2, <2>6, <2>7, OwnStepKeeps
<1>7. CASE Finalize
  <2>1. left' = left /\ stream' \in Executors /\ toHost' = toHost
        /\ HostBecomes(FinalizeExecution(host))
    BY <1>2, <1>7 DEF Finalize, Executors
  <2>2. Settles(host, FinalizeExecution(host))
    BY <1>1, FinalizeExecutionSettles
  <2> QED BY <1>2, <2>1, <2>2, OwnStepKeeps
<1>8. CASE SwitchEditor
  <2>1. PICK s \in Sources \ {host.focus} :
          HostBecomes(SetActiveSource([host EXCEPT !.focus = s], s))
    BY <1>8 DEF SwitchEditor
  <2>2. left' \in Budget /\ stream' = stream /\ toHost' = toHost
    BY <1>2, <1>8, SpendType DEF SwitchEditor, Disturbs
  <2> DEFINE g == [host EXCEPT !.focus = s]
             k == SetActiveSource(g, s)
  <2>3. /\ g \in HostState /\ g.sent = host.sent /\ g.version = host.version
        /\ g.focus = s /\ g.html = host.html /\ g.out = host.out
        /\ g.syncVersion = host.syncVersion /\ g.pendingSync = host.pendingSync
        /\ g.active = host.active
    BY Zenon, <1>1 DEF HostState
  <2>4. HostBecomes(k)
    BY <2>1
  <2> HIDE DEF g
  <2>5. Sound(g) /\ ~(g.pendingSync /\ s = "S" /\ g.active = "S")
    BY <1>1, <2>3 DEF Sound, Steady, Apt
  <2>6. Follows(g, k) /\ k.active = s /\ k.pendingSync = (g.pendingSync /\ s # "S")
    BY <2>5, SetActiveSourceFollows
  <2> HIDE DEF k
  <2>7. k.focus = s /\ Sound(k) /\ g.syncVersion <= k.syncVersion
    BY <2>3, <2>6 DEF Follows
  <2>8. Steady(k)
    BY Zenon, <2>6, <2>7 DEF Steady, Apt
  <2>10. /\ \A n \in Nat : Renewed(host, n) => Renewed(k, n)
         /\ host.pendingSync => k.pendingSync \/ Renewed(k, host.syncVersion)
    <3>1. \A n : Renewed(host, n) <=> Renewed(g, n)
      BY <2>3 DEF Renewed
    <3> QED BY <2>3, <2>6, <3>1 DEF Follows
  <2>11. Answers(host, k)
    BY <2>3, <2>7, <2>8, <2>10 DEF Answers
  <2> QED BY <1>2, <2>2, <2>4, <2>11, RefocusKeeps
<1>9. CASE CancelCommand
  <2>1. left' \in Budget /\ stream' = stream /\ toHost' = toHost
        /\ HostBecomes(CancelExecution(host, << >>))
    BY <1>2, <1>9, SpendType DEF CancelCommand, Disturbs
  <2>2. Settles(host, CancelExecution(host, << >>))
    BY Zenon, <1>1, <1>3, CancelExecutionSettles
  <2> QED BY <1>2, <2>1, <2>2, OwnStepKeeps
<1>10. CASE ReloadPage
  <2> DEFINE g1 == [host EXCEPT !.ready = FALSE]
             g == [g1 EXCEPT !.html = TRUE]
  <2>1. left' \in Budget /\ stream' = stream /\ toHost' = toHost /\ HostBecomes(g)
    BY <1>2, <1>10, SpendType DEF ReloadPage, Disturbs
  <2>2. /\ g1 \in HostState /\ g1.sent = host.sent /\ g1.version = host.version
        /\ g1.focus = host.focus /\ g1.out = host.out
        /\ g1.syncVersion = host.syncVersion /\ g1.pendingSync = host.pendingSync
        /\ g1.active = host.active
    BY Zenon, <1>1 DEF HostState
  <2> HIDE DEF g1
  <2>3. /\ g \in HostState /\ g.sent = host.sent /\ g.version = host.version
        /\ g.focus = host.focus /\ g.out = host.out
        /\ g.syncVersion = host.syncVersion /\ g.pendingSync = host.pendingSync
        /\ g.active = host.active /\ g.html = TRUE
    BY Zenon, <2>2 DEF HostState
  <2> HIDE DEF g
  <2>4. Sound(g) /\ \A n : Renewed(g, n)
    BY <1>1, <2>3 DEF Sound, Renewed
  <2>5. Settles(host, g)
    BY <1>1, <2>3, <2>4 DEF Settles, Follows, Steady, Apt, HostState
  <2> QED BY <1>2, <2>1, <2>5, OwnStepKeeps
<1> QED BY <1>4, <1>5, <1>6, <1>7, <1>8, <1>9, <1>10

(* The request that is consumed is answered at once or kept.               *)
LEMMA HostReceivesKeeps ==
  ASSUME IInv, HostReceives
  PROVE  IInv'
<1> DEFINE m == Head(toHost)
           h == Answer(host, m)
<1>1. /\ Steady(host) /\ toHost \in Seq(ToHost) /\ toHost # << >>
      /\ toHost' = Tail(toHost) /\ HostBecomes(h)
      /\ stream' \in Executors /\ left' \in Budget
  BY DEF IInv, HostAtRest, Channels, HostReceives
<1>2. /\ m \in ToHost /\ m = toHost[1] /\ toHost' \in Seq(ToHost)
      /\ \A i \in DOMAIN toHost : i # 1 => i - 1 \in DOMAIN toHost' /\ toHost'[i - 1] = toHost[i]
  BY <1>1, TailIs
<1> HIDE DEF m
<1>3. /\ Settles(host, h)
      /\ m.type = "requestResultSync" => h.pendingSync \/ Renewed(h, host.syncVersion)
  <2>1. CASE m \in [type : {"ready", "requestResultSync"}]
    <3>1. CASE m.type = "ready"
      <4>1. h = ViewReady(host)
        BY <3>1 DEF Answer
      <4> QED BY <1>1, <3>1, <4>1, ViewReadySettles
    <3>2. CASE m.type = "requestResultSync"
      <4>1. h = ResultSyncRequest(host)
        BY <3>2 DEF Answer
      <4> QED BY <1>1, <4>1, ResultSyncRequestSettles
    <3> QED BY <2>1, <3>1, <3>2
  <2>2. CASE m \in [type : {"cancelQuery"}, counts : Seq(Nat)]
    <3>1. m.type = "cancelQuery" /\ m.counts \in Seq(Nat)
      BY <2>2
    <3>2. h = CancelExecution(host, m.counts)
      BY <3>1 DEF Answer
    <3> QED BY <1>1, <3>1, <3>2, CancelExecutionSettles
  <2>3. CASE m \in [type : {"closeResult"}, index : Nat]
    <3>1. m.type = "closeResult" /\ m.index \in Nat
      BY <2>3
    <3>2. h = CloseResult(host, m.index)
      BY <3>1 DEF Answer
    <3> QED BY <1>1, <3>1, <3>2, CloseResultSettles
  <2> QED BY <1>2, <2>1, <2>2, <2>3 DEF ToHost
<1> HIDE DEF h
<1>4. ASSUME Requested(toHost)
      PROVE  Requested(toHost') \/ h.pendingSync \/ Renewed(h, host.syncVersion)
  <2>1. PICK i \in DOMAIN toHost : toHost[i].type = "requestResultSync"
    BY <1>4 DEF Requested
  <2>2. CASE i = 1
    BY <1>2, <1>3, <2>1, <2>2
  <2>3. CASE i # 1
    BY <1>2, <2>1, <2>3 DEF Requested
  <2> QED BY <2>2, <2>3
<1>5. Answers(host, h)
  BY <1>3 DEF Settles, Follows, Answers
<1> QED BY <1>1, <1>2, <1>4, <1>5, HostBecomesKeeps

(* Clicks change nothing the page waits for.                               *)
LEMMA ClickKeeps ==
  ASSUME IInv, page # "loading", NEW w, Waits(view, w), NEW message \in Seq(ToHost),
         ViewBecomes(w, message), toView' = toView, left' \in Budget
  PROVE  IInv'
<1>1. toView' \in Seq(ToView) /\ w \in ViewState /\ w.key = view.key
      /\ (w.pending => view.pending \/ Asked(w))
  BY DEF IInv, Channels, Waits
<1>2. \A i \in DOMAIN toView' : IsSync(toView'[i]) => toView'[i].sync <= host.syncVersion
  BY DEF IInv, SyncsCounted
<1>3. KeyBefore(w, host.syncVersion + 1)
  BY <1>1 DEF IInv, SyncsCounted, KeyBefore
<1>4. Coming(view, toView) => Coming(w, toView')
  BY <1>1 DEF Coming, KeyBefore
<1> QED BY <1>1, <1>2, <1>3, <1>4, ViewBecomesKeeps

LEMMA ClicksKeep ==
  ASSUME IInv, ClickCancel \/ ClickClose
  PROVE  IInv'
<1>1. view \in ViewState /\ view.results \in Seq(ShownResults) /\ left \in Budget
  BY DEF IInv, PageAtRest, ViewState
<1>2. Waits(view, view) /\ Waits(view, Cancel(view))
  BY <1>1, CancelWaits DEF Waits
<1>3. CASE ClickCancel
  <2> DEFINE counts == IF view.completed THEN << >>
                       ELSE [i \in DOMAIN view.results |-> Len(view.results[i].rows)]
             m == [type |-> "cancelQuery", counts |-> counts]
             message == << m >>
  <2>1. counts \in Seq(Nat)
    <3> DEFINE f == [i \in DOMAIN view.results |-> Len(view.results[i].rows)]
    <3>1. << >> \in Seq(Nat) /\ Len(view.results) \in Nat
          /\ DOMAIN view.results = 1 .. Len(view.results)
      BY <1>1
    <3>2. ASSUME NEW i \in DOMAIN view.results PROVE Len(view.results[i].rows) \in Nat
      <4>1. view.results[i] \in ShownResults
        BY <1>1
      <4>2. view.results[i].rows \in Seq(Row)
        BY <4>1 DEF ShownResults
      <4> QED BY <4>2, LenProperties
    <3>3. f \in [1 .. Len(view.results) -> Nat]
      BY <3>1, <3>2
    <3> HIDE DEF f
    <3>4. f \in Seq(Nat)
      BY <3>1, <3>3
    <3> QED BY <3>1, <3>4 DEF f
  <2>2. /\ ViewBecomes(Cancel(view), message) /\ page # "loading" /\ toView' = toView
        /\ left' \in Budget
    BY <1>1, <1>3, SpendType DEF ClickCancel, Disturbs
  <2> HIDE DEF counts
  <2>3. m \in ToHost
    BY <2>1 DEF ToHost
  <2> HIDE DEF m
  <2>4. message \in Seq(ToHost)
    BY <2>3
  <2> HIDE DEF message
  <2> QED BY <1>2, <2>2, <2>4, ClickKeeps
<1>4. CASE ClickClose
  <2>1. PICK i \in DOMAIN view.results :
          ViewBecomes(view, << [type |-> "closeResult", index |-> i] >>)
    BY <1>4 DEF ClickClose
  <2>2. page # "loading" /\ toView' = toView /\ left' \in Budget
    BY <1>1, <1>4, SpendType DEF ClickClose, Disturbs
  <2> DEFINE m == [type |-> "closeResult", index |-> i]
             message == << m >>
  <2>3. m \in ToHost
    BY <1>1, <2>1 DEF ToHost
  <2>4. ViewBecomes(view, message)
    BY <2>1
  <2> HIDE DEF m
  <2>5. message \in Seq(ToHost)
    BY <2>3
  <2> HIDE DEF message
  <2> QED BY <1>2, <2>2, <2>4, <2>5, ClickKeeps
<1> QED BY <1>3, <1>4

(* The channel alone changes: what it may lose, repeat or overtake are     *)
(* rows, or messages to a page that does not wait.                         *)
LEMMA ChannelKeeps ==
  ASSUME IInv, toView' \in Seq(ToView), left' \in Budget, faulty' \in BOOLEAN,
         UNCHANGED << host, stream, page, view, toHost >>,
         \A i \in DOMAIN toView' : \E j \in DOMAIN toView : toView'[i] = toView[j],
         view.pending => \A j \in DOMAIN toView :
           IsSync(toView[j]) => \E i \in DOMAIN toView' : toView'[i] = toView[j]
  PROVE  IInv'
<1>1. \A i \in DOMAIN toView' : IsSync(toView'[i]) => toView'[i].sync <= host.syncVersion
  BY FewerSyncs
<1>2. SyncsCounted'
  BY <1>1 DEF IInv, SyncsCounted, KeyBefore
<1>3. Awaited'
  <2>1. SUFFICES ASSUME view.pending, Coming(view, toView)
                 PROVE  Coming(view, toView')
    BY DEF IInv, Awaited, Coming, KeyBefore, Requested
  <2>2. PICK j \in DOMAIN toView : IsSync(toView[j]) /\ KeyBefore(view, toView[j].sync)
    BY <2>1 DEF Coming
  <2>3. PICK i \in DOMAIN toView' : toView'[i] = toView[j]
    BY <2>1, <2>2
  <2> QED BY <2>2, <2>3 DEF Coming
<1>4. HostAtRest' /\ PageAtRest' /\ Channels' /\ StartsAnew'
  BY DEF IInv, HostAtRest, PageAtRest, Channels, StartsAnew, Steady, Apt, Sound
<1> QED BY <1>2, <1>3, <1>4 DEF IInv

LEMMA LoseEarlyKeeps ==
  ASSUME IInv, LoseEarly
  PROVE  IInv'
<1>1. toView \in Seq(ToView) /\ toView # << >> /\ toView' = Tail(toView) /\ ~view.pending
  BY DEF IInv, Channels, LoseEarly, StartsAnew, FreshView
<1>2. /\ toView' \in Seq(ToView)
      /\ \A i \in DOMAIN toView' : \E j \in DOMAIN toView : toView'[i] = toView[j]
  BY <1>1, TailIs
<1> QED BY <1>1, <1>2, ChannelKeeps DEF LoseEarly, IInv

LEMMA FaultKeeps ==
  ASSUME IInv, Fault
  PROVE  IInv'
<1>1. /\ toView \in Seq(ToView) /\ 1 \in DOMAIN toView /\ ~IsSync(toView[1])
      /\ left' \in Budget /\ faulty' = TRUE /\ toView[1] \in ToView
      /\ UNCHANGED << host, stream, page, view, toHost >>
  BY SpendType DEF IInv, Channels, Fault, IsRows, IsSync, Disturbs
<1>2. DOMAIN toView = 1 .. Len(toView) /\ Len(toView) \in Nat /\ toView # << >>
  BY <1>1
<1>3. CASE toView' = Tail(toView)
  <2>1. /\ toView' \in Seq(ToView)
        /\ \A i \in DOMAIN toView' : \E j \in DOMAIN toView : toView'[i] = toView[j]
        /\ \A j \in DOMAIN toView : j # 1 => \E i \in DOMAIN toView' : toView'[i] = toView[j]
    BY Zenon, <1>1, <1>2, <1>3, TailIs
  <2> QED BY <1>1, <2>1, ChannelKeeps
<1>4. CASE toView' = << toView[1] >> \o toView
  <2> DEFINE first == << toView[1] >>
  <2>1. first \in Seq(ToView) /\ DOMAIN first = {1} /\ first[1] = toView[1]
    BY <1>1
  <2>2. toView' = first \o toView
    BY <1>4
  <2> HIDE DEF first
  <2>3. /\ toView' \in Seq(ToView)
        /\ \A i \in DOMAIN toView : Len(first) + i \in DOMAIN toView'
                                   /\ toView'[Len(first) + i] = toView[i]
        /\ \A i \in DOMAIN toView' :
             \/ i \in DOMAIN first /\ toView'[i] = first[i]
             \/ i - Len(first) \in DOMAIN toView /\ toView'[i] = toView[i - Len(first)]
    BY <1>1, <2>1, <2>2, ConcatIs
  <2>4. \A i \in DOMAIN toView' : \E j \in DOMAIN toView : toView'[i] = toView[j]
    BY Zenon, <1>1, <2>1, <2>3
  <2>5. \A j \in DOMAIN toView : \E i \in DOMAIN toView' : toView'[i] = toView[j]
    BY <2>3
  <2> QED BY <1>1, <2>3, <2>4, <2>5, ChannelKeeps
<1>5. CASE IsRows(2) /\ toView' = [toView EXCEPT ![1] = toView[2], ![2] = toView[1]]
  <2>1. 2 \in DOMAIN toView /\ toView[2] \in ToView
    BY <1>1, <1>5 DEF IsRows
  <2> DEFINE q == [toView EXCEPT ![1] = toView[2]]
  <2>2. q \in Seq(ToView) /\ DOMAIN q = DOMAIN toView
    BY <1>1, <2>1, ReplacedType
  <2>3. /\ toView' \in Seq(ToView) /\ DOMAIN toView' = DOMAIN toView
        /\ toView' = [q EXCEPT ![2] = toView[1]]
    BY <1>1, <1>5, <2>2, ReplacedType
  <2>4. /\ toView'[1] = toView[2] /\ toView'[2] = toView[1]
        /\ \A i \in DOMAIN toView : i # 1 /\ i # 2 => toView'[i] = toView[i]
    BY <1>1, <1>5, <2>1
  <2> HIDE DEF q
  <2>5. \A i \in DOMAIN toView' : \E j \in DOMAIN toView : toView'[i] = toView[j]
    BY <1>1, <2>1, <2>3, <2>4
  <2>6. \A j \in DOMAIN toView : \E i \in DOMAIN toView' : toView'[i] = toView[j]
    BY <1>1, <2>1, <2>3, <2>4
  <2> QED BY <1>1, <2>3, <2>5, <2>6, ChannelKeeps
<1> QED BY <1>3, <1>4, <1>5 DEF Fault

LEMMA PageStepsKeep ==
  ASSUME IInv, PageLoads \/ PageReady
  PROVE  IInv'
<1>1. toHost \in Seq(ToHost) /\ toView' = toView /\ view' = view /\ host' = host
      /\ stream' = stream /\ left' = left /\ faulty' = faulty
  BY DEF IInv, Channels, PageLoads, PageReady
<1>2. toHost' \in Seq(ToHost) /\ (Requested(toHost) => Requested(toHost'))
  <2>1. CASE PageLoads
    BY <1>1, <2>1 DEF PageLoads
  <2>2. CASE PageReady
    <3> DEFINE m == [type |-> "ready"]
    <3>1. m \in ToHost
      BY DEF ToHost
    <3>2. toHost' = Append(toHost, m)
      BY <2>2 DEF PageReady
    <3> HIDE DEF m
    <3>3. toHost' \in Seq(ToHost)
          /\ \A i \in DOMAIN toHost : i \in DOMAIN toHost' /\ toHost'[i] = toHost[i]
      BY <1>1, <3>1, <3>2
    <3> QED BY <3>3 DEF Requested
  <2> QED BY <2>1, <2>2
<1>3. page' \in {"listening", "loaded"}
  BY DEF PageLoads, PageReady
<1>4. HostAtRest' /\ PageAtRest' /\ Channels' /\ StartsAnew' /\ SyncsCounted'
  BY <1>1, <1>2, <1>3 DEF IInv, HostAtRest, PageAtRest, Channels, StartsAnew,
     SyncsCounted, KeyBefore, Steady, Apt, Sound
<1>5. Awaited'
  BY <1>1, <1>2 DEF IInv, Awaited, Coming, KeyBefore
<1> QED BY <1>1, <1>3, <1>4, <1>5 DEF IInv
----------------------------------------------------------------------------
(* The start, and the theorems.                                            *)

LEMMA ClosedType ==
  ASSUME NEW s \in Sources
  PROVE  Steady(Closed(s)) /\ Closed(s).html = FALSE /\ Closed(s).out = << >>
         /\ Closed(s).lastSentActive = NoSource /\ Closed(s).log = FALSE
         /\ Closed(s).stale = FALSE /\ Closed(s).active = s
<1>1. << >> \in Seq(HostResults) /\ << >> \in Seq(ToView) /\ DOMAIN << >> = 1 .. 0
  OBVIOUS
<1>2. Closed(s) \in HostState
  BY <1>1 DEF Closed, HostState
<1>3. Closed(s).out = << >> /\ Closed(s).sent = 0 /\ Closed(s).version = 0
      /\ Closed(s).active = s /\ Closed(s).focus = s /\ Closed(s).pendingSync = FALSE
  BY DEF Closed
<1>4. Sound(Closed(s))
  BY <1>1, <1>2, <1>3 DEF Sound
<1> QED BY <1>3, <1>4, SMT DEF Steady, Apt, Closed

LEMMA OpenedSettles ==
  ASSUME NEW s \in Sources
  PROVE  /\ Steady(ViewReady(Closed(s))) /\ ViewReady(Closed(s)).html = FALSE
         /\ ViewReady(Closed(s)).out \in Seq(ToView) /\ ViewReady(Closed(s)).out # << >>
         /\ ViewReady(Closed(s)).out[1] \in Hydrates
         /\ Tail(ViewReady(Closed(s)).out) = << >>
         /\ ViewReady(Closed(s)).out[1].sync <= ViewReady(Closed(s)).syncVersion
<1> DEFINE h == Closed(s)
           r == [h EXCEPT !.ready = TRUE]
           stale == r.stale \/ r.log
           g == [r EXCEPT !.stale = stale]
           logged == [g EXCEPT !.log = g.log \/ g.active = "S"]
           M == MarkSent(logged)
           k == ViewReady(h)
<1>1. /\ Steady(h) /\ h.html = FALSE /\ h.out = << >> /\ h.lastSentActive = NoSource
      /\ h.log = FALSE /\ h.stale = FALSE /\ h.active = s /\ h \in HostState
  BY Zenon, ClosedType DEF Steady, Apt, Sound
<1> HIDE DEF h
<1>2. Settles(h, k)
  BY <1>1, ViewReadySettles
<1>3. /\ r \in HostState /\ r.ready = TRUE /\ r.html = FALSE /\ r.out = << >>
      /\ r.lastSentActive = NoSource /\ r.log = FALSE /\ r.stale = FALSE
      /\ r.active = h.active /\ r.focus = h.focus /\ r.pendingSync = h.pendingSync
      /\ r.syncVersion = h.syncVersion /\ r.version = h.version /\ r.sent = h.sent
  BY Zenon, <1>1 DEF HostState
<1>4. k = UpdateWebview(g)
  BY <1>3 DEF ViewReady, ForceHydrate
<1>5. stale = FALSE
  BY <1>3
<1> HIDE DEF r, stale
<1>6. /\ g \in HostState /\ g.ready = TRUE /\ g.html = FALSE /\ g.out = << >>
      /\ g.lastSentActive = NoSource /\ g.log = FALSE /\ g.stale = FALSE
      /\ g.active = h.active /\ g.focus = h.focus /\ g.pendingSync = h.pendingSync
      /\ g.syncVersion = h.syncVersion /\ g.version = h.version /\ g.sent = h.sent
  BY Zenon, <1>3, <1>5 DEF HostState
<1> HIDE DEF g
<1>7. FollowEditor(g) = g
  <2>1. Steady(g)
    BY Zenon, <1>1, <1>6 DEF Steady, Apt, Sound
  <2> QED BY <2>1, SteadyFollowsEditor
<1>8. ~Stable(g)
  BY <1>6 DEF Stable, NoSource
<1>9. k = Hydrate(g)
  BY <1>4, <1>7, <1>8 DEF UpdateWebview, UpdateView, AlreadyStreamed, StillStreaming
<1>10. /\ HydrateMsg(g) \in ToView /\ HydrateMsg(g).sync = g.syncVersion
       /\ HydrateMsg(g).type = "hydrate"
  BY <1>6, HydrateMsgType DEF HydrateMsg
<1>11. HydrateMsg(g) \in Hydrates
  BY <1>10 DEF ToView, Hydrates, Switches, Appends, Completions
<1> DEFINE log == g.log \/ g.active = "S"
<1>12. logged \in HostState /\ logged.out = << >> /\ logged.html = FALSE
  BY SMTT(30), <1>6 DEF HostState
<1> HIDE DEF logged
<1> DEFINE sent == IF logged.active = "S" THEN logged.version ELSE logged.sent
<1>13. M.out = << >> /\ M.html = FALSE /\ M \in HostState
  <2>1. sent \in Nat
    BY <1>12 DEF HostState
  <2>2. M = [logged EXCEPT !.sent = sent, !.globalDirty = FALSE]
    BY DEF MarkSent
  <2> HIDE DEF sent
  <2> QED BY Zenon, <1>12, <2>1, <2>2 DEF HostState
<1> DEFINE old == M.stale /\ g.active # "S"
           final == IF g.active = "S" /\ g.completed THEN g.version ELSE M.finalizeVersion
           marked == [M EXCEPT !.stale = old, !.finalizeVersion = final,
                               !.lastSentActive = g.active]
<1>14. k = Post(marked, HydrateMsg(g))
  BY <1>6, <1>9 DEF Hydrate, logged
<1> HIDE DEF M
<1>15. marked.out = << >> /\ marked.html = FALSE /\ marked \in HostState
  <2>1. old \in BOOLEAN /\ final \in Nat \union {None} /\ g.active \in Sources
    BY <1>6, <1>13 DEF HostState
  <2> HIDE DEF old, final
  <2> QED BY Zenon, <1>13, <2>1 DEF HostState
<1> HIDE DEF marked
<1>16. k.out = << HydrateMsg(g) >> /\ k.html = FALSE
  BY <1>14, <1>15 DEF Post, HostState
<1>17. k.syncVersion >= h.syncVersion /\ Steady(k) /\ k.out \in Seq(ToView)
       /\ h.syncVersion \in Nat /\ k.syncVersion \in Nat
  BY <1>1, <1>2 DEF Settles, Follows, Steady, Apt, Sound, HostState
<1>18. k.out[1] = HydrateMsg(g)
  BY <1>16
<1>19. k.out[1].sync <= k.syncVersion
  BY <1>6, <1>10, <1>17, <1>18
<1> HIDE DEF k
<1>20. /\ Steady(k) /\ k.html = FALSE /\ k.out \in Seq(ToView) /\ k.out[1] \in Hydrates
       /\ k.out # << >> /\ Tail(k.out) = << >>
       /\ k.out[1].sync <= k.syncVersion
  BY <1>11, <1>16, <1>17, <1>18, <1>19
<1> QED BY <1>20 DEF k, h
LEMMA NothingUnderWay ==
  << >> \in Seq(ToView) /\ << >> \in Seq(ToHost) /\ DOMAIN << >> = {}
OBVIOUS

LEMMA OpeningSatisfies ==
  ASSUME NEW s \in Sources, Opening(s)
  PROVE  HostAtRest /\ PageAtRest /\ StartsAnew /\ KeyBefore(view, host.syncVersion + 1)
         /\ ~view.pending /\ page = "loading"
BY Zenon, ClosedType, FreshViewType
   DEF Opening, HostAtRest, PageAtRest, StartsAnew, KeyBefore, FreshView, NoKey, NoSource

LEMMA OpenedSatisfies ==
  ASSUME NEW s \in Sources, Opened(s)
  PROVE  HostAtRest /\ PageAtRest /\ StartsAnew /\ KeyBefore(view, host.syncVersion + 1)
         /\ ~view.pending /\ page = "loaded"
<1> DEFINE k == ViewReady(Closed(s))
           m == k.out[1]
<1>1. /\ Steady(k) /\ k.html = FALSE /\ k.out \in Seq(ToView) /\ m \in Hydrates
      /\ m.sync <= k.syncVersion
  BY Zenon, OpenedSettles
<1>2. host = [k EXCEPT !.out = << >>] /\ page = "loaded" /\ view = Replace(FreshView, m)
  BY DEF Opened
<1> HIDE DEF k
<1>3. k \in HostState /\ k.syncVersion \in Nat /\ m.sync \in Nat
  BY <1>1 DEF Steady, Apt, Sound, HostState, Hydrates
<1>4. /\ host \in HostState /\ host.out = << >> /\ host.html = FALSE
      /\ host.active = k.active /\ host.focus = k.focus /\ host.sent = k.sent
      /\ host.version = k.version /\ host.pendingSync = k.pendingSync
      /\ host.syncVersion = k.syncVersion
  BY Zenon, <1>1, <1>2, <1>3, NothingUnderWay DEF HostState
<1>5. HostAtRest
  <2>1. Sound(host)
    BY <1>1, <1>4, NothingUnderWay DEF Sound, Steady, Apt
  <2> QED BY <1>1, <1>4, <2>1 DEF HostAtRest, Steady, Apt
<1> HIDE DEF m
<1>6. /\ FreshView \in ViewState /\ FreshView.out = << >> /\ ~FreshView.pending
      /\ FreshView.key.source = NoSource
  BY FreshViewType DEF FreshView, NoKey
<1>7. m.source \in Sources /\ "none" \notin Sources
  BY <1>1 DEF Hydrates, Sources
<1>8. /\ view \in ViewState /\ view.out = << >> /\ ~view.pending /\ view.key.sync = m.sync
  <2>1. /\ view \in ViewState /\ view.out = FreshView.out
        /\ \/ view = FreshView /\ FreshView.key.source = m.source
           \/ view.key.sync = m.sync /\ view.pending = (FreshView.pending /\ m.source # "S")
    BY <1>1, <1>2, <1>6, ReplaceAnswers
  <2>2. FreshView.key.source # m.source
    BY <1>6, <1>7 DEF NoSource
  <2>3. view.pending = (FreshView.pending /\ m.source # "S") => ~view.pending
    BY <1>6, Zenon
  <2> QED BY <1>6, <2>1, <2>2, <2>3
<1>9. PageAtRest /\ StartsAnew /\ KeyBefore(view, host.syncVersion + 1)
  BY <1>1, <1>2, <1>3, <1>4, <1>8 DEF PageAtRest, StartsAnew, KeyBefore
<1> QED BY <1>2, <1>5, <1>8, <1>9

LEMMA InitSatisfies ==
  ASSUME Init
  PROVE  IInv
<1>1. PICK s \in Sources : IF left.opened THEN Opened(s) ELSE Opening(s)
  BY DEF Init
<1>2. HostAtRest /\ PageAtRest /\ StartsAnew /\ KeyBefore(view, host.syncVersion + 1)
      /\ ~view.pending /\ page \in {"loading", "loaded"}
  BY <1>1, OpeningSatisfies, OpenedSatisfies
<1>3. left \in Budget /\ faulty = FALSE /\ toView = << >> /\ toHost = << >>
      /\ stream \in Executors
  BY BudgetsAssumption DEF Init, Executors
<1>4. Channels /\ SyncsCounted /\ Awaited
  BY <1>2, <1>3, NothingUnderWay DEF Channels, SyncsCounted, Awaited
<1> QED BY Zenon, <1>2, <1>3, <1>4 DEF IInv

LEMMA StepKeeps ==
  ASSUME IInv, [Next]_vars
  PROVE  IInv'
<1>1. CASE UNCHANGED vars
  BY <1>1 DEF vars, IInv, HostAtRest, PageAtRest, Channels, StartsAnew, SyncsCounted,
     Awaited, Coming, Requested, KeyBefore, Steady, Apt, Sound
<1>2. CASE Start \/ StatementStarts \/ ChunkArrives \/ Finalize
             \/ SwitchEditor \/ CancelCommand \/ ReloadPage
  BY <1>2, HostStepsKeep
<1>3. CASE HostReceives
  BY <1>3, HostReceivesKeeps
<1>4. CASE PageLoads \/ PageReady
  BY <1>4, PageStepsKeep
<1>5. CASE ViewReceives
  BY <1>5, ViewReceivesKeeps
<1>6. CASE ClickCancel \/ ClickClose
  BY <1>6, ClicksKeep
<1>7. CASE LoseEarly
  BY <1>7, LoseEarlyKeeps
<1>8. CASE Fault
  BY <1>8, FaultKeeps
<1> QED BY <1>1, <1>2, <1>3, <1>4, <1>5, <1>6, <1>7, <1>8 DEF Next

(* In every behaviour, for every set of budgets, the host shows the editor *)
(* that has the focus and keeps no sync for a source it shows, no hydrate  *)
(* is later than the syncs it has counted, and whoever waits is answered.  *)
THEOREM Invariance == Spec => []IInv
<1>1. Init => IInv
  BY InitSatisfies
<1>2. IInv /\ [Next]_vars => IInv'
  BY StepKeeps
<1> QED BY <1>1, <1>2, PTL DEF Spec

(* Every variable keeps its type, whatever the channel loses or repeats.   *)
THEOREM TypeInvariance == Spec => []TypeOK
<1>1. IInv => TypeOK
  <2> SUFFICES ASSUME IInv PROVE TypeOK
    OBVIOUS
  <2>1. /\ host \in HostState /\ host.sent <= host.version /\ host.out = << >>
        /\ host.html = FALSE
    BY DEF IInv, HostAtRest, Steady, Apt, Sound
  <2>2. Seq(Row) = Rows
    BY DEF Row, Rows
  <2>3. \A i \in DOMAIN host.results : HostResult(host.results[i])
    <3>1. host.results \in Seq(HostResults)
      BY <2>1 DEF HostState
    <3>2. \A i \in DOMAIN host.results : host.results[i] \in HostResults
      BY <3>1
    <3> QED BY <2>2, <3>2 DEF HostResults, HostResult
  <2>4. view \in ViewState
    BY DEF IInv, PageAtRest
  <2>5. \A i \in DOMAIN view.results : ShownResult(view.results[i])
    <3>1. view.results \in Seq(ShownResults)
      BY <2>4 DEF ViewState
    <3>2. \A i \in DOMAIN view.results : view.results[i] \in ShownResults
      BY <3>1
    <3> QED BY <2>2, <3>2 DEF ShownResults, ShownResult, HostResult
  <2>6. /\ host.active \in Sources /\ host.focus \in Sources
        /\ host.lastSentActive \in Sources \union {NoSource}
        /\ {host.seq, host.tracked} \subseteq Nat \union {None}
        /\ host.sent \in 0 .. host.version
    BY <2>1 DEF HostState
  <2>7. view.active \in Sources \union {NoSource}
    BY <2>4 DEF ViewState
  <2>8. stream.phase \in {"idle", "between", "started", "streaming"}
    BY DEF IInv, Executors
  <2>9. page \in {"loading", "listening", "loaded"} /\ left \in Budget /\ faulty \in BOOLEAN
    BY DEF IInv
  <2> QED BY <2>1, <2>3, <2>5, <2>6, <2>7, <2>8, <2>9 DEF TypeOK
<1> QED BY <1>1, Invariance, PTL

(* A page that waits for a hydrate of S is going to get one, for every     *)
(* set of budgets: any number of executions, reloads, switches, faults.    *)
THEOREM SyncRemembered == Spec => []NoSyncForgotten
<1>1. IInv => NoSyncForgotten
  <2> SUFFICES ASSUME IInv, view.pending
               PROVE  \/ \E i \in DOMAIN toHost : toHost[i].type \in {"requestResultSync", "ready"}
                      \/ host.pendingSync /\ host.active # "S"
                      \/ \E i \in DOMAIN toView : toView[i].type = "hydrate" /\ toView[i].source = "S"
    BY DEF NoSyncForgotten
  <2>1. Requested(toHost) \/ host.pendingSync \/ Coming(view, toView)
    BY DEF IInv, Awaited
  <2>2. host.pendingSync => host.active # "S"
    BY DEF IInv, HostAtRest, Steady, Apt
  <2> QED BY <2>1, <2>2 DEF Requested, Coming, IsSync
<1> QED BY <1>1, Invariance, PTL

----------------------------------------------------------------------------
(* Which rows are where.  Row k of statement id is << id, k >>, so a list  *)
(* of rows of one statement is in order if it says so of each position.    *)

Pure(r) == \A k \in DOMAIN r.rows : r.rows[k] = << r.id, k >>
AllPure(rs) == \A i \in DOMAIN rs : Pure(rs[i])

(* A statement of which there may be rows, and one that has ended.         *)
Begun(id, st) == id \in 1 .. st.id /\ (st.phase = "started" => id < st.id)
Ended(id, st) == id \in 1 .. st.id /\ (st.phase \in {"started", "streaming"} => id < st.id)

AtMost(rs, id, n) == \A j \in DOMAIN rs : rs[j].id = id => Len(rs[j].rows) <= n

(* The host's results, and the one its statement adds to.                  *)
ResultsFit(h, st) ==
  /\ AllPure(h.results)
  /\ \A i \in DOMAIN h.results : Begun(h.results[i].id, st)
  /\ \A i, j \in DOMAIN h.results : i < j => h.results[i].id < h.results[j].id

TrackedFits(h, st) ==
  LET n == Len(h.results) IN
  /\ st.phase = "streaming" /\ h.tracked = st.id /\ st.id > 0
  /\ n > 0 /\ h.results[n].id = st.id /\ Len(h.results[n].rows) <= st.rows
  /\ ~h.cancelled => Len(h.results[n].rows) = st.rows /\ h.seq \in Nat

ExecutorFits(h, st) ==
  /\ st.phase = "started" => st.rows = 0
  /\ st.phase \in {"started", "streaming"} => st.id > 0
  /\ st.phase # "idle" => h.executing \/ h.cancelled
  /\ st.phase = "streaming" /\ ~h.cancelled => h.tracked > 0
  /\ h.tracked > 0 => TrackedFits(h, st)

HostFits(h, st) == ResultsFit(h, st) /\ ExecutorFits(h, st)

(* Messages under way.  A barrier makes the page forget its cursor.        *)
IsChunk(m) == m.type = "appendRows"
IsEnd(m) == m.type = "streamingComplete"
Placed(m) == IsChunk(m) \/ IsEnd(m)
IsBarrier(m) == m.type = "cancelExecution" \/ (m.type = "setActiveSource" /\ m.source = "O")
Between(q, p, s) == \E r \in DOMAIN q : p < r /\ r < s /\ IsBarrier(q[r])
After(q, p) == \E r \in DOMAIN q : p < r /\ IsBarrier(q[r])

Hides(h) == h.active = "O" \/ h.cancelled
Grows(h) == h.tracked > 0 /\ ~h.cancelled

ChunkFits(m, st) ==
  /\ m.from <= m.total /\ Len(m.rows) = m.total - m.from
  /\ \A k \in DOMAIN m.rows : m.rows[k] = << m.id, m.from + k >>
  /\ Begun(m.id, st)

(* The chunk at p is followed by a barrier if later rows of its statement  *)
(* may never have been sent.                                               *)
ChunkInStep(q, p, h, st) ==
  /\ Hides(h) => After(q, p)
  /\ Grows(h) /\ q[p].id = h.tracked =>
       /\ q[p].seq < h.seq
       /\ q[p].seq + 1 = h.seq => q[p].total = st.rows \/ After(q, p)

EndFits(q, p, h, st) ==
  /\ Ended(q[p].id, st) /\ AtMost(h.results, q[p].id, q[p].total)
  /\ \A r \in DOMAIN q : IsChunk(q[r]) /\ q[r].id = q[p].id =>
       /\ r < p
       /\ q[r].seq = q[p].last => q[r].total = q[p].total \/ Between(q, r, p)

PlaceFits(q, p, h) ==
  /\ h.tracked = q[p].id => q[p].index = Len(h.results)
  /\ \A r \in DOMAIN q : Placed(q[r]) /\ q[r].id = q[p].id => q[r].index = q[p].index

MessagesFit(q, h, st) ==
  \A p \in DOMAIN q :
    /\ q[p].type = "hydrate" => AllPure(q[p].results)
    /\ Placed(q[p]) => PlaceFits(q, p, h)
    /\ IsChunk(q[p]) => ChunkFits(q[p], st) /\ ChunkInStep(q, p, h, st)
    /\ IsEnd(q[p]) => EndFits(q, p, h, st)

(* The page: what it shows, or has kept for later, and where its cursor    *)
(* stands.                                                                 *)
Over(id, q, st) ==
  Ended(id, st) /\ \A p \in DOMAIN q : IsChunk(q[p]) => q[p].id # id

ShownFits(r, q, h, st) ==
  /\ Pure(r)
  /\ r.total = Len(r.rows) \/ Over(r.id, q, st)
  /\ r.complete /\ ~r.cancelled =>
       Over(r.id, q, st) /\ AtMost(h.results, r.id, Len(r.rows))

AllShownFit(rs, q, h, st) == \A i \in DOMAIN rs : ShownFits(rs[i], q, h, st)

Live(v) == v.active # "O" /\ v.cursor # NoCursor /\ ~v.cursor.lost /\ ~v.cursor.terminal

StandsAt(v, k) ==
  k \in DOMAIN v.results =>
    /\ v.results[k].id = v.cursor.id
    /\ v.results[k].cancelled \/ Len(v.results[k].rows) = v.cursor.row

CursorFits(v, q, h, st) ==
  /\ v.log /\ Begun(v.cursor.id, st)
  /\ \A p \in DOMAIN q : Placed(q[p]) /\ q[p].id = v.cursor.id => StandsAt(v, q[p].index)
  /\ h.tracked = v.cursor.id => StandsAt(v, Len(h.results))
  /\ Hides(h) => After(q, 0)
  /\ Grows(h) /\ h.tracked = v.cursor.id =>
       /\ v.cursor.next <= h.seq
       /\ v.cursor.next = h.seq => v.cursor.row = st.rows \/ After(q, 0)
  /\ \A p \in DOMAIN q : IsEnd(q[p]) /\ q[p].id = v.cursor.id /\ v.cursor.next = q[p].last + 1 =>
       v.cursor.row = q[p].total \/ Between(q, 0, p)

ViewFits(v, q, h, st) ==
  /\ AllShownFit(v.results, q, h, st)
  /\ \A s \in Sources : AllShownFit(v.cache[s].results, q, h, st)
  /\ Live(v) => CursorFits(v, q, h, st)

NothingCloses ==
  "close" \notin left.kinds /\ \A i \in DOMAIN toHost : toHost[i].type # "closeResult"

InOrder ==
  /\ NothingCloses
  /\ HostFits(host, stream)
  /\ MessagesFit(toView, host, stream)
  /\ ViewFits(view, toView, host, stream)

----------------------------------------------------------------------------
(* Barriers, when messages are added at the end or taken from the front.   *)

Told(out) == \E r \in DOMAIN out : IsBarrier(out[r])

LEMMA BarriersStay ==
  ASSUME NEW q \in Seq(ToView), NEW out \in Seq(ToView)
  PROVE  /\ \A p : After(q, p) => After(q \o out, p)
         /\ \A r, p : Between(q, r, p) => Between(q \o out, r, p)
         /\ Told(out) => \A p \in 0 .. Len(q) : After(q \o out, p)
         /\ \A r, p \in Nat : After(q, r) /\ Len(q) < p => Between(q \o out, r, p)
<1> DEFINE s == q \o out
<1>1. /\ \A i \in DOMAIN q : i \in DOMAIN s /\ s[i] = q[i]
      /\ \A i \in DOMAIN out : Len(q) + i \in DOMAIN s /\ s[Len(q) + i] = out[i]
  BY ConcatIs
<1>2. DOMAIN q = 1 .. Len(q) /\ DOMAIN out = 1 .. Len(out) /\ Len(q) \in Nat /\ Len(out) \in Nat
  OBVIOUS
<1> HIDE DEF s
<1>3. \A p : After(q, p) => After(s, p)
  BY <1>1 DEF After
<1>4. \A r, p : Between(q, r, p) => Between(s, r, p)
  BY <1>1 DEF Between
<1>5. Told(out) => \A p \in 0 .. Len(q) : After(s, p)
  BY <1>1, <1>2 DEF After, Told
<1>6. ASSUME NEW r \in Nat, NEW p \in Nat, After(q, r), Len(q) < p
      PROVE  Between(s, r, p)
  <2>1. PICK i \in DOMAIN q : r < i /\ IsBarrier(q[i])
    BY <1>6 DEF After
  <2>2. i < p
    BY <1>2, <1>6, <2>1
  <2> QED BY <1>1, <2>1, <2>2 DEF Between
<1> QED BY <1>3, <1>4, <1>5, <1>6 DEF s

LEMMA BarriersOfTail ==
  ASSUME NEW q \in Seq(ToView), q # << >>
  PROVE  /\ \A p \in Nat : After(q, p + 1) => After(Tail(q), p)
         /\ \A r, p \in Nat : Between(q, r + 1, p + 1) => Between(Tail(q), r, p)
         /\ ~IsBarrier(q[1]) /\ After(q, 0) => After(Tail(q), 0)
         /\ \A p \in Nat : ~IsBarrier(q[1]) /\ Between(q, 0, p + 1) => Between(Tail(q), 0, p)
<1> DEFINE t == Tail(q)
<1>1. /\ \A i \in DOMAIN q : i # 1 => i - 1 \in DOMAIN t /\ t[i - 1] = q[i]
      /\ DOMAIN q = 1 .. Len(q) /\ Len(q) \in Nat
  BY TailIs
<1> HIDE DEF t
<1>2. ASSUME NEW p \in Nat, After(q, p + 1)
      PROVE  After(t, p)
  BY <1>1, <1>2 DEF After
<1>3. ASSUME NEW r \in Nat, NEW p \in Nat, Between(q, r + 1, p + 1)
      PROVE  Between(t, r, p)
  BY <1>1, <1>3 DEF Between
<1>4. ASSUME ~IsBarrier(q[1]), After(q, 0)
      PROVE  After(t, 0)
  BY <1>1, <1>4 DEF After
<1>5. ASSUME NEW p \in Nat, ~IsBarrier(q[1]), Between(q, 0, p + 1)
      PROVE  Between(t, 0, p)
  BY <1>1, <1>5 DEF Between
<1> QED BY <1>2, <1>3, <1>4, <1>5 DEF t

----------------------------------------------------------------------------
(* A step of the host, from h and the executor st to g and st2, posts out: *)
(* what the messages before it and the page are to find unchanged, and     *)
(* what is true of the messages posted.                                    *)

Onward(h, st, g, st2, told) ==
  /\ \A id \in Nat : (Begun(id, st) => Begun(id, st2)) /\ (Ended(id, st) => Ended(id, st2))
  /\ g.tracked > 0 => \/ g.tracked = h.tracked /\ Len(g.results) = Len(h.results)
                      \/ ~Begun(g.tracked, st)
  /\ Hides(g) => Hides(h) \/ told
  /\ Grows(g) /\ Begun(g.tracked, st) =>
       /\ Grows(h)
       /\ \/ g.seq = h.seq /\ (st2.rows = st.rows \/ Hides(h))
          \/ g.seq = h.seq + 1
  /\ \A id, n \in Nat : Ended(id, st) /\ AtMost(h.results, id, n) => AtMost(g.results, id, n)

EndsWell(m, h, st) ==
  Begun(m.id, st) =>
    \/ Hides(h)
    \/ Grows(h) /\ h.seq < m.last + 1
    \/ Grows(h) /\ h.seq = m.last + 1 /\ m.total = st.rows

Tells(out, h, st, g, st2) ==
  \A i \in DOMAIN out :
    /\ out[i].type = "hydrate" => AllPure(out[i].results)
    /\ Placed(out[i]) =>
         /\ out[i].id = st.id /\ ~Ended(st.id, st) /\ out[i].index = Len(g.results)
         /\ Begun(st.id, st) => h.tracked = st.id /\ Len(g.results) = Len(h.results)
    /\ IsChunk(out[i]) =>
         /\ ChunkFits(out[i], st2) /\ ~Hides(g)
         /\ Grows(g) /\ g.tracked = out[i].id =>
              out[i].seq < g.seq /\ (out[i].seq + 1 = g.seq => out[i].total = st2.rows)
    /\ IsEnd(out[i]) =>
         /\ Ended(out[i].id, st2) /\ AtMost(g.results, out[i].id, out[i].total)
         /\ EndsWell(out[i], h, st)
         /\ \A j \in DOMAIN out : IsChunk(out[j]) => j < i /\ out[j].total = out[i].total

LEMMA EndedHasBegun ==
  ASSUME NEW id, NEW st, Ended(id, st)
  PROVE  Begun(id, st)
BY DEF Ended, Begun

LEMMA PlacedTypes ==
  ASSUME NEW m \in ToView
  PROVE  /\ IsChunk(m) => m \in Appends
         /\ IsEnd(m) => m \in Completions
         /\ Placed(m) => m.id \in Nat /\ m.index \in Nat /\ m.total \in Nat
BY DEF ToView, Hydrates, Switches, Appends, Completions, IsChunk, IsEnd, Placed

LEMMA PlacedHasBegun ==
  ASSUME NEW q, NEW h, NEW st, MessagesFit(q, h, st), NEW p \in DOMAIN q, Placed(q[p])
  PROVE  Begun(q[p].id, st)
BY EndedHasBegun DEF MessagesFit, Placed, ChunkFits, EndFits

LEMMA OldMessagesFit ==
  ASSUME NEW q \in Seq(ToView), NEW out \in Seq(ToView), NEW h \in HostState, NEW g \in HostState,
         NEW st \in Executors, NEW st2 \in Executors,
         ExecutorFits(h, st), MessagesFit(q, h, st),
         Onward(h, st, g, st2, Told(out)), Tells(out, h, st, g, st2),
         NEW p \in DOMAIN q
  PROVE  /\ Placed(q[p]) => PlaceFits(q \o out, p, g)
         /\ IsChunk(q[p]) => ChunkFits(q[p], st2) /\ ChunkInStep(q \o out, p, g, st2)
         /\ IsEnd(q[p]) => EndFits(q \o out, p, g, st2)
<1> DEFINE s == q \o out
           m == q[p]
<1>1. /\ m \in ToView /\ p \in Nat /\ p \in 0 .. Len(q) /\ s[p] = m
      /\ \A r \in DOMAIN q : s[r] = q[r]
      /\ \A r \in DOMAIN s : \/ r \in DOMAIN q /\ s[r] = q[r]
                             \/ r - Len(q) \in DOMAIN out /\ s[r] = out[r - Len(q)]
  BY ConcatIs
<1>2. /\ \A i : After(q, i) => After(s, i)
      /\ \A r, i : Between(q, r, i) => Between(s, r, i)
      /\ Told(out) => After(s, p)
  BY <1>1, BarriersStay
<1> HIDE DEF s
<1>3. g.seq \in Nat \union {None} /\ h.seq \in Nat \union {None} /\ st.rows \in Nat /\ st2.rows \in Nat
      /\ h.tracked \in Nat \union {None} /\ g.tracked \in Nat \union {None}
  BY DEF HostState, Executors
<1>4. ASSUME Placed(m)
      PROVE  m.id \in Nat /\ m.id > 0 /\ Begun(m.id, st) /\ Begun(m.id, st2) /\ PlaceFits(s, p, g)
  <2>1. m.id \in Nat /\ Begun(m.id, st)
    BY <1>1, <1>4, PlacedTypes, PlacedHasBegun
  <2>2. m.id > 0 /\ Begun(m.id, st2)
    BY <2>1 DEF Onward, Begun
  <2>3. PlaceFits(q, p, h)
    BY <1>4 DEF MessagesFit
  <2>4. g.tracked = m.id => m.index = Len(g.results)
    BY <1>3, <2>1, <2>2, <2>3 DEF Onward, PlaceFits
  <2>5. ASSUME NEW r \in DOMAIN s, Placed(s[r]), s[r].id = m.id
        PROVE  s[r].index = m.index
    <3>1. CASE r \in DOMAIN q /\ s[r] = q[r]
      BY <2>3, <2>5, <3>1 DEF PlaceFits
    <3>2. CASE r - Len(q) \in DOMAIN out /\ s[r] = out[r - Len(q)]
      <4>1. m.id = st.id /\ s[r].index = Len(g.results)
            /\ (Begun(st.id, st) => h.tracked = st.id /\ Len(g.results) = Len(h.results))
        BY <2>5, <3>2 DEF Tells
      <4> QED BY <2>1, <2>3, <4>1 DEF PlaceFits
    <3> QED BY <1>1, <3>1, <3>2
  <2> QED BY <1>1, <2>1, <2>2, <2>4, <2>5 DEF PlaceFits
<1>5. ASSUME IsChunk(m)
      PROVE  ChunkFits(m, st2) /\ ChunkInStep(s, p, g, st2)
  <2>1. ChunkFits(m, st) /\ ChunkInStep(q, p, h, st) /\ Placed(m)
    BY <1>5 DEF MessagesFit, Placed
  <2>2. ChunkFits(m, st2)
    BY <1>4, <2>1 DEF ChunkFits
  <2>3. Hides(g) => After(s, p)
    BY <1>2, <2>1 DEF ChunkInStep, Onward
  <2>4. m.seq \in Nat
    BY <1>1, <1>5, PlacedTypes DEF Appends
  <2>5. ASSUME Grows(g), m.id = g.tracked
        PROVE  m.seq < g.seq /\ (m.seq + 1 = g.seq => m.total = st2.rows \/ After(s, p))
    <3>1. /\ Grows(h) /\ g.tracked = h.tracked
          /\ \/ g.seq = h.seq /\ (st2.rows = st.rows \/ Hides(h))
             \/ g.seq = h.seq + 1
      BY <1>4, <2>1, <2>5 DEF Onward
    <3>2. /\ m.seq < h.seq
          /\ m.seq + 1 = h.seq => m.total = st.rows \/ After(q, p)
          /\ Hides(h) => After(q, p)
      BY <2>1, <2>5, <3>1 DEF ChunkInStep
    <3>3. h.seq \in Nat
      BY <3>1 DEF ExecutorFits, TrackedFits, Grows
    <3> QED BY <1>2, <2>4, <3>1, <3>2, <3>3
  <2> QED BY <1>1, <2>2, <2>3, <2>5 DEF ChunkInStep
<1>6. ASSUME IsEnd(m)
      PROVE  EndFits(s, p, g, st2)
  <2>1. EndFits(q, p, h, st) /\ m.id \in Nat /\ m.total \in Nat
    BY <1>1, <1>6, PlacedTypes DEF MessagesFit, Placed
  <2>2. Ended(m.id, st2) /\ AtMost(g.results, m.id, m.total) /\ Ended(m.id, st)
    BY <2>1 DEF EndFits, Onward
  <2>3. ASSUME NEW r \in DOMAIN s, IsChunk(s[r]), s[r].id = m.id
        PROVE  r < p /\ (s[r].seq = m.last => s[r].total = m.total \/ Between(s, r, p))
    <3>1. CASE r \in DOMAIN q /\ s[r] = q[r]
      BY <1>2, <2>1, <2>3, <3>1 DEF EndFits
    <3>2. CASE r - Len(q) \in DOMAIN out /\ s[r] = out[r - Len(q)]
      BY <2>2, <2>3, <3>2 DEF Tells, Placed
    <3> QED BY <1>1, <3>1, <3>2
  <2> QED BY <1>1, <2>2, <2>3 DEF EndFits
<1> QED BY <1>4, <1>5, <1>6 DEF s

LEMMA NewMessagesFit ==
  ASSUME NEW q \in Seq(ToView), NEW out \in Seq(ToView), NEW h \in HostState, NEW g \in HostState,
         NEW st \in Executors, NEW st2 \in Executors,
         ExecutorFits(h, st), MessagesFit(q, h, st),
         Onward(h, st, g, st2, Told(out)), Tells(out, h, st, g, st2),
         NEW i \in DOMAIN out
  PROVE  /\ Placed(out[i]) => PlaceFits(q \o out, Len(q) + i, g)
         /\ IsChunk(out[i]) =>
              ChunkFits(out[i], st2) /\ ChunkInStep(q \o out, Len(q) + i, g, st2)
         /\ IsEnd(out[i]) => EndFits(q \o out, Len(q) + i, g, st2)
<1> DEFINE s == q \o out
           m == out[i]
           p == Len(q) + i
<1>1. /\ m \in ToView /\ p \in Nat /\ Len(q) < p /\ s[p] = m /\ Len(q) \in Nat /\ i \in Nat
      /\ DOMAIN q = 1 .. Len(q)
      /\ \A r \in DOMAIN s : \/ r \in DOMAIN q /\ s[r] = q[r]
                             \/ r - Len(q) \in DOMAIN out /\ s[r] = out[r - Len(q)] /\ r \in Nat
  BY ConcatIs
<1>2. \A r \in Nat : After(q, r) => Between(s, r, p)
  BY <1>1, BarriersStay
<1> HIDE DEF s, p
<1>3. ASSUME Placed(m)
      PROVE  PlaceFits(s, p, g)
  <2>1. /\ m.id = st.id /\ m.index = Len(g.results)
        /\ (Begun(st.id, st) => h.tracked = st.id /\ Len(g.results) = Len(h.results))
    BY <1>3 DEF Tells
  <2>2. ASSUME NEW r \in DOMAIN s, Placed(s[r]), s[r].id = m.id
        PROVE  s[r].index = m.index
    <3>1. CASE r \in DOMAIN q /\ s[r] = q[r]
      <4>1. Begun(st.id, st)
        BY <2>1, <2>2, <3>1, PlacedHasBegun
      <4>2. PlaceFits(q, r, h)
        BY <2>2, <3>1 DEF MessagesFit
      <4> QED BY <2>1, <2>2, <3>1, <4>1, <4>2 DEF PlaceFits
    <3>2. CASE r - Len(q) \in DOMAIN out /\ s[r] = out[r - Len(q)]
      <4>1. s[r].index = Len(g.results)
        BY <2>2, <3>2 DEF Tells
      <4> QED BY <2>1, <4>1
    <3> QED BY <1>1, <3>1, <3>2
  <2> QED BY <1>1, <2>1, <2>2 DEF PlaceFits
<1>4. ASSUME IsChunk(m)
      PROVE  ChunkFits(m, st2) /\ ChunkInStep(s, p, g, st2)
  BY <1>1, <1>4 DEF Tells, ChunkInStep
<1>5. ASSUME IsEnd(m)
      PROVE  EndFits(s, p, g, st2)
  <2>1. /\ Ended(m.id, st2) /\ AtMost(g.results, m.id, m.total) /\ EndsWell(m, h, st)
        /\ \A j \in DOMAIN out : IsChunk(out[j]) => j < i /\ out[j].total = m.total
    BY <1>5 DEF Tells
  <2>2. m.last \in Nat
    BY <1>1, <1>5, PlacedTypes DEF Completions
  <2>3. ASSUME NEW r \in DOMAIN s, IsChunk(s[r]), s[r].id = m.id
        PROVE  r < p /\ (s[r].seq = m.last => s[r].total = m.total \/ Between(s, r, p))
    <3>1. CASE r \in DOMAIN q /\ s[r] = q[r]
      <4>1. r < p /\ r \in Nat
        BY <1>1, <3>1
      <4>2. Begun(m.id, st) /\ ChunkInStep(q, r, h, st)
        BY Zenon, <2>3, <3>1, PlacedHasBegun DEF Placed, MessagesFit
      <4>3. /\ m.id = st.id
            /\ (Begun(st.id, st) => h.tracked = st.id /\ Len(g.results) = Len(h.results))
        BY <1>5 DEF Tells, Placed
      <4>4. q[r].seq \in Nat
        BY <2>3, <3>1, PlacedTypes DEF Appends
      <4>5. CASE Hides(h)
        BY <1>2, <4>1, <4>2, <4>5 DEF ChunkInStep
      <4>6. CASE Grows(h) /\ (h.seq < m.last + 1 \/ (h.seq = m.last + 1 /\ m.total = st.rows))
        <5>1. /\ q[r].seq < h.seq /\ h.seq \in Nat
              /\ q[r].seq + 1 = h.seq => q[r].total = st.rows \/ After(q, r)
          BY <2>3, <3>1, <4>2, <4>3, <4>6 DEF ChunkInStep, ExecutorFits, TrackedFits, Grows
        <5> QED BY <1>2, <2>2, <3>1, <4>1, <4>4, <4>6, <5>1
      <4> QED BY <2>1, <4>1, <4>2, <4>5, <4>6 DEF EndsWell
    <3>2. CASE r - Len(q) \in DOMAIN out /\ s[r] = out[r - Len(q)] /\ r \in Nat
      <4>1. r - Len(q) < i /\ s[r].total = m.total
        BY <2>1, <2>3, <3>2
      <4> QED BY <1>1, <3>2, <4>1 DEF p
    <3> QED BY <1>1, <3>1, <3>2
  <2> QED BY <1>1, <2>1, <2>3 DEF EndFits
<1> QED BY <1>3, <1>4, <1>5 DEF s, p

LEMMA MessagesStayFit ==
  ASSUME NEW q \in Seq(ToView), NEW out \in Seq(ToView), NEW h \in HostState, NEW g \in HostState,
         NEW st \in Executors, NEW st2 \in Executors,
         ExecutorFits(h, st), MessagesFit(q, h, st),
         Onward(h, st, g, st2, Told(out)), Tells(out, h, st, g, st2)
  PROVE  MessagesFit(q \o out, g, st2)
<1> DEFINE s == q \o out
<1> SUFFICES ASSUME NEW p \in DOMAIN s
             PROVE  /\ s[p].type = "hydrate" => AllPure(s[p].results)
                    /\ Placed(s[p]) => PlaceFits(s, p, g)
                    /\ IsChunk(s[p]) => ChunkFits(s[p], st2) /\ ChunkInStep(s, p, g, st2)
                    /\ IsEnd(s[p]) => EndFits(s, p, g, st2)
  BY DEF MessagesFit
<1>1. CASE p \in DOMAIN q /\ s[p] = q[p]
  <2>1. q[p].type = "hydrate" => AllPure(q[p].results)
    BY <1>1 DEF MessagesFit
  <2> QED BY <1>1, <2>1, OldMessagesFit
<1>2. CASE p - Len(q) \in DOMAIN out /\ s[p] = out[p - Len(q)]
  <2>1. out[p - Len(q)].type = "hydrate" => AllPure(out[p - Len(q)].results)
    BY <1>2 DEF Tells
  <2>2. p = Len(q) + (p - Len(q))
    BY <1>2
  <2>3. \A i \in DOMAIN out :
          /\ Placed(out[i]) => PlaceFits(s, Len(q) + i, g)
          /\ IsChunk(out[i]) => ChunkFits(out[i], st2) /\ ChunkInStep(s, Len(q) + i, g, st2)
          /\ IsEnd(out[i]) => EndFits(s, Len(q) + i, g, st2)
    BY NewMessagesFit
  <2> HIDE DEF s
  <2> QED BY <1>2, <2>1, <2>2, <2>3
<1> QED BY <1>1, <1>2, ConcatIs

LEMMA OverStays ==
  ASSUME NEW q \in Seq(ToView), NEW out \in Seq(ToView), NEW h, NEW g, NEW st, NEW st2,
         Onward(h, st, g, st2, Told(out)), Tells(out, h, st, g, st2),
         NEW id \in Nat, Over(id, q, st)
  PROVE  Over(id, q \o out, st2)
<1> DEFINE s == q \o out
<1>1. Ended(id, st) /\ Ended(id, st2)
  BY DEF Over, Onward
<1>2. ASSUME NEW p \in DOMAIN s, IsChunk(s[p])
      PROVE  s[p].id # id
  <2>1. CASE p \in DOMAIN q /\ s[p] = q[p]
    BY <1>2, <2>1 DEF Over
  <2>2. CASE p - Len(q) \in DOMAIN out /\ s[p] = out[p - Len(q)]
    BY <1>1, <1>2, <2>2 DEF Tells, Placed
  <2> QED BY <2>1, <2>2, ConcatIs
<1> QED BY <1>1, <1>2 DEF Over

LEMMA ShownStayFit ==
  ASSUME NEW q \in Seq(ToView), NEW out \in Seq(ToView), NEW h, NEW g, NEW st, NEW st2,
         Onward(h, st, g, st2, Told(out)), Tells(out, h, st, g, st2),
         NEW rs \in Seq(ShownResults), AllShownFit(rs, q, h, st)
  PROVE  AllShownFit(rs, q \o out, g, st2)
<1> SUFFICES ASSUME NEW i \in DOMAIN rs
             PROVE  ShownFits(rs[i], q \o out, g, st2)
  BY DEF AllShownFit
<1>1. rs[i] \in ShownResults
  OBVIOUS
<1>2. rs[i].id \in Nat /\ Len(rs[i].rows) \in Nat
  BY <1>1 DEF ShownResults
<1>3. ShownFits(rs[i], q, h, st)
  BY DEF AllShownFit
<1>4. Over(rs[i].id, q, st) => Over(rs[i].id, q \o out, st2) /\ Ended(rs[i].id, st)
  BY <1>2, OverStays DEF Over
<1>5. Ended(rs[i].id, st) /\ AtMost(h.results, rs[i].id, Len(rs[i].rows))
        => AtMost(g.results, rs[i].id, Len(rs[i].rows))
  BY <1>2 DEF Onward
<1> QED BY <1>3, <1>4, <1>5 DEF ShownFits

LEMMA CursorStaysFit ==
  ASSUME NEW q \in Seq(ToView), NEW out \in Seq(ToView), NEW h \in HostState, NEW g \in HostState,
         NEW st \in Executors, NEW st2 \in Executors,
         ExecutorFits(h, st),
         Onward(h, st, g, st2, Told(out)), Tells(out, h, st, g, st2),
         NEW v \in ViewState, Live(v), CursorFits(v, q, h, st)
  PROVE  CursorFits(v, q \o out, g, st2)
<1> DEFINE s == q \o out
           c == v.cursor
<1>1. /\ \A r \in DOMAIN s : \/ r \in DOMAIN q /\ s[r] = q[r]
                             \/ r - Len(q) \in DOMAIN out /\ s[r] = out[r - Len(q)]
      /\ DOMAIN q = 1 .. Len(q) /\ Len(q) \in Nat /\ DOMAIN out = 1 .. Len(out) /\ Len(out) \in Nat
  BY ConcatIs
<1>2. /\ After(q, 0) => After(s, 0)
      /\ \A r : Between(q, 0, r) => Between(s, 0, r)
      /\ Told(out) => After(s, 0)
      /\ \A r \in Nat : After(q, 0) /\ Len(q) < r => Between(s, 0, r)
  BY BarriersStay
<1>3. s \in Seq(ToView)
  BY ConcatIs
<1> HIDE DEF s
<1>4. /\ c.id \in Nat /\ c.next \in Nat \union {-1} /\ g.tracked \in Nat \union {None}
      /\ g.seq \in Nat \union {None} /\ h.seq \in Nat \union {None}
  BY Zenon DEF ViewState, Cursors, HostState
<1>5. v.log /\ Begun(c.id, st) /\ Begun(c.id, st2) /\ c.id > 0
  BY <1>4 DEF CursorFits, Onward, Begun
<1>6. ASSUME NEW i \in DOMAIN out, Placed(out[i]), out[i].id = c.id
      PROVE  h.tracked = c.id /\ c.id = st.id /\ out[i].index = Len(h.results)
  BY <1>5, <1>6 DEF Tells
<1>7. ASSUME NEW p \in DOMAIN s, Placed(s[p]), s[p].id = c.id
      PROVE  StandsAt(v, s[p].index)
  BY <1>1, <1>6, <1>7 DEF CursorFits
<1>8. g.tracked = c.id => StandsAt(v, Len(g.results))
  BY <1>4, <1>5 DEF CursorFits, Onward
<1>9. Hides(g) => After(s, 0)
  BY <1>2 DEF CursorFits, Onward
<1>10. ASSUME Grows(g), g.tracked = c.id
       PROVE  c.next <= g.seq /\ (c.next = g.seq => c.row = st2.rows \/ After(s, 0))
  <2>1. /\ Grows(h) /\ h.tracked = c.id
        /\ \/ g.seq = h.seq /\ (st2.rows = st.rows \/ Hides(h))
           \/ g.seq = h.seq + 1
    BY <1>5, <1>10 DEF Onward
  <2>2. /\ c.next <= h.seq
        /\ c.next = h.seq => c.row = st.rows \/ After(q, 0)
        /\ Hides(h) => After(q, 0)
    BY <2>1 DEF CursorFits
  <2>3. h.seq \in Nat
    BY <2>1 DEF ExecutorFits, TrackedFits, Grows
  <2> QED BY <1>2, <1>4, <2>1, <2>2, <2>3
<1>11. ASSUME NEW p \in DOMAIN s, IsEnd(s[p]), s[p].id = c.id, c.next = s[p].last + 1
       PROVE  c.row = s[p].total \/ Between(s, 0, p)
  <2>1. CASE p \in DOMAIN q /\ s[p] = q[p]
    BY <1>2, <1>11, <2>1 DEF CursorFits
  <2>2. CASE p - Len(q) \in DOMAIN out /\ s[p] = out[p - Len(q)]
    <3>1. p \in Nat /\ Len(q) < p
      BY <1>1, <2>2
    <3>2. EndsWell(s[p], h, st) /\ h.tracked = c.id
      BY <1>6, <1>11, <2>2 DEF Tells, Placed
    <3>3. s[p].last \in Nat
      BY <1>3, <1>11, PlacedTypes DEF Completions
    <3>4. CASE Hides(h)
      BY <1>2, <3>1, <3>4 DEF CursorFits
    <3>5. CASE Grows(h) /\ (h.seq < s[p].last + 1 \/ (h.seq = s[p].last + 1 /\ s[p].total = st.rows))
      <4>1. /\ c.next <= h.seq /\ h.seq \in Nat
            /\ c.next = h.seq => c.row = st.rows \/ After(q, 0)
        BY <3>2, <3>5 DEF CursorFits, ExecutorFits, TrackedFits, Grows
      <4> QED BY <1>2, <1>11, <3>1, <3>3, <3>5, <4>1
    <3> QED BY <1>5, <1>11, <3>2, <3>4, <3>5 DEF EndsWell
  <2> QED BY <1>1, <2>1, <2>2
<1> QED BY Zenon, <1>5, <1>7, <1>8, <1>9, <1>10, <1>11 DEF CursorFits, s

LEMMA ViewStaysFit ==
  ASSUME NEW q \in Seq(ToView), NEW out \in Seq(ToView), NEW h \in HostState, NEW g \in HostState,
         NEW st \in Executors, NEW st2 \in Executors,
         ExecutorFits(h, st),
         Onward(h, st, g, st2, Told(out)), Tells(out, h, st, g, st2),
         NEW v \in ViewState, ViewFits(v, q, h, st)
  PROVE  ViewFits(v, q \o out, g, st2)
<1>1. v.results \in Seq(ShownResults) /\ \A s \in Sources : v.cache[s].results \in Seq(ShownResults)
  BY DEF ViewState, Contents
<1>2. AllShownFit(v.results, q \o out, g, st2)
  BY <1>1, ShownStayFit DEF ViewFits
<1>3. \A s \in Sources : AllShownFit(v.cache[s].results, q \o out, g, st2)
  BY <1>1, ShownStayFit DEF ViewFits
<1>4. Live(v) => CursorFits(v, q \o out, g, st2)
  BY CursorStaysFit DEF ViewFits
<1> QED BY <1>2, <1>3, <1>4 DEF ViewFits

LEMMA FreshViewFits ==
  ASSUME NEW q, NEW h, NEW st
  PROVE  ViewFits(FreshView, q, h, st)
BY DEF ViewFits, FreshView, NoContent, AllShownFit, Live

----------------------------------------------------------------------------
(* The page reads its messages.                                            *)

LEMMA TailDomain ==
  ASSUME NEW q \in Seq(ToView), q # << >>
  PROVE  /\ Tail(q) \in Seq(ToView) /\ 1 \in DOMAIN q /\ Head(q) = q[1]
         /\ \A i \in DOMAIN Tail(q) : /\ i \in Nat /\ i > 0 /\ i + 1 \in DOMAIN q
                                      /\ Tail(q)[i] = q[i + 1]
BY TailIs

LEMMA FewerMessagesFit ==
  ASSUME NEW q \in Seq(ToView), q # << >>, NEW h, NEW st, MessagesFit(q, h, st)
  PROVE  MessagesFit(Tail(q), h, st)
<1> DEFINE t == Tail(q)
<1>1. /\ t \in Seq(ToView) /\ \A i \in DOMAIN t : i \in Nat /\ i > 0 /\ i + 1 \in DOMAIN q
                                                 /\ t[i] = q[i + 1]
  BY TailDomain
<1>2. /\ \A p \in Nat : After(q, p + 1) => After(t, p)
      /\ \A r, p \in Nat : Between(q, r + 1, p + 1) => Between(t, r, p)
  BY BarriersOfTail
<1> HIDE DEF t
<1> SUFFICES ASSUME NEW p \in DOMAIN t
             PROVE  /\ t[p].type = "hydrate" => AllPure(t[p].results)
                    /\ Placed(t[p]) => PlaceFits(t, p, h)
                    /\ IsChunk(t[p]) => ChunkFits(t[p], st) /\ ChunkInStep(t, p, h, st)
                    /\ IsEnd(t[p]) => EndFits(t, p, h, st)
  BY DEF MessagesFit, t
<1>3. /\ q[p + 1].type = "hydrate" => AllPure(q[p + 1].results)
      /\ Placed(q[p + 1]) => PlaceFits(q, p + 1, h)
      /\ IsChunk(q[p + 1]) => ChunkFits(q[p + 1], st) /\ ChunkInStep(q, p + 1, h, st)
      /\ IsEnd(q[p + 1]) => EndFits(q, p + 1, h, st)
  BY <1>1 DEF MessagesFit
<1>4. Placed(t[p]) => PlaceFits(t, p, h)
  BY <1>1, <1>3 DEF PlaceFits
<1>5. IsChunk(t[p]) => ChunkFits(t[p], st) /\ ChunkInStep(t, p, h, st)
  BY <1>1, <1>2, <1>3 DEF ChunkInStep
<1>6. ASSUME IsEnd(t[p])
      PROVE  EndFits(t, p, h, st)
  <2>1. EndFits(q, p + 1, h, st)
    BY <1>1, <1>3, <1>6
  <2>2. ASSUME NEW r \in DOMAIN t, IsChunk(t[r]), t[r].id = t[p].id
        PROVE  r < p /\ (t[r].seq = t[p].last => t[r].total = t[p].total \/ Between(t, r, p))
    <3>1. /\ r + 1 < p + 1
          /\ q[r + 1].seq = q[p + 1].last =>
               q[r + 1].total = q[p + 1].total \/ Between(q, r + 1, p + 1)
      BY <1>1, <2>1, <2>2 DEF EndFits
    <3> QED BY <1>1, <1>2, <3>1
  <2> QED BY <1>1, <2>1, <2>2 DEF EndFits
<1> QED BY <1>1, <1>3, <1>4, <1>5, <1>6

LEMMA ReadShownFits ==
  ASSUME NEW q \in Seq(ToView), q # << >>, NEW h, NEW st, NEW rs, AllShownFit(rs, q, h, st)
  PROVE  AllShownFit(rs, Tail(q), h, st)
<1> DEFINE t == Tail(q)
<1>1. \A i \in DOMAIN t : i + 1 \in DOMAIN q /\ t[i] = q[i + 1]
  BY TailDomain
<1> HIDE DEF t
<1>2. \A id : Over(id, q, st) => Over(id, t, st)
  BY <1>1 DEF Over
<1>3. AllShownFit(rs, t, h, st)
  BY <1>2 DEF AllShownFit, ShownFits
<1> QED BY <1>3 DEF t

LEMMA ReadFits ==
  ASSUME NEW q \in Seq(ToView), q # << >>, NEW h, NEW st, NEW v, ViewFits(v, q, h, st),
         ~IsBarrier(q[1]) \/ ~Live(v)
  PROVE  ViewFits(v, Tail(q), h, st)
<1> DEFINE t == Tail(q)
<1>1. \A i \in DOMAIN t : i \in Nat /\ i + 1 \in DOMAIN q /\ t[i] = q[i + 1]
  BY TailDomain
<1>2. ~IsBarrier(q[1]) =>
        /\ After(q, 0) => After(t, 0)
        /\ \A p \in Nat : Between(q, 0, p + 1) => Between(t, 0, p)
  BY BarriersOfTail
<1> HIDE DEF t
<1>3. Live(v) => CursorFits(v, t, h, st)
  <2> SUFFICES ASSUME Live(v), ~IsBarrier(q[1]), CursorFits(v, q, h, st)
               PROVE  CursorFits(v, t, h, st)
    BY DEF ViewFits
  <2>1. \A p \in DOMAIN t : Placed(t[p]) /\ t[p].id = v.cursor.id => StandsAt(v, t[p].index)
    BY <1>1 DEF CursorFits
  <2>2. \A p \in DOMAIN t :
          IsEnd(t[p]) /\ t[p].id = v.cursor.id /\ v.cursor.next = t[p].last + 1 =>
            v.cursor.row = t[p].total \/ Between(t, 0, p)
    BY <1>1, <1>2 DEF CursorFits
  <2> QED BY <1>2, <2>1, <2>2 DEF CursorFits
<1>4. /\ AllShownFit(v.results, t, h, st)
      /\ \A s \in Sources : AllShownFit(v.cache[s].results, t, h, st)
  BY ReadShownFits DEF ViewFits, t
<1> QED BY <1>3, <1>4 DEF ViewFits, t

(* What is shown may stay as it is, or fade: a result is no longer marked  *)
(* as complete, or is marked as cancelled.                                 *)
Fades(r, s) ==
  /\ s.id = r.id /\ s.rows = r.rows /\ s.total = r.total
  /\ s.complete /\ ~s.cancelled => r.complete /\ ~r.cancelled
  /\ r.cancelled => s.cancelled

AllFade(rs, ss) == DOMAIN ss = DOMAIN rs /\ \A i \in DOMAIN rs : Fades(rs[i], ss[i])

Shows(v, w) == /\ w.active = v.active /\ w.log = v.log /\ w.cache = v.cache
               /\ w.cursor = v.cursor /\ AllFade(v.results, w.results)

LEMMA SameFades ==
  ASSUME NEW rs
  PROVE  AllFade(rs, rs)
BY DEF AllFade, Fades

LEMMA FadedFit ==
  ASSUME NEW rs, NEW ss, NEW q, NEW h, NEW st, AllShownFit(rs, q, h, st), AllFade(rs, ss)
  PROVE  AllShownFit(ss, q, h, st)
<1> SUFFICES ASSUME NEW i \in DOMAIN ss
             PROVE  ShownFits(ss[i], q, h, st)
  BY DEF AllShownFit
<1>1. ShownFits(rs[i], q, h, st) /\ Fades(rs[i], ss[i])
  BY DEF AllShownFit, AllFade
<1> QED BY <1>1 DEF ShownFits, Fades, Pure

LEMMA ShowsFits ==
  ASSUME NEW v, NEW w, NEW q, NEW h, NEW st, ViewFits(v, q, h, st), Shows(v, w)
  PROVE  ViewFits(w, q, h, st)
<1>1. AllShownFit(w.results, q, h, st)
  BY FadedFit DEF ViewFits, Shows
<1>2. \A k : StandsAt(v, k) => StandsAt(w, k)
  BY DEF Shows, StandsAt, AllFade, Fades
<1>3. Live(w) => CursorFits(w, q, h, st)
  <2>1. Live(w) => CursorFits(v, q, h, st)
    BY DEF ViewFits, Shows, Live
  <2> QED BY <1>2, <2>1 DEF CursorFits, Shows
<1> QED BY <1>1, <1>3 DEF ViewFits, Shows

LEMMA QuietViewFits ==
  ASSUME NEW v \in ViewState, NEW q, NEW h, NEW st, ViewFits(v, q, h, st)
  PROVE  ViewFits([v EXCEPT !.out = << >>], q, h, st)
<1> DEFINE w == [v EXCEPT !.out = << >>]
<1>1. Shows(v, w)
  BY SameFades DEF ViewState, Shows
<1> HIDE DEF w
<1>2. ViewFits(w, q, h, st)
  BY <1>1, ShowsFits
<1> QED BY <1>2 DEF w

LEMMA RequestFits ==
  ASSUME NEW v \in ViewState, NEW q, NEW h, NEW st, ViewFits(v, q, h, st)
  PROVE  ViewFits(Request(v), q, h, st)
<1> DEFINE out == Append(v.out, [type |-> "requestResultSync"])
           w == [v EXCEPT !.pending = TRUE, !.out = out]
<1>1. Request(v) \in {v, w}
  BY DEF Request
<1> HIDE DEF out
<1>2. Shows(v, w)
  BY SameFades DEF ViewState, Shows
<1> HIDE DEF w
<1> QED BY <1>1, <1>2, ShowsFits

LEMMA PersistFits ==
  ASSUME NEW v \in ViewState, NEW q, NEW h, NEW st, ViewFits(v, q, h, st)
  PROVE  /\ ViewFits(Persist(v), q, h, st) /\ Persist(v) \in ViewState
         /\ Persist(v).active = v.active /\ Persist(v).log = v.log
         /\ Persist(v).results = v.results /\ Persist(v).cursor = v.cursor
         /\ v.log /\ v.active \in Sources =>
              Persist(v).cache[v.active] = [log |-> v.log, results |-> v.results]
<1>1. Persist(v) \in ViewState
  BY PersistKeeps
<1>2. CASE v.active = NoSource \/ ~v.log
  <2>1. Persist(v) = v
    BY <1>2 DEF Persist
  <2>2. NoSource \notin Sources
    BY DEF NoSource, Sources
  <2> QED BY <1>1, <1>2, <2>1, <2>2
<1>3. CASE v.active # NoSource /\ v.log
  <2> DEFINE content == [log |-> v.log, results |-> v.results]
             cache == [v.cache EXCEPT ![v.active] = content]
             w == [v EXCEPT !.cache = cache]
  <2>1. Persist(v) = w
    BY <1>3 DEF Persist
  <2>2. v.active \in Sources
    BY <1>3 DEF ViewState
  <2>3. \A s \in Sources : cache[s] = IF s = v.active THEN content ELSE v.cache[s]
    BY DEF ViewState
  <2> HIDE DEF cache
  <2>4. /\ w.active = v.active /\ w.log = v.log /\ w.results = v.results
        /\ w.cursor = v.cursor /\ w.cache = cache
    BY DEF ViewState
  <2> HIDE DEF w
  <2>5. \A s \in Sources : w.cache[s].results \in {v.results, v.cache[s].results}
    BY <2>3, <2>4
  <2>6. \A s \in Sources : AllShownFit(w.cache[s].results, q, h, st)
    BY <2>5 DEF ViewFits
  <2>7. Live(w) => CursorFits(w, q, h, st)
    BY <2>4 DEF ViewFits, Live, CursorFits, StandsAt
  <2>8. ViewFits(w, q, h, st)
    BY <2>4, <2>6, <2>7 DEF ViewFits
  <2>9. w.cache[v.active] = content
    BY <2>2, <2>3, <2>4
  <2> QED BY <1>1, <2>1, <2>4, <2>8, <2>9
<1> QED BY <1>2, <1>3

(* What is shown is the same, but for the marks of completion.             *)
Alike(r, s) ==
  s.id = r.id /\ s.rows = r.rows /\ s.total = r.total /\ s.cancelled = r.cancelled

AllAlike(rs, ss) == DOMAIN ss = DOMAIN rs /\ \A i \in DOMAIN rs : Alike(rs[i], ss[i])

LEMMA UnmarkFades ==
  ASSUME NEW rs \in Seq(ShownResults)
  PROVE  AllFade(rs, Unmark(rs)) /\ AllAlike(rs, Unmark(rs))
<1> DEFINE U(i) == [rs[i] EXCEPT !.complete = FALSE]
<1>1. Unmark(rs) = [i \in DOMAIN rs |-> U(i)]
  BY DEF Unmark
<1>2. ASSUME NEW i \in DOMAIN rs
      PROVE  Fades(rs[i], U(i)) /\ Alike(rs[i], U(i))
  <2>1. rs[i] \in ShownResults
    OBVIOUS
  <2> QED BY <2>1 DEF ShownResults, Fades, Alike
<1> HIDE DEF U
<1> QED BY <1>1, <1>2 DEF AllFade, AllAlike

LEMMA CancelFits ==
  ASSUME NEW v \in ViewState, NEW q, NEW h, NEW st, ViewFits(v, q, h, st)
  PROVE  ViewFits(Cancel(v), q, h, st) /\ ~Live(Cancel(v))
<1> DEFINE stopped == [v EXCEPT !.executing = FALSE, !.completed = FALSE, !.cursor = NoCursor]
           C(i) == [v.results[i] EXCEPT !.cancelled = TRUE, !.complete = FALSE]
           results == [i \in DOMAIN v.results |-> C(i)]
           g == [stopped EXCEPT !.results = results]
<1>1. /\ stopped.cursor = NoCursor /\ stopped.results = v.results /\ stopped.cache = v.cache
      /\ stopped \in ViewState
  BY Zenon, CursorTypes DEF ViewState
<1>2. Cancel(v) \in {stopped, g}
  BY <1>1 DEF Cancel
<1> HIDE DEF stopped
<1>3. v.results \in Seq(ShownResults)
  BY DEF ViewState
<1>4. ASSUME NEW i \in DOMAIN v.results
      PROVE  Fades(v.results[i], C(i))
  <2>1. v.results[i] \in ShownResults
    BY <1>3
  <2> QED BY <2>1 DEF ShownResults, Fades
<1> HIDE DEF C
<1>5. AllFade(v.results, results)
  BY <1>4 DEF AllFade
<1> HIDE DEF results
<1>6. g.cursor = NoCursor /\ g.results = results /\ g.cache = v.cache
  BY <1>1 DEF ViewState
<1> HIDE DEF g
<1>7. AllShownFit(v.results, q, h, st) /\ AllShownFit(results, q, h, st)
  BY <1>5, FadedFit DEF ViewFits
<1>8. ~Live(stopped) /\ ViewFits(stopped, q, h, st)
  BY <1>1, <1>7 DEF ViewFits, Live
<1>9. ~Live(g) /\ ViewFits(g, q, h, st)
  BY <1>6, <1>7 DEF ViewFits, Live
<1> QED BY <1>2, <1>8, <1>9

LEMMA ShowSourceFits ==
  ASSUME NEW v \in ViewState, NEW m \in Switches, NEW q, NEW h, NEW st, ViewFits(v, q, h, st)
  PROVE  /\ ViewFits(ShowSource(v, m), q, h, st)
         /\ m.source = "O" => ~Live(ShowSource(v, m))
<1> DEFINE fresh == [v EXCEPT !.cursor = NoCursor, !.pending = FALSE]
           switched == IF v.active = m.source THEN v ELSE fresh
           saved == Persist(switched)
           executing == m.source = "S" /\ m.executing
           told == [saved EXCEPT !.active = m.source, !.executing = m.executing,
                                 !.completed = m.completed]
           cached == saved.cache[m.source]
           unmarked == [told EXCEPT !.results = Unmark(told.results)]
           restored == [told EXCEPT !.log = cached.log, !.results = cached.results]
<1>1. m.source \in Sources /\ m.executing \in BOOLEAN /\ m.completed \in BOOLEAN
  BY DEF Switches
<1>2. /\ fresh \in ViewState /\ fresh.cursor = NoCursor
      /\ fresh.results = v.results /\ fresh.cache = v.cache
  BY Zenon, CursorTypes DEF ViewState
<1>3. ShowSource(v, m) \in {unmarked, told, restored}
  BY DEF ShowSource
<1> HIDE DEF fresh
<1>4. ViewFits(fresh, q, h, st)
  BY <1>2 DEF ViewFits, Live
<1>5. switched \in ViewState /\ ViewFits(switched, q, h, st)
      /\ (switched.active # m.source => switched.cursor = NoCursor)
  BY <1>2, <1>4
<1> HIDE DEF switched
<1>6. /\ saved \in ViewState /\ ViewFits(saved, q, h, st)
      /\ saved.active = switched.active /\ saved.log = switched.log
      /\ saved.results = switched.results /\ saved.cursor = switched.cursor
      /\ switched.log /\ switched.active \in Sources =>
           saved.cache[switched.active] = [log |-> switched.log, results |-> switched.results]
  BY <1>5, PersistFits
<1> HIDE DEF saved
<1>7. /\ told.active = m.source /\ told.log = saved.log /\ told.results = saved.results
      /\ told.cache = saved.cache /\ told.cursor = saved.cursor /\ told \in ViewState
  BY Zenon, <1>1, <1>6 DEF ViewState
<1> HIDE DEF told
<1>8. Live(told) => Live(saved) /\ saved.active = m.source
  BY <1>5, <1>6, <1>7 DEF Live
<1>9. ViewFits(told, q, h, st)
  BY <1>6, <1>7, <1>8 DEF ViewFits, CursorFits, StandsAt
<1>10. /\ ViewFits(unmarked, q, h, st) /\ unmarked.active = m.source
  <2> DEFINE results == Unmark(told.results)
  <2>1. AllFade(told.results, results)
    BY <1>7, UnmarkFades DEF ViewState
  <2>2. unmarked = [told EXCEPT !.results = results]
    OBVIOUS
  <2> HIDE DEF results, unmarked
  <2>3. Shows(told, unmarked) /\ unmarked.active = m.source
    BY <1>7, <2>1, <2>2 DEF Shows, ViewState
  <2> QED BY <1>9, <2>3, ShowsFits
<1>11. ViewFits(restored, q, h, st) /\ restored.active = m.source
  <2> HIDE DEF cached
  <2>1. /\ restored.active = m.source /\ restored.log = cached.log
        /\ restored.results = cached.results /\ restored.cache = told.cache
        /\ restored.cursor = told.cursor
    BY <1>7 DEF ViewState
  <2> HIDE DEF restored
  <2>2. AllShownFit(cached.results, q, h, st)
    BY <1>1, <1>6 DEF ViewFits, cached
  <2>3. ASSUME Live(restored)
        PROVE  CursorFits(restored, q, h, st)
    <3>1. Live(told)
      BY <1>7, <2>1, <2>3 DEF Live
    <3>2. Live(saved) /\ saved.active = m.source /\ CursorFits(told, q, h, st)
      BY <1>8, <1>9, <3>1 DEF ViewFits
    <3>3. told.log
      BY <3>2 DEF CursorFits
    <3>4. cached = [log |-> switched.log, results |-> switched.results]
      BY <1>1, <1>6, <1>7, <3>2, <3>3 DEF cached
    <3>5. restored.log = told.log /\ restored.results = told.results
      BY <1>6, <1>7, <2>1, <3>4
    <3> QED BY <2>1, <3>2, <3>5 DEF CursorFits, StandsAt
  <2> QED BY <1>7, <1>9, <2>1, <2>2, <2>3 DEF ViewFits
<1> HIDE DEF unmarked, restored
<1>12. \A w : w.active = "O" => ~Live(w)
  BY DEF Live
<1> QED BY <1>3, <1>7, <1>9, <1>10, <1>11, <1>12

LEMMA ReplaceFits ==
  ASSUME NEW v \in ViewState, NEW m \in Hydrates, NEW q, NEW h, NEW st,
         ViewFits(v, q, h, st), AllPure(m.results)
  PROVE  ViewFits(Replace(v, m), q, h, st)
<1> DEFINE key == HydrateKey(m)
           results == [i \in DOMAIN m.results |-> Shown(m.results[i])]
           own == m.source = "S"
           saved == Persist(v)
           cursor == IF own THEN NoCursor ELSE saved.cursor
           pending == saved.pending /\ ~own
           g == [saved EXCEPT
                   !.key = key, !.active = m.source, !.log = TRUE, !.results = results,
                   !.cursor = cursor, !.pending = pending,
                   !.executing = m.executing, !.completed = m.completed]
<1>1. Replace(v, m) \in {v, Persist(g)}
  BY DEF Replace
<1>2. m.results \in Seq(HostResults) /\ m.source \in Sources /\ m.executing \in BOOLEAN
      /\ m.completed \in BOOLEAN /\ m.version \in Nat /\ m.sync \in Nat
  BY DEF Hydrates
<1>3. key \in Keys
  <2> DEFINE bytes == [i \in DOMAIN m.results |-> Len(m.results[i].rows)]
  <2>1. bytes \in Seq(Nat)
    BY Zenon, <1>2, ShownType
  <2>2. key = [source |-> m.source, bytes |-> bytes, executing |-> m.executing,
               completed |-> m.completed, version |-> m.version, sync |-> m.sync]
    BY DEF HydrateKey
  <2> HIDE DEF bytes, key
  <2> QED BY <1>2, <2>1, <2>2 DEF Keys
<1>4. results \in Seq(ShownResults)
  BY Zenon, <1>2, ShownType
<1>5. AllShownFit(results, q, h, st)
  <2> SUFFICES ASSUME NEW i \in DOMAIN results
               PROVE  ShownFits(results[i], q, h, st)
    BY DEF AllShownFit
  <2>1. results[i] = Shown(m.results[i]) /\ i \in DOMAIN m.results
    OBVIOUS
  <2>2. Pure(m.results[i])
    BY <2>1 DEF AllPure
  <2> HIDE DEF results
  <2> QED BY <2>1, <2>2 DEF Shown, ShownFits, Pure
<1> HIDE DEF results, key
<1>6. saved \in ViewState /\ ViewFits(saved, q, h, st)
  BY Zenon, PersistFits
<1> HIDE DEF saved
<1>7. cursor \in Cursors /\ pending \in BOOLEAN
  BY <1>6, CursorTypes DEF ViewState
<1>8. own => cursor = NoCursor
  OBVIOUS
<1> HIDE DEF cursor, pending, own
<1>9. /\ g \in ViewState /\ g.active = m.source /\ g.cursor = cursor /\ g.results = results
      /\ g.cache = saved.cache
  BY Zenon, <1>2, <1>3, <1>4, <1>6, <1>7 DEF ViewState
<1> HIDE DEF g
<1>10. ~Live(g)
  BY <1>2, <1>8, <1>9 DEF Live, Sources, own
<1>11. ViewFits(g, q, h, st)
  BY <1>5, <1>6, <1>9, <1>10 DEF ViewFits
<1> QED BY Zenon, <1>1, <1>9, <1>11, PersistFits

(* What a chunk does to the cursor.                                        *)
LEMMA DesyncIsLost ==
  ASSUME NEW c, NEW id
  PROVE  Desync(c, id).kind = "desync" /\ Desync(c, id).cursor.lost
BY DEF Desync

MovedBy(c, m) == c.id = m.id /\ c.next = m.seq + 1 /\ c.row = m.total

Starts(c, m, base) == c = NoCursor /\ base = << m.id, m.from >>
GoesOn(c, m) == /\ c # NoCursor /\ c.id = m.id /\ ~c.lost /\ ~c.terminal
                /\ c.next = m.seq /\ c.row = m.from

LEMMA JudgeIs ==
  ASSUME NEW c \in Cursors, NEW m \in Appends
  PROVE  LET d == Judge(c, m) IN
         /\ d.kind \in {"apply", "duplicate", "stale", "desync"}
         /\ d.kind = "desync" => d.cursor.lost
         /\ d.kind \in {"duplicate", "stale"} => d.cursor = c
         /\ d.kind = "apply" => /\ MovedBy(d.cursor, m) /\ c.id = m.id /\ ~c.lost /\ ~c.terminal
                                /\ c.next = m.seq /\ c.row = m.from
<1>1. CASE Foreign(c, m.id)
  BY <1>1 DEF Judge, Stale
<1>2. CASE ~Foreign(c, m.id) /\ Repeats(c, m)
  <2>1. ~Continues(c, m)
    BY <1>2 DEF Repeats, Continues, Cursors, Appends
  <2>2. Judge(c, m) = Duplicate(c)
    BY <1>2, <2>1 DEF Judge
  <2> QED BY <2>2 DEF Duplicate
<1>3. CASE ~Foreign(c, m.id) /\ ~Repeats(c, m) /\ Continues(c, m)
  <2> DEFINE next == c.next + 1
             d == [c EXCEPT !.next = next, !.row = m.total]
  <2>1. c.id = m.id /\ ~c.lost /\ ~c.terminal /\ c.next = m.seq /\ c.row = m.from
    BY <1>3 DEF Foreign, Continues
  <2>2. Judge(c, m) = Apply(d)
    BY <1>3 DEF Judge
  <2>3. next = m.seq + 1
    BY <2>1
  <2> HIDE DEF next
  <2>4. MovedBy(d, m)
    BY <2>1, <2>3 DEF Cursors, MovedBy
  <2> HIDE DEF d
  <2> QED BY <2>1, <2>2, <2>4 DEF Apply
<1>4. CASE ~Foreign(c, m.id) /\ ~Repeats(c, m) /\ ~Continues(c, m)
  <2>1. Judge(c, m) = Desync(c, m.id)
    BY <1>4 DEF Judge
  <2> QED BY <2>1, DesyncIsLost
<1> QED BY <1>1, <1>2, <1>3, <1>4

LEMMA EvaluateIs ==
  ASSUME NEW c \in Cursors, NEW m \in Appends, NEW base
  PROVE  LET d == Evaluate(c, m, base) IN
         /\ d.kind \in {"apply", "duplicate", "stale", "desync"}
         /\ d.kind = "desync" => d.cursor.lost
         /\ d.kind \in {"duplicate", "stale"} => d.cursor = c
         /\ d.kind = "apply" =>
              /\ MovedBy(d.cursor, m)
              /\ \/ m.first /\ m.seq = 0 /\ m.from = 0
                 \/ ~m.first /\ (Starts(c, m, base) \/ GoesOn(c, m))
<1>1. m.id \in Nat /\ m.seq \in Nat /\ m.from \in Nat /\ m.total \in Nat /\ m.first \in BOOLEAN
  BY DEF Appends
<1>2. CASE m.first /\ c.id = m.id /\ m.seq < c.next
  <2>1. Evaluate(c, m, base) = Duplicate(c)
    BY <1>2 DEF Evaluate
  <2> QED BY <2>1 DEF Duplicate
<1>3. CASE m.first /\ ~(c.id = m.id /\ m.seq < c.next) /\ (m.seq # 0 \/ m.from # 0)
  <2>1. Evaluate(c, m, base) = Desync(c, m.id)
    BY <1>3 DEF Evaluate
  <2> QED BY <2>1, DesyncIsLost
<1>4. CASE m.first /\ ~(c.id = m.id /\ m.seq < c.next) /\ m.seq = 0 /\ m.from = 0
  <2> DEFINE b == Cursor(m.id, 0, 0)
  <2>1. b \in Cursors /\ b # NoCursor
    BY <1>1, CursorTypes DEF Cursor, NoCursor
  <2>2. Evaluate(c, m, base) = Judge(b, m)
    BY <1>4, <2>1 DEF Evaluate, Baseline
  <2>3. b.id = m.id /\ b.next = 0 /\ b.row = 0 /\ ~b.lost /\ ~b.terminal
    BY DEF Cursor
  <2>4. ~Foreign(b, m.id) /\ ~Repeats(b, m) /\ Continues(b, m)
    BY <1>1, <1>4, <2>3 DEF Foreign, Repeats, Continues
  <2> HIDE DEF b
  <2>5. Judge(b, m).kind = "apply"
    BY <2>4 DEF Judge, Apply
  <2> QED BY <1>4, <2>1, <2>2, <2>5, JudgeIs
<1>5. CASE ~m.first /\ Starts(c, m, base)
  <2> DEFINE b == Cursor(m.id, m.seq, m.from)
  <2>1. b \in Cursors /\ b # NoCursor
    BY <1>1, CursorTypes DEF Cursor, NoCursor
  <2>2. Evaluate(c, m, base) = Judge(b, m)
    BY <1>5, <2>1 DEF Evaluate, Baseline, Starts
  <2>3. b.id = m.id /\ b.next = m.seq /\ b.row = m.from /\ ~b.lost /\ ~b.terminal
    BY DEF Cursor
  <2>4. ~Foreign(b, m.id) /\ ~Repeats(b, m)
    BY <1>1, <2>3 DEF Foreign, Repeats
  <2> HIDE DEF b
  <2>5. Judge(b, m).kind \in {"apply", "desync"}
    BY <2>4, DesyncIsLost DEF Judge, Apply
  <2> QED BY <1>5, <2>1, <2>2, <2>5, JudgeIs
<1>6. CASE ~m.first /\ ~Starts(c, m, base) /\ c = NoCursor
  <2>1. Evaluate(c, m, base) = Desync(c, m.id)
    BY <1>6 DEF Evaluate, Baseline, Starts
  <2> QED BY <2>1, DesyncIsLost
<1>7. CASE ~m.first /\ c # NoCursor
  <2>1. Evaluate(c, m, base) = Judge(c, m)
    BY <1>7 DEF Evaluate, Baseline
  <2> QED BY <1>7, <2>1, JudgeIs DEF GoesOn
<1> QED BY <1>1, <1>2, <1>3, <1>4, <1>5, <1>6, <1>7

(* A chunk that is applied: the cursor moves behind it, and every message  *)
(* that follows finds the page there.                                      *)
LEMMA CursorMoves ==
  ASSUME NEW q \in Seq(ToView), q # << >>, NEW h \in HostState, NEW st,
         MessagesFit(q, h, st), IsChunk(q[1]),
         NEW w, w.log, MovedBy(w.cursor, q[1]), StandsAt(w, q[1].index)
  PROVE  CursorFits(w, Tail(q), h, st)
<1> DEFINE t == Tail(q)
           m == q[1]
           c == w.cursor
<1>1. /\ 1 \in DOMAIN q
      /\ \A i \in DOMAIN t : i \in Nat /\ i > 0 /\ i + 1 \in DOMAIN q /\ t[i] = q[i + 1]
  BY TailDomain
<1>2. /\ After(q, 1) => After(t, 0)
      /\ \A p \in Nat : Between(q, 1, p + 1) => Between(t, 0, p)
  <2>1. 0 \in Nat /\ 0 + 1 = 1
    OBVIOUS
  <2> QED BY <2>1, BarriersOfTail
<1>3. c.id = m.id /\ c.next = m.seq + 1 /\ c.row = m.total
  BY DEF MovedBy
<1>4. m \in Appends /\ Placed(m)
  BY <1>1, PlacedTypes DEF Placed
<1> HIDE DEF t
<1>5. Begun(c.id, st) /\ PlaceFits(q, 1, h) /\ ChunkInStep(q, 1, h, st)
  BY Zenon, <1>1, <1>3, <1>4, PlacedHasBegun DEF MessagesFit
<1>6. \A p \in DOMAIN t : Placed(t[p]) /\ t[p].id = c.id => StandsAt(w, t[p].index)
  BY <1>1, <1>3, <1>5 DEF PlaceFits
<1>7. h.tracked = c.id => StandsAt(w, Len(h.results))
  BY <1>3, <1>5 DEF PlaceFits
<1>8. Hides(h) => After(t, 0)
  BY <1>2, <1>5 DEF ChunkInStep
<1>9. Grows(h) /\ h.tracked = c.id =>
        c.next <= h.seq /\ (c.next = h.seq => c.row = st.rows \/ After(t, 0))
  <2>1. m.seq \in Nat /\ h.seq \in Nat \union {None}
    BY <1>4 DEF Appends, HostState
  <2> QED BY <1>2, <1>3, <1>5, <2>1 DEF ChunkInStep, None
<1>10. ASSUME NEW p \in DOMAIN t, IsEnd(t[p]), t[p].id = c.id, c.next = t[p].last + 1
       PROVE  c.row = t[p].total \/ Between(t, 0, p)
  <2>1. /\ p + 1 \in DOMAIN q /\ t[p] = q[p + 1] /\ p \in Nat
        /\ EndFits(q, p + 1, h, st)
    BY <1>1, <1>10 DEF MessagesFit
  <2>2. q[p + 1].last \in Nat /\ m.seq \in Nat
    BY <1>4, <1>10, <2>1, PlacedTypes DEF Completions, Appends
  <2>3. m.seq = q[p + 1].last
    BY <1>3, <1>10, <2>1, <2>2
  <2>4. m.total = q[p + 1].total \/ Between(q, 1, p + 1)
    BY <1>1, <1>3, <1>10, <2>1, <2>3 DEF EndFits
  <2> QED BY <1>2, <1>3, <2>1, <2>4
<1>11. CursorFits(w, t, h, st)
  BY <1>5, <1>6, <1>7, <1>8, <1>9, <1>10 DEF CursorFits
<1> QED BY <1>11 DEF t

(* What a chunk does to the results shown.                                 *)
SameButResults(v, w) ==
  /\ w \in ViewState /\ w.active = v.active /\ w.log = v.log /\ w.cache = v.cache
  /\ w.cursor = v.cursor /\ w.key = v.key /\ w.executing = v.executing

LEMMA ResultsOnly ==
  ASSUME NEW v \in ViewState, NEW rs \in Seq(ShownResults), NEW completed \in BOOLEAN
  PROVE  LET w == [v EXCEPT !.completed = completed, !.results = rs] IN
         SameButResults(v, w) /\ w.results = rs /\ w.completed = completed
BY Zenon DEF SameButResults, ViewState

LEMMA PlaceShellIs ==
  ASSUME NEW v \in ViewState, NEW m \in Appends
  PROVE  LET w == PlaceShell(v, m)
             n == Len(v.results) IN
         /\ SameButResults(v, w) /\ w.completed = FALSE
         /\ m.index > n => \A j \in DOMAIN v.results : Alike(v.results[j], w.results[j])
         /\ \A j \in DOMAIN w.results : \/ w.results[j] = Shell(m.id)
                                        \/ j \in DOMAIN v.results /\ Fades(v.results[j], w.results[j])
         /\ m.index > n => Len(w.results) = n + 1 /\ w.results[n + 1] = Shell(m.id)
         /\ m.index <= n => /\ DOMAIN w.results = DOMAIN v.results
                            /\ m.index \in DOMAIN v.results => w.results[m.index] = Shell(m.id)
<1> DEFINE n == Len(v.results)
           unmarked == Unmark(v.results)
           appended == Append(unmarked, Shell(m.id))
           replaced == [unmarked EXCEPT ![m.index] = Shell(m.id)]
           results == IF m.index > n THEN appended ELSE replaced
           w == [v EXCEPT !.completed = FALSE, !.results = results]
<1>1. /\ v.results \in Seq(ShownResults) /\ unmarked \in Seq(ShownResults) /\ Len(unmarked) = n
      /\ AllFade(v.results, unmarked) /\ AllAlike(v.results, unmarked)
  BY UnmarkType, UnmarkFades DEF ViewState
<1>2. << >> \in Seq(Row)
  OBVIOUS
<1>3. Shell(m.id) \in ShownResults
  BY <1>2 DEF Shell, ShownResults, Appends
<1>4. PlaceShell(v, m) = w
  BY DEF PlaceShell
<1> HIDE DEF unmarked
<1>5. /\ DOMAIN v.results = 1 .. n /\ DOMAIN unmarked = 1 .. n /\ n \in Nat /\ m.index \in Nat
  BY <1>1 DEF Appends
<1> HIDE DEF n
<1>6. appended \in Seq(ShownResults) /\ replaced \in Seq(ShownResults)
      /\ DOMAIN replaced = DOMAIN unmarked
  BY Zenon, <1>1, <1>3, ReplacedType, AppendProperties
<1>7. /\ Len(appended) = n + 1 /\ appended[n + 1] = Shell(m.id) /\ DOMAIN appended = 1 .. n + 1
      /\ \A j \in 1 .. n : appended[j] = unmarked[j]
  BY <1>1, <1>3, <1>5
<1>8. /\ m.index \in DOMAIN unmarked => replaced[m.index] = Shell(m.id)
      /\ \A j \in DOMAIN unmarked : j # m.index => replaced[j] = unmarked[j]
  OBVIOUS
<1> HIDE DEF appended, replaced
<1>9. results \in Seq(ShownResults)
  BY <1>6
<1>10. \A j \in DOMAIN results : \/ results[j] = Shell(m.id)
                                 \/ j \in DOMAIN v.results /\ Fades(v.results[j], results[j])
  BY <1>1, <1>5, <1>6, <1>7, <1>8 DEF AllFade
<1>11. /\ m.index > n => Len(results) = n + 1 /\ results[n + 1] = Shell(m.id)
       /\ m.index <= n => /\ DOMAIN results = DOMAIN v.results
                          /\ m.index \in DOMAIN v.results => results[m.index] = Shell(m.id)
  BY <1>5, <1>6, <1>7, <1>8
<1>12. m.index > n => \A j \in DOMAIN v.results : Alike(v.results[j], results[j])
  BY <1>1, <1>5, <1>7 DEF AllAlike
<1> HIDE DEF results
<1>13. SameButResults(v, w) /\ w.results = results /\ w.completed = FALSE
  BY Zenon, <1>9, ResultsOnly
<1> HIDE DEF w
<1> QED BY <1>4, <1>10, <1>11, <1>12, <1>13 DEF n

Prepared(v, m) == IF m.first THEN PlaceShell(v, m) ELSE v
Place(v, m) == IF m.first /\ m.index > Len(v.results) THEN Len(Prepared(v, m).results)
               ELSE m.index

Grown(r, s, m) == /\ s.id = r.id /\ s.rows = r.rows \o m.rows /\ s.total = m.total
                  /\ s.complete = r.complete /\ s.cancelled = r.cancelled

LEMMA AddRowsIs ==
  ASSUME NEW v \in ViewState, NEW m \in Appends, Prepared(v, m) \in ViewState
  PROVE  LET w == Prepared(v, m)
             i == Place(v, m) IN
         \/ i \notin DOMAIN w.results /\ AddRows(v, m) = Request(w)
         \/ i \in DOMAIN w.results /\ w.results[i].cancelled /\ AddRows(v, m) = w
         \/ /\ i \in DOMAIN w.results /\ ~w.results[i].cancelled
            /\ \E u : /\ AddRows(v, m) = Persist(u) /\ SameButResults(w, u)
                      /\ u.completed = w.completed
                      /\ DOMAIN u.results = DOMAIN w.results /\ Grown(w.results[i], u.results[i], m)
                      /\ \A j \in DOMAIN w.results : j # i => u.results[j] = w.results[j]
<1> DEFINE w == Prepared(v, m)
           i == Place(v, m)
           rows == w.results[i].rows \o m.rows
           g1 == [w EXCEPT !.results[i].rows = rows]
           g == [g1 EXCEPT !.results[i].total = m.total]
<1>1. w \in ViewState /\ w.results \in Seq(ShownResults)
  BY DEF ViewState
<1>2. AddRows(v, m) = IF i \notin DOMAIN w.results THEN Request(w)
                      ELSE IF w.results[i].cancelled THEN w ELSE Persist(g)
  BY DEF AddRows, Place, Prepared
<1> HIDE DEF w, i
<1>3. CASE i \in DOMAIN w.results /\ ~w.results[i].cancelled
  <2>1. w.results[i] \in ShownResults
    BY <1>1, <1>3
  <2>2. rows \in Seq(Row) /\ m.total \in Nat
    BY <2>1 DEF ShownResults, Appends
  <2>3. rows = w.results[i].rows \o m.rows
    OBVIOUS
  <2> HIDE DEF rows
  <2> DEFINE r1 == [w.results[i] EXCEPT !.rows = rows]
             q1 == [w.results EXCEPT ![i] = r1]
             r2 == [r1 EXCEPT !.total = m.total]
             q2 == [q1 EXCEPT ![i] = r2]
             u == [w EXCEPT !.results = q2]
  <2>4. r1 \in ShownResults /\ r2 \in ShownResults
    BY Zenon, <2>1, <2>2 DEF ShownResults
  <2>5. /\ r2.id = w.results[i].id /\ r2.rows = rows /\ r2.total = m.total
        /\ r2.complete = w.results[i].complete /\ r2.cancelled = w.results[i].cancelled
    BY <2>1 DEF ShownResults
  <2>6. g1 = [w EXCEPT !.results = q1]
    OBVIOUS
  <2> HIDE DEF g1, r1, r2
  <2>7. q1 \in Seq(ShownResults) /\ DOMAIN q1 = DOMAIN w.results
    BY <1>1, <2>4, ReplacedType
  <2>8. q1[i] = r1
    BY <1>3
  <2>9. q2 \in Seq(ShownResults) /\ DOMAIN q2 = DOMAIN w.results
    BY <2>4, <2>7, ReplacedType
  <2>10. q2[i] = r2 /\ \A j \in DOMAIN w.results : j # i => q2[j] = w.results[j]
    BY <1>3, <2>7
  <2> HIDE DEF q1
  <2>11. g1 \in ViewState /\ g1.results = q1
    BY Zenon, <1>1, <2>6, <2>7 DEF ViewState
  <2>12. [q1[i] EXCEPT !.total = m.total] = r2
    BY <2>8 DEF r2
  <2>13. g = [g1 EXCEPT !.results = q2]
    BY <2>11, <2>12
  <2> HIDE DEF g, q2
  <2>14. g = u
    BY Zenon, <1>1, <2>6, <2>13 DEF ViewState
  <2>15. SameButResults(w, u) /\ u.results = q2 /\ u.completed = w.completed
    BY Zenon, <1>1, <2>9 DEF SameButResults, ViewState
  <2> HIDE DEF u
  <2>16. Grown(w.results[i], u.results[i], m)
    BY Zenon, <2>3, <2>5, <2>10, <2>15 DEF Grown
  <2>17. AddRows(v, m) = Persist(u)
    BY <1>2, <1>3, <2>14
  <2> QED BY <1>3, <2>9, <2>10, <2>15, <2>16, <2>17 DEF w, i
<1> QED BY <1>2, <1>3 DEF w, i

(* The result a chunk is for: its rows end where the chunk begins.         *)
Ready(r, m) == /\ r.id = m.id /\ Pure(r) /\ (r.complete => r.cancelled)
               /\ r.cancelled \/ Len(r.rows) = m.from

LEMMA RowsConcatenated ==
  ASSUME NEW a \in Seq(Row), NEW b \in Seq(Row)
  PROVE  /\ a \o b \in Seq(Row) /\ Len(a \o b) = Len(a) + Len(b)
         /\ DOMAIN a = 1 .. Len(a) /\ DOMAIN b = 1 .. Len(b)
         /\ \A k \in DOMAIN a : (a \o b)[k] = a[k]
         /\ \A k \in DOMAIN b : (a \o b)[Len(a) + k] = b[k]
BY ConcatIs

LEMMA GrownFits ==
  ASSUME NEW r \in ShownResults, NEW s \in ShownResults, NEW m \in Appends, NEW q, NEW h, NEW st,
         Ready(r, m), ~r.cancelled, ChunkFits(m, st), Grown(r, s, m)
  PROVE  ShownFits(s, q, h, st) /\ Len(s.rows) = m.total
<1>1. r.rows \in Seq(Row) /\ m.rows \in Seq(Row) /\ m.total \in Nat /\ m.from \in Nat
  BY DEF ShownResults, Appends
<1>2. /\ s.rows = r.rows \o m.rows /\ Len(r.rows) = m.from /\ Len(m.rows) = m.total - m.from
      /\ s.id = m.id /\ s.total = m.total /\ s.complete = r.complete /\ s.cancelled = r.cancelled
  BY DEF Grown, Ready, ChunkFits
<1> DEFINE both == r.rows \o m.rows
<1>3. /\ both \in Seq(Row) /\ Len(both) = Len(r.rows) + Len(m.rows)
      /\ DOMAIN r.rows = 1 .. Len(r.rows) /\ DOMAIN m.rows = 1 .. Len(m.rows)
      /\ \A k \in DOMAIN r.rows : both[k] = r.rows[k]
      /\ \A k \in DOMAIN m.rows : both[Len(r.rows) + k] = m.rows[k]
  BY Zenon, <1>1, RowsConcatenated
<1>4. s.rows = both
  BY <1>2
<1> HIDE DEF both
<1>5. Len(s.rows) = m.total /\ DOMAIN s.rows = 1 .. m.total
  BY <1>1, <1>2, <1>3, <1>4
<1>6. ASSUME NEW k \in DOMAIN s.rows
      PROVE  s.rows[k] = << s.id, k >>
  <2>1. CASE k <= m.from
    <3>1. k \in DOMAIN r.rows /\ s.rows[k] = r.rows[k]
      BY <1>1, <1>2, <1>3, <1>4, <1>5, <2>1
    <3> QED BY <1>2, <3>1 DEF Ready, Pure
  <2>2. CASE k > m.from
    <3>1. k - m.from \in DOMAIN m.rows
      BY SMTT(30), <1>1, <1>2, <1>3, <1>5, <2>2
    <3>2. m.from + (k - m.from) = k
      BY <1>1, <1>5
    <3>3. s.rows[k] = m.rows[k - m.from]
      BY <1>2, <1>3, <1>4, <3>1, <3>2
    <3> QED BY <1>2, <3>1, <3>2, <3>3 DEF ChunkFits
  <2> QED BY <1>1, <1>5, <2>1, <2>2
<1>7. ~(s.complete /\ ~s.cancelled)
  BY <1>2 DEF Ready
<1> QED BY Zenon, <1>1, <1>2, <1>5, <1>6, <1>7 DEF ShownFits, Pure

LEMMA ShellFits ==
  ASSUME NEW m \in Appends, NEW q, NEW h, NEW st
  PROVE  /\ ShownFits(Shell(m.id), q, h, st)
         /\ m.from = 0 => Ready(Shell(m.id), m)
<1>1. /\ Shell(m.id).id = m.id /\ Shell(m.id).rows = << >> /\ Shell(m.id).total = 0
      /\ Shell(m.id).complete = FALSE /\ Shell(m.id).cancelled = FALSE
  BY DEF Shell
<1>2. Len(<< >>) = 0 /\ DOMAIN << >> = {}
  OBVIOUS
<1>3. Pure(Shell(m.id))
  BY <1>1, <1>2 DEF Pure
<1> QED BY <1>1, <1>2, <1>3 DEF ShownFits, Ready

LEMMA ChunkNotOver ==
  ASSUME NEW q \in Seq(ToView), q # << >>, IsChunk(q[1]), NEW st
  PROVE  ~Over(q[1].id, q, st)
<1>1. 1 \in DOMAIN q
  BY TailDomain
<1> QED BY <1>1 DEF Over

Continued(v, m) ==
  \/ m.first /\ m.from = 0
  \/ /\ ~m.first
     /\ m.index \in DOMAIN v.results =>
          /\ v.results[m.index].id = m.id
          /\ v.results[m.index].cancelled \/ Len(v.results[m.index].rows) = m.from

LEMMA ResultIsReady ==
  ASSUME NEW q \in Seq(ToView), q # << >>, NEW h, NEW st, IsChunk(q[1]), NEW v \in ViewState,
         AllShownFit(v.results, q, h, st), Continued(v, q[1])
  PROVE  LET w == Prepared(v, q[1])
             i == Place(v, q[1]) IN
         /\ SameButResults(v, w) /\ AllShownFit(w.results, q, h, st)
         /\ i \in DOMAIN w.results => Ready(w.results[i], q[1])
         /\ q[1].index \in DOMAIN w.results => q[1].index = i
<1> DEFINE m == q[1]
<1>1. m \in Appends /\ m.index \in Nat
  BY TailDomain, PlacedTypes DEF Appends
<1>2. \A i \in DOMAIN v.results :
        /\ v.results[i].id = m.id /\ v.results[i].complete => v.results[i].cancelled
        /\ ShownFits(v.results[i], q, h, st)
  BY ChunkNotOver DEF AllShownFit, ShownFits
<1>3. CASE ~m.first
  <2>1. Prepared(v, m) = v /\ Place(v, m) = m.index
    BY <1>3 DEF Prepared, Place
  <2>2. m.index \in DOMAIN v.results => Ready(v.results[m.index], m)
    BY <1>2, <1>3 DEF Continued, Ready, ShownFits
  <2> QED BY <2>1, <2>2 DEF SameButResults
<1>4. CASE m.first
  <2> DEFINE w == PlaceShell(v, m)
             n == Len(v.results)
  <2>1. /\ SameButResults(v, w)
        /\ \A j \in DOMAIN w.results : \/ w.results[j] = Shell(m.id)
                                       \/ j \in DOMAIN v.results /\ Fades(v.results[j], w.results[j])
        /\ m.index > n => Len(w.results) = n + 1 /\ w.results[n + 1] = Shell(m.id)
        /\ m.index <= n => /\ DOMAIN w.results = DOMAIN v.results
                           /\ m.index \in DOMAIN v.results => w.results[m.index] = Shell(m.id)
    BY Zenon, <1>1, PlaceShellIs
  <2>2. /\ v.results \in Seq(ShownResults) /\ w.results \in Seq(ShownResults)
        /\ n \in Nat /\ Len(w.results) \in Nat /\ DOMAIN w.results = 1 .. Len(w.results)
        /\ DOMAIN v.results = 1 .. n
    BY <2>1 DEF SameButResults, ViewState
  <2>3. /\ Prepared(v, m) = w
        /\ Place(v, m) = IF m.index > n THEN Len(w.results) ELSE m.index
    BY <1>4 DEF Prepared, Place
  <2>4. ShownFits(Shell(m.id), q, h, st) /\ Ready(Shell(m.id), m)
    BY Zenon, <1>1, <1>4, ShellFits DEF Continued
  <2> HIDE DEF w, n
  <2>5. AllShownFit(w.results, q, h, st)
    <3> SUFFICES ASSUME NEW j \in DOMAIN w.results
                 PROVE  ShownFits(w.results[j], q, h, st)
      BY DEF AllShownFit
    <3>1. CASE w.results[j] = Shell(m.id)
      BY <2>4, <3>1
    <3>2. CASE j \in DOMAIN v.results /\ Fades(v.results[j], w.results[j])
      BY <1>2, <3>2 DEF ShownFits, Fades, Pure
    <3> QED BY <2>1, <3>1, <3>2
  <2>6. CASE m.index > n
    <3>1. Place(v, m) = n + 1 /\ w.results[n + 1] = Shell(m.id)
      BY <2>1, <2>3, <2>6
    <3>2. m.index \in DOMAIN w.results => m.index = n + 1
      BY <1>1, <2>1, <2>2, <2>6
    <3> QED BY <2>1, <2>3, <2>4, <2>5, <3>1, <3>2
  <2>7. CASE m.index <= n
    <3>1. Place(v, m) = m.index
      BY <1>1, <2>2, <2>3, <2>7
    <3> QED BY <2>1, <2>3, <2>4, <2>5, <2>7, <3>1
  <2> QED BY <1>1, <2>2, <2>6, <2>7
<1> QED BY <1>1, <1>3, <1>4 DEF Appends

LEMMA MovedFits ==
  ASSUME NEW q \in Seq(ToView), q # << >>, NEW h \in HostState, NEW st,
         MessagesFit(q, h, st), IsChunk(q[1]),
         NEW v, v.log, MovedBy(v.cursor, q[1]),
         \A s \in Sources : AllShownFit(v.cache[s].results, q, h, st),
         NEW w, SameButResults(v, w), AllShownFit(w.results, q, h, st), StandsAt(w, q[1].index)
  PROVE  ViewFits(w, Tail(q), h, st) /\ w \in ViewState
<1>1. AllShownFit(w.results, Tail(q), h, st)
  BY ReadShownFits
<1>2. \A s \in Sources : AllShownFit(w.cache[s].results, Tail(q), h, st)
  BY ReadShownFits DEF SameButResults
<1>3. CursorFits(w, Tail(q), h, st)
  BY Zenon, CursorMoves DEF SameButResults
<1> QED BY <1>1, <1>2, <1>3 DEF ViewFits, SameButResults

LEMMA AddRowsFits ==
  ASSUME NEW q \in Seq(ToView), q # << >>, NEW h \in HostState, NEW st,
         MessagesFit(q, h, st), IsChunk(q[1]),
         NEW v \in ViewState, v.log, MovedBy(v.cursor, q[1]), Continued(v, q[1]),
         AllShownFit(v.results, q, h, st),
         \A s \in Sources : AllShownFit(v.cache[s].results, q, h, st)
  PROVE  ViewFits(AddRows(v, q[1]), Tail(q), h, st)
<1> DEFINE m == q[1]
           w == Prepared(v, m)
           i == Place(v, m)
           t == Tail(q)
<1>1. m \in Appends /\ 1 \in DOMAIN q
  BY TailDomain, PlacedTypes
<1>2. /\ SameButResults(v, w) /\ AllShownFit(w.results, q, h, st)
      /\ i \in DOMAIN w.results => Ready(w.results[i], m)
      /\ m.index \in DOMAIN w.results => m.index = i
  BY Zenon, ResultIsReady
<1>3. v.cursor.id = m.id /\ v.cursor.row = m.total /\ w.cursor = v.cursor /\ w \in ViewState
  BY <1>2 DEF MovedBy, SameButResults
<1>4. \/ i \notin DOMAIN w.results /\ AddRows(v, m) = Request(w)
      \/ i \in DOMAIN w.results /\ w.results[i].cancelled /\ AddRows(v, m) = w
      \/ /\ i \in DOMAIN w.results /\ ~w.results[i].cancelled
         /\ \E u : /\ AddRows(v, m) = Persist(u) /\ SameButResults(w, u)
                   /\ DOMAIN u.results = DOMAIN w.results /\ Grown(w.results[i], u.results[i], m)
                   /\ \A j \in DOMAIN w.results : j # i => u.results[j] = w.results[j]
  BY <1>1, <1>3, AddRowsIs
<1> HIDE DEF w, i
<1>5. CASE i \notin DOMAIN w.results /\ AddRows(v, m) = Request(w)
  <2>1. StandsAt(w, m.index)
    BY <1>2, <1>5 DEF StandsAt
  <2>2. ViewFits(w, t, h, st)
    BY <1>2, <2>1, MovedFits
  <2> QED BY <1>3, <1>5, <2>2, RequestFits
<1>6. CASE i \in DOMAIN w.results /\ w.results[i].cancelled /\ AddRows(v, m) = w
  <2>1. StandsAt(w, m.index)
    BY <1>2, <1>3, <1>6 DEF StandsAt, Ready
  <2>2. ViewFits(w, t, h, st)
    BY <1>2, <2>1, MovedFits
  <2> QED BY <1>6, <2>2
<1>7. ASSUME i \in DOMAIN w.results, ~w.results[i].cancelled,
             NEW u, AddRows(v, m) = Persist(u), SameButResults(w, u),
             DOMAIN u.results = DOMAIN w.results, Grown(w.results[i], u.results[i], m),
             \A j \in DOMAIN w.results : j # i => u.results[j] = w.results[j]
      PROVE  ViewFits(AddRows(v, m), t, h, st)
  <2>1. /\ w.results[i] \in ShownResults /\ u.results[i] \in ShownResults /\ SameButResults(v, u)
        /\ u \in ViewState
    <3>1. w.results \in Seq(ShownResults) /\ u.results \in Seq(ShownResults) /\ u \in ViewState
      BY <1>3, <1>7 DEF SameButResults, ViewState
    <3>2. SameButResults(v, u)
      BY <1>2, <1>7 DEF SameButResults
    <3> QED BY <1>7, <3>1, <3>2
  <2>2. ChunkFits(m, st) /\ Ready(w.results[i], m)
    BY <1>1, <1>2, <1>7 DEF MessagesFit
  <2>3. ShownFits(u.results[i], q, h, st) /\ Len(u.results[i].rows) = m.total
    BY Zenon, <1>1, <1>7, <2>1, <2>2, GrownFits
  <2>4. AllShownFit(u.results, q, h, st)
    BY <1>2, <1>7, <2>3 DEF AllShownFit
  <2>5. u.results[i].id = m.id /\ u.cursor = v.cursor
    BY <1>7, <2>1, <2>2 DEF Grown, Ready, SameButResults
  <2>6. StandsAt(u, m.index)
    BY <1>2, <1>3, <1>7, <2>3, <2>5 DEF StandsAt
  <2>7. ViewFits(u, t, h, st)
    BY <2>1, <2>4, <2>6, MovedFits
  <2>8. ViewFits(Persist(u), t, h, st)
    BY Zenon, <2>1, <2>7, PersistFits
  <2> QED BY <1>7, <2>8
<1> QED BY <1>4, <1>5, <1>6, <1>7

LEMMA AppendRowsFits ==
  ASSUME NEW q \in Seq(ToView), q # << >>, NEW h \in HostState, NEW st,
         MessagesFit(q, h, st), IsChunk(q[1]), NEW v \in ViewState, ViewFits(v, q, h, st)
  PROVE  ViewFits(AppendRows(v, q[1]), Tail(q), h, st)
<1> DEFINE m == q[1]
           base == Base(v, m.index)
           d == Evaluate(v.cursor, m, base)
           judged == [v EXCEPT !.cursor = d.cursor]
<1>1. m \in Appends /\ 1 \in DOMAIN q /\ v.cursor \in Cursors /\ m.id \in Nat
  BY TailDomain, PlacedTypes DEF Appends, ViewState
<1>2. AppendRows(v, m) = IF Elsewhere(v) THEN v
                         ELSE IF ~v.log THEN Request(v)
                         ELSE IF d.kind = "desync" THEN Request(judged)
                         ELSE IF d.kind = "apply" THEN AddRows(judged, m)
                         ELSE judged
  BY DEF AppendRows
<1>3. /\ d.kind \in {"apply", "duplicate", "stale", "desync"}
      /\ d.kind = "desync" => d.cursor.lost
      /\ d.kind \in {"duplicate", "stale"} => d.cursor = v.cursor
      /\ d.kind = "apply" =>
           /\ MovedBy(d.cursor, m)
           /\ \/ m.first /\ m.seq = 0 /\ m.from = 0
              \/ ~m.first /\ (Starts(v.cursor, m, base) \/ GoesOn(v.cursor, m))
      /\ d.cursor \in Cursors
  BY <1>1, EvaluateIs, EvaluateType
<1> HIDE DEF d
<1>4. /\ judged \in ViewState /\ judged.cursor = d.cursor /\ judged.results = v.results
      /\ judged.cache = v.cache /\ judged.log = v.log /\ judged.active = v.active
  BY Zenon, <1>3 DEF ViewState
<1> HIDE DEF judged
<1>5. ViewFits(v, Tail(q), h, st)
  <2>1. ~IsBarrier(m)
    BY DEF IsChunk, IsBarrier
  <2> QED BY <2>1, ReadFits
<1>6. CASE Elsewhere(v) \/ ~v.log
  BY <1>2, <1>5, <1>6, RequestFits
<1>7. CASE ~Elsewhere(v) /\ v.log /\ d.kind = "desync"
  <2>1. ~Live(judged)
    BY <1>3, <1>4, <1>7 DEF Live
  <2>2. ViewFits(judged, Tail(q), h, st)
    BY <1>4, <1>5, <2>1 DEF ViewFits
  <2> QED BY <1>2, <1>4, <1>7, <2>2, RequestFits
<1>8. CASE ~Elsewhere(v) /\ v.log /\ d.kind \in {"duplicate", "stale"}
  <2>1. Shows(v, judged)
    BY <1>3, <1>4, <1>8, SameFades DEF Shows
  <2> QED BY <1>2, <1>5, <1>8, <2>1, ShowsFits
<1>9. CASE ~Elsewhere(v) /\ v.log /\ d.kind = "apply"
  <2>1. Continued(judged, m)
    <3>1. CASE m.first
      BY <1>3, <1>9, <3>1 DEF Continued
    <3>2. CASE ~m.first /\ Starts(v.cursor, m, base)
      <4>1. base = << m.id, m.from >> /\ m.id # None
        BY <1>1, <3>2 DEF Starts, None
      <4>2. m.index \in DOMAIN v.results /\ v.results[m.index].id = m.id
            /\ v.results[m.index].total = m.from
        BY <4>1 DEF Base
      <4>3. ShownFits(v.results[m.index], q, h, st)
        BY <4>2 DEF ViewFits, AllShownFit
      <4>4. Len(v.results[m.index].rows) = m.from
        BY <4>2, <4>3, ChunkNotOver DEF ShownFits
      <4> QED BY <1>4, <3>2, <4>2, <4>4 DEF Continued
    <3>3. CASE ~m.first /\ GoesOn(v.cursor, m)
      <4>1. Live(v)
        BY <1>9, <3>3 DEF Live, GoesOn, Elsewhere, NoSource
      <4>2. StandsAt(v, m.index)
        BY <1>1, <3>3, <4>1 DEF ViewFits, CursorFits, GoesOn, Placed
      <4> QED BY <1>4, <3>3, <4>2 DEF Continued, StandsAt, GoesOn
    <3> QED BY <1>3, <1>9, <3>1, <3>2, <3>3
  <2>2. /\ AllShownFit(judged.results, q, h, st)
        /\ \A s \in Sources : AllShownFit(judged.cache[s].results, q, h, st)
    BY <1>4 DEF ViewFits
  <2>3. ViewFits(AddRows(judged, m), Tail(q), h, st)
    BY Zenon, <1>3, <1>4, <1>9, <2>1, <2>2, AddRowsFits
  <2> QED BY <1>2, <1>9, <2>3
<1> QED BY <1>3, <1>6, <1>7, <1>8, <1>9

(* The end of a stream.                                                    *)
LEMMA CompleteIs ==
  ASSUME NEW c \in Cursors, NEW id \in Nat, NEW last \in Nat
  PROVE  LET d == Complete(c, id, last) IN
         /\ d.kind \in {"apply", "duplicate", "stale", "desync"}
         /\ d.kind = "desync" => d.cursor.lost
         /\ d.kind \in {"duplicate", "stale"} => d.cursor = c
         /\ d.kind = "apply" => /\ d.cursor.terminal /\ c # NoCursor /\ c.id = id
                                /\ ~c.lost /\ ~c.terminal /\ c.next = last + 1
<1> DEFINE d == Complete(c, id, last)
           e == [c EXCEPT !.terminal = TRUE]
<1>1. e.terminal
  BY DEF Cursors
<1>2. \/ d = Stale(c) \/ d = Duplicate(c) \/ d = Desync(c, id)
      \/ d = Apply(e) /\ c # NoCursor /\ c.id = id /\ ~c.terminal /\ ~c.lost
         /\ ~(last < c.next - 1) /\ ~(last > c.next - 1)
  BY DEF Complete
<1>3. ~(last < c.next - 1) /\ ~(last > c.next - 1) => c.next = last + 1
  BY DEF Cursors
<1> HIDE DEF d, e
<1>4. CASE d = Stale(c) \/ d = Duplicate(c)
  BY <1>4 DEF Stale, Duplicate, d
<1>5. CASE d = Desync(c, id)
  BY <1>5, DesyncIsLost DEF d
<1>6. CASE d = Apply(e) /\ c # NoCursor /\ c.id = id /\ ~c.terminal /\ ~c.lost
           /\ ~(last < c.next - 1) /\ ~(last > c.next - 1)
  <2>1. d.kind = "apply" /\ d.cursor = e
    BY <1>6 DEF Apply
  <2> QED BY <1>1, <1>3, <1>6, <2>1 DEF d
<1> QED BY <1>2, <1>4, <1>5, <1>6

Finished(r, s, m) == /\ s.id = r.id /\ s.rows = r.rows /\ s.total = m.total
                     /\ s.complete /\ s.cancelled = r.cancelled

FinishedView(v, m) ==
  [v EXCEPT !.completed = TRUE, !.results[m.index].complete = TRUE,
            !.results[m.index].total = m.total]

LEMMA FinishedIs ==
  ASSUME NEW v \in ViewState, NEW m \in Completions, m.index \in DOMAIN v.results
  PROVE  LET g == FinishedView(v, m) IN
         /\ SameButResults(v, g) /\ DOMAIN g.results = DOMAIN v.results
         /\ Finished(v.results[m.index], g.results[m.index], m)
         /\ \A j \in DOMAIN v.results : j # m.index => g.results[j] = v.results[j]
<1> DEFINE i == m.index
           r1 == [v.results[i] EXCEPT !.complete = TRUE]
           q1 == [v.results EXCEPT ![i] = r1]
           g1 == [v EXCEPT !.completed = TRUE, !.results = q1]
           r2 == [r1 EXCEPT !.total = m.total]
           q2 == [q1 EXCEPT ![i] = r2]
           u == [v EXCEPT !.completed = TRUE, !.results = q2]
           g == FinishedView(v, m)
<1>1. v.results \in Seq(ShownResults) /\ v.results[i] \in ShownResults /\ m.total \in Nat
  <2>1. v.results \in Seq(ShownResults)
    BY DEF ViewState
  <2> QED BY <2>1 DEF Completions
<1>2. r1 \in ShownResults /\ r2 \in ShownResults /\ Finished(v.results[i], r2, m)
  BY Zenon, <1>1 DEF ShownResults, Finished
<1>3. q1 \in Seq(ShownResults) /\ DOMAIN q1 = DOMAIN v.results
  BY <1>1, <1>2, ReplacedType
<1>4. q1[i] = r1
  OBVIOUS
<1>5. q2 \in Seq(ShownResults) /\ DOMAIN q2 = DOMAIN v.results
  BY <1>2, <1>3, ReplacedType
<1>6. q2[i] = r2 /\ \A j \in DOMAIN v.results : j # i => q2[j] = v.results[j]
  BY <1>3
<1>7. g = [g1 EXCEPT !.results[i].total = m.total]
  BY DEF FinishedView
<1> HIDE DEF g, r1, q1
<1>8. g1 \in ViewState /\ g1.results = q1
  BY Zenon, <1>3 DEF ViewState
<1>9. [q1[i] EXCEPT !.total = m.total] = r2
  BY <1>4
<1>10. g = [g1 EXCEPT !.results = q2]
  BY Zenon, <1>7, <1>8, <1>9
<1> HIDE DEF q2, r2
<1>11. g = u
  BY Zenon, <1>10 DEF ViewState
<1>12. SameButResults(v, u) /\ u.results = q2
  BY Zenon, <1>5, ResultsOnly
<1> HIDE DEF u
<1> QED BY <1>2, <1>5, <1>6, <1>11, <1>12 DEF g

LEMMA StreamingCompleteFits ==
  ASSUME NEW q \in Seq(ToView), q # << >>, NEW h \in HostState, NEW st,
         MessagesFit(q, h, st), IsEnd(q[1]), NEW v \in ViewState, ViewFits(v, q, h, st)
  PROVE  ViewFits(StreamingComplete(v, q[1]), Tail(q), h, st)
<1> DEFINE m == q[1]
           d == Complete(v.cursor, m.id, m.last)
           judged == [v EXCEPT !.cursor = d.cursor]
           g == FinishedView(judged, m)
           Fits == ~(m.index \notin DOMAIN v.results \/ v.results[m.index].id # m.id)
<1>1. m \in Completions /\ 1 \in DOMAIN q /\ v.cursor \in Cursors /\ m.id \in Nat /\ m.last \in Nat
  BY TailDomain, PlacedTypes DEF Completions, ViewState
<1>2. StreamingComplete(v, m) =
        IF Elsewhere(v) THEN v
        ELSE IF ~Fits THEN Request(v)
        ELSE IF d.kind = "desync" THEN Request(judged)
        ELSE IF d.kind = "apply" THEN Persist(g)
        ELSE judged
  BY DEF StreamingComplete, FinishedView
<1>3. /\ d.kind \in {"apply", "duplicate", "stale", "desync"}
      /\ d.kind = "desync" => d.cursor.lost
      /\ d.kind \in {"duplicate", "stale"} => d.cursor = v.cursor
      /\ d.kind = "apply" => /\ d.cursor.terminal /\ v.cursor # NoCursor /\ v.cursor.id = m.id
                             /\ ~v.cursor.lost /\ ~v.cursor.terminal
                             /\ v.cursor.next = m.last + 1
      /\ d.cursor \in Cursors
  BY <1>1, CompleteIs, CompleteType
<1> HIDE DEF d
<1>4. /\ judged \in ViewState /\ judged.cursor = d.cursor /\ judged.results = v.results
      /\ judged.cache = v.cache /\ judged.log = v.log /\ judged.active = v.active
  BY Zenon, <1>3 DEF ViewState
<1>5. ViewFits(v, Tail(q), h, st)
  <2>1. ~IsBarrier(m)
    BY DEF IsEnd, IsBarrier
  <2> QED BY <2>1, ReadFits
<1>6. Fits => /\ SameButResults(judged, g) /\ DOMAIN g.results = DOMAIN v.results
              /\ Finished(v.results[m.index], g.results[m.index], m)
              /\ \A j \in DOMAIN v.results : j # m.index => g.results[j] = v.results[j]
  <2> HIDE DEF judged
  <2> QED BY <1>1, <1>4, FinishedIs
<1> HIDE DEF judged, g
<1>7. CASE Elsewhere(v) \/ ~Fits
  BY <1>2, <1>5, <1>7, RequestFits
<1>8. CASE ~Elsewhere(v) /\ Fits /\ d.kind = "desync"
  <2>1. ~Live(judged)
    BY <1>3, <1>4, <1>8 DEF Live
  <2>2. ViewFits(judged, Tail(q), h, st)
    BY <1>4, <1>5, <2>1 DEF ViewFits
  <2> QED BY <1>2, <1>4, <1>8, <2>2, RequestFits
<1>9. CASE ~Elsewhere(v) /\ Fits /\ d.kind \in {"duplicate", "stale"}
  <2>1. Shows(v, judged)
    BY <1>3, <1>4, <1>9, SameFades DEF Shows
  <2> QED BY <1>2, <1>5, <1>9, <2>1, ShowsFits
<1>10. CASE ~Elsewhere(v) /\ Fits /\ d.kind = "apply"
  <2> DEFINE i == m.index
             r == v.results[i]
             s == g.results[i]
  <2>1. Live(v)
    BY <1>3, <1>10 DEF Live, Elsewhere, NoSource
  <2>2. /\ i \in DOMAIN v.results /\ r.id = m.id /\ ShownFits(r, q, h, st)
    BY <1>10 DEF ViewFits, AllShownFit
  <2>3. r.cancelled \/ Len(r.rows) = v.cursor.row
    BY <1>1, <1>3, <1>10, <2>1, <2>2 DEF ViewFits, CursorFits, StandsAt, Placed
  <2>4. v.cursor.row = m.total
    <3>1. v.cursor.row = m.total \/ Between(q, 0, 1)
      BY <1>1, <1>3, <1>10, <2>1 DEF ViewFits, CursorFits
    <3>2. ~Between(q, 0, 1)
      <4>1. DOMAIN q = 1 .. Len(q)
        OBVIOUS
      <4> QED BY <4>1 DEF Between
    <3> QED BY <3>1, <3>2
  <2>5. EndFits(q, 1, h, st)
    BY <1>1 DEF MessagesFit
  <2>6. Over(m.id, q, st) /\ AtMost(h.results, m.id, m.total)
    <3>1. \A p \in DOMAIN q : p \in Nat /\ p > 0
      OBVIOUS
    <3> QED BY <2>5, <3>1 DEF EndFits, Over
  <2>7. ShownFits(s, q, h, st)
    BY Zenon, <1>6, <1>10, <2>2, <2>3, <2>4, <2>6 DEF ShownFits, Finished, Pure
  <2>8. AllShownFit(g.results, q, h, st)
    BY <1>6, <1>10, <2>7 DEF AllShownFit, ViewFits
  <2>9. ~Live(g)
    BY <1>3, <1>4, <1>6, <1>10 DEF Live, SameButResults
  <2>10. g \in ViewState /\ ViewFits(g, q, h, st)
    BY <1>4, <1>6, <1>10, <2>8, <2>9 DEF ViewFits, SameButResults
  <2>11. ViewFits(g, Tail(q), h, st)
    BY <2>9, <2>10, ReadFits
  <2>12. ViewFits(Persist(g), Tail(q), h, st)
    BY Zenon, <2>10, <2>11, PersistFits
  <2> QED BY <1>2, <1>10, <2>12
<1> QED BY <1>3, <1>7, <1>8, <1>9, <1>10

LEMMA HandleFits ==
  ASSUME NEW q \in Seq(ToView), q # << >>, NEW h \in HostState, NEW st,
         MessagesFit(q, h, st), NEW v \in ViewState, ViewFits(v, q, h, st)
  PROVE  ViewFits(Handle(v, q[1]), Tail(q), h, st)
<1> DEFINE m == q[1]
<1>1. m \in ToView /\ 1 \in DOMAIN q
  BY TailDomain
<1>2. CASE m \in Hydrates /\ Handle(v, m) = Replace(v, m)
  <2>1. AllPure(m.results) /\ ~IsBarrier(m)
    BY <1>1, <1>2 DEF MessagesFit, Hydrates, IsBarrier
  <2>2. ViewFits(Replace(v, m), q, h, st)
    BY <1>2, <2>1, ReplaceFits
  <2> QED BY <1>2, <2>1, <2>2, ReadFits
<1>3. CASE m \in Switches /\ Handle(v, m) = ShowSource(v, m)
  <2>1. /\ ViewFits(ShowSource(v, m), q, h, st)
        /\ m.source = "O" => ~Live(ShowSource(v, m))
    BY <1>3, ShowSourceFits
  <2>2. m.source # "O" => ~IsBarrier(m)
    BY <1>3 DEF Switches, IsBarrier
  <2> QED BY <1>3, <2>1, <2>2, ReadFits
<1>4. CASE m \in Appends /\ Handle(v, m) = AppendRows(v, m)
  <2>1. IsChunk(m)
    BY <1>4 DEF Appends, IsChunk
  <2> QED BY <1>4, <2>1, AppendRowsFits
<1>5. CASE m \in Completions /\ Handle(v, m) = StreamingComplete(v, m)
  <2>1. IsEnd(m)
    BY <1>5 DEF Completions, IsEnd
  <2> QED BY <1>5, <2>1, StreamingCompleteFits
<1>6. CASE Handle(v, m) = Cancel(v)
  <2>1. ViewFits(Cancel(v), q, h, st) /\ ~Live(Cancel(v))
    BY CancelFits
  <2> QED BY <1>6, <2>1, ReadFits
<1>7. CASE Handle(v, m) = LogRows(v) /\ m.type = "log"
  <2>1. ~IsBarrier(m)
    BY <1>7 DEF IsBarrier
  <2>2. ViewFits(v, Tail(q), h, st)
    BY <2>1, ReadFits
  <2> QED BY <1>7, <2>2, RequestFits DEF LogRows
<1>8. Handle(v, m) = Cancel(v) \/ m.type # "cancelExecution"
  BY DEF Handle
<1>9. m.type = "log" => Handle(v, m) = LogRows(v)
  BY DEF Handle
<1>10. m \in Hydrates \/ m \in Switches \/ m \in Appends \/ m \in Completions
       \/ m.type = "cancelExecution" \/ m.type = "log"
  BY <1>1 DEF ToView
<1>11. /\ m \in Hydrates => Handle(v, m) = Replace(v, m)
       /\ m \in Switches => Handle(v, m) = ShowSource(v, m)
       /\ m \in Appends => Handle(v, m) = AppendRows(v, m)
       /\ m \in Completions => Handle(v, m) = StreamingComplete(v, m)
  BY DEF Handle, Hydrates, Switches, Appends, Completions
<1> QED BY <1>2, <1>3, <1>4, <1>5, <1>6, <1>7, <1>8, <1>9, <1>10, <1>11
----------------------------------------------------------------------------
(* The handlers of the host that only show what it has: they post no rows, *)
(* and no result that is not in order.                                     *)

CleanMsg(m) == ~Placed(m) /\ (m.type = "hydrate" => AllPure(m.results))
Clean(out) == \A i \in DOMAIN out : CleanMsg(out[i])

SameRun(h, g) ==
  /\ g.results = h.results /\ g.executing = h.executing /\ g.cancelled = h.cancelled
  /\ g.tracked = h.tracked /\ g.seq = h.seq

Relays(h, g) ==
  /\ Sound(g) /\ SameRun(h, g)
  /\ AllPure(h.results) /\ Clean(h.out) => Clean(g.out)
  /\ Told(h.out) => Told(g.out)
  /\ g.active = "O" => h.active = "O" \/ Told(g.out)

LEMMA RelaysOn ==
  ASSUME NEW h, NEW g, NEW k, Relays(h, g), Relays(g, k)
  PROVE  Relays(h, k)
BY DEF Relays, SameRun

LEMMA RelaysItself ==
  ASSUME NEW h, Sound(h)
  PROVE  Relays(h, h)
BY DEF Relays, SameRun

LEMMA OthersRelay ==
  ASSUME NEW h, NEW g, Sound(g), SameRun(h, g), g.out = h.out, g.active = h.active
  PROVE  Relays(h, g)
BY DEF Relays

LEMMA AppendedOut ==
  ASSUME NEW out \in Seq(ToView), NEW m \in ToView
  PROVE  LET q == Append(out, m) IN
         /\ Clean(out) /\ CleanMsg(m) => Clean(q)
         /\ Told(out) \/ IsBarrier(m) => Told(q)
<1> DEFINE q == Append(out, m)
<1>1. /\ DOMAIN q = 1 .. Len(out) + 1 /\ Len(out) \in Nat /\ DOMAIN out = 1 .. Len(out)
      /\ q[Len(out) + 1] = m /\ \A i \in DOMAIN out : q[i] = out[i]
  OBVIOUS
<1> HIDE DEF q
<1>2. \A i \in DOMAIN q : i \in DOMAIN out \/ i = Len(out) + 1
  BY <1>1
<1>3. DOMAIN out \subseteq DOMAIN q /\ Len(out) + 1 \in DOMAIN q
  BY <1>1
<1>4. Clean(out) /\ CleanMsg(m) => Clean(q)
  BY <1>1, <1>2 DEF Clean
<1>5. Told(out) \/ IsBarrier(m) => Told(q)
  BY <1>1, <1>3 DEF Told
<1> QED BY <1>4, <1>5 DEF q

LEMMA PostRelays ==
  ASSUME NEW h, NEW m \in ToView, Sound(h), IsSync(m) => m.sync <= h.syncVersion,
         AllPure(h.results) => CleanMsg(m)
  PROVE  /\ Relays(h, Post(h, m)) /\ (IsBarrier(m) => Told(Post(h, m).out))
         /\ Post(h, m).active = h.active /\ Post(h, m).pendingSync = h.pendingSync
<1> DEFINE g == Post(h, m)
<1>1. Sound(g) /\ g = [h EXCEPT !.out = Append(h.out, m)]
  BY PostFollows DEF Follows
<1>2. h \in HostState /\ h.out \in Seq(ToView)
  BY DEF Sound, HostState
<1> HIDE DEF g
<1>3. SameRun(h, g) /\ g.active = h.active /\ g.pendingSync = h.pendingSync
      /\ g.out = Append(h.out, m)
  BY <1>1, <1>2 DEF SameRun, HostState
<1>4. /\ Clean(h.out) /\ CleanMsg(m) => Clean(g.out)
      /\ Told(h.out) \/ IsBarrier(m) => Told(g.out)
  BY <1>2, <1>3, AppendedOut
<1> QED BY <1>1, <1>3, <1>4 DEF Relays, g

LEMMA ActiveSourceMsgIs ==
  ASSUME NEW h \in HostState
  PROVE  LET m == ActiveSourceMsg(h) IN
         /\ m \in ToView /\ ~IsSync(m) /\ CleanMsg(m)
         /\ IsBarrier(m) <=> h.active = "O"
BY ActiveSourceMsgType
   DEF ActiveSourceMsg, CleanMsg, Placed, IsChunk, IsEnd, IsBarrier

LEMMA TellsActiveRelays ==
  ASSUME NEW h, Sound(h)
  PROVE  LET g == Post(h, ActiveSourceMsg(h)) IN
         /\ Relays(h, g) /\ g.active = h.active /\ g.pendingSync = h.pendingSync
         /\ h.active = "O" => Told(g.out)
<1>1. h \in HostState
  BY DEF Sound
<1> QED BY <1>1, PostRelays, ActiveSourceMsgIs

LEMMA BumpRelays ==
  ASSUME NEW h, Sound(h)
  PROVE  Relays(h, Bump(h)) /\ Bump(h).completed = h.completed
<1> DEFINE dirty == h.globalDirty \/ h.active = "S"
           version == h.version + 1
           g == [h EXCEPT !.version = version, !.globalDirty = dirty]
<1>1. Bump(h) = g
  BY DEF Bump
<1>2. h \in HostState
  BY DEF Sound
<1> HIDE DEF dirty, version
<1>3. SameRun(h, g) /\ g.out = h.out /\ g.active = h.active /\ g.completed = h.completed
  BY <1>2 DEF HostState, SameRun
<1>4. Sound(Bump(h))
  BY BumpFollows DEF Follows
<1> HIDE DEF g
<1> QED BY <1>1, <1>3, <1>4, OthersRelay

LEMMA LightweightRelays ==
  ASSUME NEW h, Sound(h)
  PROVE  Relays(h, Lightweight(h))
BY TellsActiveRelays, RelaysItself DEF Lightweight

LEMMA MarkSentRelays ==
  ASSUME NEW h, Sound(h)
  PROVE  Relays(h, MarkSent(h))
<1> DEFINE sent == IF h.active = "S" THEN h.version ELSE h.sent
           g == [h EXCEPT !.sent = sent, !.globalDirty = FALSE]
<1>1. MarkSent(h) = g
  BY DEF MarkSent
<1>2. h \in HostState
  BY DEF Sound
<1> HIDE DEF sent
<1>3. SameRun(h, g) /\ g.out = h.out /\ g.active = h.active
  BY <1>2 DEF HostState, SameRun
<1>4. Sound(MarkSent(h))
  BY MarkSentFollows DEF Follows
<1> HIDE DEF g
<1> QED BY <1>1, <1>3, <1>4, OthersRelay

LEMMA HydrateMsgIs ==
  ASSUME NEW h \in HostState
  PROVE  LET m == HydrateMsg(h) IN AllPure(h.results) => CleanMsg(m)
<1>1. AllPure(h.results) => AllPure(HydrateMsg(h).results)
  <2>1. HydrateMsg(h).results = IF h.active = "S" THEN h.results ELSE << >>
    BY DEF HydrateMsg
  <2>2. AllPure(<< >>)
    BY DEF AllPure
  <2> QED BY <2>1, <2>2
<1>2. ~Placed(HydrateMsg(h))
  BY DEF HydrateMsg, Placed, IsChunk, IsEnd
<1> QED BY <1>1, <1>2 DEF CleanMsg

LEMMA HydrateRelays ==
  ASSUME NEW h, Sound(h)
  PROVE  Relays(h, Hydrate(h))
<1> DEFINE log == h.log \/ h.active = "S"
           logged == [h EXCEPT !.log = log]
           M == MarkSent(logged)
           stale == M.stale /\ h.active # "S"
           final == IF h.active = "S" /\ h.completed THEN h.version ELSE M.finalizeVersion
           marked == [M EXCEPT !.stale = stale, !.finalizeVersion = final,
                               !.lastSentActive = h.active]
           fresh == [logged EXCEPT !.html = TRUE]
           m == HydrateMsg(h)
<1>1. h \in HostState /\ Sound(Hydrate(h))
  BY HydrateFollows DEF Sound, Follows
<1>2. Hydrate(h) = IF ~h.ready THEN fresh ELSE Post(marked, m)
  BY <1>1 DEF Hydrate, HostState
<1>3. logged \in HostState /\ logged.sent <= logged.version
      /\ logged.syncVersion = h.syncVersion /\ logged.out = h.out
  BY Zenon DEF Sound, HostState
<1>4. SameRun(h, logged) /\ logged.active = h.active
  BY <1>1 DEF SameRun, HostState
<1> HIDE DEF logged
<1>5. Sound(logged)
  BY <1>3 DEF Sound
<1>6. Relays(h, logged)
  BY <1>3, <1>4, <1>5, OthersRelay
<1>7. CASE ~h.ready
  <2>1. SameRun(logged, fresh) /\ fresh.out = logged.out /\ fresh.active = logged.active
    BY <1>3 DEF SameRun, HostState
  <2> HIDE DEF fresh
  <2>2. Relays(logged, fresh)
    BY <1>1, <1>2, <1>7, <2>1, OthersRelay
  <2> QED BY <1>2, <1>6, <1>7, <2>2, RelaysOn
<1>8. CASE h.ready
  <2>1. Relays(logged, M) /\ Sound(M) /\ M \in HostState
    BY <1>5, MarkSentRelays DEF Relays, Sound
  <2>2. M.syncVersion = h.syncVersion
    BY <1>3, <1>5, MarkSentFollows
  <2> HIDE DEF M
  <2>3. stale \in BOOLEAN /\ final \in Nat \union {None}
    BY <1>1, <2>1 DEF HostState
  <2> HIDE DEF stale, final
  <2>4. /\ marked \in HostState /\ marked.sent = M.sent /\ marked.version = M.version
        /\ marked.syncVersion = M.syncVersion /\ marked.out = M.out
        /\ marked.active = M.active
    BY Zenon, <1>1, <2>1, <2>3 DEF HostState
  <2>5. SameRun(M, marked)
    BY <2>1 DEF SameRun, HostState
  <2> HIDE DEF marked
  <2>6. Sound(marked)
    BY <2>1, <2>4 DEF Sound
  <2>7. Relays(M, marked)
    BY <2>4, <2>5, <2>6, OthersRelay
  <2>8. marked.results = h.results
    BY <1>4, <2>1, <2>5 DEF Relays, SameRun
  <2>9. /\ m \in ToView /\ (IsSync(m) => m.sync <= marked.syncVersion)
        /\ AllPure(marked.results) => CleanMsg(m)
    <3>1. m.sync = h.syncVersion /\ h.syncVersion \in Nat
      BY <1>1, HydrateMsgType DEF HostState
    <3>2. AllPure(h.results) => CleanMsg(m)
      BY <1>1, HydrateMsgIs
    <3> QED BY <1>1, <2>2, <2>4, <2>8, <3>1, <3>2, HydrateMsgType
  <2> HIDE DEF m
  <2>10. Relays(marked, Post(marked, m))
    BY <2>6, <2>9, PostRelays
  <2> QED BY <1>2, <1>6, <1>8, <2>1, <2>7, <2>10, RelaysOn
<1> QED BY <1>7, <1>8

LEMMA UpdateViewRelays ==
  ASSUME NEW h, Sound(h)
  PROVE  Relays(h, UpdateView(h))
<1>1. h \in HostState
  BY DEF Sound
<1>2. Relays(h, h) /\ Relays(h, Hydrate(h)) /\ Relays(h, MarkSent(h))
  BY RelaysItself, HydrateRelays, MarkSentRelays
<1>3. ASSUME NEW g, Relays(h, g) PROVE Relays(h, Lightweight(g))
  BY <1>3, LightweightRelays, RelaysOn DEF Relays
<1>4. Relays(h, [MarkSent(h) EXCEPT !.finalizeVersion = h.version])
  <2> DEFINE M == MarkSent(h)
             g == [M EXCEPT !.finalizeVersion = h.version]
  <2>1. Sound(M) /\ M \in HostState /\ h.version \in Nat
    BY <1>1, <1>2 DEF Relays, Sound, HostState
  <2>2. Relays(h, M)
    BY <1>2
  <2> HIDE DEF M
  <2>3. /\ g \in HostState /\ g.sent = M.sent /\ g.version = M.version
        /\ g.syncVersion = M.syncVersion /\ g.out = M.out /\ g.active = M.active
    BY Zenon, <2>1 DEF HostState
  <2>4. SameRun(M, g)
    BY <2>1 DEF SameRun, HostState
  <2> HIDE DEF g
  <2>5. Sound(g)
    BY <2>1, <2>3 DEF Sound
  <2>6. Relays(h, g)
    BY <2>2, <2>3, <2>4, <2>5, OthersRelay, RelaysOn
  <2> QED BY <2>6 DEF g, M
<1> QED BY <1>2, <1>3, <1>4 DEF UpdateView

LEMMA ResumeRelays ==
  ASSUME NEW h, NEW s \in Sources, Sound(h)
  PROVE  Relays(h, Resume(h, s)) /\ Resume(h, s).active = h.active
<1>1. CASE ~(s = "S" /\ h.pendingSync)
  <2>1. Resume(h, s) = h
    BY <1>1 DEF Resume
  <2> QED BY <2>1, RelaysItself
<1>2. CASE s = "S" /\ h.pendingSync
  <2> DEFINE g == [h EXCEPT !.pendingSync = FALSE, !.syncVersion = h.syncVersion + 1,
                            !.stale = TRUE]
  <2>1. Resume(h, s) = g /\ h \in HostState
    BY <1>2 DEF Resume, Sound
  <2>2. SameRun(h, g) /\ g.out = h.out /\ g.active = h.active
    BY <2>1 DEF SameRun, HostState
  <2>3. Sound(Resume(h, s))
    BY <1>2, ResumeFollows
  <2> HIDE DEF g
  <2> QED BY <2>1, <2>2, <2>3, OthersRelay
<1> QED BY <1>1, <1>2

(* Showing another source: leaving S, the page is told.                    *)
LEMMA SetActiveSourceRelays ==
  ASSUME NEW h, NEW s \in Sources, Sound(h)
  PROVE  Relays(h, SetActiveSource(h, s))
<1>1. h \in HostState
  BY DEF Sound
<1>2. CASE h.active # s
  <2> DEFINE moved == [h EXCEPT !.active = s]
             updated == UpdateView(moved)
             shown == Resume(updated, s)
             told == Post(shown, ActiveSourceMsg(shown))
             g == UpdateView(told)
  <2>1. SetActiveSource(h, s) = g
    BY <1>2 DEF SetActiveSource
  <2>2. /\ moved \in HostState /\ moved.sent = h.sent /\ moved.version = h.version
        /\ moved.syncVersion = h.syncVersion /\ moved.out = h.out /\ moved.active = s
    BY Zenon, <1>1 DEF HostState
  <2>3. SameRun(h, moved)
    BY <1>1 DEF SameRun, HostState
  <2> HIDE DEF moved
  <2>4. Sound(moved)
    BY <2>2 DEF Sound
  <2>5. Relays(moved, updated) /\ updated.active = s
    BY <2>2, <2>4, UpdateViewRelays, UpdateViewReports DEF Reports
  <2> HIDE DEF updated
  <2>6. Relays(updated, shown) /\ shown.active = s
    BY <2>5, ResumeRelays DEF Relays
  <2> HIDE DEF shown
  <2>7. Relays(shown, told) /\ (s = "O" => Told(told.out))
    BY <2>6, TellsActiveRelays DEF Relays
  <2> HIDE DEF told
  <2>8. Relays(told, g)
    BY <2>7, UpdateViewRelays DEF Relays
  <2>9. g.active = s
    <3>1. told.active = s
      BY <2>6, TellsActiveRelays DEF Relays, told
    <3> QED BY <2>7, <3>1, UpdateViewReports DEF Reports, Relays
  <2> HIDE DEF g
  <2>10. Relays(moved, g)
    BY <2>5, <2>6, <2>7, <2>8, RelaysOn
  <2>11. g.active = "O" => Told(g.out)
    BY <2>7, <2>8, <2>9 DEF Relays
  <2>12. Relays(h, g)
    BY <2>2, <2>3, <2>10, <2>11 DEF Relays, SameRun
  <2> QED BY <2>1, <2>12
<1>3. CASE h.active = s
  <2>1. Relays(h, h) /\ Relays(h, Resume(h, s))
    BY RelaysItself, ResumeRelays
  <2>2. Relays(h, UpdateView(Resume(h, s)))
    BY <2>1, UpdateViewRelays, RelaysOn DEF Relays
  <2>3. SetActiveSource(h, s) \in {h, UpdateView(Resume(h, s))}
    BY <1>3 DEF SetActiveSource
  <2> QED BY <2>1, <2>2, <2>3
<1> QED BY <1>2, <1>3

LEMMA UpdateWebviewRelays ==
  ASSUME NEW h, Sound(h)
  PROVE  Relays(h, UpdateWebview(h))
<1>1. h.focus \in Sources
  BY DEF Sound, HostState
<1>2. Relays(h, FollowEditor(h))
  BY <1>1, SetActiveSourceRelays DEF FollowEditor
<1>3. Relays(FollowEditor(h), UpdateView(FollowEditor(h)))
  BY <1>2, UpdateViewRelays DEF Relays
<1> QED BY <1>2, <1>3, RelaysOn DEF UpdateWebview

(* Fields that say nothing of the run or of the source shown.              *)
LEMMA AsideRelays ==
  ASSUME NEW h, Sound(h), NEW g \in HostState, g.sent = h.sent, g.version = h.version,
         h.syncVersion <= g.syncVersion, SameRun(h, g), g.out = h.out, g.active = h.active
  PROVE  Relays(h, g) /\ Relays(h, UpdateWebview(g))
<1>1. Sound(g)
  <2>1. \A i \in DOMAIN h.out : IsSync(h.out[i]) => h.out[i].sync \in Nat
    <3>1. h.out \in Seq(ToView)
      BY DEF Sound, HostState
    <3>2. \A i \in DOMAIN h.out : h.out[i] \in ToView
      BY <3>1
    <3> QED BY <3>2, PostedType
  <2>2. h.syncVersion \in Nat /\ g.syncVersion \in Nat
    BY DEF Sound, HostState
  <2> QED BY <2>1, <2>2, SMT DEF Sound
<1>2. Relays(h, g)
  BY <1>1, OthersRelay
<1>3. Relays(g, UpdateWebview(g))
  BY <1>1, UpdateWebviewRelays
<1> QED BY <1>2, <1>3, RelaysOn

LEMMA ForceHydrateRelays ==
  ASSUME NEW h, Sound(h)
  PROVE  Relays(h, ForceHydrate(h))
<1> DEFINE stale == h.stale \/ h.log
           g == [h EXCEPT !.stale = stale]
<1>1. ForceHydrate(h) \in {h, UpdateWebview(g)}
  BY DEF ForceHydrate
<1>2. h \in HostState /\ stale \in BOOLEAN /\ h.syncVersion \in Nat
  BY DEF Sound, HostState
<1> HIDE DEF stale
<1>3. g \in HostState /\ g.sent = h.sent /\ g.version = h.version /\ SameRun(h, g)
      /\ g.syncVersion = h.syncVersion /\ g.out = h.out /\ g.active = h.active
  BY Zenon, <1>2 DEF SameRun, HostState
<1> HIDE DEF g
<1>4. Relays(h, UpdateWebview(g))
  BY <1>2, <1>3, AsideRelays
<1> QED BY <1>1, <1>4, RelaysItself

LEMMA ViewReadyRelays ==
  ASSUME NEW h, Sound(h)
  PROVE  Relays(h, ViewReady(h))
<1> DEFINE g == [h EXCEPT !.ready = TRUE]
<1>1. h \in HostState /\ h.syncVersion \in Nat
  BY DEF Sound, HostState
<1>2. g \in HostState /\ g.sent = h.sent /\ g.version = h.version /\ SameRun(h, g)
      /\ g.syncVersion = h.syncVersion /\ g.out = h.out /\ g.active = h.active
  BY Zenon, <1>1 DEF SameRun, HostState
<1>3. ViewReady(h) = ForceHydrate(g)
  BY DEF ViewReady
<1> HIDE DEF g
<1>4. Relays(h, g)
  BY <1>1, <1>2, AsideRelays
<1>5. Relays(g, ForceHydrate(g))
  BY <1>4, ForceHydrateRelays DEF Relays
<1> QED BY <1>3, <1>4, <1>5, RelaysOn

LEMMA ResultSyncRequestRelays ==
  ASSUME NEW h, Sound(h)
  PROVE  Relays(h, ResultSyncRequest(h))
<1> DEFINE later == [h EXCEPT !.pendingSync = TRUE]
           count == h.syncVersion + 1
           g == [h EXCEPT !.pendingSync = FALSE, !.syncVersion = count, !.stale = TRUE]
<1>1. ResultSyncRequest(h) \in {later, UpdateWebview(g)}
  BY DEF ResultSyncRequest
<1>2. h \in HostState /\ h.syncVersion \in Nat /\ count \in Nat /\ h.syncVersion <= count
  BY DEF Sound, HostState
<1> HIDE DEF count
<1>3. later \in HostState /\ later.sent = h.sent /\ later.version = h.version
      /\ SameRun(h, later) /\ later.syncVersion = h.syncVersion /\ later.out = h.out
      /\ later.active = h.active
  BY Zenon, <1>2 DEF SameRun, HostState
<1>4. g \in HostState /\ g.sent = h.sent /\ g.version = h.version /\ SameRun(h, g)
      /\ g.syncVersion = count /\ g.out = h.out /\ g.active = h.active
  BY Zenon, <1>2 DEF SameRun, HostState
<1> HIDE DEF g, later
<1>5. Relays(h, later)
  BY <1>2, <1>3, AsideRelays
<1>6. Relays(h, UpdateWebview(g))
  BY <1>2, <1>4, AsideRelays
<1> QED BY <1>1, <1>5, <1>6
----------------------------------------------------------------------------
(* A handler that leaves the host in g, when the executor goes from st to  *)
(* st2, does so in order.                                                  *)

Later(st, st2) ==
  \A id \in Nat : (Begun(id, st) => Begun(id, st2)) /\ (Ended(id, st) => Ended(id, st2))

Orderly(h, st, g, st2) ==
  /\ HostFits(g, st2)
  /\ Onward(h, st, g, st2, Told(g.out))
  /\ Tells(g.out, h, st, g, st2)

LEMMA CleanTells ==
  ASSUME NEW out, Clean(out), NEW h, NEW st, NEW g, NEW st2
  PROVE  Tells(out, h, st, g, st2)
BY DEF Clean, CleanMsg, Placed, Tells

LEMMA CleanAtFirst ==
  ASSUME NEW h, h.out = << >>
  PROVE  Clean(h.out)
<1>1. DOMAIN h.out = {}
  OBVIOUS
<1> QED BY <1>1 DEF Clean

LEMMA QuietlyOrderly ==
  ASSUME NEW h, Sound(h), h.out = << >>, NEW st, HostFits(h, st), NEW g, Relays(h, g)
  PROVE  Orderly(h, st, g, st)
<1>1. Clean(g.out)
  BY CleanAtFirst DEF Relays, HostFits, ResultsFit
<1>2. Tells(g.out, h, st, g, st)
  BY <1>1, CleanTells
<1>3. HostFits(g, st)
  BY DEF Relays, SameRun, HostFits, ResultsFit, ExecutorFits, TrackedFits
<1>4. Onward(h, st, g, st, Told(g.out))
  BY DEF Relays, SameRun, Onward, Hides, Grows, AtMost
<1> QED BY <1>2, <1>3, <1>4 DEF Orderly

(* A handler that ends the stream of the statement before.                 *)
LEMMA UntrackedOrderly ==
  ASSUME NEW h \in HostState, NEW st, HostFits(h, st), NEW g, NEW st2, Clean(g.out),
         g.tracked = None, g.results = h.results \/ g.results = << >>, Later(st, st2),
         Hides(g) => Hides(h) \/ Told(g.out),
         st2.phase \in {"idle", "between"} \/ (st2.phase = "started" /\ st2.rows = 0 /\ st2.id > 0),
         st2.phase # "idle" => g.executing \/ g.cancelled
  PROVE  Orderly(h, st, g, st2)
<1>1. Tells(g.out, h, st, g, st2)
  BY CleanTells
<1>2. ~(g.tracked > 0)
  BY DEF None
<1>3. ExecutorFits(g, st2)
  BY <1>2 DEF ExecutorFits
<1>4. \A i \in DOMAIN g.results : i \in DOMAIN h.results /\ g.results[i] = h.results[i]
  <2>1. DOMAIN << >> = {}
    OBVIOUS
  <2> QED BY <2>1
<1>5. ResultsFit(g, st2)
  <2>1. \A i \in DOMAIN h.results : h.results[i].id \in Nat
    <3>1. \A i \in DOMAIN h.results : h.results[i] \in HostResults
      BY DEF HostState
    <3> QED BY <3>1 DEF HostResults
  <2>2. \A i \in DOMAIN g.results : Begun(g.results[i].id, st2)
    BY <1>4, <2>1 DEF HostFits, ResultsFit, Later
  <2>3. AllPure(g.results)
    BY <1>4 DEF HostFits, ResultsFit, AllPure
  <2>4. \A i, j \in DOMAIN g.results : i < j => g.results[i].id < g.results[j].id
    BY <1>4 DEF HostFits, ResultsFit
  <2> QED BY <2>2, <2>3, <2>4 DEF ResultsFit
<1>6. \A id, n : AtMost(h.results, id, n) => AtMost(g.results, id, n)
  BY <1>4 DEF AtMost
<1>7. Onward(h, st, g, st2, Told(g.out))
  BY <1>2, <1>6 DEF Onward, Later, Grows
<1> QED BY <1>1, <1>3, <1>5, <1>7 DEF Orderly, HostFits

LEMMA StartExecutionOrderly ==
  ASSUME NEW h, Steady(h), h.out = << >>, NEW keep \in BOOLEAN,
         NEW st, HostFits(h, st), NEW st2, Later(st, st2), st2.phase = "between"
  PROVE  Orderly(h, st, StartExecution(h, keep), st2)
<1> DEFINE results == IF keep THEN h.results ELSE << >>
           cleared == ~keep /\ h.results # << >>
           begun == [h EXCEPT !.executing = TRUE, !.cancelled = FALSE, !.completed = FALSE,
                              !.results = results, !.log = TRUE, !.active = "S"]
           started == UpdateWebview(Bump(begun))
           stale == started.stale \/ cleared \/ ~h.log
           forgot == [started EXCEPT !.tracked = None, !.seq = None, !.stale = stale]
           g == UpdateWebview(forgot)
<1>1. h \in HostState /\ Sound(h) /\ h.syncVersion \in Nat
  BY DEF Steady, Apt, Sound, HostState
<1>2. results \in Seq(HostResults) /\ (results = h.results \/ results = << >>)
  BY <1>1, NoResults DEF HostState
<1>3. StartExecution(h, keep) = g
  BY DEF StartExecution
<1> HIDE DEF results, cleared
<1>4. /\ begun \in HostState /\ begun.sent = h.sent /\ begun.version = h.version
      /\ begun.out = h.out /\ begun.syncVersion = h.syncVersion /\ begun.executing = TRUE
      /\ begun.cancelled = FALSE /\ begun.results = results /\ begun.active = "S"
  BY Zenon, <1>1, <1>2 DEF HostState, Sources
<1> HIDE DEF begun
<1>5. Sound(begun)
  BY <1>1, <1>4 DEF Sound
<1>6. Relays(begun, Bump(begun)) /\ Relays(Bump(begun), started)
  BY <1>5, BumpRelays, UpdateWebviewRelays DEF Relays
<1> HIDE DEF started
<1>7. Relays(begun, started) /\ started \in HostState
  BY <1>6, RelaysOn DEF Relays, Sound
<1>8. stale \in BOOLEAN
  BY <1>7 DEF HostState
<1> HIDE DEF stale
<1>9. /\ forgot \in HostState /\ forgot.sent = started.sent
      /\ forgot.version = started.version /\ forgot.out = started.out
      /\ forgot.syncVersion = started.syncVersion /\ forgot.executing = started.executing
      /\ forgot.cancelled = started.cancelled /\ forgot.results = started.results
      /\ forgot.active = started.active /\ forgot.tracked = None
  BY Zenon, <1>7, <1>8 DEF HostState
<1> HIDE DEF forgot
<1>10. Sound(forgot)
  BY <1>7, <1>9 DEF Sound, Relays
<1>11. Relays(forgot, g)
  BY <1>10, UpdateWebviewRelays
<1> HIDE DEF g
<1>12. g.tracked = None /\ g.results = results /\ g.executing = TRUE /\ g.cancelled = FALSE
  BY <1>4, <1>7, <1>9, <1>11 DEF Relays, SameRun
<1>13. Clean(begun.out) /\ AllPure(begun.results)
  <2>1. AllPure(<< >>)
    BY DEF AllPure
  <2> QED BY <1>2, <1>4, <2>1, CleanAtFirst DEF HostFits, ResultsFit
<1>14. Clean(g.out)
  BY <1>7, <1>9, <1>11, <1>13 DEF Relays, SameRun
<1>15. Hides(g) => Told(g.out)
  BY <1>4, <1>7, <1>9, <1>11, <1>12 DEF Relays, Hides
<1> QED BY <1>1, <1>2, <1>3, <1>12, <1>14, <1>15, UntrackedOrderly

LEMMA LogExecutionStartOrderly ==
  ASSUME NEW h, Steady(h), h.out = << >>, NEW st, HostFits(h, st), NEW st2, Later(st, st2),
         st.phase # "idle", st2.phase = "started" /\ st2.rows = 0 /\ st2.id > 0
  PROVE  Orderly(h, st, LogExecutionStart(h), st2)
<1> DEFINE forgot == [h EXCEPT !.completed = FALSE, !.tracked = None, !.seq = None]
           told == IF h.completed /\ h.active = "S"
                   THEN Post(forgot, ActiveSourceMsg(forgot)) ELSE forgot
           logged == Bump(told)
           log == [type |-> "log"]
           g == IF h.active = "S" THEN Post(logged, log) ELSE logged
<1>1. h \in HostState /\ Sound(h) /\ FollowEditor(h) = h
  BY SteadyFollowsEditor DEF Steady, Apt, Sound
<1>2. /\ forgot \in HostState /\ forgot.sent = h.sent /\ forgot.version = h.version
      /\ forgot.out = h.out /\ forgot.syncVersion = h.syncVersion
      /\ forgot.active = h.active /\ forgot.tracked = None /\ forgot.results = h.results
      /\ forgot.executing = h.executing /\ forgot.cancelled = h.cancelled
  BY Zenon, <1>1 DEF HostState
<1>3. LogExecutionStart(h) = g
  BY <1>1 DEF LogExecutionStart
<1> HIDE DEF forgot
<1>4. Sound(forgot)
  BY <1>1, <1>2 DEF Sound
<1>5. Relays(forgot, told)
  BY <1>4, TellsActiveRelays, RelaysItself
<1> HIDE DEF told
<1>6. Relays(told, logged)
  BY <1>5, BumpRelays DEF Relays
<1> HIDE DEF logged
<1>7. Relays(forgot, logged) /\ Sound(logged)
  BY <1>5, <1>6, RelaysOn DEF Relays
<1>8. log \in ToView /\ ~IsSync(log) /\ CleanMsg(log)
  BY DEF ToView, IsSync, CleanMsg, Placed, IsChunk, IsEnd
<1> HIDE DEF log
<1>9. Relays(logged, Post(logged, log))
  BY <1>7, <1>8, PostRelays
<1>10. Relays(forgot, g)
  BY <1>7, <1>9, RelaysOn
<1> HIDE DEF g
<1>11. Clean(g.out)
  <2>1. AllPure(forgot.results) /\ Clean(forgot.out)
    BY <1>2, CleanAtFirst DEF HostFits, ResultsFit
  <2> QED BY <1>10, <2>1 DEF Relays
<1>12. g.tracked = None /\ g.results = h.results /\ g.executing = h.executing
       /\ g.cancelled = h.cancelled
  BY <1>2, <1>10 DEF Relays, SameRun
<1>13. Hides(g) => Hides(h) \/ Told(g.out)
  BY <1>2, <1>10, <1>12 DEF Relays, Hides
<1>14. g.executing \/ g.cancelled
  BY <1>12 DEF HostFits, ExecutorFits
<1> QED BY <1>1, <1>3, <1>11, <1>12, <1>13, <1>14, UntrackedOrderly

LEMMA FinalizeExecutionOrderly ==
  ASSUME NEW h, Steady(h), h.out = << >>, NEW st, HostFits(h, st), NEW st2, Later(st, st2),
         st2.phase = "idle"
  PROVE  Orderly(h, st, FinalizeExecution(h), st2)
<1> DEFINE ended == [h EXCEPT !.tracked = None, !.seq = None, !.executing = FALSE]
           updated == UpdateWebview(Bump(ended))
           g == UpdateWebview(updated)
<1>1. h \in HostState /\ Sound(h)
  BY DEF Steady, Apt, Sound
<1>2. /\ ended \in HostState /\ ended.sent = h.sent /\ ended.version = h.version
      /\ ended.out = h.out /\ ended.syncVersion = h.syncVersion
      /\ ended.active = h.active /\ ended.tracked = None /\ ended.results = h.results
      /\ ended.cancelled = h.cancelled
  BY Zenon, <1>1 DEF HostState
<1>3. FinalizeExecution(h) = g
  BY DEF FinalizeExecution
<1> HIDE DEF ended
<1>4. Sound(ended)
  BY <1>1, <1>2 DEF Sound
<1>5. Relays(ended, Bump(ended)) /\ Relays(Bump(ended), updated)
  BY <1>4, BumpRelays, UpdateWebviewRelays DEF Relays
<1> HIDE DEF updated
<1>6. Relays(updated, g)
  BY <1>5, UpdateWebviewRelays DEF Relays
<1> HIDE DEF g
<1>7. Relays(ended, g)
  BY <1>5, <1>6, RelaysOn
<1>8. Clean(g.out)
  <2>1. AllPure(ended.results) /\ Clean(ended.out)
    BY <1>2, CleanAtFirst DEF HostFits, ResultsFit
  <2> QED BY <1>7, <2>1 DEF Relays
<1>9. g.tracked = None /\ g.results = h.results /\ g.cancelled = h.cancelled
  BY <1>2, <1>7 DEF Relays, SameRun
<1>10. Hides(g) => Hides(h) \/ Told(g.out)
  BY <1>2, <1>7, <1>9 DEF Relays, Hides
<1> QED BY <1>1, <1>3, <1>8, <1>9, <1>10, UntrackedOrderly

(* Cancelling drops rows at the end of results, and tells the page.        *)
LEMMA CutToIs ==
  ASSUME NEW rows \in Seq(Row), NEW n \in Nat
  PROVE  LET cut == CutTo(rows, n) IN
         /\ cut \in Seq(Row) /\ Len(cut) <= Len(rows)
         /\ \A k \in DOMAIN cut : cut[k] = rows[k]
<1> DEFINE m == IF n < Len(rows) THEN n ELSE Len(rows)
           cut == SubSeq(rows, 1, m)
<1>1. m \in Nat /\ m <= Len(rows)
  OBVIOUS
<1> HIDE DEF m
<1>2. /\ cut \in Seq(Row) /\ Len(cut) = m
      /\ \A k \in 1 .. m : cut[k] = rows[k]
  BY <1>1
<1>3. DOMAIN cut = 1 .. m
  BY <1>2
<1> QED BY <1>1, <1>2, <1>3 DEF CutTo, m

Shortened(r, s) ==
  /\ s.id = r.id /\ s.rows \in Seq(Row) /\ Len(s.rows) <= Len(r.rows)
  /\ \A k \in DOMAIN s.rows : s.rows[k] = r.rows[k]

AllShortened(rs, ss) ==
  /\ Len(ss) = Len(rs) /\ DOMAIN ss = DOMAIN rs
  /\ \A i \in DOMAIN rs : Shortened(rs[i], ss[i])

LEMMA ShortenedFit ==
  ASSUME NEW rs \in Seq(HostResults), NEW ss, AllShortened(rs, ss)
  PROVE  /\ AllPure(rs) => AllPure(ss)
         /\ \A id, n \in Nat : AtMost(rs, id, n) => AtMost(ss, id, n)
<1>1. \A i \in DOMAIN rs : rs[i].rows \in Seq(Row)
  <2>1. \A i \in DOMAIN rs : rs[i] \in HostResults
    OBVIOUS
  <2> QED BY <2>1 DEF HostResults
<1>2. ASSUME NEW r, r.rows \in Seq(Row), NEW s, Shortened(r, s)
      PROVE  (Pure(r) => Pure(s)) /\ \A n \in Nat : Len(r.rows) <= n => Len(s.rows) <= n
  <2>1. ASSUME NEW a \in Seq(Row), NEW b \in Seq(Row), Len(b) <= Len(a)
        PROVE  DOMAIN b \subseteq DOMAIN a
    BY <2>1
  <2>2. DOMAIN s.rows \subseteq DOMAIN r.rows
    BY <1>2, <2>1 DEF Shortened
  <2>3. Len(s.rows) \in Nat /\ Len(r.rows) \in Nat
    BY <1>2 DEF Shortened
  <2> QED BY <1>2, <2>2, <2>3 DEF Shortened, Pure
<1>3. AllPure(rs) => AllPure(ss)
  BY <1>1, <1>2 DEF AllShortened, AllPure
<1>4. \A id, n \in Nat : AtMost(rs, id, n) => AtMost(ss, id, n)
  BY <1>1, <1>2 DEF AllShortened, AtMost, Shortened
<1> QED BY <1>3, <1>4

CutResults(h, counts) ==
  [i \in DOMAIN h.results |->
     [h.results[i] EXCEPT !.cancelled = TRUE,
        !.rows = IF i \in DOMAIN counts THEN CutTo(@, counts[i]) ELSE @]]

LEMMA CutResultsIs ==
  ASSUME NEW h \in HostState, NEW counts \in Seq(Nat)
  PROVE  LET cut == CutResults(h, counts) IN
         cut \in Seq(HostResults) /\ AllShortened(h.results, cut)
<1> DEFINE Rows1(i) == IF i \in DOMAIN counts THEN CutTo(h.results[i].rows, counts[i])
                       ELSE h.results[i].rows
           Cut(i) == [h.results[i] EXCEPT !.cancelled = TRUE, !.rows = Rows1(i)]
           cut == [i \in DOMAIN h.results |-> Cut(i)]
<1>1. h.results \in Seq(HostResults)
  BY DEF HostState
<1>2. ASSUME NEW i \in DOMAIN h.results
      PROVE  Cut(i) \in HostResults /\ Shortened(h.results[i], Cut(i))
  <2>1. h.results[i] \in HostResults
    BY <1>1
  <2>2. h.results[i].rows \in Seq(Row)
    BY <2>1 DEF HostResults
  <2>3. i \in DOMAIN counts => counts[i] \in Nat
    OBVIOUS
  <2>4. /\ Rows1(i) \in Seq(Row) /\ Len(Rows1(i)) <= Len(h.results[i].rows)
        /\ \A k \in DOMAIN Rows1(i) : Rows1(i)[k] = h.results[i].rows[k]
    <3>1. CASE i \in DOMAIN counts
      BY Zenon, <2>2, <2>3, <3>1, CutToIs
    <3>2. CASE i \notin DOMAIN counts
      BY <2>2, <3>2
    <3> QED BY <3>1, <3>2
  <2> HIDE DEF Rows1
  <2> QED BY Zenon, <2>1, <2>4 DEF HostResults, Shortened
<1>3. CutResults(h, counts) = cut
  BY DEF CutResults
<1>4. DOMAIN h.results = 1 .. Len(h.results) /\ Len(h.results) \in Nat
  BY <1>1
<1> HIDE DEF Cut
<1>5. cut \in [1 .. Len(h.results) -> HostResults]
  BY <1>2, <1>4
<1>6. \A i \in DOMAIN h.results : cut[i] = Cut(i)
  OBVIOUS
<1> HIDE DEF cut
<1>7. cut \in Seq(HostResults) /\ Len(cut) = Len(h.results) /\ DOMAIN cut = DOMAIN h.results
  <2> DEFINE n == Len(h.results)
  <2>1. n \in Nat /\ DOMAIN h.results = 1 .. n /\ cut \in [1 .. n -> HostResults]
    BY <1>4, <1>5
  <2> HIDE DEF n
  <2>2. cut \in Seq(HostResults) /\ Len(cut) = n /\ DOMAIN cut = 1 .. n
    BY <2>1
  <2> QED BY <2>1, <2>2 DEF n
<1>8. AllShortened(h.results, cut)
  BY <1>2, <1>6, <1>7 DEF AllShortened
<1> QED BY <1>3, <1>7, <1>8

LEMMA CancelledOrderly ==
  ASSUME NEW h \in HostState, NEW st \in Executors, HostFits(h, st), NEW g, g.cancelled,
         g.results \in Seq(HostResults), g.tracked = h.tracked,
         AllShortened(h.results, g.results), Clean(g.out), Told(g.out)
  PROVE  Orderly(h, st, g, st)
<1>1. h.results \in Seq(HostResults)
  BY DEF HostState
<1>2. /\ AllPure(h.results) => AllPure(g.results)
      /\ \A id, n \in Nat : AtMost(h.results, id, n) => AtMost(g.results, id, n)
  BY <1>1, ShortenedFit
<1>3. \A i \in DOMAIN h.results : g.results[i].id = h.results[i].id
  BY DEF AllShortened, Shortened
<1>4. ResultsFit(g, st)
  BY <1>2, <1>3 DEF HostFits, ResultsFit, AllShortened
<1>5. ExecutorFits(g, st)
  <2>1. ASSUME g.tracked > 0 PROVE TrackedFits(g, st)
    <3> DEFINE n == Len(h.results)
    <3>1. TrackedFits(h, st)
      BY <2>1 DEF HostFits, ExecutorFits
    <3>2. n \in DOMAIN h.results /\ Len(g.results) = n
      BY <1>1, <3>1 DEF TrackedFits, AllShortened
    <3>3. h.results[n].rows \in Seq(Row)
      <4>1. h.results[n] \in HostResults
        BY <1>1, <3>2
      <4> QED BY <4>1 DEF HostResults
    <3>4. /\ g.results[n].id = h.results[n].id /\ g.results[n].rows \in Seq(Row)
          /\ Len(g.results[n].rows) <= Len(h.results[n].rows)
      BY <3>2 DEF AllShortened, Shortened
    <3>5. Len(g.results[n].rows) <= st.rows
      <4> DEFINE a == g.results[n].rows
                 b == h.results[n].rows
      <4>0. a \in Seq(Row) /\ b \in Seq(Row)
        BY <3>3, <3>4
      <4> HIDE DEF a, b
      <4>1. Len(a) \in Nat /\ Len(b) \in Nat /\ st.rows \in Nat
        BY <4>0 DEF Executors
      <4>2. Len(b) <= st.rows
        BY <3>1 DEF TrackedFits, b
      <4>3. Len(a) <= Len(b)
        BY <3>4 DEF a, b
      <4>4. Len(a) <= st.rows
        BY <4>1, <4>2, <4>3
      <4> QED BY <4>4 DEF a
    <3> QED BY <3>1, <3>2, <3>4, <3>5 DEF TrackedFits
  <2> QED BY <2>1 DEF HostFits, ExecutorFits
<1>6. Onward(h, st, g, st, Told(g.out))
  BY <1>2 DEF Onward, Grows, AllShortened
<1>7. Tells(g.out, h, st, g, st)
  BY CleanTells
<1> QED BY Zenon, <1>4, <1>5, <1>6, <1>7 DEF Orderly, HostFits

LEMMA CancelExecutionOrderly ==
  ASSUME NEW h, Steady(h), h.out = << >>, NEW counts \in Seq(Nat),
         NEW st \in Executors, HostFits(h, st)
  PROVE  Orderly(h, st, CancelExecution(h, counts), st)
<1> DEFINE cut == CutResults(h, counts)
           begun == [h EXCEPT !.executing = FALSE, !.cancelled = TRUE, !.results = cut]
           stopped == UpdateWebview(Bump(begun))
           unnumbered == [stopped EXCEPT !.seq = None]
           shown == UpdateWebview(unnumbered)
           m == [type |-> "cancelExecution"]
           g == Post(shown, m)
<1>1. h \in HostState /\ Sound(h) /\ h.results \in Seq(HostResults)
  BY DEF Steady, Apt, Sound, HostState
<1>2. CancelExecution(h, counts) = g
  BY DEF CancelExecution, CutResults
<1>3. cut \in Seq(HostResults) /\ AllShortened(h.results, cut)
  BY <1>1, CutResultsIs
<1> HIDE DEF cut
<1>4. /\ begun \in HostState /\ begun.sent = h.sent /\ begun.version = h.version
      /\ begun.out = h.out /\ begun.syncVersion = h.syncVersion
      /\ begun.tracked = h.tracked /\ begun.results = cut /\ begun.cancelled = TRUE
  BY Zenon, <1>1, <1>3 DEF HostState
<1> HIDE DEF begun
<1>5. Sound(begun)
  BY <1>1, <1>4 DEF Sound
<1>6. Relays(begun, Bump(begun)) /\ Relays(Bump(begun), stopped)
  BY <1>5, BumpRelays, UpdateWebviewRelays DEF Relays
<1> HIDE DEF stopped
<1>7. Relays(begun, stopped) /\ stopped \in HostState
  BY <1>6, RelaysOn DEF Relays, Sound
<1>8. /\ unnumbered \in HostState /\ unnumbered.sent = stopped.sent
      /\ unnumbered.version = stopped.version /\ unnumbered.out = stopped.out
      /\ unnumbered.syncVersion = stopped.syncVersion
      /\ unnumbered.tracked = stopped.tracked /\ unnumbered.results = stopped.results
      /\ unnumbered.cancelled = stopped.cancelled
  BY Zenon, <1>7 DEF HostState
<1> HIDE DEF unnumbered
<1>9. Sound(unnumbered)
  BY <1>7, <1>8 DEF Relays, Sound
<1>10. Relays(unnumbered, shown)
  BY <1>9, UpdateWebviewRelays
<1> HIDE DEF shown
<1>11. m \in ToView /\ ~IsSync(m) /\ CleanMsg(m) /\ IsBarrier(m)
  BY DEF ToView, IsSync, CleanMsg, Placed, IsChunk, IsEnd, IsBarrier
<1> HIDE DEF m
<1>12. Relays(shown, g) /\ Told(g.out)
  BY <1>10, <1>11, PostRelays DEF Relays
<1> HIDE DEF g
<1>13. /\ g.tracked = h.tracked /\ g.results = cut /\ g.cancelled = TRUE
  BY <1>4, <1>7, <1>8, <1>10, <1>12 DEF Relays, SameRun
<1>14. AllPure(cut)
  BY <1>1, <1>3, ShortenedFit DEF HostFits, ResultsFit
<1>15. Clean(g.out)
  <2>1. AllPure(begun.results) /\ Clean(begun.out)
    BY <1>4, <1>14, CleanAtFirst
  <2> QED BY <1>7, <1>8, <1>10, <1>12, <2>1 DEF Relays, SameRun
<1> QED BY <1>1, <1>2, <1>3, <1>12, <1>13, <1>15, CancelledOrderly

LEMMA SwitchEditorOrderly ==
  ASSUME NEW h, Steady(h), h.out = << >>, NEW s \in Sources, NEW st, HostFits(h, st)
  PROVE  Orderly(h, st, SetActiveSource([h EXCEPT !.focus = s], s), st)
<1> DEFINE moved == [h EXCEPT !.focus = s]
<1>1. h \in HostState /\ Sound(h)
  BY DEF Steady, Apt, Sound
<1>2. /\ moved \in HostState /\ moved.sent = h.sent /\ moved.version = h.version
      /\ moved.out = h.out /\ moved.syncVersion = h.syncVersion /\ moved.active = h.active
  BY <1>1 DEF HostState
<1>3. SameRun(h, moved)
  BY <1>1 DEF SameRun, HostState
<1> HIDE DEF moved
<1>4. Sound(moved)
  BY <1>1, <1>2 DEF Sound
<1>5. Relays(h, moved)
  BY <1>2, <1>3, <1>4, OthersRelay
<1>6. Relays(h, SetActiveSource(moved, s))
  BY <1>4, <1>5, SetActiveSourceRelays, RelaysOn
<1>7. Orderly(h, st, SetActiveSource(moved, s), st)
  BY <1>1, <1>6, QuietlyOrderly
<1> QED BY <1>7 DEF moved

LEMMA ReloadOrderly ==
  ASSUME NEW h, Steady(h), h.out = << >>, NEW st, HostFits(h, st)
  PROVE  Orderly(h, st, [h EXCEPT !.ready = FALSE, !.html = TRUE], st)
<1> DEFINE g == [h EXCEPT !.ready = FALSE, !.html = TRUE]
<1>1. h \in HostState /\ Sound(h)
  BY DEF Steady, Apt, Sound
<1>2. /\ g \in HostState /\ g.sent = h.sent /\ g.version = h.version
      /\ g.out = h.out /\ g.syncVersion = h.syncVersion /\ g.active = h.active
  BY ZenonT(30), <1>1 DEF HostState
<1>3. SameRun(h, g)
  BY <1>1 DEF SameRun, HostState
<1> HIDE DEF g
<1>4. Sound(g)
  BY <1>1, <1>2 DEF Sound
<1>5. Relays(h, g)
  BY <1>2, <1>3, <1>4, OthersRelay
<1>6. Orderly(h, st, g, st)
  BY <1>1, <1>5, QuietlyOrderly
<1> QED BY <1>6 DEF g
----------------------------------------------------------------------------
(* A chunk, stage by stage.                                                *)

SameSide(h, g) ==
  g.active = h.active /\ g.executing = h.executing /\ g.cancelled = h.cancelled

LEMMA BeginResultIs ==
  ASSUME NEW h, Sound(h), h.out = << >>, AllPure(h.results), NEW c
  PROVE  LET g == BeginResult(h, c) IN
         /\ Sound(g) /\ SameSide(h, g) /\ g.results = h.results /\ Clean(g.out)
         /\ IF c.first THEN g.tracked = 0 /\ g.seq = 0 ELSE g = h
<1> DEFINE g == BeginResult(h, c)
           reset == [h EXCEPT !.completed = FALSE, !.tracked = 0, !.seq = 0]
<1>1. h \in HostState /\ Sound(g)
  BY BeginResultKeeps DEF Sound, Keeps, Follows
<1>2. Clean(h.out)
  BY CleanAtFirst
<1>3. CASE ~c.first
  <2>1. g = h
    BY <1>3 DEF BeginResult
  <2> QED BY <1>2, <1>3, <2>1 DEF SameSide
<1>4. CASE c.first
  <2>1. /\ reset \in HostState /\ reset.sent = h.sent /\ reset.version = h.version
        /\ reset.out = h.out /\ reset.syncVersion = h.syncVersion
        /\ reset.results = h.results /\ reset.tracked = 0 /\ reset.seq = 0
        /\ SameSide(h, reset)
    BY Zenon, <1>1 DEF HostState, SameSide
  <2>2. g \in {reset, Post(reset, ActiveSourceMsg(reset))}
    BY <1>4 DEF BeginResult
  <2> HIDE DEF reset, g
  <2>3. Sound(reset)
    BY <1>1, <2>1 DEF Sound
  <2>4. Relays(reset, g) /\ g.active = reset.active
    BY <2>2, <2>3, TellsActiveRelays, RelaysItself
  <2>5. Clean(g.out)
    BY <1>2, <2>1, <2>4 DEF Relays
  <2> QED BY <1>1, <1>4, <2>1, <2>4, <2>5 DEF Relays, SameRun, SameSide, g
<1> QED BY <1>3, <1>4

NewResult(c) == [id |-> c.id, rows |-> RowsOf(c), cancelled |-> FALSE]
Longer(rs, c) == [rs EXCEPT ![Len(rs)].rows = @ \o RowsOf(c)]

LEMMA StoreChunkIs ==
  ASSUME NEW h, Sound(h), NEW c \in Chunks
  PROVE  LET g == StoreChunk(h, c) IN
         /\ Sound(g) /\ SameSide(h, g) /\ g.tracked = h.tracked /\ g.seq = h.seq
         /\ g.out = h.out
         /\ g.results = IF ~Streams(h, c) THEN h.results
                        ELSE IF c.first THEN Append(h.results, NewResult(c))
                        ELSE Longer(h.results, c)
<1>1. h \in HostState /\ Sound(StoreChunk(h, c))
  BY StoreChunkKeeps DEF Sound, Keeps, Follows
<1>2. ASSUME NEW rs, NEW k, k = [h EXCEPT !.results = rs]
      PROVE  /\ SameSide(h, k) /\ k.tracked = h.tracked /\ k.seq = h.seq /\ k.out = h.out
             /\ k.results = rs
  BY <1>1, <1>2 DEF HostState, SameSide
<1>3. ASSUME NEW k, NEW g, g = Bump(k), k = [h EXCEPT !.results = k.results]
      PROVE  /\ SameSide(k, g) /\ g.tracked = k.tracked /\ g.seq = k.seq /\ g.out = k.out
             /\ g.results = k.results
  <2> DEFINE version == k.version + 1
             dirty == k.globalDirty \/ k.active = "S"
  <2>1. g = [k EXCEPT !.version = version, !.globalDirty = dirty]
    BY <1>3 DEF Bump
  <2> HIDE DEF version, dirty
  <2>2. g = [h EXCEPT !.results = k.results, !.version = version, !.globalDirty = dirty]
    BY Zenon, <1>3, <2>1
  <2> DEFINE rs == k.results
  <2>3. k = [h EXCEPT !.results = rs] /\ rs = k.results
    BY <1>3
  <2>4. g = [h EXCEPT !.results = rs, !.version = version, !.globalDirty = dirty]
    BY <2>2
  <2> HIDE DEF rs
  <2> QED BY <1>1, <2>3, <2>4 DEF HostState, SameSide
<1>4. CASE Streams(h, c) /\ c.first
  <2> DEFINE rs == Append(h.results, NewResult(c))
             k == [h EXCEPT !.results = rs]
  <2>1. StoreChunk(h, c) = Bump(k)
    BY <1>4 DEF StoreChunk, NewResult
  <2> HIDE DEF rs
  <2>2. /\ SameSide(h, k) /\ k.tracked = h.tracked /\ k.seq = h.seq /\ k.out = h.out
        /\ k.results = rs
    BY <1>2
  <2>3. k = [h EXCEPT !.results = k.results]
    BY <2>2
  <2> HIDE DEF k
  <2>4. /\ SameSide(k, Bump(k)) /\ Bump(k).tracked = k.tracked /\ Bump(k).seq = k.seq
        /\ Bump(k).out = k.out /\ Bump(k).results = k.results
    BY <1>3, <2>3
  <2> QED BY <1>1, <1>4, <2>1, <2>2, <2>4 DEF SameSide, rs
<1>5. CASE Streams(h, c) /\ ~c.first
  <2> DEFINE rs == Longer(h.results, c)
             k == [h EXCEPT !.results = rs]
  <2>1. StoreChunk(h, c) = k
    BY <1>5 DEF StoreChunk, Longer
  <2> HIDE DEF rs
  <2>2. /\ SameSide(h, k) /\ k.tracked = h.tracked /\ k.seq = h.seq /\ k.out = h.out
        /\ k.results = rs
    BY <1>2
  <2> QED BY <1>1, <1>5, <2>1, <2>2 DEF rs
<1>6. CASE ~Streams(h, c)
  <2>1. StoreChunk(h, c) \in {h, Bump(h)}
    BY <1>6 DEF StoreChunk
  <2>2. h = [h EXCEPT !.results = h.results]
    BY <1>1 DEF HostState
  <2>3. /\ SameSide(h, Bump(h)) /\ Bump(h).tracked = h.tracked /\ Bump(h).seq = h.seq
        /\ Bump(h).out = h.out /\ Bump(h).results = h.results
    BY <1>3, <2>2
  <2> QED BY <1>1, <1>6, <2>1, <2>3 DEF SameSide
<1> QED BY <1>4, <1>5, <1>6

LEMMA SendChunkIs ==
  ASSUME NEW h, Sound(h), NEW c \in Chunks, h.results # << >>, Clean(h.out), AllPure(h.results)
  PROVE  LET g == SendChunk(h, c)
             m == AppendRowsMsg(h, c) IN
         /\ Sound(g) /\ SameSide(h, g) /\ g.tracked = h.tracked /\ g.results = h.results
         /\ g.seq = m.seq + 1 /\ \A i \in DOMAIN g.out : CleanMsg(g.out[i]) \/ g.out[i] = m
<1> DEFINE told == IF c.first THEN Post(h, ActiveSourceMsg(h)) ELSE h
           m == AppendRowsMsg(h, c)
           sent == Post(told, m)
           next == m.seq + 1
           g == [sent EXCEPT !.seq = next]
<1>1. SendChunk(h, c) = g /\ Sound(SendChunk(h, c))
  BY SendChunkKeeps DEF SendChunk, Keeps, Follows
<1>2. Relays(h, told) /\ told.active = h.active
  BY TellsActiveRelays, RelaysItself
<1>3. Clean(told.out) /\ told.out \in Seq(ToView) /\ told \in HostState
  BY <1>2 DEF Relays, Sound, HostState
<1>4. SameSide(h, told) /\ told.tracked = h.tracked /\ told.results = h.results
  BY <1>2 DEF Relays, SameRun, SameSide
<1> HIDE DEF told, m
<1> DEFINE q == Append(told.out, m)
<1>5. \A i \in DOMAIN q : (i \in DOMAIN told.out /\ q[i] = told.out[i]) \/ q[i] = m
  <2>1. ASSUME NEW s, NEW o \in Seq(s), NEW x, NEW i \in DOMAIN Append(o, x)
        PROVE  (i \in DOMAIN o /\ Append(o, x)[i] = o[i]) \/ Append(o, x)[i] = x
    OBVIOUS
  <2> QED BY <1>3, <2>1
<1>6. sent = [told EXCEPT !.out = q]
  BY DEF Post
<1> HIDE DEF q, next
<1>7. g = [told EXCEPT !.out = q, !.seq = next]
  BY <1>6
<1>8. SameSide(told, g) /\ g.tracked = told.tracked /\ g.results = told.results
      /\ g.seq = next /\ g.out = q
  BY Zenon, <1>3, <1>7 DEF HostState, SameSide
<1>9. \A i \in DOMAIN q : CleanMsg(q[i]) \/ q[i] = m
  BY <1>3, <1>5 DEF Clean
<1> HIDE DEF g
<1> QED BY <1>1, <1>4, <1>8, <1>9 DEF SameSide, next, m

Closing(h, c, index) ==
  [type |-> "streamingComplete", id |-> h.tracked, index |-> index, total |-> c.total,
   last |-> IF h.seq > 0 THEN h.seq - 1 ELSE 0]

LEMMA EndResultIs ==
  ASSUME NEW h, Sound(h), NEW c \in Chunks
  PROVE  LET g == EndResult(h, c) IN
         /\ Sound(g) /\ SameSide(h, g) /\ g.results = h.results /\ g.tracked = None
         /\ \/ g.out = h.out
            \/ /\ h.active = "S"
               /\ \E i \in IndexOf(h, h.tracked) : g.out = Append(h.out, Closing(h, c, i))
<1> DEFINE places == IndexOf(h, h.tracked)
           completed == h.completed \/ places # {}
           done == [h EXCEPT !.completed = completed]
           index == CHOOSE i \in places : TRUE
           m == Closing(h, c, index)
           told == IF places # {} /\ h.active = "S" THEN Post(done, m) ELSE done
           g == [told EXCEPT !.tracked = None, !.seq = None]
           Ends(out) == \/ out = h.out
                        \/ /\ h.active = "S"
                           /\ \E i \in places : out = Append(h.out, Closing(h, c, i))
<1>1. h \in HostState /\ Sound(EndResult(h, c))
  BY EndResultKeeps DEF Sound, Keeps, Follows
<1>2. EndResult(h, c) = g
  BY DEF EndResult, Closing
<1>3. places # {} => index \in places
  OBVIOUS
<1> HIDE DEF completed, places, index
<1>4. told = IF places # {} /\ h.active = "S"
             THEN [h EXCEPT !.completed = completed, !.out = Append(h.out, m)]
             ELSE [h EXCEPT !.completed = completed]
  <2>1. done.out = h.out
    BY <1>1 DEF HostState
  <2> HIDE DEF m
  <2>2. Post(done, m) = [h EXCEPT !.completed = completed, !.out = Append(h.out, m)]
    BY <2>1 DEF Post
  <2> QED BY <2>2
<1>5. \E out : /\ Ends(out)
               /\ \/ told = [h EXCEPT !.completed = completed, !.out = out]
                  \/ told = [h EXCEPT !.completed = completed] /\ out = h.out
  <2>1. CASE places # {} /\ h.active = "S"
    <3> DEFINE q == Append(h.out, m)
    <3>1. Ends(q)
      BY <1>3, <2>1
    <3>2. told = [h EXCEPT !.completed = completed, !.out = q]
      BY <1>4, <2>1
    <3> HIDE DEF q, told, Ends
    <3> QED BY Zenon, <3>1, <3>2
  <2>2. CASE ~(places # {} /\ h.active = "S")
    BY Zenon, <1>4, <2>2
  <2> QED BY Zenon, <2>1, <2>2
<1>6. PICK out : /\ Ends(out)
                 /\ \/ told = [h EXCEPT !.completed = completed, !.out = out]
                    \/ told = [h EXCEPT !.completed = completed] /\ out = h.out
  BY Zenon, <1>5
<1> HIDE DEF told, Ends
<1>7. SameSide(h, g) /\ g.results = h.results /\ g.tracked = None /\ g.out = out
  BY Zenon, <1>1, <1>6 DEF HostState, SameSide
<1> HIDE DEF g
<1>8. Ends(g.out)
  BY <1>6, <1>7
<1> QED BY <1>1, <1>2, <1>7, <1>8 DEF Ends, places

----------------------------------------------------------------------------
(* The host once it has taken a chunk c of the statement, before it ends   *)
(* the stream if the chunk is the last.                                    *)

ChunkOf(st, c) ==
  /\ c \in Chunks /\ st.phase \in {"started", "streaming"}
  /\ c.id = st.id /\ c.from = st.rows
  /\ c.first <=> st.phase = "started"
  /\ c.columns \/ (c.first /\ c.last /\ c.total = 0)
  /\ c.first \/ c.last \/ c.total > st.rows

Moved(st, c) == [st EXCEPT !.phase = IF c.last THEN "between" ELSE "streaming",
                           !.rows = c.total]

Carries(m, h, st, c, k) ==
  /\ IsChunk(m) /\ m.id = st.id /\ m.index = Len(k.results) /\ m.total = c.total
  /\ m.seq \in Nat /\ m.seq + 1 = k.seq
  /\ ChunkFits(m, Moved(st, c)) /\ ~Hides(k) /\ k.tracked > 0

Tracks(h, st, c, k) ==
  LET n == Len(k.results) IN
  /\ k.tracked = st.id /\ n > 0 /\ k.results[n].id = st.id
  /\ Len(k.results[n].rows) <= c.total
  /\ ~k.cancelled => Len(k.results[n].rows) = c.total /\ k.seq \in Nat
  /\ ~c.first => /\ h.tracked = st.id /\ n = Len(h.results)
                 /\ ~k.cancelled => \/ k.seq = h.seq /\ (c.total = st.rows \/ Hides(h))
                                    \/ k.seq = h.seq + 1

Fed(h, st, c, k) ==
  /\ SameSide(h, k)
  /\ ResultsFit(k, Moved(st, c))
  /\ k.tracked > 0 => Tracks(h, st, c, k)
  /\ ~k.cancelled /\ ~c.last => k.tracked > 0
  /\ \A id, m \in Nat : Ended(id, st) /\ AtMost(h.results, id, m) => AtMost(k.results, id, m)
  /\ \A i \in DOMAIN k.out : CleanMsg(k.out[i]) \/ Carries(k.out[i], h, st, c, k)

LEMMA MovedIs ==
  ASSUME NEW st \in Executors, st.id > 0, NEW c, ChunkOf(st, c)
  PROVE  LET st2 == Moved(st, c) IN
         /\ st2 \in Executors /\ st2.id = st.id /\ st2.rows = c.total
         /\ st2.phase = IF c.last THEN "between" ELSE "streaming"
         /\ Later(st, st2) /\ Begun(st.id, st2) /\ ~Ended(st.id, st)
         /\ (c.last => Ended(st.id, st2)) /\ (Begun(st.id, st) <=> ~c.first)
<1> DEFINE phase == IF c.last THEN "between" ELSE "streaming"
           st2 == [st EXCEPT !.phase = phase, !.rows = c.total]
<1>1. phase \in {"between", "streaming"} /\ c.total \in Nat
  BY DEF ChunkOf, Chunks
<1>2. Moved(st, c) = st2
  BY DEF Moved
<1> HIDE DEF phase
<1>3. st2 \in Executors /\ st2.id = st.id /\ st2.rows = c.total /\ st2.phase = phase
  BY Zenon, <1>1 DEF Executors
<1> HIDE DEF st2
<1>4. Later(st, st2)
  BY <1>1, <1>3 DEF Later, Begun, Ended, ChunkOf, Executors
<1>5. Begun(st.id, st2) /\ ~Ended(st.id, st)
  BY <1>1, <1>3 DEF Begun, Ended, ChunkOf, Executors
<1>6. Begun(st.id, st) <=> ~c.first
  BY DEF Begun, ChunkOf, Executors
<1>7. c.last => Ended(st.id, st2)
  BY <1>3 DEF Ended, Executors, phase
<1> QED BY <1>2, <1>3, <1>4, <1>5, <1>6, <1>7 DEF phase

LEMMA FedOrderly ==
  ASSUME NEW h \in HostState, NEW st \in Executors, HostFits(h, st), st.id > 0,
         NEW c, ChunkOf(st, c), NEW k, Sound(k), Fed(h, st, c, k)
  PROVE  /\ Onward(h, st, k, Moved(st, c), Told(k.out))
         /\ Tells(k.out, h, st, k, Moved(st, c))
         /\ ~c.last => ExecutorFits(k, Moved(st, c))
<1> DEFINE st2 == Moved(st, c)
<1>1. /\ st2.id = st.id /\ st2.rows = c.total
      /\ st2.phase = IF c.last THEN "between" ELSE "streaming"
      /\ Later(st, st2) /\ ~Ended(st.id, st) /\ (Begun(st.id, st) <=> ~c.first)
  BY MovedIs
<1>2. k.executing \/ k.cancelled
  BY DEF HostFits, ExecutorFits, ChunkOf, Fed, SameSide
<1>3. h.cancelled = k.cancelled /\ h.active = k.active
  BY DEF Fed, SameSide
<1> HIDE DEF st2
<1>4. ASSUME ~c.last PROVE ExecutorFits(k, st2)
  <2>1. st2.phase = "streaming"
    BY <1>1, <1>4
  <2>2. k.tracked > 0 => TrackedFits(k, st2)
    BY <1>1, <2>1 DEF Fed, Tracks, TrackedFits
  <2> QED BY <1>1, <1>2, <1>4, <2>1, <2>2 DEF ExecutorFits, Fed
<1>5. Onward(h, st, k, st2, Told(k.out))
  <2>1. k.tracked > 0 => \/ k.tracked = h.tracked /\ Len(k.results) = Len(h.results)
                         \/ ~Begun(k.tracked, st)
    BY <1>1 DEF Fed, Tracks
  <2>2. Hides(k) => Hides(h)
    BY <1>3 DEF Hides
  <2>3. ASSUME Grows(k) /\ Begun(k.tracked, st)
        PROVE  /\ Grows(h)
               /\ \/ k.seq = h.seq /\ (st2.rows = st.rows \/ Hides(h))
                  \/ k.seq = h.seq + 1
    <3>1. Tracks(h, st, c, k) /\ ~k.cancelled
      BY <2>3 DEF Fed, Grows
    <3>2. ~c.first
      BY <1>1, <2>3, <3>1 DEF Tracks
    <3> QED BY <1>1, <1>3, <3>1, <3>2 DEF Tracks, Grows
  <2> QED BY <1>1, <2>1, <2>2, <2>3 DEF Onward, Later, Fed
<1>6. Tells(k.out, h, st, k, st2)
  <2>1. ASSUME NEW i \in DOMAIN k.out, Carries(k.out[i], h, st, c, k)
        PROVE  /\ k.out[i].id = st.id /\ k.out[i].index = Len(k.results) /\ IsChunk(k.out[i])
               /\ k.tracked = st.id /\ ChunkFits(k.out[i], st2) /\ ~Hides(k)
               /\ k.out[i].seq < k.seq /\ k.out[i].total = st2.rows
               /\ Begun(st.id, st) => h.tracked = st.id /\ Len(k.results) = Len(h.results)
    <3>1. Tracks(h, st, c, k)
      BY <2>1 DEF Carries, Fed
    <3>2. k.out[i].seq < k.seq
      BY <2>1 DEF Carries
    <3> QED BY <1>1, <2>1, <3>1, <3>2 DEF Carries, Tracks, st2
  <2>2. ASSUME NEW i \in DOMAIN k.out
        PROVE  CleanMsg(k.out[i]) \/ Carries(k.out[i], h, st, c, k)
    BY DEF Fed
  <2>3. \A m : /\ CleanMsg(m) => (m.type = "hydrate" => AllPure(m.results)) /\ ~Placed(m)
               /\ IsChunk(m) => ~IsEnd(m) /\ m.type # "hydrate" /\ Placed(m)
               /\ IsEnd(m) => Placed(m)
    BY DEF CleanMsg, Placed, IsChunk, IsEnd
  <2>4. ASSUME NEW i \in DOMAIN k.out
        PROVE  /\ k.out[i].type = "hydrate" => AllPure(k.out[i].results)
               /\ ~IsEnd(k.out[i])
               /\ Placed(k.out[i]) => Carries(k.out[i], h, st, c, k)
    <3>1. CASE CleanMsg(k.out[i])
      BY <2>3, <3>1
    <3>2. CASE Carries(k.out[i], h, st, c, k)
      BY <2>3, <3>2 DEF Carries
    <3> QED BY <2>2, <3>1, <3>2
  <2>5. \A i \in DOMAIN k.out : IsChunk(k.out[i]) => Placed(k.out[i])
    BY DEF Placed
  <2> QED BY <1>1, <2>1, <2>4, <2>5 DEF Tells
<1> QED BY <1>4, <1>5, <1>6 DEF st2

(* The last chunk ends the stream, and says so if S is shown and the       *)
(* result is there.                                                        *)
LEMMA ClosingIs ==
  ASSUME NEW h \in HostState, NEW st \in Executors, HostFits(h, st), st.id > 0,
         NEW c, ChunkOf(st, c), c.last, NEW k, Sound(k), Fed(h, st, c, k),
         k.active = "S", NEW i \in IndexOf(k, k.tracked)
  PROVE  LET m == Closing(k, c, i) IN
         /\ m \in ToView /\ IsEnd(m) /\ m.id = st.id /\ m.index = Len(k.results)
         /\ m.total = c.total /\ Tracks(h, st, c, k)
         /\ AtMost(k.results, st.id, c.total) /\ EndsWell(m, h, st)
<1> DEFINE m == Closing(k, c, i)
           n == Len(k.results)
           last == IF k.seq > 0 THEN k.seq - 1 ELSE 0
           st2 == Moved(st, c)
<1>1. k.results \in Seq(HostResults) /\ k.seq \in Nat \union {None}
  BY DEF Sound, HostState
<1>2. i \in DOMAIN k.results /\ k.results[i].id = k.tracked
  BY DEF IndexOf
<1>3. st2.id = st.id /\ (Begun(st.id, st) <=> ~c.first)
  BY MovedIs
<1> HIDE DEF st2
<1>4. ResultsFit(k, st2)
  BY DEF Fed, st2
<1>5. k.tracked > 0 /\ k.tracked \in Nat
  <2>1. k.tracked \in 1 .. st2.id
    BY <1>2, <1>4 DEF ResultsFit, Begun
  <2> QED BY <1>3, <2>1 DEF Executors
<1>6. Tracks(h, st, c, k)
  BY <1>5 DEF Fed
<1>7. n \in DOMAIN k.results /\ \A j \in DOMAIN k.results : j \in Nat /\ j <= n
  BY <1>1, <1>6 DEF Tracks
<1>8. \A j \in DOMAIN k.results : k.results[j].id = st.id => j = n
  <2>1. ASSUME NEW j \in DOMAIN k.results, k.results[j].id = st.id, j # n
        PROVE  FALSE
    <3>1. j < n
      BY <1>1, <1>7, <2>1
    <3>2. k.results[j].id < k.results[n].id
      BY <1>4, <1>7, <3>1 DEF ResultsFit
    <3> QED BY <1>6, <2>1, <3>2 DEF Tracks, Executors
  <2> QED BY <2>1
<1>9. m = [type |-> "streamingComplete", id |-> k.tracked, index |-> i, total |-> c.total,
           last |-> last] /\ k.tracked = st.id /\ i = n
  BY <1>2, <1>6, <1>8 DEF Closing, Tracks
<1>10. last \in Nat
  BY <1>1 DEF None
<1>11. c.total \in Nat
  BY DEF ChunkOf, Chunks
<1>12. AtMost(k.results, st.id, c.total)
  BY <1>6, <1>8 DEF AtMost, Tracks
<1>13. EndsWell(m, h, st)
  <2>1. ASSUME Begun(st.id, st), ~Hides(h)
        PROVE  Grows(h) /\ (h.seq < last + 1 \/ (h.seq = last + 1 /\ c.total = st.rows))
    <3>1. h.tracked = st.id /\ ~k.cancelled /\ ~h.cancelled
      BY <1>3, <1>6, <2>1 DEF Tracks, Fed, SameSide, Hides
    <3>2. Grows(h) /\ h.seq \in Nat
      BY <3>1 DEF Grows, HostFits, ExecutorFits, TrackedFits
    <3>3. \/ k.seq = h.seq /\ c.total = st.rows
          \/ k.seq = h.seq + 1
      BY <1>3, <1>6, <2>1, <3>1 DEF Tracks
    <3> QED BY <3>2, <3>3
  <2> HIDE DEF last, m
  <2>2. m.id = st.id /\ m.last = last /\ m.total = c.total
    BY <1>9
  <2> QED BY <2>1, <2>2 DEF EndsWell
<1> HIDE DEF last, m
<1>14. m \in ToView /\ IsEnd(m)
  BY <1>1, <1>5, <1>7, <1>9, <1>10, <1>11 DEF ToView, Completions, IsEnd
<1> QED BY <1>6, <1>9, <1>12, <1>13, <1>14 DEF m

LEMMA EndedTells ==
  ASSUME NEW h \in HostState, NEW st \in Executors, HostFits(h, st), st.id > 0,
         NEW c, ChunkOf(st, c), c.last, NEW k, Sound(k), Fed(h, st, c, k),
         NEW g, SameSide(k, g), g.results = k.results, g.tracked = None,
         \/ g.out = k.out
         \/ /\ k.active = "S"
            /\ \E i \in IndexOf(k, k.tracked) : g.out = Append(k.out, Closing(k, c, i))
  PROVE  Tells(g.out, h, st, g, Moved(st, c))
<1> DEFINE st2 == Moved(st, c)
           n == Len(k.out)
           Closes(m) == /\ IsEnd(m) /\ m.id = st.id /\ m.index = Len(k.results)
                        /\ m.total = c.total /\ Tracks(h, st, c, k)
                        /\ AtMost(k.results, st.id, c.total) /\ EndsWell(m, h, st)
<1>1. k.out \in Seq(ToView) /\ n \in Nat /\ DOMAIN k.out = 1 .. n
  BY DEF Sound, HostState
<1>2. /\ ~Ended(st.id, st) /\ Ended(st.id, st2) /\ st2.rows = c.total
      /\ (Begun(st.id, st) <=> ~c.first)
  BY MovedIs
<1> HIDE DEF st2
<1>3. ASSUME NEW i \in DOMAIN g.out
      PROVE  \/ CleanMsg(g.out[i])
             \/ Carries(g.out[i], h, st, c, k) /\ i <= n
             \/ Closes(g.out[i]) /\ i = n + 1
  <2>1. CASE i \in DOMAIN k.out /\ g.out[i] = k.out[i]
    BY <1>1, <2>1 DEF Fed
  <2>2. CASE g.out = k.out
    BY <2>1, <2>2
  <2>3. ASSUME k.active = "S", NEW j \in IndexOf(k, k.tracked),
               g.out = Append(k.out, Closing(k, c, j))
        PROVE  (i \in DOMAIN k.out /\ g.out[i] = k.out[i]) \/ (Closes(g.out[i]) /\ i = n + 1)
    <3> DEFINE m == Closing(k, c, j)
    <3>1. Closes(m) /\ m \in ToView
      BY <2>3, ClosingIs
    <3> HIDE DEF m, Closes
    <3>2. g.out = Append(k.out, m)
      BY <2>3 DEF m
    <3>3. (i \in DOMAIN k.out /\ g.out[i] = k.out[i]) \/ (g.out[i] = m /\ i = n + 1)
      BY <1>1, <3>1, <3>2
    <3> QED BY <3>1, <3>3
  <2> QED BY <2>1, <2>2, <2>3
<1>4. \A m : /\ CleanMsg(m) => (m.type = "hydrate" => AllPure(m.results)) /\ ~Placed(m)
             /\ IsChunk(m) => ~IsEnd(m) /\ m.type # "hydrate" /\ Placed(m)
             /\ IsEnd(m) => Placed(m) /\ m.type # "hydrate" /\ ~IsChunk(m)
  BY DEF CleanMsg, Placed, IsChunk, IsEnd
<1>5. ~Grows(g)
  BY DEF Grows, None
<1>6. Tracks(h, st, c, k) /\ Begun(st.id, st) =>
        h.tracked = st.id /\ Len(g.results) = Len(h.results)
  BY <1>2 DEF Tracks
<1>7. ASSUME NEW i \in DOMAIN g.out, Carries(g.out[i], h, st, c, k)
      PROVE  /\ IsChunk(g.out[i]) /\ g.out[i].id = st.id /\ g.out[i].index = Len(g.results)
             /\ g.out[i].total = c.total /\ Tracks(h, st, c, k)
             /\ ChunkFits(g.out[i], st2) /\ ~Hides(g)
  BY <1>7 DEF Carries, Fed, SameSide, Hides, st2
<1>8. ASSUME NEW i \in DOMAIN g.out
      PROVE  /\ g.out[i].type = "hydrate" => AllPure(g.out[i].results)
             /\ Placed(g.out[i]) =>
                  /\ g.out[i].id = st.id /\ g.out[i].index = Len(g.results)
                  /\ Tracks(h, st, c, k)
             /\ IsChunk(g.out[i]) => Carries(g.out[i], h, st, c, k) /\ i <= n
             /\ IsEnd(g.out[i]) => Closes(g.out[i]) /\ i = n + 1
  <2> HIDE DEF Closes
  <2>1. CASE CleanMsg(g.out[i])
    BY <1>4, <2>1
  <2>2. CASE Carries(g.out[i], h, st, c, k) /\ i <= n
    BY <1>4, <1>7, <2>2
  <2>3. CASE Closes(g.out[i]) /\ i = n + 1
    BY <1>4, <2>3 DEF Closes
  <2> QED BY <1>3, <2>1, <2>2, <2>3
<1>9. \A i \in DOMAIN g.out : i \in Nat /\ n + 1 \in Nat /\ n < n + 1
  <2>1. \A j : Append(k.out, j) \in Seq({j} \union ToView)
    BY <1>1
  <2>2. \E S : g.out \in Seq(S)
    BY Zenon, <1>1, <2>1
  <2> QED BY <1>1, <2>2
<1>10. ASSUME NEW i \in DOMAIN g.out, IsEnd(g.out[i]), NEW j \in DOMAIN g.out, IsChunk(g.out[j])
       PROVE  j < i /\ g.out[j].total = g.out[i].total
  <2>1. i = n + 1 /\ j <= n /\ i \in Nat /\ j \in Nat
    BY <1>8, <1>9, <1>10
  <2>2. g.out[j].total = c.total /\ g.out[i].total = c.total
    BY <1>7, <1>8, <1>10
  <2> QED BY <1>1, <2>1, <2>2
<1>11. ASSUME NEW i \in DOMAIN g.out, IsEnd(g.out[i])
       PROVE  /\ Ended(g.out[i].id, st2) /\ AtMost(g.results, g.out[i].id, g.out[i].total)
              /\ EndsWell(g.out[i], h, st)
  BY <1>2, <1>8, <1>11
<1> HIDE DEF Closes
<1> QED BY <1>2, <1>5, <1>6, <1>7, <1>8, <1>10, <1>11 DEF Tells, st2

LEMMA EndResultOrderly ==
  ASSUME NEW h \in HostState, NEW st \in Executors, HostFits(h, st), st.id > 0,
         NEW c, ChunkOf(st, c), c.last, NEW k, Sound(k), Fed(h, st, c, k)
  PROVE  Orderly(h, st, EndResult(k, c), Moved(st, c))
<1> DEFINE g == EndResult(k, c)
           st2 == Moved(st, c)
<1>1. /\ SameSide(k, g) /\ g.results = k.results /\ g.tracked = None
      /\ \/ g.out = k.out
         \/ /\ k.active = "S"
            /\ \E i \in IndexOf(k, k.tracked) : g.out = Append(k.out, Closing(k, c, i))
  BY EndResultIs DEF ChunkOf
<1> HIDE DEF g
<1>2. Tells(g.out, h, st, g, st2)
  BY <1>1, EndedTells
<1>3. Later(st, st2) /\ st2.phase = "between" /\ st2.id = st.id
  BY MovedIs
<1> HIDE DEF st2
<1>4. ~(g.tracked > 0)
  BY <1>1 DEF None
<1>5. k.executing \/ k.cancelled
  BY DEF HostFits, ExecutorFits, ChunkOf, Fed, SameSide
<1>6. HostFits(g, st2)
  <2>1. ResultsFit(g, st2)
    BY <1>1 DEF Fed, ResultsFit, st2
  <2>2. ExecutorFits(g, st2)
    BY <1>1, <1>3, <1>4, <1>5 DEF ExecutorFits, SameSide
  <2> QED BY <2>1, <2>2 DEF HostFits
<1>7. Onward(h, st, g, st2, Told(g.out))
  <2>1. Hides(g) => Hides(h)
    BY <1>1 DEF Fed, SameSide, Hides
  <2> QED BY <1>1, <1>3, <1>4, <2>1 DEF Onward, Later, Grows, Fed
<1> QED BY <1>2, <1>6, <1>7 DEF Orderly, g, st2

(* What a chunk adds to the results.                                       *)
LEMMA RowsOfIs ==
  ASSUME NEW c \in Chunks
  PROVE  /\ RowsOf(c) \in Seq(Row) /\ Len(RowsOf(c)) = c.total - c.from
         /\ \A k \in DOMAIN RowsOf(c) : RowsOf(c)[k] = << c.id, c.from + k >>
<1> DEFINE n == c.total - c.from
           f == [i \in 1 .. n |-> << c.id, c.from + i >>]
<1>1. RowsOf(c) = f /\ n \in Nat /\ f \in Seq(Row)
  BY RowsOfType DEF RowsOf, Chunks
<1>2. Len(f) = n
  <2>1. DOMAIN f = 1 .. n
    OBVIOUS
  <2> HIDE DEF f
  <2> QED BY <1>1, <2>1
<1>3. \A k \in DOMAIN f : f[k] = << c.id, c.from + k >>
  OBVIOUS
<1> HIDE DEF f
<1> QED BY <1>1, <1>2, <1>3

(* The last result of k has all the rows so far.                           *)
Extended(h, st, c, k) ==
  LET n == Len(k.results) IN
  /\ ResultsFit(k, Moved(st, c)) /\ k.results # << >> /\ n > 0
  /\ Last(k.results).id = st.id /\ k.results[n].id = st.id
  /\ Len(k.results[n].rows) = c.total
  /\ \A id, m \in Nat : Ended(id, st) /\ AtMost(h.results, id, m) => AtMost(k.results, id, m)

LEMMA NewResultFits ==
  ASSUME NEW h \in HostState, NEW st \in Executors, HostFits(h, st), st.id > 0,
         NEW c, ChunkOf(st, c), c.first, NEW k, k.results = Append(h.results, NewResult(c))
  PROVE  Extended(h, st, c, k)
<1> DEFINE n == Len(h.results) + 1
           r == NewResult(c)
           st2 == Moved(st, c)
<1>1. h.results \in Seq(HostResults) /\ c \in Chunks /\ c.id = st.id /\ c.from = 0
  BY DEF HostState, ChunkOf, HostFits, ExecutorFits
<1>2. r.rows = RowsOf(c) /\ r.id = st.id /\ r \in HostResults
  BY <1>1, RowsOfIs DEF NewResult, HostResults, Chunks
<1>3. Pure(r) /\ Len(r.rows) = c.total
  <2>1. c.total - c.from = c.total /\ c.from + 0 = 0
    BY <1>1 DEF Chunks
  <2>2. \A k1 \in DOMAIN RowsOf(c) : RowsOf(c)[k1] = << st.id, k1 >>
    <3>1. DOMAIN RowsOf(c) \subseteq Nat
      BY <1>1, RowsOfIs
    <3> QED BY <1>1, <3>1, RowsOfIs
  <2> QED BY <1>1, <1>2, <2>1, <2>2, RowsOfIs DEF Pure
<1> HIDE DEF r
<1>4. /\ k.results \in Seq(HostResults) /\ Len(k.results) = n /\ DOMAIN k.results = 1 .. n
      /\ n \in Nat /\ n > 0 /\ DOMAIN h.results = 1 .. n - 1
      /\ k.results[n] = r /\ \A j \in DOMAIN h.results : k.results[j] = h.results[j]
  <2>1. k.results = Append(h.results, r)
    BY DEF r
  <2> QED BY <1>1, <1>2, <2>1
<1>5. \A j \in DOMAIN k.results : j = n \/ (j \in DOMAIN h.results /\ j < n)
  BY <1>4
<1>6. Later(st, st2) /\ Begun(st.id, st2) /\ ~Ended(st.id, st) /\ ~Begun(st.id, st)
  BY MovedIs
<1> HIDE DEF st2, n
<1>7. \A j \in DOMAIN h.results : h.results[j].id \in Nat /\ Begun(h.results[j].id, st)
  <2>1. \A j \in DOMAIN h.results : h.results[j] \in HostResults
    BY <1>1
  <2> QED BY <2>1 DEF HostResults, HostFits, ResultsFit
<1>8. \A j \in DOMAIN h.results : h.results[j].id < st.id
  BY <1>6, <1>7 DEF Begun, Executors
<1>9. AllPure(k.results)
  BY <1>3, <1>4, <1>5 DEF AllPure, HostFits, ResultsFit
<1>10. \A j \in DOMAIN k.results : Begun(k.results[j].id, st2)
  BY <1>2, <1>4, <1>5, <1>6, <1>7 DEF Later
<1>11. ASSUME NEW i \in DOMAIN k.results, NEW j \in DOMAIN k.results, i < j
       PROVE  k.results[i].id < k.results[j].id
  <2>1. i \in DOMAIN h.results
    BY <1>4, <1>5, <1>11
  <2>2. CASE j = n
    BY <1>2, <1>4, <1>8, <2>1, <2>2
  <2>3. CASE j \in DOMAIN h.results
    BY <1>4, <1>11, <2>1, <2>3 DEF HostFits, ResultsFit
  <2> QED BY <1>5, <2>2, <2>3
<1>12. ASSUME NEW id \in Nat, NEW m \in Nat, Ended(id, st), AtMost(h.results, id, m)
       PROVE  AtMost(k.results, id, m)
  BY <1>2, <1>4, <1>5, <1>6, <1>12 DEF AtMost
<1>13. Last(k.results) = k.results[n] /\ k.results # << >>
  BY <1>4 DEF Last
<1> QED BY Zenon, <1>2, <1>3, <1>4, <1>9, <1>10, <1>11, <1>12, <1>13 DEF ResultsFit, Extended, st2

LEMMA LongerIs ==
  ASSUME NEW rs \in Seq(HostResults), rs # << >>, NEW c \in Chunks
  PROVE  LET n == Len(rs)
             ss == Longer(rs, c) IN
         /\ ss \in Seq(HostResults) /\ Len(ss) = n /\ DOMAIN ss = DOMAIN rs /\ n \in DOMAIN rs
         /\ ss[n].id = rs[n].id /\ ss[n].rows = rs[n].rows \o RowsOf(c)
         /\ \A j \in DOMAIN rs : j # n => ss[j] = rs[j]
<1> DEFINE n == Len(rs)
           rows == rs[n].rows \o RowsOf(c)
           r == [rs[n] EXCEPT !.rows = rows]
           ss == [rs EXCEPT ![n] = r]
<1>1. n \in DOMAIN rs /\ rs[n] \in HostResults
  OBVIOUS
<1>2. rows \in Seq(Row)
  <2>1. rs[n].rows \in Seq(Row)
    BY <1>1 DEF HostResults
  <2> QED BY <2>1, RowsOfType
<1>3. Longer(rs, c) = ss
  BY DEF Longer
<1> HIDE DEF rows
<1>4. r \in HostResults /\ r.id = rs[n].id /\ r.rows = rows
  BY Zenon, <1>1, <1>2 DEF HostResults
<1> HIDE DEF r
<1>5. ss \in Seq(HostResults) /\ DOMAIN ss = DOMAIN rs /\ ss[n] = r
      /\ \A j \in DOMAIN rs : j # n => ss[j] = rs[j]
  BY <1>1, <1>4
<1> HIDE DEF ss
<1>6. Len(ss) = Len(rs)
  BY <1>5
<1> QED BY <1>1, <1>3, <1>4, <1>5, <1>6 DEF rows

LEMMA LongerFits ==
  ASSUME NEW h \in HostState, NEW st \in Executors, HostFits(h, st), st.id > 0,
         NEW c, ChunkOf(st, c), ~c.first, ~h.cancelled,
         NEW k, k.results = Longer(h.results, c)
  PROVE  /\ Extended(h, st, c, k) /\ Len(k.results) = Len(h.results)
         /\ h.tracked = st.id /\ h.seq \in Nat
<1> DEFINE n == Len(h.results)
           st2 == Moved(st, c)
           a == h.results[n].rows
           b == RowsOf(c)
<1>1. h.results \in Seq(HostResults) /\ c \in Chunks /\ c.from = st.rows /\ c.id = st.id
  BY DEF HostState, ChunkOf
<1>2. TrackedFits(h, st)
  BY DEF HostFits, ExecutorFits, ChunkOf
<1>3. h.results # << >> /\ h.tracked = st.id /\ h.seq \in Nat /\ h.results[n].id = st.id
      /\ Len(a) = st.rows /\ n > 0
  BY <1>1, <1>2 DEF TrackedFits
<1>4. /\ k.results \in Seq(HostResults) /\ Len(k.results) = n
      /\ DOMAIN k.results = DOMAIN h.results /\ n \in DOMAIN h.results
      /\ k.results[n].id = h.results[n].id /\ k.results[n].rows = a \o b
      /\ \A j \in DOMAIN h.results : j # n => k.results[j] = h.results[j]
  BY Zenon, <1>1, <1>3, LongerIs
<1>5. a \in Seq(Row) /\ Pure(h.results[n])
  <2>1. h.results[n] \in HostResults
    BY <1>1, <1>4
  <2> QED BY <1>4, <2>1 DEF HostResults, HostFits, ResultsFit, AllPure
<1>6. \A k1 \in DOMAIN a : a[k1] = << st.id, k1 >>
  BY <1>3, <1>5 DEF Pure
<1>7. /\ b \in Seq(Row) /\ Len(b) = c.total - st.rows
      /\ \A k1 \in DOMAIN b : b[k1] = << st.id, st.rows + k1 >>
  BY <1>1, RowsOfIs
<1>8. c.total \in Nat /\ st.rows \in Nat /\ st.rows <= c.total
  BY <1>1 DEF Chunks, Executors
<1> HIDE DEF a, b
<1>9. /\ Len(a \o b) = c.total
      /\ \A k1 \in DOMAIN (a \o b) : (a \o b)[k1] = << st.id, k1 >>
  <2>1. /\ a \o b \in Seq(Row) /\ Len(a \o b) = Len(a) + Len(b)
        /\ DOMAIN a = 1 .. Len(a) /\ DOMAIN b = 1 .. Len(b)
        /\ \A k1 \in DOMAIN a : (a \o b)[k1] = a[k1]
        /\ \A k1 \in DOMAIN b : (a \o b)[Len(a) + k1] = b[k1]
    BY Zenon, <1>5, <1>7, RowsConcatenated
  <2>2. Len(a \o b) = c.total
    BY <1>3, <1>7, <1>8, <2>1
  <2>3. ASSUME NEW k1 \in DOMAIN (a \o b) PROVE (a \o b)[k1] = << st.id, k1 >>
    <3>1. k1 \in 1 .. c.total
      BY <2>1, <2>2
    <3>2. CASE k1 <= st.rows
      BY <1>3, <1>6, <1>8, <2>1, <3>1, <3>2
    <3>3. CASE k1 > st.rows
      <4>1. k1 - st.rows \in DOMAIN b /\ st.rows + (k1 - st.rows) = k1
        BY SMTT(30), <1>7, <1>8, <2>1, <3>1, <3>3
      <4>2. (a \o b)[st.rows + (k1 - st.rows)] = b[k1 - st.rows]
        BY Zenon, <1>3, <2>1, <4>1
      <4>3. b[k1 - st.rows] = << st.id, st.rows + (k1 - st.rows) >>
        BY <1>7, <4>1
      <4> QED BY <4>1, <4>2, <4>3
    <3> QED BY <1>8, <3>1, <3>2, <3>3
  <2> QED BY <2>2, <2>3
<1>10. Pure(k.results[n])
  BY <1>3, <1>4, <1>9 DEF Pure
<1>11. Later(st, st2) /\ ~Ended(st.id, st)
  BY MovedIs
<1> HIDE DEF st2, n
<1>12. \A j \in DOMAIN h.results : k.results[j].id = h.results[j].id
  BY <1>4
<1>13. \A j \in DOMAIN h.results : h.results[j].id \in Nat /\ Begun(h.results[j].id, st)
  <2>1. \A j \in DOMAIN h.results : h.results[j] \in HostResults
    BY <1>1
  <2> QED BY <2>1 DEF HostResults, HostFits, ResultsFit
<1>14. AllPure(k.results)
  BY <1>4, <1>10 DEF AllPure, HostFits, ResultsFit
<1>15. ResultsFit(k, st2)
  BY Zenon, <1>4, <1>11, <1>12, <1>13, <1>14 DEF ResultsFit, HostFits, Later
<1>16. ASSUME NEW id \in Nat, NEW m \in Nat, Ended(id, st), AtMost(h.results, id, m)
       PROVE  AtMost(k.results, id, m)
  BY <1>3, <1>4, <1>11, <1>16 DEF AtMost
<1>17. Last(k.results) = k.results[n] /\ k.results # << >>
  BY <1>3, <1>4 DEF Last
<1> QED BY <1>3, <1>4, <1>9, <1>15, <1>16, <1>17 DEF Extended, st2

LEMMA StoppedFed ==
  ASSUME NEW h \in HostState, NEW st \in Executors, HostFits(h, st), st.id > 0,
         NEW c, ChunkOf(st, c), NEW k, SameSide(h, k), k.results = h.results, Clean(k.out),
         IF c.first THEN k.tracked = 0 ELSE k.tracked = h.tracked /\ k.seq = h.seq,
         ~Streams(k, c)
  PROVE  Fed(h, st, c, k)
<1> DEFINE st2 == Moved(st, c)
           n == Len(h.results)
<1>1. h.results \in Seq(HostResults) /\ c \in Chunks /\ c.from = st.rows
  BY DEF HostState, ChunkOf
<1>2. Later(st, st2)
  BY MovedIs
<1> HIDE DEF st2
<1>3. ResultsFit(k, st2)
  <2>1. \A i \in DOMAIN h.results : h.results[i].id \in Nat
    <3>1. \A i \in DOMAIN h.results : h.results[i] \in HostResults
      BY <1>1
    <3> QED BY <3>1 DEF HostResults
  <2> QED BY <1>2, <2>1 DEF HostFits, ResultsFit, Later
<1>4. h.executing \/ h.cancelled
  BY DEF HostFits, ExecutorFits, ChunkOf
<1>5. c.total \in Nat /\ st.rows \in Nat /\ st.rows <= c.total
  BY <1>1 DEF Chunks, Executors
<1>6. ASSUME k.tracked > 0 PROVE Tracks(h, st, c, k)
  <2>1. ~c.first /\ TrackedFits(h, st) /\ k.seq = h.seq /\ k.tracked = h.tracked
    BY <1>6 DEF HostFits, ExecutorFits
  <2>2. n > 0 /\ n \in DOMAIN h.results /\ h.results # << >>
    BY <1>1, <2>1 DEF TrackedFits
  <2> DEFINE rows == h.results[n].rows
  <2>3. rows \in Seq(Row)
    <3>1. h.results[n] \in HostResults
      BY <1>1, <2>2
    <3> QED BY <3>1 DEF HostResults
  <2>4. Len(rows) <= st.rows /\ (~h.cancelled => Len(rows) = st.rows /\ h.seq \in Nat)
    BY <2>1 DEF TrackedFits
  <2>5. ~h.cancelled => c.total = st.rows
    <3>1. ~h.cancelled => ~(c.total > c.from)
      BY <1>4, <2>1, <2>2 DEF Streams, SameSide
    <3> QED BY <1>1, <1>5, <3>1
  <2> HIDE DEF rows
  <2>6. Len(rows) <= c.total /\ (~h.cancelled => Len(rows) = c.total)
    <3>1. Len(rows) \in Nat
      BY <2>3
    <3> QED BY <1>5, <2>4, <2>5, <3>1
  <2> QED BY <2>1, <2>2, <2>4, <2>5, <2>6 DEF Tracks, TrackedFits, SameSide, rows
<1>7. ASSUME ~k.cancelled, ~c.last PROVE k.tracked > 0
  <2>1. CASE c.first
    BY <1>4, <1>7, <2>1 DEF Streams, SameSide, ChunkOf
  <2>2. CASE ~c.first
    BY <1>7, <2>2 DEF HostFits, ExecutorFits, ChunkOf, SameSide
  <2> QED BY <2>1, <2>2
<1> QED BY <1>3, <1>6, <1>7 DEF Fed, Clean, st2

(* The results after a chunk that streams, whether it is the first or not. *)
Grew(h, st, c, t) ==
  /\ SameSide(h, t) /\ ~t.cancelled /\ t.tracked = st.id
  /\ t.seq \in Nat /\ (~c.first => t.seq = h.seq /\ h.tracked = st.id
                                   /\ Len(t.results) = Len(h.results))
  /\ Extended(h, st, c, t) /\ Clean(t.out)

LEMMA StoredGrew ==
  ASSUME NEW h \in HostState, NEW st \in Executors, HostFits(h, st), st.id > 0,
         NEW c, ChunkOf(st, c), NEW b, Sound(b), SameSide(h, b), b.results = h.results,
         Clean(b.out), IF c.first THEN b.tracked = 0 /\ b.seq = 0 ELSE b = h,
         Streams(b, c)
  PROVE  LET s == StoreChunk(b, c)
             t == IF c.first THEN [s EXCEPT !.tracked = c.id] ELSE s IN
         Sound(t) /\ Grew(h, st, c, t)
<1> DEFINE s == StoreChunk(b, c)
           u == [s EXCEPT !.tracked = c.id]
           t == IF c.first THEN u ELSE s
<1>1. c \in Chunks /\ c.id = st.id /\ ~h.cancelled
  BY DEF ChunkOf, Streams, SameSide
<1>2. /\ Sound(s) /\ SameSide(b, s) /\ s.tracked = b.tracked /\ s.seq = b.seq
      /\ s.out = b.out
      /\ s.results = IF c.first THEN Append(h.results, NewResult(c))
                     ELSE Longer(h.results, c)
  BY <1>1, StoreChunkIs
<1> HIDE DEF s
<1>3. s \in HostState /\ st.id \in Nat
  BY <1>2 DEF Sound, Executors
<1>4. ASSUME c.first PROVE Sound(u) /\ Grew(h, st, c, u)
  <2>1. /\ u \in HostState /\ u.sent = s.sent /\ u.version = s.version /\ u.out = s.out
        /\ u.syncVersion = s.syncVersion /\ SameSide(s, u) /\ u.results = s.results
        /\ u.seq = s.seq /\ u.tracked = st.id
    BY Zenon, <1>1, <1>3 DEF HostState, SameSide
  <2> HIDE DEF u
  <2>2. Sound(u)
    BY <1>2, <2>1 DEF Sound
  <2>3. Extended(h, st, c, u)
    <3>1. u.results = Append(h.results, NewResult(c))
      BY <1>2, <1>4, <2>1
    <3> QED BY <1>4, <3>1, NewResultFits
  <2>4. u.seq \in Nat
    BY <1>2, <1>4, <2>1
  <2>5. Grew(h, st, c, u)
    BY <1>1, <1>2, <1>4, <2>1, <2>3, <2>4 DEF Grew, SameSide
  <2> QED BY <2>2, <2>5
<1>5. ASSUME ~c.first PROVE Sound(s) /\ Grew(h, st, c, s)
  <2>1. s.results = Longer(h.results, c)
    BY <1>2, <1>5
  <2>2. /\ Extended(h, st, c, s) /\ Len(s.results) = Len(h.results)
        /\ h.tracked = st.id /\ h.seq \in Nat
    BY <1>1, <1>5, <2>1, LongerFits
  <2>3. Grew(h, st, c, s)
    BY <1>1, <1>2, <1>5, <2>2 DEF Grew, SameSide
  <2> QED BY <1>2, <2>3
<1> HIDE DEF u
<1>6. Sound(t) /\ Grew(h, st, c, t)
  BY <1>4, <1>5
<1> QED BY <1>6 DEF u, s

LEMMA GrewFed ==
  ASSUME NEW h \in HostState, NEW st \in Executors, st.id > 0, NEW c, ChunkOf(st, c),
         NEW t, Grew(h, st, c, t), NEW k, SameSide(t, k), k.results = t.results,
         k.tracked = t.tracked,
         \/ k.seq = t.seq /\ h.active = "O"
         \/ k.seq = t.seq + 1,
         \A i \in DOMAIN k.out : CleanMsg(k.out[i]) \/ Carries(k.out[i], h, st, c, k)
  PROVE  Fed(h, st, c, k)
<1>1. c.total \in Nat /\ c.total <= c.total
  BY DEF ChunkOf, Chunks
<1>2. k.seq \in Nat
  BY DEF Grew
<1>3. Tracks(h, st, c, k)
  BY <1>1, <1>2 DEF Grew, Extended, Tracks, Hides
<1>4. ResultsFit(k, Moved(st, c))
  BY DEF Grew, Extended, ResultsFit
<1> QED BY <1>3, <1>4 DEF Fed, Grew, Extended, SameSide

LEMMA SentCarries ==
  ASSUME NEW st \in Executors, st.id > 0, NEW c, ChunkOf(st, c), NEW h,
         NEW t, Grew(h, st, c, t), t.active = "S", NEW k, SameSide(t, k),
         k.results = t.results, k.tracked = t.tracked, k.seq = AppendRowsMsg(t, c).seq + 1
  PROVE  Carries(AppendRowsMsg(t, c), h, st, c, k) /\ k.seq = t.seq + 1
<1> DEFINE m == AppendRowsMsg(t, c)
           seq == IF t.seq = None THEN 0 ELSE t.seq
<1>1. c \in Chunks /\ c.id = st.id
  BY DEF ChunkOf
<1>2. m = [type |-> "appendRows", id |-> Last(t.results).id, index |-> Len(t.results),
           seq |-> seq, from |-> c.from, total |-> c.total, rows |-> RowsOf(c),
           first |-> c.first]
  BY DEF AppendRowsMsg
<1>3. seq = t.seq /\ seq \in Nat
  BY DEF Grew, None
<1> HIDE DEF seq, m
<1>4. /\ m.id = st.id /\ m.index = Len(k.results) /\ m.total = c.total /\ m.seq = t.seq
      /\ m.from = c.from /\ m.rows = RowsOf(c) /\ m.type = "appendRows" /\ m.seq \in Nat
  BY <1>2, <1>3 DEF Grew, Extended
<1>5. Begun(st.id, Moved(st, c))
  BY MovedIs
<1>6. ChunkFits(m, Moved(st, c))
  BY <1>1, <1>4, <1>5, RowsOfIs DEF ChunkFits, Chunks
<1>7. ~Hides(k) /\ k.tracked > 0
  BY DEF Hides, Grew, SameSide
<1> QED BY <1>4, <1>6, <1>7 DEF Carries, IsChunk, m

LEMMA AppendStreamingChunkOrderly ==
  ASSUME NEW h, Steady(h), h.out = << >>, NEW st \in Executors, HostFits(h, st),
         NEW c, ChunkOf(st, c)
  PROVE  Orderly(h, st, AppendStreamingChunk(h, c), Moved(st, c))
<1> DEFINE b == BeginResult(h, c)
           s == StoreChunk(b, c)
           t == IF c.first THEN [s EXCEPT !.tracked = c.id] ELSE s
           k == IF Streams(b, c)
                THEN IF b.active = "S" THEN SendChunk(t, c) ELSE t
                ELSE s
           g == IF c.last THEN EndResult(k, c) ELSE k
<1>1. h \in HostState /\ Sound(h) /\ FollowEditor(h) = h /\ c \in Chunks /\ st.id > 0
  BY SteadyFollowsEditor DEF Steady, Apt, Sound, ChunkOf, HostFits, ExecutorFits
<1>2. AppendStreamingChunk(h, c) = g
  BY <1>1 DEF AppendStreamingChunk
<1>3. /\ Sound(b) /\ SameSide(h, b) /\ b.results = h.results /\ Clean(b.out)
      /\ IF c.first THEN b.tracked = 0 /\ b.seq = 0 ELSE b = h
  BY <1>1, BeginResultIs DEF HostFits, ResultsFit
<1> HIDE DEF b
<1>4. Sound(k) /\ Fed(h, st, c, k)
  <2>1. CASE ~Streams(b, c)
    <3>1. /\ Sound(s) /\ SameSide(b, s) /\ s.tracked = b.tracked /\ s.seq = b.seq
          /\ s.out = b.out /\ s.results = b.results
      BY <1>1, <1>3, <2>1, StoreChunkIs
    <3> HIDE DEF s
    <3>2. /\ SameSide(h, s) /\ s.results = h.results /\ Clean(s.out) /\ ~Streams(s, c)
          /\ IF c.first THEN s.tracked = 0 ELSE s.tracked = h.tracked /\ s.seq = h.seq
      BY <1>3, <2>1, <3>1 DEF SameSide, Streams
    <3>3. Fed(h, st, c, s)
      BY <1>1, <3>2, StoppedFed
    <3> QED BY <2>1, <3>1, <3>3
  <2>2. CASE Streams(b, c)
    <3>1. Sound(t) /\ Grew(h, st, c, t)
      BY <1>1, <1>3, <2>2, StoredGrew
    <3> HIDE DEF t
    <3>2. t.active = b.active /\ b.active = h.active /\ h.active \in Sources
      BY <1>1, <1>3, <3>1 DEF Grew, SameSide, HostState
    <3>3. CASE b.active = "S"
      <4> DEFINE x == SendChunk(t, c)
                 m == AppendRowsMsg(t, c)
      <4>1. /\ Sound(x) /\ SameSide(t, x) /\ x.tracked = t.tracked /\ x.results = t.results
            /\ x.seq = m.seq + 1 /\ \A i \in DOMAIN x.out : CleanMsg(x.out[i]) \/ x.out[i] = m
        BY <1>1, <3>1, SendChunkIs DEF Grew, Extended, ResultsFit
      <4> HIDE DEF x
      <4>2. Carries(m, h, st, c, x) /\ x.seq = t.seq + 1
        BY <1>1, <3>1, <3>2, <3>3, <4>1, SentCarries
      <4> HIDE DEF m
      <4>3. \A i \in DOMAIN x.out : CleanMsg(x.out[i]) \/ Carries(x.out[i], h, st, c, x)
        BY <4>1, <4>2
      <4>4. Fed(h, st, c, x)
        BY <1>1, <3>1, <4>1, <4>2, <4>3, GrewFed
      <4> QED BY <2>2, <3>3, <4>1, <4>4 DEF x
    <3>4. CASE b.active = "O"
      <4>1. SameSide(t, t) /\ \A i \in DOMAIN t.out : CleanMsg(t.out[i]) \/ Carries(t.out[i], h, st, c, t)
        BY <3>1 DEF Grew, Clean, SameSide
      <4>2. Fed(h, st, c, t)
        BY Zenon, <1>1, <3>1, <3>2, <3>4, <4>1, GrewFed
      <4> QED BY <2>2, <3>1, <3>4, <4>2
    <3> QED BY <3>2, <3>3, <3>4 DEF Sources
  <2> QED BY <2>1, <2>2
<1> HIDE DEF k
<1>5. CASE c.last
  BY <1>1, <1>2, <1>4, <1>5, EndResultOrderly
<1>6. CASE ~c.last
  <2>1. /\ Onward(h, st, k, Moved(st, c), Told(k.out))
        /\ Tells(k.out, h, st, k, Moved(st, c)) /\ ExecutorFits(k, Moved(st, c))
    BY <1>1, <1>4, <1>6, FedOrderly
  <2> QED BY <1>2, <1>4, <1>6, <2>1 DEF Orderly, HostFits, Fed
<1> QED BY <1>5, <1>6
----------------------------------------------------------------------------
(* Rows lost, repeated or overtaken: s is q, but for some chunks.  Only    *)
(* chunks change their order, and no barrier is lost.                      *)

Reordered(q, s, f) ==
  /\ f \in [DOMAIN s -> DOMAIN q]
  /\ \A p \in DOMAIN s : s[p] = q[f[p]]
  /\ \A r, p \in DOMAIN s : f[r] < f[p] /\ ~(IsChunk(s[r]) /\ IsChunk(s[p])) => r < p
  /\ \A b \in DOMAIN q : IsBarrier(q[b]) => \E c \in DOMAIN s : f[c] = b

LEMMA ReorderedBarriers ==
  ASSUME NEW q \in Seq(ToView), NEW s \in Seq(ToView), NEW f, Reordered(q, s, f)
  PROVE  /\ After(q, 0) => After(s, 0)
         /\ \A p \in DOMAIN s : /\ After(q, f[p]) => After(s, p)
                                /\ Between(q, 0, f[p]) => Between(s, 0, p)
                                /\ \A r \in DOMAIN s : Between(q, f[r], f[p]) => Between(s, r, p)
<1>1. /\ \A p \in DOMAIN s : p \in Nat /\ p > 0 /\ f[p] \in DOMAIN q
      /\ \A p \in DOMAIN q : p \in Nat /\ p > 0
  BY DEF Reordered
<1>2. ASSUME NEW b \in DOMAIN q, IsBarrier(q[b])
      PROVE  \E c \in DOMAIN s : /\ f[c] = b /\ IsBarrier(s[c])
                                 /\ \A p \in DOMAIN s : /\ f[p] < b => p < c
                                                        /\ b < f[p] => c < p
  <2>1. PICK c \in DOMAIN s : f[c] = b
    BY <1>2 DEF Reordered
  <2>2. IsBarrier(s[c]) /\ ~IsChunk(s[c])
    BY <1>2, <2>1 DEF Reordered, IsBarrier, IsChunk
  <2> QED BY <2>1, <2>2 DEF Reordered
<1>3. After(q, 0) => After(s, 0)
  BY <1>1, <1>2 DEF After
<1>4. ASSUME NEW p \in DOMAIN s
      PROVE  /\ After(q, f[p]) => After(s, p)
             /\ Between(q, 0, f[p]) => Between(s, 0, p)
             /\ \A r \in DOMAIN s : Between(q, f[r], f[p]) => Between(s, r, p)
  <2>1. After(q, f[p]) => After(s, p)
    BY <1>2 DEF After
  <2>2. Between(q, 0, f[p]) => Between(s, 0, p)
    BY <1>1, <1>2 DEF Between
  <2>3. \A r \in DOMAIN s : Between(q, f[r], f[p]) => Between(s, r, p)
    BY <1>2 DEF Between
  <2> QED BY <2>1, <2>2, <2>3
<1> QED BY <1>3, <1>4

LEMMA ReorderedMessagesFit ==
  ASSUME NEW q \in Seq(ToView), NEW s \in Seq(ToView), NEW f, Reordered(q, s, f),
         NEW h, NEW st, MessagesFit(q, h, st)
  PROVE  MessagesFit(s, h, st)
<1> SUFFICES ASSUME NEW p \in DOMAIN s
             PROVE  /\ s[p].type = "hydrate" => AllPure(s[p].results)
                    /\ Placed(s[p]) => PlaceFits(s, p, h)
                    /\ IsChunk(s[p]) => ChunkFits(s[p], st) /\ ChunkInStep(s, p, h, st)
                    /\ IsEnd(s[p]) => EndFits(s, p, h, st)
  BY DEF MessagesFit
<1>1. f[p] \in DOMAIN q /\ s[p] = q[f[p]] /\ \A r \in DOMAIN s : f[r] \in DOMAIN q /\ s[r] = q[f[r]]
  BY DEF Reordered
<1>2. /\ After(q, f[p]) => After(s, p)
      /\ \A r \in DOMAIN s : Between(q, f[r], f[p]) => Between(s, r, p)
  BY ReorderedBarriers
<1>3. /\ q[f[p]].type = "hydrate" => AllPure(q[f[p]].results)
      /\ Placed(q[f[p]]) => PlaceFits(q, f[p], h)
      /\ IsChunk(q[f[p]]) => ChunkFits(q[f[p]], st) /\ ChunkInStep(q, f[p], h, st)
      /\ IsEnd(q[f[p]]) => EndFits(q, f[p], h, st)
  BY <1>1 DEF MessagesFit
<1>4. Placed(s[p]) => PlaceFits(s, p, h)
  BY <1>1, <1>3 DEF PlaceFits
<1>5. IsChunk(s[p]) => ChunkFits(s[p], st) /\ ChunkInStep(s, p, h, st)
  BY <1>1, <1>2, <1>3 DEF ChunkInStep
<1>6. ASSUME IsEnd(s[p])
      PROVE  EndFits(s, p, h, st)
  <2>1. EndFits(q, f[p], h, st)
    BY <1>1, <1>3, <1>6
  <2>2. Ended(s[p].id, st) /\ AtMost(h.results, s[p].id, s[p].total)
    BY <1>1, <2>1 DEF EndFits
  <2>3. ASSUME NEW r \in DOMAIN s, IsChunk(s[r]), s[r].id = s[p].id
        PROVE  r < p /\ (s[r].seq = s[p].last => s[r].total = s[p].total \/ Between(s, r, p))
    <3>1. f[r] < f[p] /\ (s[r].seq = s[p].last => s[r].total = s[p].total \/ Between(q, f[r], f[p]))
      BY <1>1, <2>1, <2>3 DEF EndFits
    <3>2. r < p
      BY <1>6, <3>1 DEF Reordered, IsEnd, IsChunk
    <3> QED BY <1>2, <3>1, <3>2
  <2> QED BY <2>2, <2>3 DEF EndFits
<1> QED BY <1>1, <1>3, <1>4, <1>5, <1>6

LEMMA ReorderedViewFits ==
  ASSUME NEW q \in Seq(ToView), NEW s \in Seq(ToView), NEW f, Reordered(q, s, f),
         NEW h, NEW st, NEW v, ViewFits(v, q, h, st)
  PROVE  ViewFits(v, s, h, st)
<1>1. \A p \in DOMAIN s : f[p] \in DOMAIN q /\ s[p] = q[f[p]]
  BY DEF Reordered
<1>2. /\ After(q, 0) => After(s, 0)
      /\ \A p \in DOMAIN s : Between(q, 0, f[p]) => Between(s, 0, p)
  BY ReorderedBarriers
<1>3. \A id : Over(id, q, st) => Over(id, s, st)
  BY <1>1 DEF Over
<1>4. \A rs : AllShownFit(rs, q, h, st) => AllShownFit(rs, s, h, st)
  BY <1>3 DEF AllShownFit, ShownFits
<1>5. CursorFits(v, q, h, st) => CursorFits(v, s, h, st)
  BY Zenon, <1>1, <1>2 DEF CursorFits
<1> QED BY <1>4, <1>5 DEF ViewFits

LEMMA RepeatedIs ==
  ASSUME NEW q \in Seq(ToView), q # << >>
  PROVE  LET s == << q[1] >> \o q IN
         s \in Seq(ToView) /\ \E f : Reordered(q, s, f)
<1> DEFINE s == << q[1] >> \o q
           f == [i \in DOMAIN s |-> IF i = 1 THEN 1 ELSE i - 1]
<1>1. /\ s \in Seq(ToView) /\ Len(s) = Len(q) + 1 /\ Len(q) \in Nat
      /\ DOMAIN s = 1 .. Len(q) + 1 /\ DOMAIN q = 1 .. Len(q) /\ 1 \in DOMAIN q
      /\ s[1] = q[1] /\ \A i \in DOMAIN s : i # 1 => s[i] = q[i - 1]
  OBVIOUS
<1> HIDE DEF s
<1>2. f \in [DOMAIN s -> DOMAIN q] /\ \A i \in DOMAIN s : f[i] = IF i = 1 THEN 1 ELSE i - 1
  BY <1>1
<1> HIDE DEF f
<1>3. \A p \in DOMAIN s : s[p] = q[f[p]]
  BY <1>1, <1>2
<1>4. \A r, p \in DOMAIN s : f[r] < f[p] => r < p
  BY <1>1, <1>2
<1>5. \A b \in DOMAIN q : b + 1 \in DOMAIN s /\ f[b + 1] = b
  BY <1>1, <1>2
<1>6. Reordered(q, s, f)
  BY <1>2, <1>3, <1>4, <1>5 DEF Reordered
<1> QED BY <1>1, <1>6 DEF s

LEMMA OvertakenIs ==
  ASSUME NEW q \in Seq(ToView), 1 \in DOMAIN q, 2 \in DOMAIN q, IsChunk(q[1]), IsChunk(q[2])
  PROVE  LET s == [q EXCEPT ![1] = q[2], ![2] = q[1]] IN
         s \in Seq(ToView) /\ \E f : Reordered(q, s, f)
<1> DEFINE t == [q EXCEPT ![1] = q[2]]
           s == [t EXCEPT ![2] = q[1]]
           f == [i \in DOMAIN q |-> IF i = 1 THEN 2 ELSE IF i = 2 THEN 1 ELSE i]
<1>0. [q EXCEPT ![1] = q[2], ![2] = q[1]] = s
  OBVIOUS
<1>1. q[1] \in ToView /\ q[2] \in ToView /\ DOMAIN q = 1 .. Len(q) /\ Len(q) \in Nat
  OBVIOUS
<1>2. t \in Seq(ToView) /\ DOMAIN t = DOMAIN q
  BY <1>1, ReplacedType
<1>3. s \in Seq(ToView) /\ DOMAIN s = DOMAIN q
  BY <1>1, <1>2, ReplacedType
<1>4. s[1] = q[2] /\ s[2] = q[1] /\ \A i \in DOMAIN q : i # 1 /\ i # 2 => s[i] = q[i]
  BY <1>1, <1>2
<1> HIDE DEF t, s
<1>5. f \in [DOMAIN s -> DOMAIN q]
      /\ \A i \in DOMAIN s : f[i] = IF i = 1 THEN 2 ELSE IF i = 2 THEN 1 ELSE i
  BY <1>3
<1> HIDE DEF f
<1>6. \A p \in DOMAIN s : s[p] = q[f[p]]
  BY <1>3, <1>4, <1>5
<1>7. ASSUME NEW r \in DOMAIN s, NEW p \in DOMAIN s, f[r] < f[p], ~(IsChunk(s[r]) /\ IsChunk(s[p]))
      PROVE  r < p
  <2>1. ~(r \in {1, 2} /\ p \in {1, 2})
    BY <1>4, <1>7
  <2> QED BY <1>1, <1>3, <1>5, <1>7, <2>1
<1>8. \A b \in DOMAIN q : \E c \in DOMAIN s : f[c] = b
  <2>1. \A b \in DOMAIN q : f[f[b]] = b /\ f[b] \in DOMAIN s
    BY <1>3, <1>5
  <2> QED BY <2>1
<1>9. Reordered(q, s, f)
  BY <1>5, <1>6, <1>7, <1>8 DEF Reordered
<1> QED BY Zenon, <1>0, <1>3, <1>9
----------------------------------------------------------------------------
(* The steps.                                                              *)

LEMMA SpendKeepsKinds ==
  ASSUME left \in Budget, NEW kind \in {"executions", "statements", "disturbances"},
         Spend(kind)
  PROVE  left'.kinds = left.kinds
<1>1. CASE kind = "executions"
  BY <1>1 DEF Budget, Spend
<1>2. CASE kind = "statements"
  BY <1>2 DEF Budget, Spend
<1>3. CASE kind = "disturbances"
  BY <1>3 DEF Budget, Spend
<1> QED BY <1>1, <1>2, <1>3

LEMMA AtRest ==
  ASSUME IInv
  PROVE  /\ Steady(host) /\ Sound(host) /\ host \in HostState /\ host.out = << >>
         /\ view \in ViewState /\ view.out = << >>
         /\ toView \in Seq(ToView) /\ toHost \in Seq(ToHost)
         /\ stream \in Executors /\ left \in Budget
BY DEF IInv, HostAtRest, PageAtRest, Channels, Steady, Apt, Sound

(* A handler that leaves the host in good order leaves everything so.      *)
LEMMA HostBecomesInOrder ==
  ASSUME IInv, InOrder, NEW h \in HostState, Orderly(host, stream, h, stream'),
         HostBecomes(h), stream' \in Executors, NothingCloses'
  PROVE  InOrder'
<1>1. /\ host \in HostState /\ toView \in Seq(ToView) /\ view \in ViewState
      /\ stream \in Executors
  BY AtRest
<1>2. << >> \in Seq(ToView) /\ h.out \in Seq(ToView)
  BY DEF HostState
<1>3. /\ host' \in HostState /\ host'.results = h.results /\ host'.tracked = h.tracked
      /\ host'.seq = h.seq /\ host'.executing = h.executing
      /\ host'.cancelled = h.cancelled /\ host'.active = h.active
  <2> DEFINE g1 == [h EXCEPT !.out = << >>]
  <2>1. /\ g1 \in HostState /\ g1.results = h.results /\ g1.tracked = h.tracked
        /\ g1.seq = h.seq /\ g1.executing = h.executing
        /\ g1.cancelled = h.cancelled /\ g1.active = h.active
    BY Zenon, <1>2 DEF HostState
  <2>2. host' = [g1 EXCEPT !.html = FALSE]
    BY DEF HostBecomes
  <2> HIDE DEF g1
  <2> QED BY Zenon, <2>1, <2>2 DEF HostState
<1>4. \/ toView' = toView \o h.out /\ (view' = view \/ view' = FreshView)
      \/ toView' = h.out /\ view' = FreshView
  BY DEF HostBecomes
<1>5. HostFits(host', stream')
  BY <1>3 DEF Orderly, HostFits, ResultsFit, ExecutorFits, TrackedFits
<1>6. Onward(host, stream, host', stream', Told(h.out))
  BY <1>3 DEF Orderly, Onward, Hides, Grows
<1>7. Tells(h.out, host, stream, host', stream')
  BY <1>3 DEF Orderly, Tells, Hides, Grows
<1>8. /\ ExecutorFits(host, stream) /\ MessagesFit(toView, host, stream)
      /\ ViewFits(view, toView, host, stream)
  BY DEF InOrder, HostFits
<1>9. MessagesFit(toView', host', stream')
  <2>1. CASE toView' = toView \o h.out
    BY <1>1, <1>2, <1>3, <1>6, <1>7, <1>8, <2>1, MessagesStayFit
  <2>2. CASE toView' = h.out
    <3>1. << >> \o h.out = h.out /\ MessagesFit(<< >>, host, stream)
      BY <1>2 DEF MessagesFit
    <3>2. MessagesFit(<< >> \o h.out, host', stream')
      BY Zenon, <1>1, <1>2, <1>3, <1>6, <1>7, <1>8, <3>1, MessagesStayFit
    <3> QED BY <2>2, <3>1, <3>2
  <2> QED BY <1>4, <2>1, <2>2
<1>10. ViewFits(view', toView', host', stream')
  <2>1. CASE toView' = toView \o h.out /\ view' = view
    BY <1>1, <1>2, <1>3, <1>6, <1>7, <1>8, <2>1, ViewStaysFit
  <2>2. CASE view' = FreshView
    BY <2>2, FreshViewFits
  <2> QED BY <1>4, <2>1, <2>2
<1> QED BY <1>5, <1>9, <1>10 DEF InOrder

LEMMA OwnStepInOrder ==
  ASSUME IInv, InOrder, NEW h, Sound(h), Orderly(host, stream, h, stream'), HostBecomes(h),
         stream' \in Executors, toHost' = toHost, left'.kinds = left.kinds
  PROVE  InOrder'
<1>1. NothingCloses'
  BY DEF InOrder, NothingCloses
<1> QED BY <1>1, HostBecomesInOrder DEF Sound

LEMMA SettlesSoundly ==
  ASSUME NEW h, NEW g, Settles(h, g)
  PROVE  Sound(g)
BY DEF Settles, Steady, Apt

LEMMA ChunkArrivesInOrder ==
  ASSUME IInv, InOrder, ChunkArrives
  PROVE  InOrder'
<1> DEFINE first == stream.phase = "started"
           C(total, last, columns) ==
             [id |-> stream.id, first |-> first, last |-> last, columns |-> columns,
              from |-> stream.rows, total |-> total]
<1>1. PICK total \in stream.rows .. left.rows, last \in BOOLEAN, columns \in BOOLEAN :
        /\ columns \/ (first /\ last /\ total = 0)
        /\ first \/ last \/ total > stream.rows
        /\ HostBecomes(AppendStreamingChunk(host, C(total, last, columns)))
        /\ stream' = [stream EXCEPT !.phase = IF last THEN "between" ELSE "streaming",
                                    !.rows = total]
  BY Zenon DEF ChunkArrives
<1>2. left' = left /\ toHost' = toHost /\ stream.phase \in {"started", "streaming"}
  BY DEF ChunkArrives
<1>3. /\ Steady(host) /\ host.out = << >> /\ stream \in Executors /\ left \in Budget
  BY AtRest
<1>4. stream.id \in Nat /\ stream.rows \in Nat /\ total \in Nat /\ stream.rows <= total
  BY <1>3 DEF Executors, Budget
<1>5. first \in BOOLEAN /\ (first <=> stream.phase = "started")
  OBVIOUS
<1> HIDE DEF first
<1> DEFINE c == C(total, last, columns)
           h == AppendStreamingChunk(host, c)
<1>6. c \in Chunks /\ c.id = stream.id /\ c.first = first /\ c.last = last
      /\ c.columns = columns /\ c.from = stream.rows /\ c.total = total
  BY <1>4, <1>5 DEF Chunks
<1>7. HostBecomes(h)
  BY <1>1
<1> HIDE DEF C, c
<1>8. ChunkOf(stream, c)
  BY <1>1, <1>2, <1>5, <1>6 DEF ChunkOf
<1>9. stream' = Moved(stream, c)
  BY <1>1, <1>6 DEF Moved
<1>10. stream' \in Executors
  BY Zenon, <1>1, <1>3, <1>4 DEF Executors
<1>11. Orderly(host, stream, h, stream')
  BY <1>3, <1>8, <1>9, AppendStreamingChunkOrderly DEF InOrder
<1>12. Sound(h)
  BY <1>3, <1>6, AppendStreamingChunkSettles, SettlesSoundly
<1> HIDE DEF h
<1> QED BY <1>2, <1>7, <1>10, <1>11, <1>12, OwnStepInOrder

LEMMA HostStepsInOrder ==
  ASSUME IInv, InOrder,
         Start \/ StatementStarts \/ Finalize \/ SwitchEditor \/ CancelCommand \/ ReloadPage
  PROVE  InOrder'
<1>1. /\ Steady(host) /\ Sound(host) /\ host \in HostState /\ host.out = << >>
      /\ left \in Budget /\ stream \in Executors /\ HostFits(host, stream)
  BY AtRest DEF InOrder
<1>2. << >> \in Seq(Nat)
  OBVIOUS
<1>3. CASE Start
  <2>1. PICK keep \in BOOLEAN : HostBecomes(StartExecution(host, keep))
    BY <1>3 DEF Start
  <2>2. /\ left'.kinds = left.kinds /\ stream' \in Executors /\ toHost' = toHost
        /\ stream'.phase = "between" /\ Later(stream, stream')
    BY <1>1, <1>3, SpendKeepsKinds DEF Start, Executors, Later, Begun, Ended
  <2>3. Orderly(host, stream, StartExecution(host, keep), stream')
    BY <1>1, <2>2, StartExecutionOrderly
  <2>4. Sound(StartExecution(host, keep))
    BY <1>1, StartExecutionSettles, SettlesSoundly
  <2> QED BY <2>1, <2>2, <2>3, <2>4, OwnStepInOrder
<1>4. CASE StatementStarts
  <2>1. stream.phase # "idle"
        /\ stream' = [phase |-> "started", id |-> stream.id + 1, rows |-> 0]
    BY <1>4 DEF StatementStarts
  <2>2. /\ left'.kinds = left.kinds /\ stream' \in Executors /\ toHost' = toHost
        /\ HostBecomes(LogExecutionStart(host))
    BY <1>1, <1>4, SpendKeepsKinds DEF StatementStarts, Executors
  <2>3. /\ stream'.phase = "started" /\ stream'.rows = 0 /\ stream'.id > 0
        /\ Later(stream, stream')
    BY <1>1, <2>1 DEF Executors, Later, Begun, Ended
  <2>4. Orderly(host, stream, LogExecutionStart(host), stream')
    BY <1>1, <2>1, <2>3, LogExecutionStartOrderly
  <2>5. Sound(LogExecutionStart(host))
    BY <1>1, LogExecutionStartSettles, SettlesSoundly
  <2> QED BY <2>2, <2>4, <2>5, OwnStepInOrder
<1>5. CASE Finalize
  <2>1. /\ left' = left /\ stream' \in Executors /\ toHost' = toHost
        /\ HostBecomes(FinalizeExecution(host))
        /\ stream'.phase = "idle" /\ Later(stream, stream')
    BY <1>1, <1>5 DEF Finalize, Executors, Later, Begun, Ended
  <2>2. Orderly(host, stream, FinalizeExecution(host), stream')
    BY <1>1, <2>1, FinalizeExecutionOrderly
  <2>3. Sound(FinalizeExecution(host))
    BY <1>1, FinalizeExecutionSettles, SettlesSoundly
  <2> QED BY <2>1, <2>2, <2>3, OwnStepInOrder
<1>6. CASE SwitchEditor
  <2>1. PICK s \in Sources \ {host.focus} :
          HostBecomes(SetActiveSource([host EXCEPT !.focus = s], s))
    BY <1>6 DEF SwitchEditor
  <2>2. left'.kinds = left.kinds /\ stream' = stream /\ toHost' = toHost
    BY <1>1, <1>6, SpendKeepsKinds DEF SwitchEditor, Disturbs
  <2> DEFINE g == [host EXCEPT !.focus = s]
             k == SetActiveSource(g, s)
  <2>3. Orderly(host, stream, k, stream)
    BY <1>1, SwitchEditorOrderly
  <2>4. HostBecomes(k)
    BY <2>1
  <2>5. /\ g \in HostState /\ g.sent = host.sent /\ g.version = host.version
        /\ g.out = host.out /\ g.syncVersion = host.syncVersion
    BY <1>1 DEF HostState
  <2> HIDE DEF g
  <2>6. Sound(g)
    BY <1>1, <2>5 DEF Sound
  <2>7. Sound(k)
    BY <2>6, SetActiveSourceRelays DEF Relays
  <2> HIDE DEF k
  <2> QED BY <1>1, <2>2, <2>3, <2>4, <2>7, OwnStepInOrder
<1>7. CASE CancelCommand
  <2>1. /\ left'.kinds = left.kinds /\ stream' = stream /\ toHost' = toHost
        /\ HostBecomes(CancelExecution(host, << >>))
    BY <1>1, <1>7, SpendKeepsKinds DEF CancelCommand, Disturbs
  <2>2. Orderly(host, stream, CancelExecution(host, << >>), stream)
    BY Zenon, <1>1, <1>2, CancelExecutionOrderly
  <2>3. Sound(CancelExecution(host, << >>))
    BY Zenon, <1>1, <1>2, CancelExecutionSettles, SettlesSoundly
  <2> QED BY <1>1, <2>1, <2>2, <2>3, OwnStepInOrder
<1>8. CASE ReloadPage
  <2> DEFINE g == [host EXCEPT !.ready = FALSE, !.html = TRUE]
  <2>1. left'.kinds = left.kinds /\ stream' = stream /\ toHost' = toHost /\ HostBecomes(g)
    BY <1>1, <1>8, SpendKeepsKinds DEF ReloadPage, Disturbs
  <2>2. Orderly(host, stream, g, stream)
    BY Zenon, <1>1, ReloadOrderly
  <2>3. /\ g \in HostState /\ g.sent = host.sent /\ g.version = host.version
        /\ g.out = host.out /\ g.syncVersion = host.syncVersion
    BY Zenon, <1>1 DEF HostState
  <2> HIDE DEF g
  <2>4. Sound(g)
    BY <1>1, <2>3 DEF Sound
  <2> QED BY <1>1, <2>1, <2>2, <2>4, OwnStepInOrder
<1> QED BY <1>3, <1>4, <1>5, <1>6, <1>7, <1>8

LEMMA HostReceivesInOrder ==
  ASSUME IInv, InOrder, HostReceives
  PROVE  InOrder'
<1> DEFINE m == Head(toHost)
           h == Answer(host, m)
<1>1. /\ Steady(host) /\ Sound(host) /\ host.out = << >> /\ stream \in Executors
      /\ toHost \in Seq(ToHost) /\ HostFits(host, stream)
  BY AtRest DEF InOrder
<1>2. /\ toHost # << >> /\ toHost' = Tail(toHost) /\ HostBecomes(h)
      /\ stream' = stream /\ left' = left
  BY DEF HostReceives
<1>3. /\ m \in ToHost /\ m = toHost[1] /\ 1 \in DOMAIN toHost
      /\ \A i \in DOMAIN toHost' : i + 1 \in DOMAIN toHost /\ toHost'[i] = toHost[i + 1]
  BY <1>1, <1>2, TailIs
<1>4. m.type # "closeResult" /\ NothingCloses'
  BY <1>2, <1>3 DEF InOrder, NothingCloses
<1> HIDE DEF m
<1>5. Orderly(host, stream, h, stream) /\ Sound(h)
  <2>1. CASE m \in [type : {"ready", "requestResultSync"}]
    <3>1. CASE m.type = "ready"
      <4>1. h = ViewReady(host)
        BY <3>1 DEF Answer
      <4>2. Relays(host, h)
        BY <1>1, <4>1, ViewReadyRelays
      <4> QED BY <1>1, <4>2, QuietlyOrderly DEF Relays
    <3>2. CASE m.type = "requestResultSync"
      <4>1. h = ResultSyncRequest(host)
        BY <3>2 DEF Answer
      <4>2. Relays(host, h)
        BY <1>1, <4>1, ResultSyncRequestRelays
      <4> QED BY <1>1, <4>2, QuietlyOrderly DEF Relays
    <3> QED BY <2>1, <3>1, <3>2
  <2>2. CASE m \in [type : {"cancelQuery"}, counts : Seq(Nat)]
    <3>1. m.type = "cancelQuery" /\ m.counts \in Seq(Nat)
      BY <2>2
    <3>2. h = CancelExecution(host, m.counts)
      BY <3>1 DEF Answer
    <3> QED BY <1>1, <3>1, <3>2, CancelExecutionOrderly, CancelExecutionSettles, SettlesSoundly
  <2>3. CASE m \in [type : {"closeResult"}, index : Nat]
    BY <1>4, <2>3
  <2> QED BY <1>3, <2>1, <2>2, <2>3 DEF ToHost
<1> HIDE DEF h
<1> QED BY <1>1, <1>2, <1>4, <1>5, HostBecomesInOrder DEF Sound

(* The page sends requests and cancellations only.                         *)
LEMMA HandleAsks ==
  ASSUME NEW v \in ViewState, OnlyAsks(v), NEW m \in ToView
  PROVE  Handle(v, m) \in ViewState /\ OnlyAsks(Handle(v, m))
<1> DEFINE w == Handle(v, m)
<1>1. CASE m \in Hydrates /\ w = Replace(v, m)
  BY <1>1, ReplaceAnswers DEF OnlyAsks
<1>2. CASE Waits(v, w)
  BY <1>2 DEF Waits
<1> QED BY <1>1, <1>2, HandleIs, ShowSourceWaits, AppendRowsWaits, StreamingCompleteWaits,
           CancelWaits, LogRowsWaits

LEMMA ViewBecomesInOrder ==
  ASSUME IInv, InOrder, NEW w \in ViewState, OnlyAsks(w), NEW message \in Seq(ToHost),
         ViewBecomes(w, message), MessagesFit(toView', host, stream),
         ViewFits(w, toView', host, stream), left'.kinds = left.kinds,
         \A i \in DOMAIN message : message[i].type # "closeResult"
  PROVE  InOrder'
<1>1. toHost \in Seq(ToHost) /\ w.out \in Seq(ToHost)
  BY AtRest DEF ViewState
<1>2. /\ toHost' = (toHost \o w.out) \o message /\ view' = [w EXCEPT !.out = << >>]
      /\ host' = host /\ stream' = stream
  BY DEF ViewBecomes
<1>3. \A i \in DOMAIN w.out : w.out[i].type # "closeResult"
  BY DEF OnlyAsks
<1>4. toHost \o w.out \in Seq(ToHost)
      /\ \A i \in DOMAIN (toHost \o w.out) : (toHost \o w.out)[i].type # "closeResult"
  BY <1>1, <1>3, ConcatIs DEF InOrder, NothingCloses
<1> DEFINE q == toHost \o w.out
<1> HIDE DEF q
<1>5. \A i \in DOMAIN (q \o message) : (q \o message)[i].type # "closeResult"
  BY <1>4, ConcatIs DEF q
<1>6. NothingCloses'
  BY <1>2, <1>5 DEF q, InOrder, NothingCloses
<1>7. ViewFits(view', toView', host, stream)
  BY <1>2, QuietViewFits
<1> QED BY <1>2, <1>6, <1>7 DEF InOrder

LEMMA ViewReceivesInOrder ==
  ASSUME IInv, InOrder, ViewReceives
  PROVE  InOrder'
<1> DEFINE w == Handle(view, toView[1])
<1>1. /\ toView # << >> /\ toView' = Tail(toView) /\ left' = left
      /\ ViewBecomes(Handle(view, Head(toView)), << >>)
  BY DEF ViewReceives
<1>2. /\ toView \in Seq(ToView) /\ view \in ViewState /\ view.out = << >>
      /\ host \in HostState
  BY AtRest
<1>3. toView[1] \in ToView /\ ViewBecomes(w, << >>)
  BY <1>1, <1>2, TailIs
<1>4. MessagesFit(toView, host, stream) /\ ViewFits(view, toView, host, stream)
  BY DEF InOrder
<1>5. MessagesFit(toView', host, stream) /\ ViewFits(w, toView', host, stream)
  BY <1>1, <1>2, <1>4, FewerMessagesFit, HandleFits
<1>6. OnlyAsks(view)
  BY <1>2, NothingUnderWay DEF OnlyAsks
<1>7. w \in ViewState /\ OnlyAsks(w)
  BY <1>2, <1>3, <1>6, HandleAsks
<1> HIDE DEF w
<1> QED BY Zenon, <1>1, <1>3, <1>5, <1>7, NothingUnderWay, ViewBecomesInOrder

LEMMA ClickCancelInOrder ==
  ASSUME IInv, InOrder, ClickCancel
  PROVE  InOrder'
<1> DEFINE counts == IF view.completed THEN << >>
                     ELSE [i \in DOMAIN view.results |-> Len(view.results[i].rows)]
           m == [type |-> "cancelQuery", counts |-> counts]
           message == << m >>
<1>1. view \in ViewState /\ view.results \in Seq(ShownResults) /\ left \in Budget
      /\ view.out = << >>
  BY AtRest DEF ViewState
<1>2. counts \in Seq(Nat)
  <2> DEFINE f == [i \in DOMAIN view.results |-> Len(view.results[i].rows)]
  <2>1. << >> \in Seq(Nat) /\ Len(view.results) \in Nat
        /\ DOMAIN view.results = 1 .. Len(view.results)
    BY <1>1
  <2>2. ASSUME NEW i \in DOMAIN view.results PROVE Len(view.results[i].rows) \in Nat
    <3>1. view.results[i] \in ShownResults
      BY <1>1
    <3>2. view.results[i].rows \in Seq(Row)
      BY <3>1 DEF ShownResults
    <3> QED BY <3>2, LenProperties
  <2>3. f \in [1 .. Len(view.results) -> Nat]
    BY <2>1, <2>2
  <2> HIDE DEF f
  <2>4. f \in Seq(Nat)
    BY <2>1, <2>3
  <2> QED BY <2>1, <2>4 DEF f
<1>3. /\ ViewBecomes(Cancel(view), message) /\ toView' = toView
      /\ left'.kinds = left.kinds
  BY <1>1, SpendKeepsKinds DEF ClickCancel, Disturbs
<1> HIDE DEF counts
<1>4. m \in ToHost /\ m.type # "closeResult"
  BY <1>2 DEF ToHost
<1> HIDE DEF m
<1>5. message \in Seq(ToHost) /\ \A i \in DOMAIN message : message[i] = m
  BY <1>4
<1> HIDE DEF message
<1>6. OnlyAsks(view)
  BY <1>1, NothingUnderWay DEF OnlyAsks
<1>7. Cancel(view) \in ViewState /\ OnlyAsks(Cancel(view))
  BY <1>1, <1>6, CancelWaits DEF Waits
<1>8. /\ MessagesFit(toView', host, stream) /\ ViewFits(Cancel(view), toView', host, stream)
  BY <1>1, <1>3, CancelFits DEF InOrder
<1> QED BY <1>3, <1>4, <1>5, <1>7, <1>8, ViewBecomesInOrder

LEMMA PageStepsInOrder ==
  ASSUME IInv, InOrder, PageLoads \/ PageReady \/ LoseEarly
  PROVE  InOrder'
<1>1. host' = host /\ stream' = stream /\ view' = view /\ left' = left
  BY DEF PageLoads, PageReady, LoseEarly
<1>2. toHost \in Seq(ToHost) /\ toView \in Seq(ToView)
  BY AtRest
<1>3. NothingCloses'
  <2>1. CASE PageReady
    <3> DEFINE m == [type |-> "ready"]
    <3>1. m \in ToHost /\ m.type # "closeResult"
      BY DEF ToHost
    <3>2. toHost' = Append(toHost, m)
      BY <2>1 DEF PageReady
    <3> HIDE DEF m
    <3>3. \A i \in DOMAIN toHost' : toHost'[i] = m \/ (i \in DOMAIN toHost /\ toHost'[i] = toHost[i])
      BY <1>2, <3>1, <3>2
    <3> QED BY <1>1, <3>1, <3>3 DEF InOrder, NothingCloses
  <2>2. CASE PageLoads \/ LoseEarly
    BY <2>2 DEF InOrder, NothingCloses, PageLoads, LoseEarly
  <2> QED BY <2>1, <2>2
<1>4. MessagesFit(toView', host, stream) /\ ViewFits(view, toView', host, stream)
  <2>1. CASE PageLoads \/ PageReady
    BY <2>1 DEF InOrder, PageLoads, PageReady
  <2>2. CASE LoseEarly
    BY <1>2, <2>2, FewerMessagesFit, FreshViewFits DEF InOrder, LoseEarly, IInv, StartsAnew
  <2> QED BY <2>1, <2>2
<1> QED BY <1>1, <1>3, <1>4 DEF InOrder

LEMMA FaultInOrder ==
  ASSUME IInv, InOrder, Fault
  PROVE  InOrder'
<1>1. /\ toView \in Seq(ToView) /\ 1 \in DOMAIN toView /\ IsChunk(toView[1])
      /\ left'.kinds = left.kinds /\ UNCHANGED << host, stream, view, toHost >>
  BY AtRest, SpendKeepsKinds DEF Fault, IsRows, IsChunk, Disturbs
<1>2. toView # << >> /\ ~IsBarrier(toView[1])
  BY <1>1 DEF IsChunk, IsBarrier
<1>3. MessagesFit(toView, host, stream) /\ ViewFits(view, toView, host, stream)
  BY DEF InOrder
<1>4. MessagesFit(toView', host, stream) /\ ViewFits(view, toView', host, stream)
  <2>1. CASE toView' = Tail(toView)
    BY <1>1, <1>2, <1>3, <2>1, FewerMessagesFit, ReadFits
  <2>2. CASE toView' = << toView[1] >> \o toView
    <3>1. toView' \in Seq(ToView) /\ \E f : Reordered(toView, toView', f)
      BY Zenon, <1>1, <1>2, <2>2, RepeatedIs
    <3> QED BY <1>1, <1>3, <3>1, ReorderedMessagesFit, ReorderedViewFits
  <2>3. CASE IsRows(2) /\ toView' = [toView EXCEPT ![1] = toView[2], ![2] = toView[1]]
    <3>1. 2 \in DOMAIN toView /\ IsChunk(toView[2])
      BY <2>3 DEF IsRows, IsChunk
    <3>2. toView' \in Seq(ToView) /\ \E f : Reordered(toView, toView', f)
      BY Zenon, <1>1, <2>3, <3>1, OvertakenIs
    <3> QED BY <1>1, <1>3, <3>2, ReorderedMessagesFit, ReorderedViewFits
  <2> QED BY <2>1, <2>2, <2>3 DEF Fault
<1> QED BY <1>1, <1>4 DEF InOrder, NothingCloses

LEMMA StepInOrder ==
  ASSUME IInv, InOrder, [Next]_vars
  PROVE  InOrder'
<1>1. CASE UNCHANGED vars
  BY <1>1 DEF vars, InOrder, NothingCloses
<1>2. CASE Start \/ StatementStarts \/ Finalize \/ SwitchEditor \/ CancelCommand \/ ReloadPage
  BY <1>2, HostStepsInOrder
<1>3. CASE ChunkArrives
  BY <1>3, ChunkArrivesInOrder
<1>4. CASE HostReceives
  BY <1>4, HostReceivesInOrder
<1>5. CASE PageLoads \/ PageReady \/ LoseEarly
  BY <1>5, PageStepsInOrder
<1>6. CASE ViewReceives
  BY <1>6, ViewReceivesInOrder
<1>7. CASE ClickCancel
  BY <1>7, ClickCancelInOrder
<1>8. CASE ClickClose
  BY <1>8 DEF ClickClose, Disturbs, InOrder, NothingCloses
<1>9. CASE Fault
  BY <1>9, FaultInOrder
<1> QED BY <1>1, <1>2, <1>3, <1>4, <1>5, <1>6, <1>7, <1>8, <1>9 DEF Next

LEMMA IdleHostFits ==
  ASSUME NEW h, h.results = << >>, h.tracked = None, stream.phase = "idle"
  PROVE  HostFits(h, stream)
<1>1. DOMAIN h.results = {}
  OBVIOUS
<1>2. ~(h.tracked > 0)
  BY DEF None
<1> QED BY <1>1, <1>2 DEF HostFits, ResultsFit, AllPure, ExecutorFits

LEMMA InitInOrder ==
  ASSUME Init, "close" \notin left.kinds
  PROVE  InOrder
<1>1. PICK s \in Sources : IF left.opened THEN Opened(s) ELSE Opening(s)
  BY DEF Init
<1>2. stream.phase = "idle" /\ toView = << >> /\ toHost = << >>
  BY DEF Init
<1>3. NothingCloses /\ MessagesFit(toView, host, stream)
  BY <1>2, NothingUnderWay DEF NothingCloses, MessagesFit
<1> DEFINE h == Closed(s)
           k == ViewReady(h)
<1>4. Sound(h) /\ h.out = << >> /\ h.results = << >> /\ h.tracked = None
  BY ClosedType DEF Steady, Apt, Closed
<1> HIDE DEF h
<1>5. CASE ~left.opened
  <2>1. host = h /\ view = FreshView
    BY <1>1, <1>5 DEF Opening, h
  <2>2. HostFits(host, stream)
    BY <1>2, <1>4, <2>1, IdleHostFits
  <2> QED BY <1>3, <2>1, <2>2, FreshViewFits DEF InOrder
<1>6. CASE left.opened
  <2>1. host = [k EXCEPT !.out = << >>] /\ view = Replace(FreshView, k.out[1])
    BY <1>1, <1>6 DEF Opened, h
  <2>2. k.out \in Seq(ToView) /\ k.out # << >> /\ k.out[1] \in Hydrates
    BY Zenon, OpenedSettles DEF h
  <2>3. Relays(h, k)
    BY <1>4, ViewReadyRelays
  <2> HIDE DEF k
  <2>4. k \in HostState /\ k.results = << >> /\ k.tracked = None
    BY <1>4, <2>3 DEF Relays, SameRun, Sound
  <2>5. host.results = << >> /\ host.tracked = None
    BY <2>1, <2>4 DEF HostState
  <2>6. HostFits(host, stream)
    BY <1>2, <2>5, IdleHostFits
  <2>7. AllPure(h.results)
    BY <1>4, NothingUnderWay DEF AllPure
  <2>8. CleanMsg(k.out[1])
    <3>1. Clean(k.out)
      BY <1>4, <2>3, <2>7, CleanAtFirst DEF Relays
    <3>2. 1 \in DOMAIN k.out
      BY <2>2
    <3> QED BY <3>1, <3>2 DEF Clean
  <2>9. AllPure(k.out[1].results)
    BY <2>2, <2>8 DEF CleanMsg, Hydrates
  <2>10. ViewFits(view, toView, host, stream)
    BY <2>1, <2>2, <2>9, FreshViewType, FreshViewFits, ReplaceFits
  <2> QED BY <1>3, <2>6, <2>10 DEF InOrder
<1> QED BY <1>5, <1>6
----------------------------------------------------------------------------
(* What the invariant says of the rows shown and the rows stored.          *)

LEMMA PrefixOf ==
  ASSUME NEW a \in Seq(Row), NEW b \in Seq(Row), Len(a) <= Len(b),
         \A k \in DOMAIN a : a[k] = b[k]
  PROVE  IsPrefix(a, b)
<1>1. DOMAIN a = 1 .. Len(a) /\ Len(a) \in Nat /\ Len(b) \in Nat
  OBVIOUS
<1> DEFINE s == SubSeq(a, 1, Len(a))
           t == SubSeq(b, 1, Len(a))
<1>2. /\ s \in Seq(Row) /\ Len(s) = Len(a) /\ \A k \in 1 .. Len(a) : s[k] = a[k]
      /\ t \in Seq(Row) /\ Len(t) = Len(a) /\ \A k \in 1 .. Len(a) : t[k] = b[k]
  BY <1>1
<1> HIDE DEF s, t
<1>3. s = t
  BY <1>1, <1>2
<1> QED BY <1>3 DEF IsPrefix, s, t

LEMMA PureAgree ==
  ASSUME NEW r, NEW s, r.rows \in Seq(Row), s.rows \in Seq(Row), Pure(r), Pure(s), r.id = s.id
  PROVE  /\ Agree(r.rows, s.rows)
         /\ Len(s.rows) <= Len(r.rows) => IsPrefix(s.rows, r.rows)
<1> DEFINE a == r.rows
           b == s.rows
<1>1. /\ a \in Seq(Row) /\ b \in Seq(Row)
      /\ \A k \in DOMAIN a : a[k] = << r.id, k >>
      /\ \A k \in DOMAIN b : b[k] = << r.id, k >>
  BY DEF Pure
<1> HIDE DEF a, b
<1>2. /\ DOMAIN a = 1 .. Len(a) /\ DOMAIN b = 1 .. Len(b) /\ Len(a) \in Nat /\ Len(b) \in Nat
  BY <1>1
<1>3. Len(a) <= Len(b) => IsPrefix(a, b)
  <2>1. ASSUME Len(a) <= Len(b), NEW k \in DOMAIN a
        PROVE  a[k] = b[k]
    <3>1. k \in DOMAIN b
      BY <1>2, <2>1
    <3> QED BY Zenon, <1>1, <3>1
  <2> QED BY <1>1, <2>1, PrefixOf
<1>4. Len(b) <= Len(a) => IsPrefix(b, a)
  <2>1. ASSUME Len(b) <= Len(a), NEW k \in DOMAIN b
        PROVE  b[k] = a[k]
    <3>1. k \in DOMAIN a
      BY <1>2, <2>1
    <3> QED BY <1>1, <3>1
  <2> QED BY <1>1, <2>1, PrefixOf
<1>5. Agree(a, b)
  BY <1>2, <1>3, <1>4 DEF Agree
<1> QED BY <1>4, <1>5 DEF a, b

LEMMA RowsAreTyped ==
  ASSUME IInv, InOrder
  PROVE  /\ \A i \in DOMAIN view.results :
              /\ view.results[i].rows \in Seq(Row) /\ view.results[i].id \in Nat
              /\ ShownFits(view.results[i], toView, host, stream)
         /\ \A j \in DOMAIN host.results :
              host.results[j].rows \in Seq(Row) /\ Pure(host.results[j])
<1>1. view.results \in Seq(ShownResults) /\ host.results \in Seq(HostResults)
  BY AtRest DEF ViewState, HostState
<1>2. AllShownFit(view.results, toView, host, stream) /\ AllPure(host.results)
  BY DEF InOrder, ViewFits, HostFits, ResultsFit
<1>3. \A i \in DOMAIN view.results : view.results[i] \in ShownResults
  BY <1>1
<1>4. \A j \in DOMAIN host.results : host.results[j] \in HostResults
  BY <1>1
<1> QED BY <1>2, <1>3, <1>4 DEF AllShownFit, AllPure, ShownResults, HostResults

LEMMA ImpliesRowsInOrder ==
  ASSUME IInv, InOrder
  PROVE  RowsInOrder
<1> SUFFICES ASSUME NEW i \in DOMAIN view.results, NEW j \in DOMAIN host.results,
                    view.results[i].id = host.results[j].id
             PROVE  Agree(view.results[i].rows, host.results[j].rows)
  BY DEF RowsInOrder
<1>1. /\ view.results[i].rows \in Seq(Row) /\ host.results[j].rows \in Seq(Row)
      /\ Pure(view.results[i]) /\ Pure(host.results[j])
  BY RowsAreTyped DEF ShownFits
<1> QED BY <1>1, PureAgree

LEMMA ImpliesCompleteMeansAll ==
  ASSUME IInv, InOrder
  PROVE  CompleteMeansAll
<1> DEFINE Completed(i, j) == /\ view.results[i].complete /\ ~view.results[i].cancelled
                              /\ view.results[i].id = host.results[j].id
<1> SUFFICES ASSUME NEW i \in DOMAIN view.results, NEW j \in DOMAIN host.results,
                    Completed(i, j)
             PROVE  /\ host.tracked # host.results[j].id
                    /\ IsPrefix(host.results[j].rows, view.results[i].rows)
  BY DEF CompleteMeansAll
<1> DEFINE r == view.results[i]
           s == host.results[j]
<1>1. /\ r.rows \in Seq(Row) /\ s.rows \in Seq(Row) /\ r.id \in Nat /\ r.id = s.id
      /\ Pure(r) /\ Pure(s)
      /\ Over(r.id, toView, stream) /\ AtMost(host.results, r.id, Len(r.rows))
  BY RowsAreTyped DEF ShownFits
<1>2. host.tracked # r.id
  <2>1. Ended(r.id, stream)
    BY <1>1 DEF Over
  <2>2. r.id > 0 /\ (stream.phase = "streaming" => r.id < stream.id)
    BY <1>1, <2>1, AtRest DEF Ended, Executors
  <2>3. host.tracked > 0 => stream.phase = "streaming" /\ host.tracked = stream.id
    BY DEF InOrder, HostFits, ExecutorFits, TrackedFits
  <2> HIDE DEF r
  <2> QED BY <1>1, <2>2, <2>3, AtRest DEF Executors
<1>3. Len(s.rows) <= Len(r.rows)
  BY <1>1 DEF AtMost
<1> HIDE DEF r, s
<1>4. IsPrefix(s.rows, r.rows)
  BY <1>1, <1>3, PureAgree
<1> QED BY <1>1, <1>2, <1>4 DEF r, s

LEMMA ImpliesOneResultPerStatement ==
  ASSUME IInv, InOrder
  PROVE  OneResultPerStatement
<1> SUFFICES ASSUME NEW j \in DOMAIN host.results, NEW k \in DOMAIN host.results[j].rows
             PROVE  host.results[j].rows[k][1] = host.results[j].id
  BY DEF OneResultPerStatement
<1>1. host.results[j].rows[k] = << host.results[j].id, k >>
  BY RowsAreTyped DEF Pure
<1> QED BY <1>1

----------------------------------------------------------------------------
(* The theorems for a user who closes no tab.  With a closed tab the rows  *)
(* of a statement may end in another's result, as the code stands.         *)

NoTabCloses == \A b \in Budgets : "close" \notin b.kinds

(* Every row is where its statement and number say: in the host, in the    *)
(* messages under way, on the page and in what it keeps of other sources.  *)
THEOREM OrderInvariance ==
  ASSUME NoTabCloses
  PROVE  Spec => [](IInv /\ InOrder)
<1>1. Init => IInv /\ InOrder
  BY Zenon, InitSatisfies, InitInOrder DEF Init, NoTabCloses
<1>2. IInv /\ InOrder /\ [Next]_vars => (IInv /\ InOrder)'
  BY StepKeeps, StepInOrder
<1> QED BY <1>1, <1>2, PTL DEF Spec

(* The page shows the rows the host has, from the first one on, without a  *)
(* gap or a repetition, whatever is lost, repeated, overtaken or reloaded. *)
THEOREM RowsStayInOrder ==
  ASSUME NoTabCloses
  PROVE  Spec => []RowsInOrder
<1>1. IInv /\ InOrder => RowsInOrder
  BY ImpliesRowsInOrder
<1> QED BY <1>1, OrderInvariance, PTL

(* A result the page marks as complete has ended, and shows all its rows.  *)
THEOREM CompletionIsTrue ==
  ASSUME NoTabCloses
  PROVE  Spec => []CompleteMeansAll
<1>1. IInv /\ InOrder => CompleteMeansAll
  BY ImpliesCompleteMeansAll
<1> QED BY <1>1, OrderInvariance, PTL

(* The host adds rows to the result of their own statement.                *)
THEOREM RowsStayWithTheirStatement ==
  ASSUME NoTabCloses
  PROVE  Spec => []OneResultPerStatement
<1>1. IInv /\ InOrder => OneResultPerStatement
  BY ImpliesOneResultPerStatement
<1> QED BY <1>1, OrderInvariance, PTL
================================================================================
