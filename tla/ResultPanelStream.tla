--------------------------- MODULE ResultPanelStream ---------------------------
(***************************************************************************)
(* How rows reach the result panel: the extension host (resultPanelView.ts *)
(* over resultStateManager.ts) and the page in the webview (media/         *)
(* resultPanel/messages.ts) exchange messages over two FIFO channels.      *)
(* The host either streams a chunk (appendRows, streamingComplete), sends  *)
(* a cheap update (setActiveSource) or replaces everything (hydrate); the  *)
(* page asks for a hydrate when a message does not fit what it shows.      *)
(*                                                                         *)
(* Two sources: "S" runs statements, "O" is another editor without         *)
(* results.  A handler runs to its end before the next one starts, so each *)
(* is one action, built from functions on the record of its side; the      *)
(* messages it posts collect in the field `out`.                           *)
(*                                                                         *)
(* Left out: disk-backed, workspace and capped results (small results use  *)
(* none of them), the contents of Logs, the row count messages, pins.      *)
(***************************************************************************)
EXTENDS StreamingSequence, SequencesExt

CONSTANT
  Budgets           \* how much may happen: one of them is chosen at the start

(* Executions of S, statements over all of them, rows of one statement,    *)
(* messages to the page under way when the executor goes on, how often the *)
(* user or the channel interferes and how, and whether the panel is open   *)
(* at first.                                                               *)
Kinds == {"switch", "reload", "command", "cancel", "close", "fault"}

Budget == [executions : Nat, statements : Nat, rows : Nat, backlog : Nat,
           disturbances : Nat, kinds : SUBSET Kinds, opened : BOOLEAN]

ASSUME BudgetsAssumption == Budgets \subseteq Budget

VARIABLES
  host,             \* ResultPanelView and ResultStateManager
  stream,           \* the executor that feeds the host
  page,             \* "loading", "listening" (not yet ready) or "loaded"
  view,             \* the page's state, lost when it loads again
  toView, toHost,   \* the message channels
  left,             \* what is left of the budget
  faulty            \* rows were lost, repeated or overtaken

vars == << host, stream, page, view, toView, toHost, left, faulty >>

Sources == {"S", "O"}
NoSource == "none"
None == -1          \* an absent number: a map without an entry for the source

----------------------------------------------------------------------------
(* The host.                                                               *)

Post(h, m) == [h EXCEPT !.out = Append(@, m)]

ActiveSourceMsg(h) ==
  [type |-> "setActiveSource", source |-> h.active,
   executing |-> h.executing, completed |-> h.completed]

HydrateMsg(h) ==
  [type |-> "hydrate", source |-> h.active,
   results |-> IF h.active = "S" THEN h.results ELSE << >>,
   executing |-> h.executing, completed |-> h.completed,
   version |-> IF h.active = "S" THEN h.version ELSE 0, sync |-> h.syncVersion]

Bump(h) == [h EXCEPT !.version = @ + 1, !.globalDirty = @ \/ h.active = "S"]

(* _updateWebview, after the active source followed the editor: nothing,   *)
(* the cheap update, or a hydrate.  The source O never has a data version, *)
(* so it always counts as changed.                                         *)
SentVersion(h) == IF h.active = "S" /\ h.sent # 0 THEN h.sent ELSE None
Changed(h) == h.active = "O" \/ h.version # SentVersion(h)
Stable(h) == h.active = "S" /\ ~h.stale /\ h.lastSentActive = "S"
AlreadyStreamed(h) == Stable(h) /\ h.completed /\ Changed(h)
StillStreaming(h) == Stable(h) /\ h.executing /\ h.ready /\ SentVersion(h) >= 0

Lightweight(h) == IF h.ready THEN Post(h, ActiveSourceMsg(h)) ELSE h

MarkSent(h) ==
  [h EXCEPT !.sent = IF h.active = "S" THEN h.version ELSE @,
            !.globalDirty = FALSE]

Hydrate(h) ==
  LET logged == [h EXCEPT !.log = @ \/ h.active = "S"] IN
  IF ~h.ready THEN [logged EXCEPT !.html = TRUE]
  ELSE Post([MarkSent(logged) EXCEPT
               !.stale = @ /\ h.active # "S",
               !.finalizeVersion = IF h.active = "S" /\ h.completed THEN h.version ELSE @,
               !.lastSentActive = h.active],
            HydrateMsg(h))

UpdateView(h) ==
  IF AlreadyStreamed(h) THEN
    IF h.version = h.finalizeVersion THEN h
    ELSE Lightweight([MarkSent(h) EXCEPT !.finalizeVersion = h.version])
  ELSE IF StillStreaming(h) THEN
    IF h.globalDirty \/ Changed(h) THEN Lightweight(MarkSent(h)) ELSE h
  ELSE IF ~Stable(h) \/ h.globalDirty \/ Changed(h) THEN Hydrate(h)
  ELSE h

(* setActiveSource: the state manager's event already updates the webview, *)
(* so a hydrate is posted before the cheap update.                         *)
Resume(h, source) ==
  IF source = "S" /\ h.pendingSync
  THEN [h EXCEPT !.pendingSync = FALSE, !.syncVersion = @ + 1, !.stale = TRUE]
  ELSE h

SetActiveSource(h, source) ==
  IF h.active # source THEN
    LET shown == Resume(UpdateView([h EXCEPT !.active = source]), source) IN
    UpdateView(Post(shown, ActiveSourceMsg(shown)))
  ELSE IF source = "S" /\ h.pendingSync THEN UpdateView(Resume(h, source))
  ELSE h

(* _syncActiveSourceWithFocusedEditor, and _updateWebview in full.         *)
FollowEditor(h) == SetActiveSource(h, h.focus)
UpdateWebview(h) == UpdateView(FollowEditor(h))

(* startExecution: a queued run keeps the results there are, any other     *)
(* drops them; only a cleared or new source gets a hydrate.                *)
StartExecution(h, keep) ==
  LET cleared == ~keep /\ h.results # << >>
      started == UpdateWebview(Bump([h EXCEPT
                   !.executing = TRUE, !.cancelled = FALSE, !.completed = FALSE,
                   !.results = IF keep THEN @ ELSE << >>,
                   !.log = TRUE, !.active = "S"])) IN
  UpdateWebview([started EXCEPT !.tracked = None, !.seq = None,
                                !.stale = @ \/ cleared \/ ~h.log])

(* logExecutionStart: completion belongs to a statement, so it is cleared  *)
(* before the next one.                                                    *)
LogExecutionStart(h) ==
  LET g == FollowEditor(h)
      forgot == [g EXCEPT !.completed = FALSE, !.tracked = None, !.seq = None]
      told == IF g.completed /\ g.active = "S"
              THEN Post(forgot, ActiveSourceMsg(forgot)) ELSE forgot
      logged == Bump(told) IN
  IF g.active = "S" THEN Post(logged, [type |-> "log"]) ELSE logged

(* The state manager's appendStreamingChunk.  `c` is the chunk: the rows   *)
(* c.from + 1 .. c.total of statement c.id.  A first chunk creates the     *)
(* result; any other one goes to the last result there is.                 *)
RowsOf(c) == [i \in 1 .. c.total - c.from |-> << c.id, c.from + i >>]
Streams(h, c) ==
  /\ ~h.cancelled /\ h.executing
  /\ IF c.first THEN c.columns ELSE c.total > c.from /\ h.results # << >>

StoreChunk(h, c) ==
  IF Streams(h, c) /\ c.first
  THEN Bump([h EXCEPT !.results = Append(@, [id |-> c.id, rows |-> RowsOf(c),
                                             cancelled |-> FALSE])])
  ELSE IF Streams(h, c)
  THEN [h EXCEPT !.results[Len(h.results)].rows = @ \o RowsOf(c)]
  ELSE IF ~h.cancelled /\ c.last THEN Bump(h)
  ELSE h

AppendRowsMsg(h, c) ==
  [type |-> "appendRows", id |-> Last(h.results).id, index |-> Len(h.results),
   seq |-> IF h.seq = None THEN 0 ELSE h.seq, from |-> c.from, total |-> c.total,
   rows |-> RowsOf(c), first |-> c.first]

(* appendStreamingChunk of the view, in its order: a first chunk resets    *)
(* completion and sequence; a stored chunk is sent if S is active; the     *)
(* last one completes the result, if it is still there.                    *)
BeginResult(h, c) ==
  LET reset == [h EXCEPT !.completed = FALSE, !.tracked = 0, !.seq = 0] IN
  IF ~c.first THEN h
  ELSE IF h.completed /\ h.active = "S" THEN Post(reset, ActiveSourceMsg(reset))
  ELSE reset

SendChunk(h, c) ==
  LET told == IF c.first THEN Post(h, ActiveSourceMsg(h)) ELSE h
      m == AppendRowsMsg(h, c) IN
  [Post(told, m) EXCEPT !.seq = m.seq + 1]

IndexOf(h, id) == {i \in DOMAIN h.results : h.results[i].id = id}

EndResult(h, c) ==
  LET places == IndexOf(h, h.tracked)
      done == [h EXCEPT !.completed = @ \/ places # {}]
      told == IF places # {} /\ h.active = "S"
              THEN Post(done, [type |-> "streamingComplete", id |-> h.tracked,
                               index |-> CHOOSE i \in places : TRUE, total |-> c.total,
                               last |-> IF h.seq > 0 THEN h.seq - 1 ELSE 0])
              ELSE done IN
  [told EXCEPT !.tracked = None, !.seq = None]

AppendStreamingChunk(h, c) ==
  LET begun == BeginResult(FollowEditor(h), c)
      stored == StoreChunk(begun, c)
      tracked == IF c.first /\ Streams(begun, c)
                 THEN [stored EXCEPT !.tracked = c.id] ELSE stored
      sent == IF Streams(begun, c) /\ begun.active = "S"
              THEN SendChunk(tracked, c) ELSE tracked IN
  IF c.last THEN EndResult(sent, c) ELSE sent

(* cancelExecution: rows beyond the counts the page reported are dropped.  *)
CutTo(rows, n) == SubSeq(rows, 1, IF n < Len(rows) THEN n ELSE Len(rows))

CancelExecution(h, counts) ==
  LET cut == [i \in DOMAIN h.results |->
                [h.results[i] EXCEPT !.cancelled = TRUE,
                   !.rows = IF i \in DOMAIN counts THEN CutTo(@, counts[i]) ELSE @]]
      stopped == UpdateWebview(Bump([h EXCEPT !.executing = FALSE, !.cancelled = TRUE,
                                              !.results = cut])) IN
  Post(UpdateWebview([stopped EXCEPT !.seq = None]), [type |-> "cancelExecution"])

FinalizeExecution(h) ==
  UpdateWebview(UpdateWebview(Bump([h EXCEPT !.tracked = None, !.seq = None,
                                             !.executing = FALSE])))

ForceHydrate(h) == IF h.ready THEN UpdateWebview([h EXCEPT !.stale = @ \/ h.log]) ELSE h

(* closeResult: by its index, whatever is there now.                       *)
CloseResult(h, i) ==
  ForceHydrate(
    IF i \notin DOMAIN h.results THEN h
    ELSE UpdateWebview([Bump(h) EXCEPT !.results = RemoveAt(@, i), !.stale = TRUE,
                                       !.globalDirty = TRUE]))

(* ViewReady without marking the sources that have content as stale.       *)
ViewReadyAsBefore(h) == UpdateWebview([h EXCEPT !.ready = TRUE])   \* mutant
ViewReady(h) == ForceHydrate([h EXCEPT !.ready = TRUE])

(* ResultSyncRequest that forgets a request while S is not shown.          *)
ResultSyncIfShown(h) ==                             \* mutant
  IF h.active # "S" THEN h
  ELSE UpdateWebview([h EXCEPT !.syncVersion = @ + 1, !.stale = TRUE])

ResultSyncRequest(h) ==
  IF h.active # "S" THEN [h EXCEPT !.pendingSync = TRUE]
  ELSE UpdateWebview([h EXCEPT !.pendingSync = FALSE, !.syncVersion = @ + 1,
                               !.stale = TRUE])

----------------------------------------------------------------------------
(* The page.  `log` says that it shows the Logs tab; `cache` is the        *)
(* content it showed last for each source.                                 *)

NoContent == [log |-> FALSE, results |-> << >>]
NoKey == [source |-> NoSource]

FreshView ==
  [active |-> NoSource, log |-> FALSE, results |-> << >>,
   cache |-> [s \in Sources |-> NoContent], cursor |-> NoCursor, pending |-> FALSE,
   executing |-> FALSE, completed |-> FALSE, key |-> NoKey, out |-> << >>]

Request(v) ==
  IF v.pending THEN v
  ELSE [v EXCEPT !.pending = TRUE, !.out = Append(@, [type |-> "requestResultSync"])]

Persist(v) ==
  IF v.active = NoSource \/ ~v.log THEN v
  ELSE [v EXCEPT !.cache[v.active] = [log |-> v.log, results |-> v.results]]

Unmark(results) == [i \in DOMAIN results |-> [results[i] EXCEPT !.complete = FALSE]]

(* handleSetActiveSource: switch to the cached content of a source, unless *)
(* it is executing: then the host will send its rows.                      *)
ShowSource(v, m) ==
  LET switched == IF v.active = m.source THEN v
                  ELSE [v EXCEPT !.cursor = NoCursor, !.pending = FALSE]
      saved == Persist(switched)
      executing == m.source = "S" /\ m.executing
      told == [saved EXCEPT !.active = m.source, !.executing = m.executing,
                            !.completed = m.completed]
      cached == saved.cache[m.source] IN
  IF executing /\ ~m.completed THEN [told EXCEPT !.results = Unmark(@)]
  ELSE IF executing THEN told
  ELSE [told EXCEPT !.log = cached.log, !.results = cached.results]

(* buildHydrateDedupKey: two payloads are taken to be the same when their  *)
(* lengths are.                                                            *)
HydrateKey(m) ==
  [source |-> m.source, bytes |-> [i \in DOMAIN m.results |-> Len(m.results[i].rows)],
   executing |-> m.executing, completed |-> m.completed,
   version |-> m.version, sync |-> m.sync]

Shown(r) == [id |-> r.id, rows |-> r.rows, total |-> Len(r.rows),
             complete |-> FALSE, cancelled |-> r.cancelled]

Replace(v, m) ==
  LET key == HydrateKey(m)
      results == [i \in DOMAIN m.results |-> Shown(m.results[i])]
      own == m.source = "S" IN
  IF key = v.key THEN v
  ELSE Persist([Persist(v) EXCEPT
         !.key = key, !.active = m.source, !.log = TRUE, !.results = results,
         !.cursor = IF own THEN NoCursor ELSE @, !.pending = @ /\ ~own,
         !.executing = m.executing, !.completed = m.completed])

(* handleCancelExecution.                                                  *)
Cancel(v) ==
  LET stopped == [v EXCEPT !.executing = FALSE, !.completed = FALSE,
                           !.cursor = NoCursor] IN
  IF v.active # "S" THEN stopped
  ELSE [stopped EXCEPT !.results = [i \in DOMAIN @ |->
          [@[i] EXCEPT !.cancelled = TRUE, !.complete = FALSE]]]

Elsewhere(v) == v.active \notin {NoSource, "S"}

(* handleAppendRows: a chunk that does not continue what is shown is       *)
(* ignored, and a hydrate requested if rows are missing.                   *)
Base(v, i) == IF i \in DOMAIN v.results THEN << v.results[i].id, v.results[i].total >>
              ELSE << None, None >>

Shell(id) == [id |-> id, rows |-> << >>, total |-> 0,
              complete |-> FALSE, cancelled |-> FALSE]

PlaceShell(v, m) ==
  LET unmarked == Unmark(v.results) IN
  [v EXCEPT !.completed = FALSE,
            !.results = IF m.index > Len(@) THEN Append(unmarked, Shell(m.id))
                        ELSE [unmarked EXCEPT ![m.index] = Shell(m.id)]]

AddRows(v, m) ==
  LET w == IF m.first THEN PlaceShell(v, m) ELSE v
      i == IF m.first /\ m.index > Len(v.results) THEN Len(w.results) ELSE m.index IN
  IF i \notin DOMAIN w.results THEN Request(w)
  ELSE IF w.results[i].cancelled THEN w
  ELSE Persist([w EXCEPT !.results[i].rows = @ \o m.rows, !.results[i].total = m.total])

AppendRows(v, m) ==
  LET d == Evaluate(v.cursor, m, Base(v, m.index))
      judged == [v EXCEPT !.cursor = d.cursor] IN
  IF Elsewhere(v) THEN v
  ELSE IF ~v.log THEN Request(v)
  ELSE IF d.kind = "desync" THEN Request(judged)
  ELSE IF d.kind = "apply" THEN AddRows(judged, m)
  ELSE judged

(* handleStreamingComplete.                                                *)
StreamingComplete(v, m) ==
  LET d == Complete(v.cursor, m.id, m.last)
      judged == [v EXCEPT !.cursor = d.cursor] IN
  IF Elsewhere(v) THEN v
  ELSE IF m.index \notin DOMAIN v.results \/ v.results[m.index].id # m.id THEN Request(v)
  ELSE IF d.kind = "desync" THEN Request(judged)
  ELSE IF d.kind = "apply"
  THEN Persist([judged EXCEPT !.completed = TRUE, !.results[m.index].complete = TRUE,
                              !.results[m.index].total = m.total])
  ELSE judged

LogRows(v) == IF Elsewhere(v) \/ v.log THEN v ELSE Request(v)

Handle(v, m) ==
  CASE m.type = "hydrate" -> Replace(v, m)
    [] m.type = "setActiveSource" -> ShowSource(v, m)
    [] m.type = "appendRows" -> AppendRows(v, m)
    [] m.type = "streamingComplete" -> StreamingComplete(v, m)
    [] m.type = "cancelExecution" -> Cancel(v)
    [] m.type = "log" -> LogRows(v)

----------------------------------------------------------------------------
(* The steps.                                                              *)

(* The panel is opened by a query, or was opened before it.                *)
Closed(s) ==
  [active |-> s, focus |-> s, ready |-> FALSE, executing |-> FALSE, cancelled |-> FALSE,
   completed |-> FALSE, results |-> << >>, log |-> FALSE, version |-> 0, sent |-> 0,
   stale |-> FALSE, globalDirty |-> FALSE, lastSentActive |-> NoSource,
   finalizeVersion |-> None, seq |-> None, tracked |-> None, pendingSync |-> FALSE,
   syncVersion |-> 0, html |-> FALSE, out |-> << >>]

Opening(s) == host = Closed(s) /\ page = "loading" /\ view = FreshView

Opened(s) ==
  LET opened == ViewReady(Closed(s)) IN
  /\ host = [opened EXCEPT !.out = << >>]
  /\ page = "loaded" /\ view = Replace(FreshView, opened.out[1])

Init ==
  /\ left \in Budgets /\ faulty = FALSE
  /\ \E s \in Sources : IF left.opened THEN Opened(s) ELSE Opening(s)
  /\ stream = [phase |-> "idle", id |-> 0, rows |-> 0]
  /\ toView = << >> /\ toHost = << >>

Spend(kind) == left[kind] > 0 /\ left' = [left EXCEPT ![kind] = @ - 1]
Disturbs(kind) == kind \in left.kinds /\ Spend("disturbances")
Unhurried == Len(toView) <= left.backlog

(* A handler of the host leaves the host in h: its messages are posted.    *)
(* If it set the page's HTML a new page starts, which gets none of the     *)
(* messages that were under way to the one before.                         *)
HostBecomes(h) ==
  /\ host' = [h EXCEPT !.out = << >>, !.html = FALSE]
  /\ toView' = IF h.html THEN h.out ELSE toView \o h.out
  /\ page' = IF h.html THEN "loading" ELSE page
  /\ view' = IF h.html THEN FreshView ELSE view
  /\ UNCHANGED faulty

ViewBecomes(v, message) ==
  /\ view' = [v EXCEPT !.out = << >>]
  /\ toHost' = toHost \o v.out \o message
  /\ UNCHANGED << host, stream, page, faulty >>

Start ==
  /\ stream.phase = "idle"
  /\ Unhurried
  /\ Spend("executions")
  /\ \E keep \in BOOLEAN : HostBecomes(StartExecution(host, keep))
  /\ stream' = [stream EXCEPT !.phase = "between"]
  /\ UNCHANGED toHost

StatementStarts ==
  /\ stream.phase # "idle" /\ ~host.cancelled
  /\ Spend("statements") /\ Unhurried
  /\ HostBecomes(LogExecutionStart(host))
  /\ stream' = [phase |-> "started", id |-> stream.id + 1, rows |-> 0]
  /\ UNCHANGED toHost

(* A chunk of the statement: the first may be empty, the last may be, and  *)
(* a statement without columns has one, empty, chunk.                      *)
ChunkArrives ==
  /\ stream.phase \in {"started", "streaming"} /\ Unhurried
  /\ \E total \in stream.rows .. left.rows, last \in BOOLEAN, columns \in BOOLEAN :
       LET first == stream.phase = "started" IN
       /\ columns \/ (first /\ last /\ total = 0)
       /\ first \/ last \/ total > stream.rows
       /\ HostBecomes(AppendStreamingChunk(host,
            [id |-> stream.id, first |-> first, last |-> last, columns |-> columns,
             from |-> stream.rows, total |-> total]))
       /\ stream' = [stream EXCEPT !.phase = IF last THEN "between" ELSE "streaming",
                                   !.rows = total]
  /\ UNCHANGED << toHost, left >>

(* The run ends, after its last statement, a failure or a cancellation.    *)
Finalize ==
  /\ stream.phase # "idle" /\ Unhurried
  /\ HostBecomes(FinalizeExecution(host))
  /\ stream' = [stream EXCEPT !.phase = "idle"]
  /\ UNCHANGED << toHost, left >>

SwitchEditor ==
  /\ Disturbs("switch")
  /\ \E s \in Sources \ {host.focus} :
       HostBecomes(SetActiveSource([host EXCEPT !.focus = s], s))
  /\ UNCHANGED << stream, toHost >>

CancelCommand ==
  /\ host.executing
  /\ Disturbs("command")
  /\ HostBecomes(CancelExecution(host, << >>))
  /\ UNCHANGED << stream, toHost >>

ReloadPage ==
  /\ Disturbs("reload")
  /\ HostBecomes([host EXCEPT !.ready = FALSE, !.html = TRUE])
  /\ UNCHANGED << stream, toHost >>

(* onDidReceiveMessage.                                                    *)
Answer(h, m) ==
  CASE m.type = "ready" -> ViewReady(h)
    [] m.type = "requestResultSync" -> ResultSyncRequest(h)
    [] m.type = "cancelQuery" -> CancelExecution(h, m.counts)
    [] m.type = "closeResult" -> CloseResult(h, m.index)

HostReceives ==
  /\ toHost # << >>
  /\ HostBecomes(Answer(host, Head(toHost)))
  /\ toHost' = Tail(toHost)
  /\ UNCHANGED << stream, left >>

(* The page listens from the end of its script on, and says so when its    *)
(* fonts have loaded.                                                      *)
PageLoads ==
  /\ page = "loading"
  /\ page' = "listening"
  /\ UNCHANGED << host, stream, view, toView, toHost, left, faulty >>

PageReady ==
  /\ page = "listening"
  /\ page' = "loaded"
  /\ toHost' = Append(toHost, [type |-> "ready"])
  /\ UNCHANGED << host, stream, view, toView, left, faulty >>

(* A message posted while the page loads may be lost.                      *)
LoseEarly ==
  /\ page = "loading" /\ toView # << >>
  /\ toView' = Tail(toView)
  /\ UNCHANGED << host, stream, page, view, toHost, left, faulty >>

ViewReceives ==
  /\ page # "loading" /\ toView # << >>
  /\ toView' = Tail(toView)
  /\ ViewBecomes(Handle(view, Head(toView)), << >>)
  /\ UNCHANGED left

(* cancelActiveQuery: the counts of the rows shown, unless the stream is   *)
(* known to be complete.                                                   *)
ClickCancel ==
  /\ page # "loading" /\ view.active = "S" /\ view.executing
  /\ Disturbs("cancel")
  /\ ViewBecomes(Cancel(view),
       << [type |-> "cancelQuery",
           counts |-> IF view.completed THEN << >>
                      ELSE [i \in DOMAIN view.results |-> Len(view.results[i].rows)]] >>)
  /\ UNCHANGED toView

ClickClose ==
  /\ page # "loading" /\ view.active = "S"
  /\ Disturbs("close")
  /\ \E i \in DOMAIN view.results :
       ViewBecomes(view, << [type |-> "closeResult", index |-> i] >>)
  /\ UNCHANGED toView

(* What the transport must survive: rows lost, repeated or overtaken.      *)
IsRows(i) == i \in DOMAIN toView /\ toView[i].type = "appendRows"

Fault ==
  /\ page # "loading" /\ IsRows(1)
  /\ Disturbs("fault")
  /\ \/ toView' = Tail(toView)
     \/ toView' = << toView[1] >> \o toView
     \/ IsRows(2) /\ toView' = [toView EXCEPT ![1] = toView[2], ![2] = toView[1]]
  /\ faulty' = TRUE
  /\ UNCHANGED << host, stream, page, view, toHost >>

Next ==
  \/ Start \/ StatementStarts \/ ChunkArrives \/ Finalize
  \/ SwitchEditor \/ CancelCommand \/ ReloadPage
  \/ HostReceives \/ PageLoads \/ PageReady \/ ViewReceives
  \/ ClickCancel \/ ClickClose \/ LoseEarly \/ Fault

Spec == Init /\ [][Next]_vars

----------------------------------------------------------------------------
(* The properties.                                                         *)

Rows == Seq(Nat \X (Nat \ {0}))
HostResult(r) == r.id \in Nat /\ r.cancelled \in BOOLEAN /\ r.rows \in Rows
ShownResult(r) == HostResult(r) /\ r.total \in Nat /\ r.complete \in BOOLEAN

TypeOK ==
  /\ host.active \in Sources /\ host.focus \in Sources
  /\ host.lastSentActive \in Sources \union {NoSource}
  /\ \A i \in DOMAIN host.results : HostResult(host.results[i])
  /\ {host.seq, host.tracked} \subseteq Nat \union {None}
  /\ host.sent \in 0 .. host.version
  /\ host.out = << >> /\ ~host.html
  /\ stream.phase \in {"idle", "between", "started", "streaming"}
  /\ page \in {"loading", "listening", "loaded"} /\ left \in Budget /\ faulty \in BOOLEAN
  /\ view.active \in Sources \union {NoSource}
  /\ \A i \in DOMAIN view.results : ShownResult(view.results[i])

Agree(r, s) == IsPrefix(r, s) \/ IsPrefix(s, r)

(* The rows shown for a result are those the host has for it, from the     *)
(* first one on, without a gap, a repetition or a row out of place, at any *)
(* moment, whatever the channel did (streamingSequence.ts, and the sync    *)
(* that replaces a broken stream).                                         *)
RowsInOrder ==
  view.active = "S" =>
    \A i \in DOMAIN view.results, j \in DOMAIN host.results :
      view.results[i].id = host.results[j].id =>
        Agree(view.results[i].rows, host.results[j].rows)

(* A result the page marks as complete shows every row of its statement,   *)
(* which has ended (handleStreamingComplete accepts the end of a stream    *)
(* only after its last chunk).                                             *)
CompleteMeansAll ==
  view.active = "S" =>
    \A i \in DOMAIN view.results, j \in DOMAIN host.results :
      view.results[i].complete /\ ~view.results[i].cancelled
        /\ view.results[i].id = host.results[j].id =>
        /\ host.tracked # host.results[j].id
        /\ IsPrefix(host.results[j].rows, view.results[i].rows)

Quiet == toView = << >> /\ toHost = << >> /\ page = "loaded"

(* When nothing is under way, the page shows the source the host thinks it *)
(* shows, and of S exactly the host's results and rows; of a result that   *)
(* the host has cancelled it may show rows the host has since dropped.     *)
ShowsAll(v, h) ==
  /\ v.id = h.id
  /\ IF h.cancelled THEN IsPrefix(h.rows, v.rows) ELSE v.rows = h.rows

QuietPanelIsCurrent ==
  Quiet /\ ~faulty =>
    /\ host.ready
    /\ view.active = host.active
    /\ view.log
    /\ host.active = "S" =>
         /\ view.executing = host.executing
         /\ DOMAIN view.results = DOMAIN host.results
         /\ \A i \in DOMAIN host.results : ShowsAll(view.results[i], host.results[i])

(* A row that arrives belongs to the result of its own statement           *)
(* (appendStreamingChunk of the state manager).                            *)
OneResultPerStatement ==
  \A i \in DOMAIN host.results :
    \A k \in DOMAIN host.results[i].rows : host.results[i].rows[k][1] = host.results[i].id

(* A page that waits for a hydrate is going to get one: its request is on  *)
(* the way, or kept by the host until S is shown again, or the hydrate is  *)
(* on the way (pendingResultSyncSources suppresses any further request).   *)
NoSyncForgotten ==
  view.pending =>
    \/ \E i \in DOMAIN toHost : toHost[i].type \in {"requestResultSync", "ready"}
    \/ host.pendingSync /\ host.active # "S"
    \/ \E i \in DOMAIN toView : toView[i].type = "hydrate" /\ toView[i].source = "S"
================================================================================
