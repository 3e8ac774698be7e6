------------------------------ MODULE EventStream ------------------------------
(***************************************************************************)
(* The events of one session, from the command that appends them to the page  *)
(* that shows them:                                                          *)
(*   services/events.py            the event store and its sequence numbers   *)
(*   services/runs.py, services/runtime_dispatch.py, services/clarifications.py*)
(*                                 which events a command appends, and when    *)
(*                                 they are committed                          *)
(*   api/routes/events.py          the SSE stream                             *)
(*   frontend workspace            event-reducer.ts, workspace-store.ts,       *)
(*                                 WorkspaceShell.tsx                          *)
(*                                                                           *)
(* A command reads its rows, appends events one by one and commits database by *)
(* database.  An append takes the session's sequence lock, reads the next      *)
(* number and flushes the row; the flush takes the write lock of event.db,     *)
(* which SQLite keeps until the command commits or rolls back.                 *)
(***************************************************************************)
EXTENDS Integers, Sequences, FiniteSetsExt

CONSTANTS
  Users,        \* the request threads: a user's commands
  Workers,      \* the run's worker thread: what a step of the run ends in
  Runs,         \* the runs the session may get
  MaxIndex,     \* bound: no command starts that could number past it
  BatchLimit,   \* rows the stream reads at once (100 in the code)
  Disturbances  \* bound: failed commands, lost connections, process deaths, refetches

VARIABLES
  truth,        \* control.db and runtime.db: [status, before: run -> status, request:
                \* run -> its latest approval request, current]
  hidden,       \* control.db: the runs whose startup publication is not PUBLISHED
  log,          \* event.db: the committed rows
  highWater,    \* the process's highest number (_SEQUENCE_HIGH_WATER)
  numberLock,   \* holder of the session's sequence lock
  writeLock,    \* holder of the write lock of event.db
  writer,       \* writer -> its command, see Idle
  stream,       \* the server's side of the open stream, see Closed
  page,         \* the client: [view, seen, reply], reply = a snapshot under way, and
                \* skipped = history: the numbers the stream passed over as hidden
  left,         \* the disturbances left
  astray        \* history: what parted the log or the page from the truth

vars == <<truth, hidden, log, highWater, numberLock, writeLock, writer, stream, page,
          left, astray>>

Writers == Users \union Workers
Nobody == "nobody"
NoRun == "no_run"

ASSUME EventStreamAssumption ==
  /\ Nobody \notin Writers /\ NoRun \notin Runs
  /\ MaxIndex \in Nat /\ BatchLimit \in Nat /\ Disturbances \in Nat

Over == {"completed", "failed", "terminated"}
Statuses == {"none", "running", "waiting", "paused"} \union Over
Event(type, run, status) == [type |-> type, run |-> run, status |-> status, index |-> 0]

Idle == [at |-> "idle", todo |-> <<>>, rows |-> {}, next |-> <<>>, from |-> <<>>, run |-> NoRun]
Closed == [open |-> FALSE, cursor |-> 0, hidden |-> {}, batch |-> {}, reading |-> FALSE]
NoPage == [view |-> <<>>, seen |-> {}, skipped |-> {}, reply |-> <<>>]

Indices(events) == {e.index : e \in events}
Highest(S) == IF S = {} THEN 0 ELSE Max(S)

Init ==
  /\ truth = [status |-> [r \in Runs |-> "none"], before |-> [r \in Runs |-> "none"],
              request |-> [r \in Runs |-> "none"], current |-> NoRun]
  /\ hidden = {} /\ log = {} /\ highWater = 0
  /\ numberLock = Nobody /\ writeLock = Nobody
  /\ writer = [w \in Writers |-> Idle]
  /\ stream = Closed /\ page = NoPage
  /\ left = Disturbances
  /\ astray = {}

-----------------------------------------------------------------------------
(* The commands: the events each appends, and the rows it will commit.       *)

Command(events, next, run) == [events |-> events, next |-> next, run |-> run]
Moved(run, status) == [truth EXCEPT !.status[run] = status]

Fresh == {r \in Runs : truth.status[r] = "none" /\ r \notin hidden
                       /\ \A w \in Writers : writer[w].run # r}
Current == {r \in Runs : truth.current = r}
CurrentIn(statuses) == {r \in Current : truth.status[r] \in statuses}

\* The session is a draft and no publication of it is pending.  The status, message
\* and stage events that follow tell the page nothing more.
StartFirstRun ==
  {Command(<<Event("created", r, "running")>>,
           [Moved(r, "running") EXCEPT !.current = r], r) :
     r \in IF truth.current = NoRun /\ hidden = {} THEN Fresh ELSE {}}

\* The pending request of a run is appended again whenever it can, or can no longer,
\* be answered.
Refreshed(r, entry) ==
  IF truth.request[r] = "pending" THEN <<Event("ask", r, entry)>> ELSE <<>>

\* Mutation: the request is left as it was.
PauseKeepsRequest ==
  {Command(<<Event("status", r, "paused")>>,
           [Moved(r, "paused") EXCEPT !.before[r] = truth.status[r]], r) :
     r \in CurrentIn({"running", "waiting"})}

PauseRun ==
  {Command(<<Event("status", r, "paused")>> \o Refreshed(r, "disabled"),
           [Moved(r, "paused") EXCEPT !.before[r] = truth.status[r]], r) :
     r \in CurrentIn({"running", "waiting"})}

\* RUN_RESUMED carries the status the run had before the pause.
ResumeRun ==
  {Command(<<Event("status", r, truth.before[r])>> \o Refreshed(r, "open"),
           Moved(r, truth.before[r]), r) :
     r \in CurrentIn({"paused"})}

TerminateRun ==
  {Command(Refreshed(r, "disabled") \o <<Event("terminal", r, "terminated")>>,
           Moved(r, "terminated"), r) :
     r \in CurrentIn({"running", "waiting", "paused"})}

\* A wait is announced by its request alone, never by a session status.
AskUser ==
  {Command(<<Event("ask", r, "open")>>,
           [Moved(r, "waiting") EXCEPT !.request[r] = "pending"], r) :
     r \in CurrentIn({"running"})}

AnswerUser ==
  {Command(<<Event("answer", r, "answered")>>,
           [Moved(r, "running") EXCEPT !.request[r] = "answered"], r) :
     r \in CurrentIn({"waiting"})}

FinishRun ==
  {Command(<<Event("status", r, "completed")>>, Moved(r, "completed"), r) :
     r \in CurrentIn({"running"})}

FailRun ==
  {Command(<<Event("stage", r, "running"), Event("terminal", r, "failed")>>, Moved(r, "failed"), r) :
     r \in CurrentIn({"running"})}

\* The system status of the old run is appended again, with its retry action.
RerunOf(old, new) ==
  Command(<<Event("terminal", old, truth.status[old]), Event("created", new, "running")>>,
          [Moved(new, "running") EXCEPT !.current = new], new)
Rerun == {RerunOf(old, new) : old \in CurrentIn({"failed", "terminated"}), new \in Fresh}

ByUsers == StartFirstRun \union PauseRun \union ResumeRun \union TerminateRun
           \union AnswerUser \union Rerun
ByWorker == AskUser \union FinishRun \union FailRun
Commands(w) == IF w \in Workers THEN ByWorker ELSE ByUsers

-----------------------------------------------------------------------------
(* A command's transaction.                                                  *)

\* Rows that still have to get a number.
Unnumbered == UNION {{<<v, i>> : i \in {j \in DOMAIN writer[v].todo :
                                          writer[v].todo[j].index = 0}} : v \in Writers}

Begin(w) ==
  /\ writer[w].at = "idle"
  /\ \E c \in Commands(w) :
       /\ Highest({highWater} \union Indices(log)) + Cardinality(Unnumbered)
          + Len(c.events) <= MaxIndex
       /\ writer' = [writer EXCEPT ![w] =
            [at |-> IF c \in StartFirstRun THEN "starting" ELSE "open",
             todo |-> c.events, rows |-> {}, next |-> <<c.next>>, from |-> <<truth>>,
             run |-> c.run]]
       \* the PENDING publication is committed before anything of the run
       /\ hidden' = IF c \in StartFirstRun THEN hidden \union {c.run} ELSE hidden
  /\ UNCHANGED <<truth, log, highWater, numberLock, writeLock, stream, page, left,
                 astray>>

\* What a query of this writer sees: committed rows, and the ones it flushed.
NextIndex(w) == Highest(Indices(log) \union Indices(writer[w].rows) \union {highWater}) + 1

\* Mutation: the number is taken before the sequence lock.
NumberUnlocked(w) ==
  /\ writer[w].todo # <<>> /\ Head(writer[w].todo).index = 0
  /\ writer' = [writer EXCEPT ![w].todo[1].index = NextIndex(w)]
  /\ highWater' = NextIndex(w)
  /\ UNCHANGED <<truth, hidden, log, numberLock, writeLock, stream, page, left,
                 astray>>

\* append: the sequence lock, then the number.
TakeNumber(w) ==
  /\ writer[w].todo # <<>> /\ Head(writer[w].todo).index = 0
  /\ numberLock = Nobody
  /\ numberLock' = w
  /\ writer' = [writer EXCEPT ![w].todo[1].index = NextIndex(w)]
  /\ highWater' = NextIndex(w)
  /\ UNCHANGED <<truth, hidden, log, writeLock, stream, page, left, astray>>

\* add and flush, and the sequence lock is given back.
FlushRow(w) ==
  /\ writer[w].todo # <<>> /\ Head(writer[w].todo).index # 0
  /\ writeLock \in {Nobody, w}
  /\ writeLock' = w
  /\ numberLock' = IF numberLock = w THEN Nobody ELSE numberLock
  /\ writer' = [writer EXCEPT ![w].rows = @ \union {Head(writer[w].todo)},
                              ![w].todo = Tail(@)]
  /\ UNCHANGED <<truth, hidden, log, highWater, stream, page, left, astray>>

Disturb == left > 0 /\ left' = left - 1
Released(w, lock) == IF lock = w THEN Nobody ELSE lock

\* The command fails: its rows go, the numbers it took are not given back; a start
\* aborts its publication.
Undo(w) ==
  /\ writer' = [writer EXCEPT ![w] = Idle]
  /\ hidden' = IF writer[w].at \in {"starting", "publishing"}
               THEN hidden \ {writer[w].run} ELSE hidden
  /\ numberLock' = Released(w, numberLock)
  /\ writeLock' = Released(w, writeLock)

\* Any of a command's commits may raise, also after the rows were committed and
\* before the events are: then the rows stay and the events are lost.  (A commit
\* that raises between runtime.db and control.db leaves a part of the rows as well.)
RollBack(w) ==
  /\ writer[w].at \in {"open", "starting", "settled"}
  /\ Disturb /\ Undo(w)
  /\ astray' = IF writer[w].at = "settled" THEN astray \union {"lost"} ELSE astray
  /\ UNCHANGED <<truth, log, highWater, stream, page>>

\* Mutation: the flush waits for the write lock for ever.
WaitForever(w) == FALSE /\ UNCHANGED vars

\* The write lock is held elsewhere for 5 seconds: "database is locked".
BusyTimeout(w) ==
  /\ writer[w].todo # <<>> /\ Head(writer[w].todo).index # 0
  /\ writeLock \notin {Nobody, w}
  /\ Undo(w)
  /\ UNCHANGED <<truth, log, highWater, stream, page, left, astray>>

\* The control and runtime rows are committed first ...
CommitRows(w) ==
  /\ writer[w].at = "open" /\ writer[w].todo = <<>>
  /\ LET next == Head(writer[w].next) IN
     truth' = [status |-> [truth.status EXCEPT ![writer[w].run] = next.status[writer[w].run]],
               before |-> [truth.before EXCEPT ![writer[w].run] = next.before[writer[w].run]],
               request |-> [truth.request EXCEPT ![writer[w].run] =
                              next.request[writer[w].run]],
               current |-> next.current]
  /\ writer' = [writer EXCEPT ![w].at = "settled", ![w].next = <<>>, ![w].from = <<>>]
  /\ astray' = IF Head(writer[w].from) # truth THEN astray \union {"crossed"} ELSE astray
  /\ UNCHANGED <<hidden, log, highWater, numberLock, writeLock, stream, page, left>>

\* ... then the events, which ends the command.
CommitEvents(w) ==
  /\ writer[w].at = "settled"
  /\ log' = log \union writer[w].rows
  /\ writeLock' = Released(w, writeLock)
  /\ writer' = [writer EXCEPT ![w] = Idle]
  /\ UNCHANGED <<truth, hidden, highWater, numberLock, stream, page, left, astray>>

\* A start commits its events first, and is published last.
CommitStartEvents(w) ==
  /\ writer[w].at = "starting" /\ writer[w].todo = <<>>
  /\ log' = log \union writer[w].rows
  /\ writeLock' = Released(w, writeLock)
  /\ writer' = [writer EXCEPT ![w].at = "publishing", ![w].rows = {}]
  /\ UNCHANGED <<truth, hidden, highWater, numberLock, stream, page, left, astray>>

Publish(w) ==
  /\ writer[w].at = "publishing"
  /\ hidden' = hidden \ {writer[w].run}
  /\ truth' = Head(writer[w].next)
  /\ writer' = [writer EXCEPT ![w] = Idle]
  /\ UNCHANGED <<log, highWater, numberLock, writeLock, stream, page, left, astray>>

\* The publication fails: the start is aborted and the run's rows are deleted.
AbortStart(w) ==
  /\ writer[w].at = "publishing"
  /\ Disturb /\ Undo(w)
  /\ log' = {e \in log : e.run # writer[w].run}
  /\ UNCHANGED <<truth, highWater, stream, page, astray>>

\* The process dies.  A start under way stays hidden for ever.
Crash ==
  /\ Disturb
  /\ astray' = IF \E w \in Writers : writer[w].at = "settled" THEN astray \union {"lost"} ELSE astray
  /\ writer' = [w \in Writers |-> Idle]
  /\ highWater' = 0 /\ numberLock' = Nobody /\ writeLock' = Nobody
  /\ stream' = Closed
  /\ UNCHANGED <<truth, hidden, log, page>>

-----------------------------------------------------------------------------
(* The stream: poll, send one event at a time, skip those of hidden runs.    *)

\* Each poll reads the hidden runs first ...
ReadHidden ==
  /\ stream.open /\ stream.batch = {} /\ ~stream.reading
  /\ \E e \in log : e.index > stream.cursor
  /\ stream' = [stream EXCEPT !.hidden = hidden, !.reading = TRUE]
  /\ UNCHANGED <<truth, hidden, log, highWater, numberLock, writeLock, writer, page, left,
                 astray>>

After(cursor) == {e \in log : e.index > cursor}

\* Mutation: the newest rows first.
ListNewest(cursor) ==
  {e \in After(cursor) :
     Cardinality({f \in After(cursor) : f.index >= e.index}) <= BatchLimit}

\* The first rows after the cursor, by their numbers.
ListAfter(cursor) ==
  {e \in After(cursor) :
     Cardinality({f \in After(cursor) : f.index <= e.index}) <= BatchLimit}

\* ... and then the rows after its cursor.
ReadBatch ==
  /\ stream.reading
  /\ stream' = [stream EXCEPT !.batch = ListAfter(stream.cursor), !.reading = FALSE]
  /\ UNCHANGED <<truth, hidden, log, highWater, numberLock, writeLock, writer, page, left,
                 astray>>

-----------------------------------------------------------------------------
(* The page's reducer (event-reducer.ts).                                    *)

Known(view, run) == view.runs[run] # "none"

\* updateCurrentRunFromSessionStatus: only a run the page knows.
WithRun(view, run, status) ==
  IF Known(view, run) THEN [view EXCEPT !.runs[run] = status] ELSE view

\* Mutation: a system status only reaches the run.
TerminalOfRun(view, e) == WithRun(view, e.run, e.status)

ApplyTerminal(view, e) ==
  [WithRun(view, e.run, e.status) EXCEPT !.status = IF view.current = e.run THEN e.status ELSE @]

ApplyStatus(view, e) ==
  [WithRun(view, e.run, e.status) EXCEPT !.status = e.status, !.current = e.run]

ApplyCreated(view, e) ==
  [view EXCEPT !.runs[e.run] = e.status, !.status = e.status, !.current = e.run]

\* upsertFeedEntry, and updateApprovalRequestFromResult for an answer: one entry per
\* request, which the later event replaces.
InFeed(feed, e) == [feed EXCEPT ![e.run] = e.status]

\* Requests and answers only change the feed; stages are left out of it.
Apply(view, e) ==
  CASE e.type = "created"  -> ApplyCreated(view, e)
    [] e.type = "status"   -> ApplyStatus(view, e)
    [] e.type = "terminal" -> ApplyTerminal(view, e)
    [] e.type \in {"ask", "answer"} -> [view EXCEPT !.feed = InFeed(view.feed, e)]
    [] OTHER               -> view

\* One event of the batch: the cursor moves whether or not it is sent.  An event is
\* leaked if it is sent although its run is hidden, or although its start was aborted
\* and its row is gone.
SendNext ==
  /\ stream.open
  /\ \E e \in stream.batch :
     /\ \A f \in stream.batch : e.index <= f.index
     /\ stream' = [stream EXCEPT !.cursor = e.index, !.batch = @ \ {e}]
     /\ page' = IF e.run \in stream.hidden
                THEN [page EXCEPT !.skipped = @ \union {e.index}]
                ELSE [page EXCEPT !.view = Apply(page.view, e), !.seen = @ \union {e.index}]
     /\ astray' = IF e.run \notin stream.hidden /\ (e.run \in hidden \/ e \notin log)
                  THEN astray \union {"leaked"} ELSE astray
  /\ UNCHANGED <<truth, hidden, log, highWater, numberLock, writeLock, writer, left>>

-----------------------------------------------------------------------------
(* The page: it loads a snapshot, opens the stream without a cursor, and the  *)
(* browser reconnects with the last event it received.                       *)

SessionStatus == IF truth.current = NoRun THEN "none" ELSE truth.status[truth.current]

\* The server folds the events itself, in the order of their numbers: those of the
\* visible runs for the session's feed, those of one run for its timeline.  What a
\* run's request comes to is what its last event says.
Visible == {e \in log : e.run \notin hidden}
AboutRequest(r) == {e \in Visible : e.run = r /\ e.type \in {"ask", "answer"}}
LastOf(events) == CHOOSE e \in events : \A f \in events : f.index <= e.index
Timeline(r) == IF AboutRequest(r) = {} THEN "none" ELSE LastOf(AboutRequest(r)).status
NarrativeFeed == [r \in Runs |-> Timeline(r)]

Snapshot ==
  [runs |-> truth.status, current |-> truth.current, status |-> SessionStatus,
   feed |-> NarrativeFeed]

\* The page loads, and opens the stream from the start of the log.
OpenPage ==
  /\ page.view = <<>>
  /\ page' = [NoPage EXCEPT !.view = Snapshot]
  /\ stream' = [Closed EXCEPT !.open = TRUE]
  /\ UNCHANGED <<truth, hidden, log, highWater, numberLock, writeLock, writer, left, astray>>

\* The workspace query is refetched and answered; the answer is under way.
Refetch ==
  /\ page.view # <<>> /\ page.reply = <<>>
  /\ Disturb
  /\ page' = [page EXCEPT !.reply = <<[view |-> Snapshot, seen |-> page.seen]>>]
  /\ UNCHANGED <<truth, hidden, log, highWater, numberLock, writeLock, writer, stream, astray>>

\* It replaces the state of the page, whatever arrived since it was answered.
Refetched ==
  /\ page.reply # <<>>
  /\ page' = [page EXCEPT !.view = Head(page.reply).view, !.reply = <<>>]
  /\ astray' = IF Head(page.reply).seen # page.seen THEN astray \union {"overlaid"} ELSE astray
  /\ UNCHANGED <<truth, hidden, log, highWater, numberLock, writeLock, writer, stream, left>>

DropConnection ==
  /\ stream.open /\ Disturb
  /\ stream' = Closed
  /\ UNCHANGED <<truth, hidden, log, highWater, numberLock, writeLock, writer, page,
                 astray>>

\* Mutation: the browser's Last-Event-ID is counted from the end of the log.
FromTheEnd == Highest(Indices(log))

\* max(after, Last-Event-ID): the page sends no after.
AfterCursor == Highest(page.seen)

Reconnect ==
  /\ page.view # <<>> /\ ~stream.open
  /\ stream' = [Closed EXCEPT !.open = TRUE, !.cursor = AfterCursor]
  /\ UNCHANGED <<truth, hidden, log, highWater, numberLock, writeLock, writer, page, left,
                 astray>>

-----------------------------------------------------------------------------

Proceed(w) == TakeNumber(w) \/ FlushRow(w) \/ CommitRows(w) \/ CommitEvents(w)
              \/ CommitStartEvents(w) \/ Publish(w)
Serve == ReadHidden \/ ReadBatch \/ SendNext \/ Refetched \/ Reconnect
WriterStep(w) == Begin(w) \/ Proceed(w) \/ BusyTimeout(w) \/ RollBack(w) \/ AbortStart(w)

Next ==
  \/ \E w \in Writers : WriterStep(w)
  \/ Serve
  \/ Crash \/ OpenPage \/ Refetch \/ DropConnection

\* The threads and the event loop run, SQLite gives up a wait, the browser
\* reconnects.
Fairness ==
  /\ \A w \in Writers : WF_vars(Proceed(w)) /\ WF_vars(BusyTimeout(w))
  /\ WF_vars(Serve)

Spec == Init /\ [][Next]_vars /\ Fairness

-----------------------------------------------------------------------------
(* Properties.                                                               *)

\* The commit order of the events is the order of their numbers and no number is
\* given twice, although the sequence lock is released before the commit: so a
\* cursor that has passed a number has passed every smaller one for good.
InOrder ==
  /\ \A e \in log' \ log, f \in log : f.index < e.index
  /\ \A e, f \in log' : e.index = f.index => e = f
CommittedInOrder == [][InOrder]_vars

\* An event behind the cursor of the open stream was shown to the page, unless its
\* run was hidden when its batch was read: the stream passes nothing else over,
\* whatever the order of commits, and no reconnection does.  What voids it is a leak
\* from a start: when the start is aborted its numbers are free, a process that starts
\* afresh gives them again, and the page already counts them as received.
NothingPassedOver ==
  stream.open /\ "leaked" \notin astray => \A e \in log :
    e.index <= stream.cursor => e.index \in page.seen \union page.skipped

Resting == \A w \in Writers : writer[w].at = "idle"
Drained ==
  /\ stream.open /\ Resting
  /\ page.reply = <<>>
  /\ Highest(Indices(log)) <= stream.cursor

Settled == {"none", "paused"} \union Over

\* The page received the whole log and nothing else, in the order of the truth.
ToldAll ==
  /\ Drained /\ page.seen = Indices(log)
  /\ astray = {}

\* A page that received the whole log shows, once it is drained, the truth about
\* the session: which run is current, and for every run whether it is over, paused
\* or still going.  Replaying the log over a snapshot brings nothing stale back.
\* What voids it: events passed over while their run was hidden ("page.seen"), a
\* command that failed or died between its commits, with its rows committed and its
\* events not ("lost"), a command that settled over rows
\* changed since it read them ("crossed"), a refetched snapshot older than the events
\* it replaced ("overlaid"), an event sent while its run is hidden because the hidden
\* runs were read before the run was there ("leaked").  Failures at any other point of
\* a command do not.
ViewAgrees ==
  ToldAll =>
     /\ page.view.current = truth.current
     /\ \A r \in Runs \ hidden :
          \/ page.view.runs[r] = truth.status[r]
          \/ {page.view.runs[r], truth.status[r]} \intersect Settled = {}
     /\ page.view.status = SessionStatus \/ {page.view.status, SessionStatus} \intersect Settled = {}

\* A page that received the whole log shows every request as it is: answered, or to
\* be answered now, or pending in a run that is paused or terminated and then not to
\* be answered.  What pause, resume and terminate append again must arrive in order,
\* and a replay over a snapshot must not open an answered request again.  The run's
\* timeline, folded by the server, shows the same.
RequestsShown ==
  ToldAll => \A r \in Runs \ hidden :
    LET shown == IF truth.request[r] # "pending" THEN truth.request[r]
                 ELSE IF truth.status[r] = "waiting" THEN "open" ELSE "disabled"
    IN page.view.feed[r] = shown /\ Timeline(r) = shown

\* Every command ends: two commands that wait for each other's lock, one for the
\* sequence lock and one for the write lock, are parted by the busy timeout.
CommandsEnd == \A w \in Writers : (writer[w].at # "idle") ~> (writer[w].at = "idle")

\* A page catches up with the log over and over, across lost connections, process
\* deaths and commands that fail: every committed event reaches it, or was passed
\* over because its run was hidden.  A leak voids it as it voids NothingPassedOver.
Unseen == Indices(log) \ (page.seen \union page.skipped)
EventsArrive == []<>(page.view = <<>> \/ "leaked" \in astray \/ Unseen = {})

=============================================================================
