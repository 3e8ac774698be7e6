--------------------------- MODULE RunPublication ---------------------------
(***************************************************************************)
(* How a run becomes public.  A run lives in four SQLite files that have no *)
(* common transaction: control (the Session and its startup publications),  *)
(* runtime (PipelineRun), graph (GraphThread) and event.                    *)
(*                                                                         *)
(* start_first_run stages the run behind a PENDING StartupPublication and   *)
(* flips it to PUBLISHED last; create_rerun commits the four files one by   *)
(* one and compensates what was committed when a later commit fails.        *)
(* (services/runs.py, services/publication_boundary.py, services/sessions.py)*)
(*                                                                         *)
(* Every commit is one action and may fail; the process may die between any *)
(* two of them.                                                             *)
(***************************************************************************)
CONSTANTS
  Requests,  \* POSTs that want to create a run; each creates the run of its name
  NoRun      \* null

ASSUME NoRunAssumption == NoRun \notin Requests

VARIABLES
  session,      \* control DB: Session [visible, status, current = current_run_id],
                \* and whether its removal still waits for the audit record
  publication,  \* control DB: StartupPublication.publication_state of the request
  run,          \* runtime DB: PipelineRun.status and the rows that go with it;
                \* "terminated" stands for FAILED too, completed runs are left out
  thread,       \* graph DB: GraphThread.status and the definition
  created,      \* event DB: the events of the new run
  pc,           \* memory: where the request is
  seen,         \* memory: the session fields a rerun read and may restore
  writer        \* the request whose flushed rows hold the write locks of the
                \* runtime, graph and event files

vars == <<session, publication, run, thread, created, pc, seen, writer>>

Ids == Requests \union {NoRun}

Starting == {"claimed", "start runtime", "start event", "start graph", "publish", "reload"}
Aborting == {"abort", "abort runtime", "abort graph", "abort event", "abort control"}
Rerunning == {"read", "rerun runtime", "rerun graph", "rerun control", "rerun event"}
Compensating == {"restore control", "delete runtime only", "delete runtime",
                 "delete graph", "delete graph, then fail"}
InProgress == Starting \union Aborting \union Rerunning \union Compensating

\* "failed": answered with an error and cleaned up; "broken": the clean-up itself
\* failed; "dead": the process died.
Over == {"done", "failed", "broken", "dead"}

Sessions == [visible: BOOLEAN, removing: BOOLEAN,
             status: {"draft", "running", "terminated"}, current: Ids]

Snapshots == [status: {"draft", "terminated"}, current: Ids]

TypeOK ==
  /\ session \in Sessions
  /\ publication \in [Requests -> {"none", "pending", "published", "aborted"}]
  /\ run \in [Requests -> {"none", "running", "terminated"}]
  /\ thread \in [Requests -> {"none", "running", "terminated"}]
  /\ created \in [Requests -> BOOLEAN]
  /\ pc \in [Requests -> {"idle"} \union InProgress \union Over]
  /\ seen \in [Requests -> Snapshots]
  /\ writer \in Ids

Draft == [status |-> "draft", current |-> NoRun]

Init ==
  /\ session = [visible |-> TRUE, removing |-> FALSE, status |-> "draft", current |-> NoRun]
  /\ publication = [q \in Requests |-> "none"]
  /\ run = [q \in Requests |-> "none"]
  /\ thread = [q \in Requests |-> "none"]
  /\ created = [q \in Requests |-> FALSE]
  /\ pc = [q \in Requests |-> "idle"]
  /\ seen = [q \in Requests |-> Draft]
  /\ writer = NoRun

Goto(q, label) == pc' = [pc EXCEPT ![q] = label]

\* What the session shows of a request's new run.
RunOf(q) == [status |-> "running", current |-> q]

Show(shown) == session' = [session EXCEPT !.status = shown.status, !.current = shown.current]

-----------------------------------------------------------------------------
(* Steps both commands take                                                 *)

\* The first flush takes the write locks; a second writer waits for them.
Stage(q, from, to) ==
  /\ pc[q] = from
  /\ writer = NoRun
  /\ writer' = q
  /\ Goto(q, to)
  /\ UNCHANGED <<session, publication, run, thread, created, seen>>

CommitRuntime(q, from, to) ==
  /\ pc[q] = from
  /\ run' = [run EXCEPT ![q] = "running"]
  /\ Goto(q, to)
  /\ UNCHANGED <<session, publication, thread, created, seen, writer>>

\* A commit, a read or a clean-up raises: the locks it held are released and the
\* request goes on where its handler catches the error.
Fails(q, from, to) ==
  /\ pc[q] = from
  /\ writer' = IF writer = q THEN NoRun ELSE writer
  /\ Goto(q, to)
  /\ UNCHANGED <<session, publication, run, thread, created, seen>>

\* A clean-up holds the write locks, or waits for them.
DeleteRuntime(q, from, to) ==
  /\ pc[q] = from
  /\ writer \in {NoRun, q}
  /\ run' = [run EXCEPT ![q] = "none"]
  /\ Goto(q, to)
  /\ UNCHANGED <<session, publication, thread, created, seen, writer>>

DeleteGraph(q, from, to) ==
  /\ pc[q] = from
  /\ writer \in {NoRun, q}
  /\ thread' = [thread EXCEPT ![q] = "none"]
  /\ Goto(q, to)
  /\ UNCHANGED <<session, publication, run, created, seen, writer>>

-----------------------------------------------------------------------------
(* start_first_run                                                          *)

\* pending_session_id is unique: one pending startup publication per session.
NoPending == \A p \in Requests : publication[p] # "pending"

\* Mutation: the claim is not unique.
ClaimableAgain ==
  /\ session.visible
  /\ session.status = "draft"
  /\ session.current = NoRun

Claimable ==
  /\ session.visible
  /\ session.status = "draft"
  /\ session.current = NoRun
  /\ NoPending

\* begin_startup_publication, a commit of its own
Claim(q) ==
  /\ pc[q] = "idle"
  /\ Claimable
  /\ publication' = [publication EXCEPT ![q] = "pending"]
  /\ Goto(q, "claimed")
  /\ UNCHANGED <<session, run, thread, created, seen, writer>>

StartCommitEvent(q) ==
  /\ pc[q] = "start event"
  /\ created' = [created EXCEPT ![q] = TRUE]
  /\ Goto(q, "start graph")
  /\ UNCHANGED <<session, publication, run, thread, seen, writer>>

\* The last of the three staged commits: the locks are free again.
StartCommitGraph(q) ==
  /\ pc[q] = "start graph"
  /\ thread' = [thread EXCEPT ![q] = "running"]
  /\ writer' = NoRun
  /\ Goto(q, "publish")
  /\ UNCHANGED <<session, publication, run, created, seen>>

\* Mutation: the run is published as soon as its row exists.
PublishableEarly(q) ==
  /\ pc[q] \in {"start event", "start graph", "publish"}
  /\ publication[q] = "pending"
  /\ run[q] # "none"

\* _assert_startup_product_set
Publishable(q) ==
  /\ pc[q] = "publish"
  /\ publication[q] = "pending"
  /\ run[q] # "none" /\ thread[q] # "none" /\ created[q]

\* publish_startup_visibility
Publish(q) ==
  /\ Publishable(q)
  /\ session.visible
  /\ Show(RunOf(q))
  /\ publication' = [publication EXCEPT ![q] = "published"]
  /\ Goto(q, "reload")
  /\ UNCHANGED <<run, thread, created, seen, writer>>

\* The handler reads the session back and answers.
Answered(q) ==
  /\ pc[q] = "reload"
  /\ Goto(q, "done")
  /\ UNCHANGED <<session, publication, run, thread, created, seen, writer>>

\* abort_startup_publication deletes what was staged, then settles the session and
\* the publication.
AbortEvent(q) ==
  /\ pc[q] = "abort event"
  /\ created' = [created EXCEPT ![q] = FALSE]
  /\ writer' = NoRun
  /\ Goto(q, "abort control")
  /\ UNCHANGED <<session, publication, run, thread, seen>>

AbortControl(q) ==
  /\ pc[q] = "abort control"
  /\ session' = IF session.current = q
                THEN [session EXCEPT !.status = "draft", !.current = NoRun]
                ELSE session
  /\ publication' = [publication EXCEPT ![q] = "aborted"]
  /\ Goto(q, "failed")
  /\ UNCHANGED <<run, thread, created, seen, writer>>

StartFirstRun(q) ==
  \/ Claim(q)
  \/ Stage(q, "claimed", "start runtime")
  \/ CommitRuntime(q, "start runtime", "start event")
  \/ StartCommitEvent(q)
  \/ StartCommitGraph(q)
  \/ Publish(q)
  \/ Answered(q)
  \/ \E at \in Starting : Fails(q, at, "abort")
  \/ Stage(q, "abort", "abort runtime")
  \/ DeleteRuntime(q, "abort runtime", "abort graph")
  \/ DeleteGraph(q, "abort graph", "abort event")
  \/ AbortEvent(q)
  \/ AbortControl(q)
  \/ \E at \in Aborting : Fails(q, at, "broken")

-----------------------------------------------------------------------------
(* create_rerun                                                             *)

\* _load_current_session_run_tail and the checks of the tail: the session, the run
\* and the thread it read are not read again before the commits.
ReadTail(q) ==
  /\ pc[q] = "idle"
  /\ session.visible
  /\ session.current # NoRun
  /\ session.status = "terminated"
  /\ run[session.current] = "terminated"
  /\ thread[session.current] = "terminated"
  /\ seen' = [seen EXCEPT ![q] = [status |-> session.status, current |-> session.current]]
  /\ Goto(q, "read")
  /\ UNCHANGED <<session, publication, run, thread, created, writer>>

RerunCommitGraph(q) ==
  /\ pc[q] = "rerun graph"
  /\ thread' = [thread EXCEPT ![q] = "running"]
  /\ Goto(q, "rerun control")
  /\ UNCHANGED <<session, publication, run, created, seen, writer>>

\* The UPDATE names the session alone: no current_run_id, no visibility.
RerunCommitControl(q) ==
  /\ pc[q] = "rerun control"
  /\ Show(RunOf(q))
  /\ Goto(q, "rerun event")
  /\ UNCHANGED <<publication, run, thread, created, seen, writer>>

RerunCommitEvent(q) ==
  /\ pc[q] = "rerun event"
  /\ created' = [created EXCEPT ![q] = TRUE]
  /\ writer' = NoRun
  /\ Goto(q, "done")
  /\ UNCHANGED <<session, publication, run, thread, seen>>

RestoreControl(q) ==
  /\ pc[q] = "restore control"
  /\ Show(seen[q])
  /\ Goto(q, "delete runtime")
  /\ UNCHANGED <<publication, run, thread, created, seen, writer>>

\* Mutation: the committed run is forgotten, or deleted from under the session.
ForgetRuntime == "failed"
DeleteAnyway == "delete runtime"

\* Where _commit_rerun_all goes when the graph commit fails, and where its
\* compensation goes when the session cannot be restored.
WithoutGraph == "delete runtime only"
WithoutSession == "broken"

CreateRerun(q) ==
  \/ ReadTail(q)
  \/ Stage(q, "read", "rerun runtime")
  \/ CommitRuntime(q, "rerun runtime", "rerun graph")
  \/ RerunCommitGraph(q)
  \/ RerunCommitControl(q)
  \/ RerunCommitEvent(q)
  \/ Fails(q, "read", "failed")
  \/ Fails(q, "rerun runtime", "failed")
  \/ Fails(q, "rerun graph", WithoutGraph)
  \/ Fails(q, "rerun control", "delete runtime")
  \/ Fails(q, "rerun event", "restore control")

\* _compensate_rerun_partial_commit
CompensateRerun(q) ==
  \/ RestoreControl(q)
  \/ Fails(q, "restore control", WithoutSession)
  \/ DeleteRuntime(q, "delete runtime only", "failed")
  \/ Fails(q, "delete runtime only", "broken")
  \/ DeleteRuntime(q, "delete runtime", "delete graph")
  \/ Fails(q, "delete runtime", "delete graph, then fail")
  \/ DeleteGraph(q, "delete graph", "failed")
  \/ DeleteGraph(q, "delete graph, then fail", "broken")
  \/ Fails(q, "delete graph", "broken")
  \/ Fails(q, "delete graph, then fail", "broken")

-----------------------------------------------------------------------------
(* The rest of the system                                                   *)

\* The current run ends, by its worker or by terminate_run.  Bound of the model: not
\* before the request that created it is over, and with its files at once, though the
\* code commits them one after the other.
EndRun(q) ==
  /\ session.current = q
  /\ run[q] = "running"
  /\ thread[q] = "running"
  /\ pc[q] \in Over
  /\ writer = NoRun
  /\ run' = [run EXCEPT ![q] = "terminated"]
  /\ thread' = [thread EXCEPT ![q] = "terminated"]
  /\ session' = [session EXCEPT !.status = "terminated"]
  /\ UNCHANGED <<publication, created, pc, seen, writer>>

CurrentActive == session.current # NoRun /\ run[session.current] = "running"

\* Mutation: a startup in flight does not block the removal.
RemovableUnpublished == session.visible /\ ~CurrentActive

\* delete_session, and the same guards in project removal
Removable == session.visible /\ ~CurrentActive /\ NoPending

DeleteSession ==
  /\ Removable
  /\ session' = [session EXCEPT !.visible = FALSE, !.removing = TRUE]
  /\ UNCHANGED <<publication, run, thread, created, pc, seen, writer>>

\* The removal is committed before it is audited; when the audit record cannot be
\* written, the session is made visible again.
AuditRemoval ==
  /\ session.removing
  /\ \/ session' = [session EXCEPT !.removing = FALSE]
     \/ /\ ~session.visible
        /\ session' = [session EXCEPT !.visible = TRUE, !.removing = FALSE]
  /\ UNCHANGED <<publication, run, thread, created, pc, seen, writer>>

\* Uncommitted rows are rolled back by SQLite when the files are opened again.
Crash ==
  /\ session.removing \/ \E q \in Requests : pc[q] \in InProgress
  /\ session' = [session EXCEPT !.removing = FALSE]
  /\ pc' = [q \in Requests |-> IF pc[q] \in InProgress THEN "dead" ELSE pc[q]]
  /\ writer' = NoRun
  /\ UNCHANGED <<publication, run, thread, created, seen>>

Next ==
  \/ \E q \in Requests : StartFirstRun(q) \/ CreateRerun(q) \/ CompensateRerun(q) \/ EndRun(q)
  \/ DeleteSession
  \/ AuditRemoval
  \/ Crash

Spec == Init /\ [][Next]_vars

-----------------------------------------------------------------------------
(* Properties                                                               *)

\* A reader of a workspace, a timeline or the event stream never sees a half-started
\* first run: once its publication is PUBLISHED, the run is there with its thread
\* and its events, also while a failed request takes it away again or a crash stops
\* either half way.
StartWhole ==
  \A q \in Requests : publication[q] = "published" /\ run[q] # "none"
                        => thread[q] # "none" /\ created[q]

\* Of the first messages that race for a draft session one wins: two startups are
\* never pending or published together.
OneStart ==
  \A p, q \in Requests :
    publication[p] \in {"pending", "published"} /\ publication[q] \in {"pending", "published"}
      => p = q

\* A session is not removed while a first run is being started on it.
ClaimBlocksRemoval == ~session.visible => NoPending

\* A session that shows a rerun has that run and its thread: the files are committed
\* before the session points at them and deleted only after it points back, whatever
\* fails, dies or overtakes.
RerunWhole ==
  \A q \in Requests : session.current = q /\ publication[q] = "none"
                        => run[q] # "none" /\ thread[q] # "none"

\* A command that was answered with an error and cleaned up has left nothing: no run,
\* thread or event, and neither the session nor a publication knows it.
FailedLeavesNothing ==
  \A q \in Requests : pc[q] = "failed" =>
    /\ run[q] = "none" /\ thread[q] = "none" /\ ~created[q]
    /\ session.current # q
    /\ publication[q] \in {"none", "aborted"}

=============================================================================
