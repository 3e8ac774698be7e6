---------------------------- MODULE RunLifecycle ----------------------------
(***************************************************************************)
(* One Session and its PipelineRun attempts: the user commands of           *)
(* services/runs.py, clarifications.py, approvals.py and                    *)
(* tool_confirmations.py against the workers of services/runtime_dispatch.py*)
(* that drive a run through its LangGraph thread.                           *)
(*                                                                         *)
(* Every API handler is one action.  A worker is the request thread of      *)
(* dispatch_started_run or a daemon thread of resume_async; its step is     *)
(* RuntimeExecutionService._execute, one engine step and the commit of its  *)
(* result, and between two steps any command may commit.  A step in which a *)
(* tool call needs a confirmation is two actions: ToolExecutionGate commits *)
(* the request in the middle of the stage, and the step ends later.         *)
(*                                                                         *)
(* A handler's commits of its database files are one: a process death or a  *)
(* failing commit between two of them is not modelled (RunPublication and   *)
(* EventStream have those of a start and of a command's events).            *)
(***************************************************************************)
EXTENDS Naturals, RunStates

CONSTANTS
  MaxRuns,   \* bound on the attempts of the session (1 run + reruns)
  Outcomes,  \* what the stage agents of this environment may do
  Workers    \* the threads a run may have at once

StageOutcomes == {"completed", "clarification", "tool_confirmation", "failed", "raised"}

ASSUME ConstantsAssumption ==
  /\ MaxRuns \in Nat \ {0}
  /\ Outcomes \subseteq StageOutcomes

Runs == 1..MaxRuns

VARIABLES
  session,     \* control DB: [status, current (0 = null), latest]
  runStatus,   \* runtime DB: PipelineRun.status, "none" before creation
  stageOf,     \* runtime DB: stage type of PipelineRun.current_stage_run_id
  rows,        \* runtime DB: StageRun.status per stage type, "none" = no row
  request,     \* runtime DB: the latest clarification, approval or tool request
  decision,    \* runtime DB: the latest ApprovalDecision behind each gated stage
  recovery,    \* runtime DB: the latest recovery_checkpoint artifact
  thread,      \* graph DB: GraphThread.status
  interrupt,   \* graph DB: status of the latest GraphInterrupt; it is the
               \* thread's current_interrupt_id exactly while it is pending
  checkpoint,  \* graph DB: what GraphThread.last_checkpoint_ref points into
  node,        \* LangGraph checkpointer: the next node of the thread
  worker,      \* memory: what each worker of the run does next, with the
               \* checkpoint ref and the stage of its RuntimeInterrupt
  overtaken    \* history: "answered" once an answer was taken while the worker
               \* that asked was still in its step, "asked_again" once that
               \* worker then made a second request

runtimeVars == <<runStatus, stageOf, rows, request, decision, recovery>>
graphVars == <<thread, interrupt, checkpoint, node>>
workerVars == <<worker, overtaken>>
vars == <<session, runStatus, stageOf, rows, request, decision, recovery,
          thread, interrupt, checkpoint, node, worker, overtaken>>

NoRequest == [kind |-> "none", stage |-> "none", status |-> "none"]
NoRecovery == [run |-> "none", session |-> "none", stage |-> "none", row |-> "none"]
NoRows == [s \in StageTypes |-> "none"]

\* "asking": the request is committed, the step that made it has not ended;
\* "answered": the same, and the request was answered meanwhile.
Jobs == {"next", "reply", "approved", "rejected", "allowed", "denied",
         "asking", "answered"}

\* "langgraph" is a langgraph:// ref, "control" the graph-checkpoint:// ref of a
\* pause, "payload" the payload_ref of a clarification or tool request.
CheckpointRefs == {"none", "langgraph", "control", "payload"}

Work == [job: Jobs \union {"idle"}, ref: CheckpointRefs, stage: StageTypes \union {"none"}]

NoWork == [job |-> "idle", ref |-> "none", stage |-> "none"]
NextStep == [job |-> "next", ref |-> "none", stage |-> "none"]

RequestStatuses == {"pending", "answered", "approved", "rejected", "allowed",
                    "denied", "cancelled"}

TypeOK ==
  /\ session \in [status: RunStatuses \union {"draft"}, current: 0..MaxRuns,
                  latest: StageTypes \union {"none"}]
  /\ runStatus \in [Runs -> RunStatuses \union {"none"}]
  /\ stageOf \in [Runs -> StageTypes \union {"none"}]
  /\ rows \in [Runs -> [StageTypes -> StageStatuses \union {"none"}]]
  /\ request \in [Runs -> [kind: WaitKinds \union {"none"},
                           stage: StageTypes \union {"none"},
                           status: RequestStatuses \union {"none"}]]
  /\ decision \in [Runs -> [GatedStages -> {"none", "approved", "rejected"}]]
  /\ recovery \in [Runs -> [run: RunStatuses \union {"none"},
                            session: RunStatuses \union {"draft", "none"},
                            stage: StageTypes \union {"none"},
                            row: StageStatuses \union {"none"}]]
  /\ thread \in [Runs -> {"none", "running", "interrupted", "paused"}
                           \union TerminalStatuses]
  /\ interrupt \in [Runs -> {"none", "pending", "responded", "cancelled"}]
  /\ checkpoint \in [Runs -> CheckpointRefs]
  /\ node \in [Runs -> Nodes]
  /\ worker \in [Runs -> [Workers -> Work]]
  /\ overtaken \in [Runs -> {"no", "answered", "asked_again"}]

Init ==
  /\ session = [status |-> "draft", current |-> 0, latest |-> "none"]
  /\ runStatus = [r \in Runs |-> "none"]
  /\ stageOf = [r \in Runs |-> "none"]
  /\ rows = [r \in Runs |-> NoRows]
  /\ request = [r \in Runs |-> NoRequest]
  /\ decision = [r \in Runs |-> [s \in GatedStages |-> "none"]]
  /\ recovery = [r \in Runs |-> NoRecovery]
  /\ thread = [r \in Runs |-> "none"]
  /\ interrupt = [r \in Runs |-> "none"]
  /\ checkpoint = [r \in Runs |-> "none"]
  /\ node = [r \in Runs |-> FirstStage]
  /\ worker = [r \in Runs |-> [w \in Workers |-> NoWork]]
  /\ overtaken = [r \in Runs |-> "no"]

-----------------------------------------------------------------------------
(* Workers                                                                  *)

AtWork(r) == {w \in Workers : worker[r][w].job # "idle"}

Idle(r) == AtWork(r) = {}

\* Those whose next step moves the run along the graph.
Driving(r) == {w \in AtWork(r) : worker[r][w].job # "answered"}

\* A worker of r is between the commit of its request and the end of its step.
Asking(r) == \E w \in Workers : worker[r][w].job = "asking"

\* Bound: a run that asked twice for one call has two pending interrupts at once
\* and is followed no further.
Followed(r) == overtaken[r] # "asked_again"

Put(r, w, work) == worker' = [worker EXCEPT ![r][w] = work]

-----------------------------------------------------------------------------
(* The session is a projection of its run, written by hand at every site.   *)

ShowStatus(status) == session' = [session EXCEPT !.status = status]

\* Mutation: latest_stage_type is forgotten.
ShowStatusOnly(status, s) == session' = [session EXCEPT !.status = status]

ShowStage(status, s) == session' = [session EXCEPT !.status = status, !.latest = s]

-----------------------------------------------------------------------------
(* Run creation.  Both commands dispatch the new run after their commit.    *)

\* What start_first_run and create_rerun publish for attempt r.
Publish(r) ==
  /\ session' = [status |-> "running", current |-> r, latest |-> FirstStage]
  /\ runStatus' = [runStatus EXCEPT ![r] = "running"]
  /\ stageOf' = [stageOf EXCEPT ![r] = FirstStage]
  /\ rows' = [rows EXCEPT ![r][FirstStage] = "running"]
  /\ thread' = [thread EXCEPT ![r] = "running"]
  /\ \E w \in Workers : Put(r, w, NextStep)
  /\ UNCHANGED <<request, decision, recovery, interrupt, checkpoint, node, overtaken>>

StartFirstRun ==
  /\ session.status = "draft"
  /\ session.current = 0
  /\ Publish(1)

\* Mutation: any tail the session agrees with may be rerun.
RerunAllowedAnytime(r) == session.status = ProjectSessionStatus(runStatus[r])

\* _assert_can_create_rerun and assert_thread_terminal
RerunAllowed(r) ==
  /\ runStatus[r] \in RerunnableStatuses
  /\ session.status = ProjectSessionStatus(runStatus[r])
  /\ thread[r] \in TerminalStatuses

CreateRerun ==
  /\ session.current \in 1..(MaxRuns - 1)
  /\ RerunAllowed(session.current)
  /\ Publish(session.current + 1)

-----------------------------------------------------------------------------
(* Pause, resume, terminate                                                 *)

\* _load_active_run_context: the run the session shows, with a current stage.
ActiveContext(r) ==
  /\ session.current = r
  /\ stageOf[r] # "none"

\* Mutation: the checkpoint is written after run.status was assigned.
RecoveryOfPaused(r) ==
  [run |-> "paused", session |-> session.status,
   stage |-> stageOf[r], row |-> rows[r][stageOf[r]]]

\* _persist_recovery_checkpoint
RecoveryOf(r) ==
  [run |-> runStatus[r], session |-> session.status,
   stage |-> stageOf[r], row |-> rows[r][stageOf[r]]]

PauseRun(r) ==
  /\ Followed(r)
  /\ ActiveContext(r)
  /\ runStatus[r] \in {"running"} \union WaitingStatuses
  /\ session.status = ProjectSessionStatus(runStatus[r])
  /\ recovery' = [recovery EXCEPT ![r] = RecoveryOf(r)]
  /\ runStatus' = [runStatus EXCEPT ![r] = "paused"]
  /\ ShowStatus("paused")
  /\ thread' = [thread EXCEPT ![r] = "paused"]
  /\ checkpoint' = [checkpoint EXCEPT ![r] = "control"]
  /\ UNCHANGED <<stageOf, rows, request, decision, interrupt, node, workerVars>>

\* _validate_recovery_checkpoint: the stored stage is still the current one and
\* has the stored status.
RecoveryUsable(r) ==
  /\ recovery[r].stage = stageOf[r]
  /\ recovery[r].run \in {"running"} \union WaitingStatuses
  /\ recovery[r].session = ProjectSessionStatus(recovery[r].run)
  /\ recovery[r].row = rows[r][stageOf[r]]

\* Mutation: a resumed thread runs, whatever it was waiting for.
ResumedThreadRuns(r) == "running"

\* _resume_thread_model_status
ResumedThread(r) == IF interrupt[r] = "pending" THEN "interrupted" ELSE "running"

\* The route starts no worker: only one that was already driving the run, or a
\* later answer, continues it.
ResumeRun(r) ==
  /\ Followed(r)
  /\ ActiveContext(r)
  /\ runStatus[r] = "paused"
  /\ session.status = "paused"
  /\ RecoveryUsable(r)
  /\ runStatus' = [runStatus EXCEPT ![r] = recovery[r].run]
  /\ ShowStatus(ProjectSessionStatus(recovery[r].run))
  /\ thread' = [thread EXCEPT ![r] = ResumedThread(r)]
  /\ checkpoint' = [checkpoint EXCEPT ![r] = "control"]
  /\ UNCHANGED <<stageOf, rows, request, decision, recovery, interrupt, node, workerVars>>

\* Mutation: what waits is left waiting.
KeepPending(status) == status

CancelPending(status) == IF status = "pending" THEN "cancelled" ELSE status

\* cancel_for_terminal_run: a pending approval or clarification is kept as history;
\* a pending tool confirmation is cancelled.
CancelConfirmation(r) ==
  request' = [request EXCEPT ![r].status =
                IF request[r].kind = "tool_confirmation" THEN CancelPending(@) ELSE @]

TerminateRun(r) ==
  /\ Followed(r)
  /\ ActiveContext(r)
  /\ runStatus[r] \in ActiveStatuses
  /\ session.status = ProjectSessionStatus(runStatus[r])
  /\ runStatus' = [runStatus EXCEPT ![r] = "terminated"]
  /\ rows' = [rows EXCEPT ![r][stageOf[r]] = "terminated"]
  /\ ShowStatus("terminated")
  /\ thread' = [thread EXCEPT ![r] = "terminated"]
  /\ interrupt' = [interrupt EXCEPT ![r] = CancelPending(@)]
  /\ CancelConfirmation(r)
  /\ UNCHANGED <<stageOf, decision, recovery, checkpoint, node, workerVars>>

-----------------------------------------------------------------------------
(* Answers.  Each resolves the pending request, puts the run back to RUNNING*)
(* and hands a RuntimeInterrupt to a new worker; the graph interrupt stays  *)
(* pending until that worker runs.  No handler asks whether the worker that *)
(* made the request has ended its step: resume_async starts another one.    *)

\* Mutation: the pending rows are trusted, the statuses are not looked at.
AnswerableByRows(r, kind) ==
  /\ request[r].kind = kind
  /\ request[r].status = "pending"
  /\ interrupt[r] = "pending"

\* Every answering handler checks the session, the run, its request row, the
\* current stage and the graph interrupt.
Answerable(r, kind) ==
  /\ session.current = r
  /\ session.status = WaitingStatus(kind)
  /\ runStatus[r] = WaitingStatus(kind)
  /\ request[r].kind = kind
  /\ request[r].status = "pending"
  /\ request[r].stage = stageOf[r]
  /\ interrupt[r] = "pending"

\* The new worker w, and what becomes of the others: one that is still asking
\* finds its request answered.
ResumeAsync(r, job) ==
  \E w \in Workers \ AtWork(r) :
    worker' = [worker EXCEPT ![r] =
      [u \in Workers |->
         IF u = w THEN [job |-> job, ref |-> checkpoint[r], stage |-> stageOf[r]]
         ELSE IF @[u].job = "asking" THEN [@[u] EXCEPT !.job = "answered"] ELSE @[u]]]

Answer(r, status, row, job) ==
  /\ request' = [request EXCEPT ![r].status = status]
  /\ runStatus' = [runStatus EXCEPT ![r] = "running"]
  /\ rows' = [rows EXCEPT ![r][stageOf[r]] = row]
  /\ ShowStatus("running")
  /\ ResumeAsync(r, job)
  /\ overtaken' = [overtaken EXCEPT ![r] = IF Asking(r) THEN "answered" ELSE @]
  /\ UNCHANGED <<stageOf, recovery, graphVars>>

AnswerClarification(r) ==
  /\ Followed(r)
  /\ Answerable(r, "clarification")
  /\ stageOf[r] = FirstStage
  /\ session.latest = FirstStage
  /\ rows[r][stageOf[r]] = "waiting_clarification"
  /\ Answer(r, "answered", "running", "reply")
  /\ UNCHANGED decision

\* approve or reject; the source stage is COMPLETED either way.
SubmitApproval(r, verdict) ==
  /\ Followed(r)
  /\ Answerable(r, "approval")
  /\ stageOf[r] \in GatedStages
  /\ Answer(r, verdict, "completed", verdict)
  /\ decision' = [decision EXCEPT ![r][stageOf[r]] = verdict]

SubmitToolConfirmation(r, verdict) ==
  /\ Followed(r)
  /\ Answerable(r, "tool_confirmation")
  /\ rows[r][stageOf[r]] = "waiting_tool_confirmation"
  /\ Answer(r, verdict, "running", verdict)
  /\ UNCHANGED decision

-----------------------------------------------------------------------------
(* Worker: the end of a step and the failure projection                     *)

\* Mutation: the loop goes on after any result.
LeaveRunning(r, w) == Put(r, w, NextStep)

\* Only a COMPLETED step is continued by run_next; any other result, and an
\* exception, end the thread.
Leave(r, w) == Put(r, w, NoWork)

\* _mark_execution_failed, on top of what the step already flushed (rs, st, it):
\* no status of the run or the session is checked first.  (A failed thread's
\* node and checkpoint are never read again.)
MarkFailed(r, w, rs, st, it) ==
  /\ runStatus' = [runStatus EXCEPT ![r] = "failed"]
  /\ stageOf' = st
  /\ rows' = [rs EXCEPT ![r][st[r]] = "failed"]
  /\ ShowStage("failed", st[r])
  /\ thread' = [thread EXCEPT ![r] = "failed"]
  /\ interrupt' = [it EXCEPT ![r] = CancelPending(@)]
  /\ Leave(r, w)
  /\ UNCHANGED <<request, decision, recovery, checkpoint, node, overtaken>>

\* The step raised: what it flushed since its last commit is rolled back, then
\* the run is failed.  A completed run has no current stage: the failure cannot
\* be projected either, and the thread just ends.
FailRolledBack(r, w) ==
  IF stageOf[r] # "none"
  THEN MarkFailed(r, w, rows, stageOf, interrupt)
  ELSE Leave(r, w) /\ UNCHANGED <<session, runtimeVars, graphVars, overtaken>>

-----------------------------------------------------------------------------
(* Worker: one stage.  "resumed" says the step answers the graph interrupt  *)
(* first (GraphRuntimeCommandPort._resume, which checks no status).         *)

\* _ensure_stage: a missing row is started and becomes the current stage; an
\* existing row of the same type is taken as it is.
StartedRows(r, s) == IF rows[r][s] = "none" THEN [rows EXCEPT ![r][s] = "running"] ELSE rows
StartedStage(r, s) == IF rows[r][s] = "none" THEN [stageOf EXCEPT ![r] = s] ELSE stageOf

Responded(r, resumed) == IF resumed THEN [interrupt EXCEPT ![r] = "responded"] ELSE interrupt

\* _project_step_result
StageCompletes(r, w, s, resumed) ==
  /\ "completed" \in Outcomes
  /\ runStatus' = [runStatus EXCEPT ![r] = "running"]
  /\ stageOf' = [stageOf EXCEPT ![r] = s]
  /\ rows' = [rows EXCEPT ![r][s] = "completed"]
  /\ ShowStage("running", s)
  /\ thread' = [thread EXCEPT ![r] = IF resumed THEN "running" ELSE @]
  /\ interrupt' = Responded(r, resumed)
  /\ checkpoint' = [checkpoint EXCEPT ![r] = "langgraph"]
  /\ node' = [node EXCEPT ![r] = SuccessNode[s]]
  /\ Put(r, w, NextStep)
  /\ UNCHANGED <<request, decision, recovery, overtaken>>

\* assert_can_request_clarification and _assert_running_target
Requestable(r, s, kind) ==
  /\ session.current = r
  /\ session.status = "running"
  /\ runStatus[r] = "running"
  /\ StartedStage(r, s)[r] = s
  /\ StartedRows(r, s)[r][s] = "running"
  /\ kind = "clarification" => s = FirstStage /\ session.latest = FirstStage

\* What the agent of stage s may ask for: its contract allows a clarification
\* only in requirement_analysis, a tool confirmation anywhere.
MayAskFor(s, kind) ==
  /\ kind \in Outcomes
  /\ kind = "clarification" => s = FirstStage

\* create_interrupt: the thread points to the new interrupt, and to the checkpoint
\* it was given.
CreateInterrupt(r, ref) ==
  /\ thread' = [thread EXCEPT ![r] = "interrupted"]
  /\ interrupt' = [interrupt EXCEPT ![r] = "pending"]
  /\ checkpoint' = [checkpoint EXCEPT ![r] = ref]

\* The row of the request, in the transaction that makes the run wait.
CreateRequest(r, kind, s) ==
  request' = [request EXCEPT ![r] = [kind |-> kind, stage |-> s, status |-> "pending"]]

\* The run, its stage s and the session show that r waits.
ShowWaiting(r, s, kind) ==
  /\ runStatus' = [runStatus EXCEPT ![r] = WaitingStatus(kind)]
  /\ stageOf' = [stageOf EXCEPT ![r] = s]
  /\ rows' = [rows EXCEPT ![r][s] = WaitingStatus(kind)]
  /\ ShowStage(WaitingStatus(kind), s)

\* ToolExecutionGate asks for a confirmation in the middle of stage s:
\* create_request commits every file and the stage agent works on.  (Where
\* create_request refuses, the gate turns the refusal into a tool result and the
\* stage goes on to one of its other outcomes.)
RequestConfirmation(r, w, s) ==
  /\ MayAskFor(s, "tool_confirmation")
  /\ Requestable(r, s, "tool_confirmation")
  /\ ShowWaiting(r, s, "tool_confirmation")
  /\ CreateRequest(r, "tool_confirmation", s)
  /\ CreateInterrupt(r, "payload")
  /\ Put(r, w, [job |-> "asking", ref |-> "none", stage |-> s])
  /\ UNCHANGED <<decision, recovery, node, overtaken>>

\* A stage result that waits: request_clarification, or create_request for a
\* confirmation the model itself asked for.  Both commit as the last effect of
\* the step; what follows in _execute changes nothing.
StageWaits(r, w, s, kind) ==
  /\ MayAskFor(s, kind)
  /\ Requestable(r, s, kind)
  /\ ShowWaiting(r, s, kind)
  /\ CreateRequest(r, kind, s)
  /\ CreateInterrupt(r, "payload")
  /\ node' = [node EXCEPT ![r] = "blocked"]
  /\ Leave(r, w)
  /\ UNCHANGED <<decision, recovery>>

WaitRefused(r, w, s, kind) ==
  /\ MayAskFor(s, kind)
  /\ ~Requestable(r, s, kind)
  /\ FailRolledBack(r, w)

\* A FAILED stage result is committed with the failure of the run; the stage
\* that fails is the run's current one, which is s only if s was started.
StageFails(r, w, s, resumed) ==
  /\ "failed" \in Outcomes
  /\ MarkFailed(r, w, StartedRows(r, s), StartedStage(r, s), Responded(r, resumed))

StageRaises(r, w) ==
  /\ "raised" \in Outcomes
  /\ FailRolledBack(r, w)

RunStage(r, w, s, resumed) ==
  \/ StageCompletes(r, w, s, resumed)
  \/ RequestConfirmation(r, w, s)
  \/ \E kind \in {"clarification", "tool_confirmation"} :
        \/ StageWaits(r, w, s, kind) /\ UNCHANGED overtaken
        \/ WaitRefused(r, w, s, kind)
  \/ StageFails(r, w, s, resumed)
  \/ StageRaises(r, w)

-----------------------------------------------------------------------------
(* Worker: the end of a step whose request is already committed             *)

\* _tool_confirmation_already_requested: the request of this step, still pending
OwnPending(r, w) == worker[r][w].job = "asking" /\ request[r].status = "pending"

\* _project_step_result, whatever the run has become: it waits (again).
FinishAsking(r, w) ==
  /\ Followed(r)
  /\ OwnPending(r, w)
  /\ ShowWaiting(r, worker[r][w].stage, "tool_confirmation")
  /\ node' = [node EXCEPT ![r] = "blocked"]
  /\ Leave(r, w)
  /\ UNCHANGED <<request, decision, recovery, thread, interrupt, checkpoint, overtaken>>

\* The request was answered or cancelled meanwhile: it is made a second time, or
\* refused.
AskAgain(r, w) ==
  /\ Followed(r)
  /\ worker[r][w].job \in {"asking", "answered"}
  /\ ~OwnPending(r, w)
  /\ \/ /\ StageWaits(r, w, worker[r][w].stage, "tool_confirmation")
        /\ overtaken' = [overtaken EXCEPT ![r] = "asked_again"]
     \/ WaitRefused(r, w, worker[r][w].stage, "tool_confirmation")

\* An exception after create_request: the rollback does not reach what it committed.
AskingRaises(r, w) ==
  /\ Followed(r)
  /\ worker[r][w].job \in {"asking", "answered"}
  /\ StageRaises(r, w)

-----------------------------------------------------------------------------
(* Worker: start and run_next                                               *)

\* _thread_status: an "interrupted" thread reads as the status of its run.
ThreadRefStatus(r) == IF thread[r] = "interrupted" THEN runStatus[r] ELSE thread[r]

RunNextStage(r, w) ==
  /\ Followed(r)
  /\ worker[r][w].job = "next"
  /\ ThreadRefStatus(r) = "running"
  /\ node[r] \in StageTypes
  /\ RunStage(r, w, node[r], FALSE)

\* _project_interrupt_result and _maybe_materialize_runtime_approval_request
EnterGate(r, w) ==
  /\ Followed(r)
  /\ worker[r][w].job = "next"
  /\ ThreadRefStatus(r) = "running"
  /\ node[r] \in Gates
  /\ ShowWaiting(r, GateSource(node[r]), "approval")
  /\ CreateRequest(r, "approval", GateSource(node[r]))
  /\ CreateInterrupt(r, "langgraph")
  /\ Leave(r, w)
  /\ UNCHANGED <<decision, recovery, node, overtaken>>

\* Mutation: the current stage of the completed run is kept.
CompleteRunKeepsStage(r, w) ==
  /\ Followed(r)
  /\ worker[r][w].job = "next"
  /\ ThreadRefStatus(r) = "running"
  /\ node[r] = "end"
  /\ runStatus' = [runStatus EXCEPT ![r] = "completed"]
  /\ ShowStatus("completed")
  /\ thread' = [thread EXCEPT ![r] = "completed"]
  /\ Leave(r, w)
  /\ UNCHANGED <<stageOf, rows, request, decision, recovery, interrupt, checkpoint, node, overtaken>>

\* _project_terminal_result
CompleteRun(r, w) ==
  /\ Followed(r)
  /\ worker[r][w].job = "next"
  /\ ThreadRefStatus(r) = "running"
  /\ node[r] = "end"
  /\ runStatus' = [runStatus EXCEPT ![r] = "completed"]
  /\ stageOf' = [stageOf EXCEPT ![r] = "none"]
  /\ ShowStatus("completed")
  /\ thread' = [thread EXCEPT ![r] = "completed"]
  /\ Leave(r, w)
  /\ UNCHANGED <<rows, request, decision, recovery, interrupt, checkpoint, node, overtaken>>

\* _validate_context raises: the thread was paused or ended under the worker.
RunNextRefused(r, w) ==
  /\ Followed(r)
  /\ worker[r][w].job = "next"
  /\ ThreadRefStatus(r) # "running"
  /\ FailRolledBack(r, w)

-----------------------------------------------------------------------------
(* Worker: resume.  The context comes from the RuntimeInterrupt, never from *)
(* the rows, except that the run must have a current stage.                 *)

\* resume_graph_interrupt, for a token that points into LangGraph
ResumeApproval(r, w) ==
  /\ Followed(r)
  /\ worker[r][w].job \in {"approved", "rejected"}
  /\ worker[r][w].ref = "langgraph"
  /\ stageOf[r] # "none"
  /\ RunStage(r, w, IF worker[r][w].job = "approved"
                    THEN ApprovedTarget(worker[r][w].stage)
                    ELSE RejectedTarget(worker[r][w].stage), TRUE)

\* resume_stage_tool_confirmation reads no checkpoint ref.
ResumeToolConfirmation(r, w) ==
  /\ Followed(r)
  /\ worker[r][w].job = "allowed"
  /\ stageOf[r] # "none"
  /\ RunStage(r, w, worker[r][w].stage, TRUE)

\* langgraph_checkpoint_config_from_ref raises.  A reply and a denial always end
\* here: their checkpoint ref is the request's payload_ref, or a pause's.
ResumeRefused(r, w) ==
  /\ Followed(r)
  /\ worker[r][w].job \in {"reply", "denied", "approved", "rejected", "allowed"}
  /\ \/ worker[r][w].job # "allowed" /\ worker[r][w].ref # "langgraph"
     \/ stageOf[r] = "none"
  /\ FailRolledBack(r, w)

-----------------------------------------------------------------------------

\* The process dies: request threads and daemon threads are gone, and startup
\* restores none of them.
Crash ==
  /\ \E r \in Runs : ~Idle(r)
  /\ worker' = [r \in Runs |-> [w \in Workers |-> NoWork]]
  /\ UNCHANGED <<session, runtimeVars, graphVars, overtaken>>

Worker(r, w) ==
  \/ RunNextStage(r, w)
  \/ EnterGate(r, w)
  \/ CompleteRun(r, w)
  \/ RunNextRefused(r, w)
  \/ ResumeApproval(r, w)
  \/ ResumeToolConfirmation(r, w)
  \/ ResumeRefused(r, w)
  \/ FinishAsking(r, w)
  \/ AskAgain(r, w)
  \/ AskingRaises(r, w)

AnAnswer(r) ==
  \/ AnswerClarification(r)
  \/ \E verdict \in {"approved", "rejected"} : SubmitApproval(r, verdict)
  \/ \E verdict \in {"allowed", "denied"} : SubmitToolConfirmation(r, verdict)

Interruption(r) == PauseRun(r) \/ TerminateRun(r)

Next ==
  \/ StartFirstRun
  \/ CreateRerun
  \/ \E r \in Runs :
        \/ ResumeRun(r) \/ AnAnswer(r) \/ Interruption(r)
        \/ \E w \in Workers : Worker(r, w)
  \/ Crash

\* Workers are plain threads and every step of one is finite.
Fairness == \A r \in Runs, w \in Workers : WF_vars(Worker(r, w))

Spec == Init /\ [][Next]_vars

FairSpec == Spec /\ Fairness

\* The environment in which pause, terminate and answers only arrive while no
\* worker drives the run.  Nothing in the code enforces it.
QuietNext ==
  \/ StartFirstRun
  \/ CreateRerun
  \/ \E r \in Runs :
        \/ ResumeRun(r)
        \/ Idle(r) /\ (AnAnswer(r) \/ Interruption(r))
        \/ \E w \in Workers : Worker(r, w)
  \/ Crash

QuietSpec == Init /\ [][QuietNext]_vars
-----------------------------------------------------------------------------
(* What every interleaving keeps (Spec).  An answer that overtakes the      *)
(* worker that asked puts a second worker on the run: what does not hold    *)
(* then names Undisturbed.                                                  *)

Terminal(r) == runStatus[r] \in TerminalStatuses
Active(r) == runStatus[r] \in ActiveStatuses
Undisturbed(r) == overtaken[r] = "no"

\* No work behind a human approval gate exists unless the latest decision at
\* that gate approved it: the stage rows and the LangGraph node of a run get past
\* solution_design or code_review only through an approved ApprovalDecision,
\* whatever was paused, rejected, reworked or crashed on the way.
GateIntegrity ==
  \A r \in Runs : \A gate \in GatedStages :
    \/ decision[r][gate] = "approved"
    \/ /\ node[r] \notin BehindGate(gate)
       /\ \A s \in BehindGate(gate) \intersect StageTypes : rows[r][s] = "none"

\* A run that says it waits can be answered, already while the step that asked is
\* still at work: the request row, the stage row and the interrupt, written by
\* three services, agree with the waiting status.  The thread is interrupted, or
\* still paused where a pause met that step, whose end makes the run wait again
\* and leaves the thread alone.
WaitCoherent ==
  \A r \in Runs : Undisturbed(r) =>
    \A kind \in WaitKinds : runStatus[r] = WaitingStatus(kind) =>
      /\ request[r] = [kind |-> kind, stage |-> stageOf[r], status |-> "pending"]
      /\ rows[r][stageOf[r]] = runStatus[r]
      /\ thread[r] \in {"interrupted", "paused"}
      /\ interrupt[r] = "pending"

\* Once a run has ended, its graph thread has ended the same way and nothing is
\* left that could be answered.  Two things stay: pending approvals and
\* clarifications, as history, and the pending confirmation of a step that
\* failed after its request was committed.
TerminalClean ==
  \A r \in Runs : Terminal(r) =>
    /\ thread[r] = runStatus[r]
    /\ interrupt[r] # "pending"
    /\ request[r].kind = "tool_confirmation" /\ request[r].status = "pending"
         => runStatus[r] = "failed"

\* A completed run is final: neither a late worker nor a command of a later
\* attempt takes the run or its thread out of COMPLETED.
CompletedIsFinal ==
  [][\A r \in Runs : runStatus[r] = "completed" =>
       runStatus'[r] = "completed" /\ thread'[r] = "completed"]_vars

\* At most one worker drives a run, and while a request can be answered, and so
\* start a worker, the driving one is the one that made the request and is
\* finishing its step.  A worker beside it exists only where a confirmation was
\* answered before the step that asked for it ended.
OneDriver ==
  \A r \in Runs : Followed(r) =>
    /\ \A u, w \in Driving(r) : u = w
    /\ request[r].status = "pending" => \A w \in Driving(r) : worker[r][w].job = "asking"
    /\ Undisturbed(r) => AtWork(r) = Driving(r)

\* A worker always comes to rest: the steps of run_next and resume cannot go on
\* for ever without a person's answer, although rejected gates lead backwards.
WorkersComeToRest ==
  \A r \in Runs : ~Idle(r) ~> Idle(r) \/ ~Undisturbed(r)

-----------------------------------------------------------------------------
(* What holds while pause, terminate and answers only meet idle runs        *)
(* (QuietSpec)                                                              *)

\* The session is a summary of its current run: the projected status and, until
\* the run completes, the stage the run is at.
SessionProjectsRun ==
  IF session.current = 0
  THEN session.status = "draft"
  ELSE LET r == session.current
       IN /\ session.status = ProjectSessionStatus(runStatus[r])
          /\ runStatus[r] # "completed" => session.latest = stageOf[r]

\* At most one attempt of the session is active, and it is the current one; a
\* worker only ever drives that attempt, and only while it is RUNNING or waits
\* for the confirmation the worker has just asked for.
OneActiveRun ==
  \A r \in Runs :
    /\ Active(r) => session.current = r
    /\ \A w \in AtWork(r) :
         runStatus[r] = IF worker[r][w].job = "asking"
                        THEN "waiting_tool_confirmation" ELSE "running"

\* A paused run can be resumed: resume_run finds the recovery checkpoint valid
\* and the session in the status it requires.
PausedResumable ==
  \A r \in Runs : runStatus[r] = "paused" =>
    ActiveContext(r) /\ session.status = "paused" /\ RecoveryUsable(r)

\* A completed run went through the whole chain: all six stages completed and
\* both gates approved.
CompletedThroughChain ==
  \A r \in Runs : runStatus[r] = "completed" =>
    /\ \A s \in StageTypes : rows[r][s] = "completed"
    /\ \A gate \in GatedStages : decision[r][gate] = "approved"

\* The services keep the contract of the state machine, which none of them
\* consults when it assigns a status: statuses move along the table, one attempt
\* after the other, the session always shows the current attempt, and a resumed
\* run is back in the status it was paused in.
Contract == INSTANCE RunContract WITH
  current <- session.current, status <- runStatus, shown <- session.status,
  before <- [r \in Runs |-> recovery[r].run]

KeepsContract == Contract!Spec

-----------------------------------------------------------------------------
(* What the documents promise and the code does not keep                    *)

\* "a control command takes effect at the next safe point": a paused run stays
\* paused until it is resumed or terminated.
PauseHolds ==
  [][\A r \in Runs : runStatus[r] = "paused" =>
       \/ runStatus'[r] \in {"paused", "terminated"}
       \/ ResumeRun(r)]_vars

\* "after a clarification reply the run goes back to RUNNING and continues the same
\* Requirement Analysis stage": the worker a reply starts does not fail the run.
ReplyContinues ==
  [][\A r \in Runs, w \in Workers :
        worker[r][w].job = "reply" /\ worker'[r][w].job # "reply"
        => runStatus'[r] # "failed"]_vars

\* "allow must ... resume the same GraphThread": where no stage fails of itself, a
\* run that goes on after an allowed confirmation is not failed.
AllowContinues ==
  [][\A r \in Runs :
        runStatus[r] = "running" /\ request[r].kind = "tool_confirmation"
          /\ request[r].status = "allowed"
        => runStatus'[r] # "failed"]_vars

=============================================================================
