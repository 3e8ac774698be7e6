# Verification of the AI devflow engine

This directory holds TLA+ models of the backend in `src/backend/app`, of the
part of the page that follows a run, and of the coordination store in
`src/.codex`; the TLC runs that check them; and the theorems TLAPS proves about
every component that has a module of its own. The backend takes a requirement,
drives it through six stages with a language model and stops for a person at two
approval gates, at clarifications and at risky tool calls. What is hard about it
is not one stage but what happens at the same time: user commands, request
threads and daemon threads write the same rows through SQLite files that have no
common transaction, and no lock, version or state machine stands between them.
That is what the models are about.

## Inventory

| Part | State it keeps | Operations | What makes it correct | Module |
|---|---|---|---|---|
| Domain state machine (`domain/state_machine.py`) | none | transition table, session projection, start and rerun preconditions | every service moves runs along the table | `RunContract`, `RunStates` |
| Run lifecycle (`services/runs.py`) | `PipelineRun`, `StageRun`, `Session`, recovery checkpoint artifacts | start, pause, resume, terminate, rerun | one active run per session, a paused run can be resumed, an ended run is ended everywhere | `RunLifecycle` |
| Publication boundary (`services/publication_boundary.py`) | `StartupPublication` (control DB) | claim, publish, abort, read filters | nobody sees half a run; one start wins | `RunPublication` |
| Execution service (`services/runtime_dispatch.py`), graph ports, engine | worker threads, `GraphThread`, `GraphInterrupt`, LangGraph checkpoints | dispatch, run_next, resume, projections of results and failures | one worker drives a run, every worker stops, nothing passes a closed gate | `RunLifecycle` |
| Clarifications, approvals, tool confirmations | their request rows | request, answer, cancel | an answer meets the request it was given for, once | `RunLifecycle`, `StageAgent` |
| Stage agent (`runtime/stage_agent.py`, `agent_decision.py`) | one activation in memory, process records | iterate, parse, repair, run a batch of calls, wait | bounded, and completes only on real evidence | `StageAgent`, `AgentDecision` |
| Provider calls (`providers/`) | breaker states in memory | retry loop, circuit breaker, reading a response | bounded attempts, an open breaker ends the stage | `ProviderCall` |
| Tool gate and workspace tools (`tools/`, `workspace/`) | audit rows, files | the checks before a tool runs, the tools | no risky call without its own grant, no effect without its intent on record | `ToolRisk`, `WorkspaceTools`, `StageAgent` |
| Event store and stream (`services/events.py`, `api/routes/events.py`) and the page that follows it (`frontend`) | domain events, sequence numbers, cursor, page state | append, commit, replay, live delivery, refetch | every event once, in order; the page agrees with the rows | `EventStream` |
| Delivery (`services/delivery*.py`, `delivery/`) | channel, snapshot, delivery records, git side effects | save, validate, freeze; branch, commit, push, review | what is frozen was checked; a retry repeats no effect | `DeliveryChannel`, `Delivery`, `DeliveryPromise` |
| Templates, providers, packages, settings | their control rows | save, delete, import, select, freeze | what a run freezes was configured while it started | `Configuration` |
| Projects and sessions (`services/projects.py`, `sessions.py`) | `Project`, `Session` | load, create, remove and undo a removal | nothing is removed under an active or starting run | `ProjectRemoval`, `RunPublication` |
| Coordination store (`.codex/skills/acceleration-workflow`) | claims, branches, worktrees | claim, report, ingest, sync, advance | advancing adds no second unfinished claim to a lane or a task; only committed work is ingested | `Coordination` |

`PROJECT.json` lists every component, those left out with the reason.

How the parts interact: a route calls one service, which stages its rows in up
to four SQLAlchemy sessions, appends events and commits the files one after the
other. Start and rerun then call the execution service in the request thread;
answers hand it a `RuntimeInterrupt` in a new daemon thread. A worker loops over
engine steps until a stage waits, fails or the graph ends, and writes every
result back through the same services. A stage is one call of the stage agent,
which calls the provider and the tool gate. Events reach the page by a stream
that polls the event file.

What is hard, and is therefore modelled: a command that commits between two
steps of a worker, or inside one; context carried in an argument after the rows changed; writes
that must agree across databases; a commit that fails, or a process that dies,
between two files; two requests that read the same rows; a call that times out
after its effect; sequences of pause, resume, reject and answer that no test
strings together. The list of hazards in `PROJECT.json` names each at its line.

## Modules

```
RunStates <- RunContract, RunLifecycle
RunLifecycle    <- MCRunLifecycle,   RunLifecycle_proofs
RunPublication  <- MCRunPublication, RunPublication_proofs
ToolRisk <- WorkspaceTools \
AgentDecision ------------- StageAgent <- MCStageAgent, StageAgent_proofs
ProviderCall -------------/
EventStream     <- MCEventStream,    EventStream_proofs
DeliveryChannel <- Delivery <- MCDelivery, Delivery_proofs
Configuration   <- MCConfiguration,  Configuration_proofs
ProjectRemoval  <- MCProjectRemoval, ProjectRemoval_proofs
Coordination    <- MCCoordination,   Coordination_proofs
```

The arrows are EXTENDS. Two modules are abstract specifications and taken by
INSTANCE with a refinement mapping: `RunContract` by `RunLifecycle` and
`DeliveryPromise` by `Delivery`. The MC modules only add the values TLC needs; the
proof modules hold the inductive invariants, the lemmas and the theorems.
`RunStates` holds what the first modules share: statuses, the transition
table, the static graph of six stages and two gates.

`RunContract` is the abstract specification: a session, its attempts and their
statuses, moving along the table of `RunStateMachine`. It departs from the
table in one rule the services have and the table does not: the table takes a
paused run to RUNNING, `resume_run` takes it back to the status it was paused in.

`RunLifecycle` is the core: one session and up to `MaxRuns` attempts.

| Variable | Stored in | Code |
|---|---|---|
| `session` | control DB | `SessionModel.status`, `.current_run_id`, `.latest_stage_type` |
| `runStatus`, `stageOf`, `rows` | runtime DB | `PipelineRun.status`, `.current_stage_run_id`, `StageRun.status` per stage type |
| `request`, `decision` | runtime DB | the latest clarification, approval or tool request and the latest approval decisions |
| `recovery` | runtime DB | the latest `recovery_checkpoint` artifact |
| `thread`, `interrupt`, `checkpoint` | graph DB | `GraphThread.status`, the latest `GraphInterrupt`, what `last_checkpoint_ref` points into |
| `node` | LangGraph's checkpointer | the next node of the thread |
| `worker` | memory | for each thread of the run what it does next, with the checkpoint reference and the stage of its `RuntimeInterrupt` |
| `overtaken` | history | whether an answer was taken before the step that asked for it had ended |

Each handler is one action (`StartFirstRun`, `CreateRerun`, `PauseRun`,
`ResumeRun`, `TerminateRun`, `AnswerClarification`, `SubmitApproval`,
`SubmitToolConfirmation`), and so is each `_execute` of a worker, split by what
it meets: a stage (`RunNextStage`), a gate (`EnterGate`), the end
(`CompleteRun`), a thread that no longer runs (`RunNextRefused`), an answer
(`ResumeApproval`, `ResumeToolConfirmation`) or an answer it cannot use
(`ResumeRefused`). A stage completes, asks, fails or raises as the constant
`Outcomes` allows. `Crash` takes every worker away and startup brings none back.

A step that needs a tool confirmation is two actions. `RequestConfirmation` is the
tool gate in the middle of the stage: `create_request` commits the request and the
waiting statuses of run, stage and session while the agent works on (the worker is
now "asking"). The step ends later, and between the two everything else may
happen. `FinishAsking` is the ordinary end: the request is still pending, and
`_project_step_result` makes the run wait again, whatever it has become. If it was
answered or cancelled meanwhile, the end of the step asks a second time
(`AskAgain`), which succeeds where the new worker has not moved the stage on and
otherwise raises. `AskingRaises` is an exception in that window, whose rollback
does not reach the request. An answer in the window starts a second worker: a run
has as many as `Workers` holds. A run is `Undisturbed` until that happens, and
`Followed` until its step has asked twice; such a run has two pending interrupts at
once and the model stops there. A clarification, an approval and a confirmation the
model itself asked for are committed by the last effect of their step, so there the
request and the end are one action. So are the commits of one handler's files.

`RunPublication` looks inside the two commands that create runs. There every
commit of the control, runtime, graph and event file is an action of its own,
any of them may fail, and the process may die between two. `writer` stands for
the write locks a request takes when it first flushes (repositories and the
event store flush): stagings are serialised, the reads before them are not, and
they are never repeated, because sessions do not expire on commit and rows have
no version. `DeleteSession` and `AuditRemoval` are the removal and the undoing of
a removal that could not be audited.

`StageAgent` opens the stage that is one step in `RunLifecycle`.

| Variable | Code |
|---|---|
| `status`, `trace`, `answer` | `StageRun.status`, the stored process records (the confirmation they hold), the answer to the last wait |
| `pc`, `iteration`, `types`, `repairs`, `results`, `decision`, `batch`, `intent` | locals of one `StageAgentRuntime` activation |
| `attempt`, `breaker` | the retry loop and the breaker of the activation's adapter |
| `asked`, `effects`, `acted` | history: what the user was asked, what ran, what is evidence |

Every pass of the loop is an action: build the request, call the model
(`ProviderCall` says which failures are tried again and what a response is read
as), handle the decision (`AgentDecision` says which one the parser accepts or
why it refuses), then take the calls of a batch one by one through the gate
(`ToolRisk` for the level, the grant, the audit intent) to the tool
(`WorkspaceTools`, the set of results a tool can hand back and whether it acted).
`Activate` is the stage node; after a wait it runs only for the answer
`_should_resume_stage_tool_confirmation` lets through, any other answer ends in
`ResumeRefused`. The process may die at any point. Paths and commands are the
classes the policies tell apart, never strings.

`EventStream` is one session between the commands that append events and the
page. The log, the rows a command has flushed and the batch a stream has read are
sets of events, as the event table is: whatever order there is comes from the
numbers. `writer` holds a command's rows as it read them and its staged events; it
takes the sequence lock and the write lock of the event file, commits database
by database and gives the locks back. `stream` is the server's side of the
open connection, `page` the store of the workspace page (snapshot, reducer,
cursor). A command may fail, the process may die, the connection may be lost, the
page may refetch. A command fails before anything of it is committed, between two
commits of a start, or after its rows and before its events: then nobody died, the
rows stay and the events are lost. `astray` records what can part log and page for
reasons no stream could repair, such lost events among them; the agreement
properties speak of pages nothing of that happened to, and the section on what does
not hold lists them.

`DeliveryChannel` is the channel of a project with requests that load its row,
change their copy and write back the changed columns, and the snapshot an
approval freezes. `Delivery` extends it with the deliveries themselves: one
action per tool of the git adapter, each of which may fail before or after its
effect, the demo adapter, the record and its event, and a restart that ends
every delivery under way. The application wires only the demo adapter; the git
adapter is modelled as its tests and services drive it.

`DeliveryPromise` is what these two modules come to: the channel is approved once;
a git delivery branches, commits there, pushes and asks for one review in the
approved repository, each once and in this order; success is told behind the last
and announced after that. The mapping reads the approval off the snapshot, the stage
of the work off repository and remote, the results off the records; adapters,
confirmations, faults, retries and restarts have no counterpart in it.

`Configuration` keeps `providers`, `templates`, `settings` and one `session`.
Each command is two actions: `Request(t)` reads and validates, `Commit(t)` writes
the columns the code writes; an imported package too writes only the columns that
differ from the rows as it loaded them. A start reads the most, and each of its
reads is an action: the template, the settings (`ReadSettings`), then provider
after provider (`ReadProvider`); it then freezes template, bindings, provider
snapshots and limits into `run` from what it has read. The history variable `since`
holds what was configured at any moment since a start began, so that the property
of a frozen run can be stated without repeating what the start checked.

`ProjectRemoval` composes the removal of a project with starts, reruns, session
creation and removal. `writer` and `control` are the SQLite write locks; the
removal takes the former as its barrier, looks at runs and publications, hides
what it had read and writes the audit, whose failure undoes the removal.

`Coordination` is the store of claims with lanes, branches and worktrees. A
command of the main session reads git and the store in steps (`ScanHead`,
`ReadReport`, `WriteIngested`, ...) while workers edit and commit. `Claim` is the
claim command as it is: it checks nothing, so it may issue a claim again in any
status, give a task to a second lane, give a lane a second task, or take the id
that advancing would use. Each row remembers whether it was issued by hand or by
advancing, as the claim's events do; what the program itself promises about claims
is about the latter.

## Runs

| Run | Specification and bounds | Shows |
|---|---|---|
| `lifecycle_one_run` | `FairSpec`, one attempt, two workers, every outcome | `TypeOK`, `GateIntegrity`, `WaitCoherent`, `TerminalClean`, `OneDriver`, `CompletedIsFinal`, `WorkersComeToRest` |
| `lifecycle_quiet` | `QuietSpec`, two attempts, every outcome | `SessionProjectsRun`, `OneActiveRun`, `PausedResumable`, `CompletedThroughChain`, `KeepsContract` |
| `publication` | `Spec`, four requests, symmetric | `StartWhole`, `OneStart`, `ClaimBlocksRemoval`, `RerunWhole`, `FailedLeavesNothing` |
| `stage_agent` | three iterations, three tool calls, one repair, two attempts per kind of failure | `RiskyRunsAsked`, `EffectsAudited`, `EvidenceIsReal`, `BudgetHolds`, `DeniedNotExecuted`, `OpenEndsStage`, `StageReturns` |
| `event_stream` | a user, a worker, two runs, event numbers up to four, one disturbance, batches of two | `CommittedInOrder`, `NothingPassedOver`, `ViewAgrees`, `RequestsShown`, `CommandsEnd`, `EventsArrive` |
| `delivery` | one run, two repositories, two requests, four changes, two attempts, three faults | `FrozenAsChecked`, `DeliveredWhole`, `KeepsPromise` |
| `configuration` | two providers, two templates, two requests at a time, three in all | `SelectedExists`, `UpdatesKeepOthers`, `FrozenAsConfigured` |
| `project_removal` | two sessions, three requests at a time, six in all | `RemovalSeesRuns` |
| `coordination` | two lanes that share a task, two claims by hand made as often as one likes, one commit, two merges | `IngestedIsCommitted`, `SummaryIsTrue`, `AdvanceKeepsApart` |
| `reply_continues` | `QuietSpec`, one attempt | violated: a reply fails the run |
| `pause_holds` | `Spec`, one attempt, stages complete | violated: a worker fails the run that was paused under it |
| `allow_continues` | `Spec`, one attempt, two workers, stages complete or need a confirmation | violated: an allowed run is failed by the worker that asked |

Deadlock checking is off everywhere: a session whose run has completed, a stage
that has ended or a bound that is used up has nothing left to do.

**Bounds.** `MaxRuns` and the number of workers are the only caps of the lifecycle:
reworks, pauses and clarifications are unbounded, since statuses and not histories
are kept. One attempt is enough for what concerns a single run, and two workers for
an answer that overtakes the worker that asked; a third needs a second such answer,
behind which the run is not followed. Two attempts are the least with a rerun; a
third adds nothing but another tail, because a command only reaches the current run
and a worker only its own. Reruns next to a worker that is late are not in a run:
two attempts with two workers each are out of TLC's reach. The theorems
`CompletedStays`, `EndsAreClean`, `WaitsHold` and `OneWorkerDrives` cover them, for any
number of both. In `RunPublication` four requests
are a first start, two reruns that race, and one more to race or follow.
Two bounds are part of that model: a request's run ends only after that request
is over (a user would have to terminate a run whose creation has not been
answered), and completed runs are not represented, as nothing may follow them.

In `StageAgent` three iterations are an answer, its repair and one after it;
three tool calls allow a batch that fits, one that does not, and a confirmation
in the middle; `FailureThreshold` 2 lets a breaker open within one call. The
messages are one of each form the parser tells apart. In `EventStream` the
numbers allow a start, a wait, an answer or a pause, and the end of a run, or the
beginnings of two runs; a resume of a paused wait does not fit and is only
reached as a snapshot. One disturbance of each kind is tried, not two together.
In `Delivery` two attempts are a delivery and its retry, three faults one that
makes the retry and two in it. In `Configuration` three changes are two that
cross and a start, or a start with two changes inside. In `ProjectRemoval` two
sessions are one that blocks and one that does not, three requests a removal and
two that cross it. In `Coordination` two lanes whose queues share a task are the
least in which advancing could take one task twice. Of the claims by hand, one
issues a claim again and the other puts a task into a foreign lane under the id
advancing uses; one commit is a report that is in time, too late for its claim or of
an issue that is over, and the second merge moves the target under a command.

**Fairness.** `RunLifecycle.FairSpec` asks weak fairness of each worker's step and
of nothing else: workers are plain threads and a step is finite, since the agent
loop, the provider retries and the tool calls of a stage are bounded, which is
what `StageReturns` shows one level down from weak fairness of the agent's own
step. `EventStream` assumes that threads and the event loop run, that SQLite
gives up a wait after its busy timeout and that a browser reconnects a lost
`EventSource`. People owe the system nothing: no command is fair, and the
liveness properties hold also when nobody answers. A process that dies owes
nothing either (`StageReturns` excepts it).

**Environments.** `Spec` of `RunLifecycle` lets pause, terminate and answers come at
any time. The code accepts them at any time, and five properties do not survive it.
`QuietSpec` lets them come only while no worker is at work on the run. Nothing in
the code enforces that: it is the condition under which the stronger properties and
the contract hold, and a precise statement of what the missing safe point of the
design would buy. An answer can break it only for a tool confirmation, as every
other request is committed by the last effect of its step.

## What does not hold

Three departures from the design have a run that shows them:

1. A clarification reply never continues the run (`reply_continues`). The
   interrupt's reference is the `payload_ref` of the request and the engine
   accepts only `langgraph://` references. A denied tool call ends the same way:
   the denial never reaches the agent.
2. A pause between two steps of a worker fails the run (`pause_holds`).
3. An allowed tool confirmation can fail the run (`allow_continues`). The request is
   committed before the step that asks has ended; an answer at once starts a second
   worker, and when the first step ends it asks again for what the second has
   already done.

The models show more, which has no run of its own. Each of these is a behaviour
of the specifications, to be found by stating its negation:

* Runs. A step that raises after its confirmation was requested leaves the request
  pending on a failed run (nobody can answer it: the run does not wait). A
  termination or a pause between the request and the end of the step is overruled
  by that end: a paused run waits again with a paused thread, a terminated one is
  failed. Two workers on one run can ask twice for one call. A handler commits
  its files one after the other (runtime, control, event, graph): a death between
  two leaves a run that waits, or is paused, with a session or a thread that does
  not, and no service repairs that. The lifecycle model takes a handler's commits as
  one, so `WaitCoherent`, `SessionProjectsRun` and `PausedResumable` are about
  processes that do not die there. An approval given after pause and resume fails the run, as pausing
  overwrote the reference into LangGraph. A worker started by an answer revives a
  run terminated before its step; next to a rerun two runs are then active
  (`OneActiveRun` under `Spec`). Two concurrent reruns of one tail both succeed.
  A death during a first start leaves its publication pending: the session can
  neither start nor be removed. A rework reuses the stage's row where the design
  asks for a new one; terminating a run at or after a gate rewrites its completed
  stage row to TERMINATED. When reading the session back after the publication
  fails and the clean-up fails too, the session shows a deleted run. A rerun in
  flight publishes on a session that is removed meanwhile.
* Stages. An answer without structure, or an empty one, fails the stage where
  `src/docs/specs/function-one-backend-engine-design-v1.md:1489` and `:1735` ask
  for a repair. A repair may change the kind of decision. A confirmed bash call that is not a
  verification command is checked against the policy again and never runs. The
  grant the gate compares with holds no decision: only the choice the worker
  makes when it resumes keeps a denied call from running. `max_tool_calls` starts
  over with each activation, and evidence of an earlier one is lost after a wait.
  The breaker's half-open trial is never reached in a run; a provider call that
  timed out keeps running while its retry starts.
* Events. A live stream skips the first events of a run it saw hidden. The events
  of an aborted start are deleted, and a process that starts afresh takes its next
  number from what is left: a page that had seen one of the old numbers reconnects
  with it and never gets the new event (with three disturbances TLC finds this in
  `NothingPassedOver` once the exception for `leaked` is taken out). Two
  commands can hold the sequence lock and the write lock each and wait for the
  other until the busy timeout fails one. No event carries a wait as the
  session's status (`src/docs/specs/function-one-backend-engine-design-v1.md:2285`
  asks for it), so the composer of a page that only follows the stream goes on
  showing a running session. A death between the commits of a command, a commit of its
  events that fails after its rows were committed, a command that settled over rows
  changed since, a refetch older than the stream and an event sent while its run is
  hidden leave page and rows apart until the next load.
* Delivery. A delivery that failed after its branch was made can never succeed
  when tried again, as the branch exists. Nothing is undone, and effects stay
  when their audit cannot be written. Nothing keeps a second record of one run
  out. A validation that crosses a save can leave settings ready that nobody
  validated (`src/docs/specs/function-one-backend-engine-design-v1.md:2116`);
  `FrozenAsChecked` holds of the snapshots no such crossing preceded.
* Configuration. Crossing edits of one provider can leave a default model that is
  not among its models. An import may disable a provider an imported template
  names; importing an exported package wipes the stored keys; templates outlive a
  provider they name; an internal binding to a deleted provider refuses every
  later update of the settings. Deleting a template overwrites a selection that
  crossed it. Settings are saved although the response reports a failed audit.
* Projects. A session created from a project read before its removal stays
  visible in the hidden project. Loading the project again does not bring its
  sessions back. Restoring a session whose removal could not be audited can make
  it visible in a removed project.
* Coordination. A worktree that does not exist counts as ready; `claim` and
  `ingest` as plain commands check nothing, so by hand a task can be claimed twice, by
  two lanes and out of order (the project's own ledger has such claims); an ingest
  reads the head before the report.

## Theorems

All hold for any value of the constants: any number of attempts, requests,
threads, sessions, lanes or runs, any limits, any responses of the model. What is
assumed of the constants is named in the module that declares them, and TLC
evaluates it in every run.

| Module | Assumption | Why the code justifies it |
|---|---|---|
| `RunLifecycle` | `ConstantsAssumption`: `MaxRuns` is a positive number, `Outcomes` are stage outcomes | a bound of the model |
| `RunPublication`, `ProjectRemoval` | `NoRunAssumption`, `NobodyAssumption`: the value for none is no request or thread | null in a column or lock |
| `Configuration` | `InstallationAssumption`, `SubmittedAssumption`, `NoRowAssumption`: the system template is no user template; bodies have the fields of the API's schemas; a missing row is no row | seeding, Pydantic, null |
| `Coordination` | `QueueAssumption`, `HandAssumption`: each lane has a list of tasks; a claim by hand names a lane and a task | the parsers of the plan and of the command line |
| `StageAgent`, `ProviderCall` | `AgentAssumption`, `MessagesAssumption`, `RequestsAssumption`, `PolicyAssumption`: limits are numbers, a message has one of the forms the parser tells apart, a response holds a list of tool requests | the snapshots' schemas, JSON |
| `EventStream` | `EventStreamAssumption`: the values for none are no writer or run, the bounds are numbers | null; bounds of the model |

Few of the properties are inductive. Each proof module states the strengthening
its theorems rest on; TLC finds each of them true within the bounds of the
component's run (the types that are infinite unions aside).

**`RunLifecycle_proofs`.** `TypeCorrect`, `GatesHold`, `WaitsHold`,
`OneWorkerDrives`, `EndsAreClean`, `CompletedStays` (an action property) under
`Spec`; `QuietSession`, `QuietOneActive`, `PausedCanResume`, `WholeChain` and the
refinement `QuietKeepsContract` under `QuietSpec`.

* `GateInv`, for the gates and the drivers: a run is behind exactly the gates its current stage
  lies behind, so that a decision is only ever taken where nothing behind the gate
  exists yet; the next node of a stepping worker is the successor of the current
  stage; a worker that carries an approval finds it among the decisions. Of the
  workers of a run that is followed it says (`WorkRun`): one of them at most drives;
  beside it are only those whose request was answered before their step ended, and
  none where no answer did that; while a request is pending, the driving one is the
  one that asked.
* `WaitInv`, for waits and ends: a wait is whole from the commit that opens it to the
  step that ends it, also while the run is paused and while the step that asked is
  still at work; an end leaves nothing of a wait behind that could start a worker.
  It is about late workers that the services never look at, which is why it has to
  speak of all attempts and not of the current one.
* `QuietState` ties session, run, stage, worker and thread together while pause,
  terminate and answers meet idle runs only. `ChainInv` adds that every stage in front of
  the current one is completed and that a paused run has a checkpoint it can
  resume from.
* `QuietKeepsContract` is `QuietSpec => Contract!Spec`: each command and each
  worker step is a step of the contract or leaves its variables alone.

**`RunPublication_proofs`.** `PublicationTyped`, `StartIsWhole`, `OneStartWins`,
`RemovalWaits` from `PublicationInv`: what the position of a request implies about
its publication and its snapshot; in particular an abort has removed the run row
before it touches the thread, which keeps a half-removed run invisible.
`RerunIsWhole` and `FailureIsClean` from `RowsInv`: what the position says about the
rows in each of the four files, and that the session shows a rerun only where its
rows are there to stay or are restored first.

**`ProjectRemoval_proofs`.** `RemovalTyped`, `RemovalSeesAll` (an action property)
from `RemovalInv`: who holds the two write locks at which step, and that a removal
that holds both still finds the sessions as it read them.

**`Configuration_proofs`.** `ConfigurationTyped`, `SelectedStays`, `UpdatesKeep` and
`RunsAsConfigured` (action properties). The existence of what is selected needs the
system template; `UpdatesKeep` needs `UpdatesRead`, that a waiting update carries
its user's fields over what it read, or is out of date and will be refused;
`RunsAsConfigured` needs `StartsAttested`, that the settings and each row a start has
read were configured, and the row usable, at some moment since it began, however
many edits were committed between two of its reads.

**`Delivery_proofs`.** `DeliveryTyped`; `FrozenWasChecked` from `ChannelInv`, that a
request nobody overtook still finds the row it loaded; `OneReview` and
`DeliveriesAreWhole` from `DeliveryInv`, what repository and remote hold once a
delivery is at a step. That there is one review at most rests on the branch: only
the delivery that made it gets past it. `DeliveryKeepsPromise` is the refinement of
`DeliveryPromise`. It needs `WorkInv` besides: at each step the work is at exactly the
stage before it (nobody can have committed or pushed in its place), and a result
that waits to be recorded or announced is one the work has reached.

**`Coordination_proofs`.** `CoordinationTyped`, which includes that the claim a command
scans stays one the worker may be at (`Scanned`), and `SummaryHolds`; `AdvanceHolds`:
advancing writes a claim only where neither the lane nor the task has an unfinished
one, whatever was claimed by hand before, so two that meet were not both its work;
`IngestedWasCommitted` from `EvidenceInv`: what a command is about to write was read
from a report that is committed above the base the claim was last issued with.

`OneReview` (`ReviewedOnce`) is a theorem that no run checks: TLC checks the refinement
of `DeliveryPromise`, which implies it.

**`StageAgent_proofs`.** `AgentTyped`, `BudgetKept`, `RiskyWereAsked`,
`EffectsOnRecord`, `DenialsHold`, `EvidenceActed`, `OpenBreakerEnds` (an action
property), all from `AgentInv`: the calls still to do count with the results
(`BatchInv`), what the gate established about the call being done (`GateInv`), what
a grant rebuilt from the records is worth (`TraceInv`, `AnswerInv`), that a
reference stands for an effect (`EvidenceInv`), where an open breaker leaves the
activation (`BreakerInv`).

**`EventStream_proofs`.** `StreamTyped`; `OrderIsKept` (an action property) from
`LockInv` and `NumberInv`: the sequence lock is given back at the flush and the
numbers still reach the log in order, because what is committed is below what is
flushed and that below what is numbered, and only one command has flushed;
`StreamSkipsNone` from these, `StartInv` (a start is alone, its events hidden) and
`StreamInv` (the cursor and the batch are below everything still to be committed,
and what the page saw stays). `ViewIsTrue` and `RequestsAreShown` from all these and
`AgreeInv`. What the page shows is a fold of the log over a snapshot; the
invariant says nothing of the fold but only what its last events say:

* the history is the log with the rows of the command that has settled. In it the
  last event of a run that carries a status carries the run's status (or another of a
  run that goes on), the last about its request the request's face, the last that
  turns the page to a run turns it to the current one (`Tells`). A command's rows
  are checked once, over the rows it read, when it begins (`Adds`); numbering and
  flushing them one by one keeps that (`Carries`), and settling it over the same rows
  appends to the history (`AddedTells`).
* the page is right about everything of which it was shown all the events so far
  (`Right`), and it was shown a beginning of the log. A snapshot is right whatever
  was shown (`SnapshotRight`): it may be ahead of the stream, which then shows it old
  events again. An event that is the next in the history keeps the page right
  (`AppliedRight`), one that is appended takes the page's duty away until it is shown
  (`AddedRight`).
* a start is the only command while the session is a draft, and its events open its
  run and nothing else (`OpeningInv`); numbers reach the page in rising order, and a
  reply is not ahead of it (`RisingInv`).

The page that has received the whole log is then right about everything.

Proving corrected the models in four places. A git channel without repository or
credential is unconfigured (`delivery_channels.py:239`).
Guards that overlapped in a CASE became the code's order of early returns
(`AgentDecision`, `ProviderCall`, `ToolRisk`, `WorkspaceTools`).
`NothingPassedOver` was not true after a process death that follows an aborted
start, as told above; `leaked` covers that. `IngestedIsCommitted` now says that
the report is about the claim as last issued.

**Only model-checked.** Liveness (`WorkersComeToRest`, `StageReturns`,
`CommandsEnd`, `EventsArrive`): fairness and ENABLED are out of the prover's
reach. Every invariant, action property and refinement of the passing runs is a
theorem; what the three runs that expect a violation check is false.

## Abstractions

* A handler and a worker step are atomic in `RunLifecycle`, except that a
  confirmation is committed in the middle of its step. What else overlaps inside a
  step, and what a death or an error leaves between two commits, is not in it;
  `EventStream` splits commands and the projection of a step into reads, appends and
  commits, `RunPublication` splits starts and reruns, `StageAgent` the stage. In
  `RunPublication` the end of a run (`EndRun`) commits its files at once.
* Where `create_request` refuses in the middle of a stage, the tool gate turns the
  refusal into a tool result and the stage goes on to one of its other outcomes.
* A stage type has one row. Reworks find the existing row, as `_ensure_stage`
  does.
* Authorisation, audit failures of the lifecycle commands (which roll the command
  back) and all texts are left out. So are the auto-continue budget, which exceeds
  the longest chain of stages, and a failure of the failure projection itself,
  which leaves the run as it was with no worker.
* FAILED and TERMINATED tails are one status in `RunPublication`.
* `StageAgent`: the backoff delay is no state; a plan's or a change list's
  semantic checks are one nondeterministic refusal; what files hold is the choice
  among a tool's results. One stage contract (code generation) stands for the
  six: they differ in tools, evidence and whether they may ask, all CONSTANTS.
* `EventStream`: an event is its number, run and kind with the statuses it
  carries; payload validation and heartbeats are left out.
* `Delivery`: a repository is its branch, its head and what was committed; the
  readiness check of a code review approval is here, not in `RunLifecycle`.
* `Configuration`: prompts are not looked into, a provider is its models, default
  and `enabled`; an API key is no state.
* `ProjectRemoval`: paths and default channels are left out; a run ends whenever
  it likes.

## Not modelled

* Automatic regression: nothing in the running application imports it.
* Deterministic runtime and end-to-end test runtime: scripted ports for tests.
* The context builder and its compression: it builds one prompt and keeps no
  state; the running application gives it no size guard.
* Observability: append-only rows and logs; the audit failures that matter to
  other state are in `RunPublication`, `ProjectRemoval`, `StageAgent`, `Delivery`.
* Artifacts and control records: append-only records of a stage; the recovery
  checkpoint is in `RunLifecycle`.
* The inspector, the detail projections and the metrics: read models with no
  state of their own; the workspace snapshot is in `EventStream`.
* LangGraph's checkpointer: a store behind an interface of the library.
* Everything in the frontend that only renders.

## Plan

1. `EventStream` as a refinement of an atomic log with one cursor: what commands
   and stream together promise, without locks and batches.
2. `StageAgent` under several runs that share nothing but the database files.
