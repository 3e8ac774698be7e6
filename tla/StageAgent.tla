------------------------------ MODULE StageAgent ------------------------------
(***************************************************************************)
(* One stage of a run executed by the agent runtime: its iterations over      *)
(* the model, the batches of tool calls an answer asks for, each passed       *)
(* through the tool gate, and the waits for the user in between.              *)
(*                                                                         *)
(* An activation is one execution of the stage node: the first one, and one   *)
(* more each time a confirmation is allowed (any other answer fails the run   *)
(* when the worker takes it up).  Its agent and provider adapter are new;     *)
(* what an earlier activation left is in the stage's stored process      *)
(* records (here: the confirmation they hold) and in the workspace.           *)
(*                                                                         *)
(* Sources: backend/app/runtime/stage_agent.py, tools/execution_gate.py,      *)
(* tools/registry.py, services/tool_confirmations.py,                        *)
(* services/runtime_dispatch.py                                             *)
(***************************************************************************)
EXTENDS WorkspaceTools, AgentDecision, ProviderCall

CONSTANTS Messages,         \* the responses the model can give (see ProviderCall)
          ModelFailures,    \* the ways a call can fail (subset of FailureKinds)
          AllowedTools,     \* allowed_tools of the stage contract
          MayClarify,       \* clarification_allowed of the stage contract
          Evidence,         \* tools whose refs the artifact needs; {} for none
          EvidenceStatuses, \* statuses of results that count as evidence
          ProposedPayload,  \* the payload of a confirmation the model asks for
          MaxIterations,    \* max_react_iterations_per_stage
          MaxToolCalls,     \* max_tool_calls_per_stage
          MaxRepairs        \* max_structured_output_repair_attempts

ASSUME AgentAssumption ==
  /\ ModelFailures \subseteq FailureKinds
  /\ AllowedTools \subseteq Tools /\ Evidence \subseteq Tools
  /\ MayClarify \in BOOLEAN
  /\ MaxIterations \in Nat \ {0} /\ MaxToolCalls \in Nat
  /\ MaxRepairs \in Nat
  /\ ProposedPayload.tool \in Tools

ASSUME MessagesAssumption ==
  \A m \in Messages :
    /\ m.text.form \in TextForms
    /\ \A i \in DOMAIN ContentCandidate(m.text) : ContentCandidate(m.text)[i] \in Outputs
    /\ \A i \in DOMAIN m.parsed : m.parsed[i] \in Outputs

\* The tool requests of a response are a list, and a request for one of the
\* tools carries a payload of that tool.
ASSUME RequestsAssumption ==
  \A m \in Messages :
    LET calls == ToolRequests(m)
    IN  /\ calls \in Seq({calls[i] : i \in DOMAIN calls})
        /\ \A i \in DOMAIN calls :
             calls[i].tool \in Tools => calls[i].payload.tool = calls[i].tool

VARIABLES
  status,      \* the StageRun's status; "ready" before an activation starts
  alive,       \* the process that runs the stage
  skip,        \* skip_high_risk_tool_confirmations of the stage contract
  pc,          \* where the activation is: build, call, parse, batch, confirm, run
  iteration,   \* iterations started by this activation
  types,       \* the decision types of the response schema the next call gets
  repairs,     \* structured_output_repair_trace records of this activation
  results,     \* the tool results of this activation, oldest first (see Kept)
  decision,    \* what the parser made of the answer being handled
  batch,       \* the calls of the accepted answer that are still to do
  intent,      \* whether the audit intent of the call being done is on record
  attempt,     \* attempts of the current model call
  breaker,     \* the circuit breaker of this activation's adapter
  trace,       \* the payload of the confirmation the stored records hold, if any
  answer,      \* the user's answer to the last wait: none, allowed, denied, replied
  asked,       \* history: the payloads the user was asked to confirm
  effects,     \* history: what ran that may have changed the workspace
  acted        \* history: tools that changed it with a result that is evidence

agent == <<iteration, types, repairs, results, decision, batch, intent, attempt, breaker>>
history == <<asked, effects, acted>>
vars == <<status, alive, skip, pc, agent, trace, answer, history>>

NoPayload == Payload("none", <<>>, {}, FALSE, FALSE)
ProviderError == [error |-> TRUE, malformed |-> FALSE, calls |-> <<>>, outputs |-> <<>>]
NoDecision == Rejected("none", "none")

Env == [types |-> types, tools |-> AllowedTools, clarify |-> MayClarify]

Init ==
  /\ status = "ready" /\ alive = TRUE /\ skip \in BOOLEAN /\ pc = "idle"
  /\ iteration = 0 /\ types = {} /\ repairs = 0 /\ results = <<>>
  /\ decision = NoDecision /\ batch = <<>> /\ intent = FALSE /\ attempt = 0 /\ breaker = ClosedBreaker
  /\ trace = NoPayload /\ answer = "none"
  /\ asked = {} /\ effects = {} /\ acted = {}

-----------------------------------------------------------------------------
(* The activation                                                           *)

NewAgent(offered) ==
  /\ iteration' = 0 /\ repairs' = 0 /\ results' = <<>> /\ types' = offered
  /\ decision' = NoDecision /\ batch' = <<>> /\ intent' = FALSE
  /\ attempt' = 0 /\ breaker' = ClosedBreaker

\* Mutation: the decision is not looked at; any answered confirmation resumes.
AnyAnswerResumes(given) == given \in {"none", "allowed", "denied"}

\* _should_resume_stage_tool_confirmation: only "allowed" runs the stage again.
RunsStage(given) == given \in {"none", "allowed"}

\* The graph worker reaches the stage node: a fresh agent on the same stage.
\* The id of the answered confirmation travels with it, the decision does not.
Activate ==
  /\ alive /\ status = "ready" /\ RunsStage(answer)
  /\ status' = "running" /\ pc' = "build"
  /\ NewAgent(BaseTypes(MayClarify))
  /\ UNCHANGED <<alive, skip, trace, answer, history>>

\* Every other answer goes to engine.resume, which wants a LangGraph checkpoint
\* where the interrupt has the request's payload ref: it raises, and the worker
\* marks the run and its stage failed.
ResumeRefused ==
  /\ alive /\ status = "ready" /\ ~RunsStage(answer)
  /\ status' = "failed"
  /\ UNCHANGED <<alive, skip, pc, agent, trace, answer, history>>

Running(at) == alive /\ status = "running" /\ pc = at

\* The stage ends or waits; the agent and its adapter are dropped.
Return(result) ==
  /\ status' = result /\ pc' = "idle"
  /\ NewAgent({})
  /\ UNCHANGED <<alive, skip>>

Fail == Return("failed") /\ UNCHANGED <<trace, answer, history>>

\* _run_loop goes round: no result, so the next iteration.
Continue ==
  /\ pc' = "build"
  /\ decision' = NoDecision /\ batch' = <<>>
  /\ UNCHANGED <<status, alive, skip, iteration, intent, attempt, breaker>>

\* Anything that raises in run_stage ends the stage: the context that cannot
\* be built, the artifact store, the log.
StageRaises ==
  /\ alive /\ status = "running"
  /\ Fail

\* The model binding cannot call tools and the stage has some: the first
\* iteration says so (the same test on every iteration, over snapshots).
BuildContext ==
  /\ Running("build")
  /\ IF iteration = MaxIterations
       THEN Fail
       ELSE /\ iteration' = iteration + 1
            /\ pc' = "call"
            /\ UNCHANGED <<status, alive, skip, types, repairs, results, decision, batch,
                           intent, attempt, breaker, trace, answer, history>>

-----------------------------------------------------------------------------
(* The model call                                                           *)

Answered(r) ==
  /\ decision' = Parse(r, Env) /\ pc' = "parse" /\ attempt' = 0
  /\ UNCHANGED <<status, alive, skip, iteration, types, repairs, results, batch,
                 intent, trace, answer, history>>

\* invoke_with_retry answers before it calls when the breaker is open.
CallSucceeds ==
  /\ Running("call")
  /\ IF ~Allowed(breaker, FALSE)
       THEN Answered(ProviderError) /\ UNCHANGED breaker
       ELSE /\ \E m \in Messages : Answered(ReadResponse(m))
            /\ breaker' = ClosedBreaker

\* A failed attempt: given up at once, counted by the breaker and given up, or
\* tried again after a wait (which is not modelled).
CallFails(kind) ==
  /\ Running("call") /\ Allowed(breaker, FALSE)
  /\ breaker' = IF Retryable(kind) THEN AfterFailure(breaker) ELSE breaker
  /\ IF ShouldRetry(kind, attempt + 1) /\ breaker'.status # "open"
       THEN /\ attempt' = attempt + 1
            /\ UNCHANGED <<status, alive, skip, pc, iteration, types, repairs, results,
                           decision, batch, intent, trace, answer, history>>
       ELSE Answered(ProviderError)

-----------------------------------------------------------------------------
(* The decision                                                             *)

\* An answer that did not parse is asked for again, in the decision type it
\* declared; the counter lives in this activation's records.
RepairAnswer ==
  /\ Running("parse") /\ Repairable(decision) /\ repairs < MaxRepairs
  /\ repairs' = repairs + 1 /\ types' = {decision.type}
  /\ Continue /\ UNCHANGED <<results, trace, answer, history>>

RejectAnswer ==
  /\ Running("parse") /\ ~decision.ok
  /\ ~(Repairable(decision) /\ repairs < MaxRepairs)
  /\ Fail

\* Mutation: the limit is compared with what was executed so far.
BatchUncounted ==
  /\ Running("parse") /\ decision.ok /\ decision.type = "request_tool_call"
  /\ IF Len(results) >= MaxToolCalls
       THEN Fail
       ELSE /\ batch' = decision.calls /\ pc' = "batch" /\ decision' = NoDecision
            /\ UNCHANGED <<status, alive, skip, iteration, types, repairs, results,
                           intent, attempt, breaker, trace, answer, history>>

\* A batch that would pass the limit is refused whole.
TakeBatch ==
  /\ Running("parse") /\ decision.ok /\ decision.type = "request_tool_call"
  /\ IF Len(results) + Len(decision.calls) > MaxToolCalls
       THEN Fail
       ELSE /\ batch' = decision.calls /\ pc' = "batch" /\ decision' = NoDecision
            /\ UNCHANGED <<status, alive, skip, iteration, types, repairs, results,
                           intent, attempt, breaker, trace, answer, history>>

\* Mutation: that the tool was called is evidence enough.
EvidenceCalled == \E i \in DOMAIN results : results[i].tool \in Evidence

\* _evidence_side_effect_refs over the results of this activation.
EvidenceFound ==
  \E i \in DOMAIN results :
    /\ results[i].tool \in Evidence /\ results[i].ref
    /\ results[i].status \in EvidenceStatuses

\* The artifact needs a ref of its own tools when the stage may use them; the
\* semantic checks on plans and changed files may refuse it as well.
SubmitArtifact ==
  /\ Running("parse") /\ decision.ok /\ decision.type = "submit_stage_artifact"
  /\ \/ Evidence # {} /\ ~EvidenceFound /\ Return("failed")
     \/ Return("failed")
     \/ (Evidence = {} \/ EvidenceFound) /\ Return("completed")
  /\ UNCHANGED <<trace, answer, history>>

\* Mutation: a revised plan starts the iterations over.
RetryStartsOver ==
  /\ Running("parse") /\ decision.ok /\ decision.type = "retry_with_revised_plan"
  /\ types' = BaseTypes(MayClarify) /\ iteration' = 0
  /\ pc' = "build" /\ decision' = NoDecision /\ batch' = <<>>
  /\ UNCHANGED <<status, alive, skip, intent, attempt, breaker, repairs, results,
                 trace, answer, history>>

RetryWithPlan ==
  /\ Running("parse") /\ decision.ok /\ decision.type = "retry_with_revised_plan"
  /\ types' = BaseTypes(MayClarify)
  /\ Continue /\ UNCHANGED <<repairs, results, trace, answer, history>>

AskClarification ==
  /\ Running("parse") /\ decision.ok /\ decision.type = "request_clarification"
  /\ Return("waiting_clarification") /\ UNCHANGED <<trace, answer, history>>

\* The call proposed with a confirmation the model asks for.
ProposedCall ==
  [tool |-> ProposedPayload.tool, payload |-> ProposedPayload, wellFormed |-> "yes"]

\* A confirmation the model asks for by itself: the worker makes the request, and
\* the stored records hold nothing a grant could be made from.  Where confirmations
\* are skipped the proposed call is executed at once, if the level of risk the model
\* puts on it is high.
AskConfirmation ==
  /\ Running("parse") /\ decision.ok
  /\ decision.type = "request_tool_confirmation"
  /\ \E highRisk \in BOOLEAN :
       \/ /\ ~(skip /\ highRisk) /\ Return("waiting_tool_confirmation")
          /\ trace' = NoPayload /\ answer' = "none"
       \/ /\ skip /\ highRisk /\ Len(results) >= MaxToolCalls
          /\ Return("failed") /\ UNCHANGED <<trace, answer>>
       \/ /\ skip /\ highRisk /\ Len(results) < MaxToolCalls
          /\ batch' = <<ProposedCall>>
          /\ pc' = "batch" /\ decision' = NoDecision
          /\ UNCHANGED <<status, alive, skip, iteration, types, repairs, results,
                         intent, attempt, breaker, trace, answer>>
  /\ UNCHANGED history

FailStage ==
  /\ Running("parse") /\ decision.ok /\ decision.type = "fail_stage"
  /\ Fail

-----------------------------------------------------------------------------
(* The tool gate                                                            *)

Call == Head(batch).payload

\* Mutation: an answered confirmation covers whatever is called next.
GrantedAnyCall(p) == answer # "none" /\ p.tool \in Tools

\* _confirmation_grant_for_tool_call and _grant_matches: the stored request,
\* whatever its answer, for the same tool, payload and assessment.
Granted(p) == answer # "none" /\ trace = p

MayRun(p) == ~NeedsConfirmation(p) \/ skip \/ Granted(p)

\* A result is recorded; succeeded and recoverable ones let the batch go on.
Recoverable(r) ==
  /\ r.status = "failed"
  /\ \/ r.code = "internal_error"
     \/ /\ r.code = "tool_input_schema_invalid" /\ r.tool \in ReadOnlyTools
        /\ r.reason \in {"file_not_found", "file_unreadable", "unsupported_file_type",
                         "not_utf8_text", "invalid_glob_pattern"}

\* What is looked at again of a result: whose it is, how it ended, its ref.
Kept(r) == [tool |-> r.tool, status |-> r.status, ref |-> r.ref]

Record(r) ==
  IF r.status = "succeeded" \/ Recoverable(r)
    THEN /\ results' = Append(results, Kept(r)) /\ batch' = Tail(batch)
         /\ intent' = FALSE
         /\ pc' = IF Len(batch) = 1 THEN "build" ELSE "batch"
         /\ UNCHANGED <<status, alive, skip, iteration, types, repairs, decision, attempt,
                        breaker, trace, answer>>
    ELSE Return("failed") /\ UNCHANGED <<trace, answer>>

\* validate: the boundary first, then the audit intent, then the risk.
GateRefuses ==
  /\ Running("batch") /\ ~InsideWorkspace(Target(Call))
  /\ Call.tool # "bash"
  /\ Record(Result(Call.tool, "blocked", "tool_workspace_boundary_violation", "none",
                   FALSE, FALSE))
  /\ UNCHANGED history

\* Mutation: a call goes on when its intent could not be recorded.
IntentOptional ==
  /\ Running("batch") /\ (Call.tool = "bash" \/ InsideWorkspace(Target(Call)))
  /\ pc' = "confirm"
  /\ intent' \in BOOLEAN
  /\ UNCHANGED <<status, alive, skip, iteration, types, repairs, results, decision, batch,
                 attempt, breaker, trace, answer, history>>

\* record_tool_intent failed: the call does not run.
AuditFails ==
  /\ Audited(Call.tool)
  /\ Record(ToolFailure(Call.tool, "tool_audit_required_failed"))
  /\ UNCHANGED history

GateRecordsIntent ==
  /\ Running("batch") /\ (Call.tool = "bash" \/ InsideWorkspace(Target(Call)))
  /\ \/ /\ pc' = "confirm" /\ intent' = Audited(Call.tool)
        /\ UNCHANGED <<status, alive, skip, iteration, types, repairs, results, decision, batch,
                       attempt, breaker, trace, answer, history>>
     \/ AuditFails

GateBlocks ==
  /\ Running("confirm") /\ Classify(Call).level = "blocked"
  /\ Record(Result(Call.tool, "blocked", "tool_risk_blocked", "none", FALSE, FALSE))
  /\ UNCHANGED history

GateAsks ==
  /\ Running("confirm") /\ Classify(Call).level # "blocked" /\ ~MayRun(Call)
  /\ \/ /\ Return("waiting_tool_confirmation")
        /\ trace' = Call /\ answer' = "none"
        /\ asked' = asked \union {Call}
        /\ UNCHANGED <<effects, acted>>
     \/ Record(ToolFailure(Call.tool, "internal_error")) /\ UNCHANGED history

GatePasses ==
  /\ Running("confirm") /\ Classify(Call).level # "blocked" /\ MayRun(Call)
  /\ pc' = "run"
  /\ UNCHANGED <<status, alive, skip, agent, trace, answer, history>>

\* The tool acts; the agent has not recorded the result yet.
Acts(p, r) ==
  /\ effects' = effects \union {[payload |-> p, intent |-> intent,
                                denied |-> answer = "denied" /\ trace = p]}
  /\ acted' = IF r.status \in EvidenceStatuses THEN acted \union {p.tool} ELSE acted

ToolRuns ==
  /\ Running("run")
  /\ \E r \in Results(Call) :
       /\ IF r.effect THEN Acts(Call, r) ELSE UNCHANGED <<effects, acted>>
       /\ Record(r)
  /\ UNCHANGED asked

\* A tool that raises may have acted: the gate reports an internal error.
ToolRaises ==
  /\ Running("run")
  /\ \E did \in BOOLEAN, code \in {"internal_error", "tool_timeout"} :
       LET r == ToolFailure(Call.tool, code)
       IN  /\ IF did /\ Call.tool \notin ReadOnlyTools
                THEN Acts(Call, r) ELSE UNCHANGED <<effects, acted>>
           /\ Record(r)
  /\ UNCHANGED asked

-----------------------------------------------------------------------------
(* The user and the process                                                 *)

Resumed(a) ==
  /\ status' = "ready" /\ pc' = "idle" /\ answer' = a
  /\ UNCHANGED <<alive, skip, agent, trace, history>>

\* The service marks the stage running again whatever the answer, and hands it
\* to a worker.  What the model asked for by itself carries no follow-up for a
\* denial: denying it is refused with an error.
UserAnswers ==
  /\ alive
  /\ \/ status = "waiting_clarification" /\ Resumed("replied")
     \/ status = "waiting_tool_confirmation" /\ Resumed("allowed")
     \/ status = "waiting_tool_confirmation" /\ trace # NoPayload /\ Resumed("denied")

\* The process dies at any step; nothing takes the stage up again.
ProcessDies ==
  /\ alive /\ status = "running"
  /\ alive' = FALSE /\ pc' = "idle" /\ NewAgent({})
  /\ UNCHANGED <<status, skip, trace, answer, history>>

AgentStep ==
  \/ Activate \/ ResumeRefused \/ BuildContext
  \/ CallSucceeds \/ (\E kind \in ModelFailures : CallFails(kind))
  \/ RepairAnswer \/ RejectAnswer \/ TakeBatch \/ SubmitArtifact \/ RetryWithPlan
  \/ AskClarification \/ AskConfirmation \/ FailStage
  \/ GateRefuses \/ GateRecordsIntent \/ GateBlocks \/ GateAsks \/ GatePasses
  \/ ToolRuns \/ ToolRaises

Next == AgentStep \/ StageRaises \/ UserAnswers \/ ProcessDies

\* The worker thread goes on while the process lives; nothing else is promised.
Fairness == WF_vars(AgentStep)

Spec == Init /\ [][Next]_vars /\ Fairness

-----------------------------------------------------------------------------
(* Properties                                                               *)

\* A high-risk call acts on the workspace only after the user was asked about
\* exactly that payload, unless the stage skips confirmations; and nothing the
\* classifier blocks ever acts.  (That the user agreed is DeniedNotExecuted.)
RiskyRunsAsked ==
  \A e \in effects :
    /\ Classify(e.payload).level # "blocked"
    /\ Classify(e.payload).level = "high_risk" => skip \/ e.payload \in asked

\* What an audited tool did has its intent on record, whatever failed, died or
\* was answered in between.
EffectsAudited ==
  \A e \in effects : Audited(e.payload.tool) => e.intent

\* A stage whose artifact needs evidence completes only if one of the tools
\* that give it has really acted on the workspace.
EvidenceIsReal ==
  status = "completed" /\ Evidence # {}
    => acted \intersect Evidence # {}

\* An activation never has more tool results than the stage may make calls,
\* however the calls are grouped into batches.
BudgetHolds == Len(results) <= MaxToolCalls

\* Once the breaker is open the stage ends: no repair, no further iteration
\* and no further call under it (which is why its half-open trial is never
\* reached in a run).
OpenEndsStage ==
  [][ breaker.status = "open" /\ alive' => status' = "failed" ]_vars

\* An activation comes to an end: the stage completes, fails or waits for the
\* user, unless its process dies.
StageReturns == [](status = "running" => <>(status # "running" \/ ~alive))

\* What the user denied is never executed under that answer.  The grant the
\* gate compares with ignores the decision: the choice the worker makes when it
\* takes the answer up is all that stands between the two.
DeniedNotExecuted == \A e \in effects : ~e.denied

=============================================================================
