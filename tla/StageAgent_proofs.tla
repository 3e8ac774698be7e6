--------------------------- MODULE StageAgent_proofs ---------------------------
(***************************************************************************)
(* Theorems about StageAgent, for any responses, limits and retry policy:    *)
(*   AgentTyped        Spec => []AgentTypeOK                                 *)
(*   BudgetKept        Spec => []BudgetHolds                                 *)
(*   RiskyWereAsked    Spec => []RiskyRunsAsked                              *)
(*   EffectsOnRecord   Spec => []EffectsAudited                              *)
(*   DenialsHold       Spec => []DeniedNotExecuted                           *)
(*   EvidenceActed     Spec => []EvidenceIsReal                              *)
(*   OpenBreakerEnds   Spec => OpenEndsStage                                 *)
(* None of them is inductive.  BatchInv counts the calls still to do with     *)
(* the results and says that their tools are known ones; GateInv is what the   *)
(* gate has established about the call being done; TraceInv and AnswerInv are  *)
(* what a grant is worth; EvidenceInv ties a ref to an effect; BreakerInv says *)
(* where an open breaker leaves the activation.                              *)
(***************************************************************************)
EXTENDS StageAgent, SequenceTheorems, TLAPS

Statuses == {"ready", "running", "waiting_clarification", "waiting_tool_confirmation",
             "completed", "failed"}
Places == {"idle", "build", "call", "parse", "batch", "confirm", "run"}
Answers == {"none", "allowed", "denied", "replied"}

\* Every call the agent can come to hold, and those of a known tool.
Requests ==
  (UNION {{ToolRequests(m)[i] : i \in DOMAIN ToolRequests(m)} : m \in Messages})
  \union {ProposedCall}
Runnable == {c \in Requests : c.tool \in Tools /\ c.payload.tool = c.tool}
Payloads == {c.payload : c \in Requests}

ErrorCodes == {"none", "provider_call_failed", "invalid_tool_call", "ambiguous_model_decision",
               "invalid_structured_output", "tool_not_available", "tool_schema_mismatch",
               "tool_input_schema_invalid", "stage_contract_violation",
               "clarification_not_allowed"}
IsDecision(d) ==
  /\ d.ok \in BOOLEAN /\ d.code \in ErrorCodes
  /\ d.type \in DecisionTypes \union {"none"} /\ d.calls \in Seq(Requests)
ResultStatuses == {"succeeded", "failed", "blocked"}
KeptRow == [tool : Tools, status : ResultStatuses, ref : BOOLEAN]
BreakerRow == [status : {"closed", "open"}, failures : Nat]

AgentTypeOK ==
  /\ status \in Statuses /\ alive \in BOOLEAN /\ skip \in BOOLEAN /\ pc \in Places
  /\ iteration \in 0 .. MaxIterations /\ repairs \in 0 .. MaxRepairs
  /\ types \subseteq ControlTypes /\ IsDecision(decision)
  /\ results \in Seq(KeptRow) /\ batch \in Seq(Requests) /\ intent \in BOOLEAN
  /\ attempt \in Nat /\ breaker \in BreakerRow
  /\ trace \in Payloads \union {NoPayload} /\ answer \in Answers
  /\ asked \subseteq Payloads /\ acted \subseteq Tools
  /\ effects \subseteq [payload : Payloads, intent : BOOLEAN, denied : BOOLEAN]

\* A result of the tool: a ref comes with an effect.
IsResultOf(r, tool) ==
  /\ r.tool = tool /\ r.status \in ResultStatuses
  /\ r.ref \in BOOLEAN /\ (r.ref => r.effect)

\* The calls to do are of known tools, and with the results they stay within
\* the limit; so are those of an answer that is accepted, which has some.
BatchInv ==
  /\ batch \in Seq(Runnable) /\ Len(results) + Len(batch) <= MaxToolCalls
  /\ pc \in {"batch", "confirm", "run"} => batch # <<>>
  /\ decision.ok /\ decision.type = "request_tool_call"
       => decision.calls \in Seq(Runnable) /\ decision.calls # <<>>

\* The gate's steps before the one the call is at have done their part.
GateInv ==
  /\ pc \in {"confirm", "run"} => intent = Audited(Call.tool)
  /\ pc = "run" => Classify(Call).level # "blocked" /\ MayRun(Call)

TraceInv == trace # NoPayload => trace \in asked

AnswerInv == status = "running" => answer \in {"none", "allowed"}

\* A result with a ref that counts as evidence is of a tool that acted.
EvidenceInv ==
  \A i \in DOMAIN results :
    results[i].ref /\ results[i].status \in EvidenceStatuses => results[i].tool \in acted

BreakerInv ==
  breaker.status = "open" =>
    /\ alive /\ status = "running" /\ pc = "parse"
    /\ decision = Rejected("provider_call_failed", "none")

AgentInv ==
  /\ AgentTypeOK /\ BatchInv /\ GateInv /\ TraceInv /\ AnswerInv /\ EvidenceInv
  /\ BreakerInv /\ RiskyRunsAsked /\ EffectsAudited /\ EvidenceIsReal
  /\ DeniedNotExecuted

-----------------------------------------------------------------------------
(* What the pure operators hand back                                        *)

\* The requests of a response are calls the model can make.
LEMMA RequestsRead ==
  ASSUME NEW m \in Messages
  PROVE  ToolRequests(m) \in Seq(Requests)
<1> DEFINE calls == ToolRequests(m)
           own == {calls[i] : i \in DOMAIN calls}
<1>1. calls \in Seq(own)
  BY RequestsAssumption
<1>2. own \subseteq Requests
  BY DEF Requests
<1>3. QED
  BY <1>1, <1>2, SeqMonotonic

\* A request for a known tool can be run: its payload is of that tool.
LEMMA RequestsRun ==
  ASSUME NEW c \in Requests, c.tool \in Tools
  PROVE  c \in Runnable
<1>1. CASE c = ProposedCall
  BY <1>1 DEF Runnable, ProposedCall
<1>2. CASE \E m \in Messages : \E i \in DOMAIN ToolRequests(m) : c = ToolRequests(m)[i]
  BY <1>2, RequestsAssumption DEF Runnable
<1>3. QED
  BY <1>1, <1>2 DEF Requests

LEMMA NotAccepted ==
  \A code \in ErrorCodes, type \in DecisionTypes \union {"none"} :
    IsDecision(Rejected(code, type)) /\ ~Rejected(code, type).ok
<1>1. <<>> \in Seq(Requests)
  OBVIOUS
<1>2. QED
  BY <1>1 DEF Rejected, IsDecision

LEMMA IsAccepted ==
  \A type \in DecisionTypes, calls \in Seq(Requests) :
    /\ IsDecision(Accepted(type, calls))
    /\ Accepted(type, calls).type = type /\ Accepted(type, calls).calls = calls
  BY DEF Accepted, IsDecision, ErrorCodes

\* A structured output is accepted as the control decision it declares, never
\* as a tool call.
LEMMA StructuredResult ==
  ASSUME NEW output, NEW env
  PROVE  /\ IsDecision(FromStructured(output, env))
         /\ FromStructured(output, env).ok
              => FromStructured(output, env).type # "request_tool_call"
<1> DEFINE o == Normalize(output)
           d == FromStructured(output, env)
<1>1. \/ d = Rejected("invalid_structured_output", "none")
      \/ o.type \in DecisionTypes /\ \E code \in ErrorCodes : d = Rejected(code, o.type)
      \/ o.type \in ControlTypes /\ d = Accepted(o.type, <<>>)
  BY DEF FromStructured, WithinContract, InvalidOutput, Built, ErrorCodes
<1>2. CASE d = Rejected("invalid_structured_output", "none")
  BY <1>2, NotAccepted DEF ErrorCodes
<1>3. CASE o.type \in DecisionTypes /\ \E code \in ErrorCodes : d = Rejected(code, o.type)
  BY <1>3, NotAccepted
<1>4. CASE o.type \in ControlTypes /\ d = Accepted(o.type, <<>>)
  <2>1. <<>> \in Seq(Requests)
    OBVIOUS
  <2>2. o.type \in DecisionTypes /\ o.type # "request_tool_call"
    BY <1>4 DEF ControlTypes, DecisionTypes
  <2>3. IsDecision(d)
    BY <1>4, <2>1, <2>2 DEF Accepted, IsDecision, ErrorCodes
  <2>4. d.type = o.type
    BY <1>4 DEF Accepted
  <2>5. QED
    BY <2>2, <2>3, <2>4
<1>5. QED
  BY <1>1, <1>2, <1>3, <1>4

\* A batch is accepted whole, and only with tools the stage offers.
LEMMA CallsResult ==
  ASSUME NEW calls \in Seq(Requests), NEW env, env.tools \subseteq Tools
  PROVE  /\ IsDecision(FromToolCalls(calls, env))
         /\ FromToolCalls(calls, env).ok
              => /\ FromToolCalls(calls, env).calls = calls
                 /\ calls \in Seq(Runnable)
<1> DEFINE bad == {i \in DOMAIN calls : ~Offers(env, calls[i].tool) \/ ~WellFormed(calls[i])}
           d == FromToolCalls(calls, env)
<1>1. "request_tool_call" \in DecisionTypes
  BY DEF DecisionTypes
<1>2. CASE bad = {}
  <2>1. d = Accepted("request_tool_call", calls)
    BY <1>2 DEF FromToolCalls
  <2>2. \A i \in DOMAIN calls : calls[i] \in Runnable
    BY <1>2, RequestsRun, ElementOfSeq, LenProperties DEF Offers
  <2>3. calls \in Seq(Runnable)
    <3>1. Len(calls) \in Nat /\ calls = [i \in 1 .. Len(calls) |-> calls[i]]
      BY LenProperties
    <3>2. QED
      BY <2>2, <3>1, IsASeq
  <2>4. QED
    BY <1>1, <2>1, <2>3, IsAccepted
<1>3. CASE bad # {}
  <2>1. \E code \in ErrorCodes : d = Rejected(code, "request_tool_call")
    BY <1>3 DEF FromToolCalls, ErrorCodes
  <2>2. QED
    BY <1>1, <2>1, NotAccepted
<1>4. QED
  BY <1>2, <1>3

\* Whatever the model answers, the decision is a well-typed one, and one that
\* accepts tool calls has some, all of known tools.
LEMMA ParseResult ==
  ASSUME NEW reply, reply.calls \in Seq(Requests), NEW env, env.tools \subseteq Tools
  PROVE  /\ IsDecision(Parse(reply, env))
         /\ Parse(reply, env).ok /\ Parse(reply, env).type = "request_tool_call"
              => Parse(reply, env).calls \in Seq(Runnable) /\ Parse(reply, env).calls # <<>>
<1> DEFINE d == Parse(reply, env)
<1>1. \/ \E code \in ErrorCodes : d = Rejected(code, "none")
      \/ \E output : d = FromStructured(output, env)
      \/ reply.calls # <<>> /\ d = FromToolCalls(reply.calls, env)
  BY DEF Parse, InvalidOutput, ErrorCodes
<1>2. CASE \E code \in ErrorCodes : d = Rejected(code, "none")
  BY <1>2, NotAccepted
<1>3. CASE \E output : d = FromStructured(output, env)
  BY <1>3, StructuredResult
<1>4. CASE reply.calls # <<>> /\ d = FromToolCalls(reply.calls, env)
  BY <1>4, CallsResult
<1>5. QED
  BY <1>1, <1>2, <1>3, <1>4

LEMMA Constructed ==
  ASSUME NEW tool
  PROVE  /\ \A code : IsResultOf(ToolFailure(tool, code), tool)
         /\ \A reason : IsResultOf(NoSuchInput(tool, reason), tool)
         /\ IsResultOf(BoundaryFailed(tool), tool) /\ IsResultOf(Unwritable(tool), tool)
         /\ IsResultOf(Succeeded(tool, FALSE, FALSE), tool)
         /\ IsResultOf(Succeeded(tool, TRUE, TRUE), tool)
  BY DEF ToolFailure, NoSuchInput, BoundaryFailed, Unwritable, Succeeded, Result, IsResultOf,
         ResultStatuses

\* What a known tool hands back is its own result, and a ref comes with an effect.
LEMMA ToolResult ==
  ASSUME NEW p, p.tool \in Tools, NEW r \in Results(p)
  PROVE  IsResultOf(r, p.tool)
<1>1. CASE p.tool = "read_file"
  <2>1. r \in ReadFile(p)
    BY <1>1, Zenon DEF Results
  <2>2. QED
    BY <1>1, <2>1, Constructed DEF ReadFile
<1>2. CASE p.tool = "glob"
  <2>1. r \in Glob(p)
    BY <1>2, Zenon DEF Results
  <2>2. QED
    BY <1>2, <2>1, Constructed DEF Glob
<1>3. CASE p.tool = "grep"
  <2>1. r \in GrepTree(p)
    BY <1>3, Zenon DEF Results
  <2>2. QED
    BY <1>3, <2>1, Constructed DEF GrepTree, Searched
<1>4. CASE p.tool = "write_file"
  <2>1. r \in WriteFile(p)
    BY <1>4, Zenon DEF Results
  <2>2. QED
    BY <1>4, <2>1, Constructed DEF WriteFile
<1>5. CASE p.tool = "edit_file"
  <2>1. r \in EditFile(p)
    BY <1>5, Zenon DEF Results
  <2>2. QED
    BY <1>5, <2>1, Constructed DEF EditFile
<1>6. CASE p.tool = "bash"
  <2>1. r \in RunBash(p)
    BY <1>6, Zenon DEF Results
  <2>2. \A code : IsResultOf(Ran(code), "bash") /\ IsResultOf(NotStarted(code), "bash")
    BY DEF Ran, NotStarted, ToolFailure, Result, IsResultOf, ResultStatuses
  <2>3. \/ \E code : r = Ran(code) \/ r = NotStarted(code)
        \/ r = Succeeded("bash", TRUE, TRUE)
    <3>1. CASE \E c \in p.cmds : Verification(c).allowed
      BY <2>1, <3>1, Zenon DEF RunBash
    <3>2. CASE ~ \E c \in p.cmds : Verification(c).allowed
      BY <2>1, <3>2, Zenon DEF RunBash
    <3>3. QED
      BY <3>1, <3>2
  <2>4. QED
    BY <1>6, <2>2, <2>3, Constructed
<1>7. QED
  BY <1>1, <1>2, <1>3, <1>4, <1>5, <1>6
     DEF Tools, Registry, FileReadTool, GlobTool, GrepTool, FileWriteTool, FileEditTool, BashTool

-----------------------------------------------------------------------------
(* The invariant                                                            *)

LEMMA Constants ==
  /\ MaxToolCalls \in Nat /\ MaxIterations \in Nat \ {0} /\ MaxRepairs \in Nat
  /\ AllowedTools \subseteq Tools /\ Evidence \subseteq Tools
  /\ BaseTypes(MayClarify) \subseteq ControlTypes
  BY AgentAssumption DEF BaseTypes

LEMMA InitInv == Init => AgentInv
<1> SUFFICES ASSUME Init PROVE AgentInv
  OBVIOUS
<1> USE DEF Init
<1>1. <<>> \in Seq(KeptRow) /\ <<>> \in Seq(Requests) /\ <<>> \in Seq(Runnable) /\ Len(<<>>) = 0
  OBVIOUS
<1>2. IsDecision(decision) /\ ~decision.ok
  BY NotAccepted DEF NoDecision, ErrorCodes
<1>3. AgentTypeOK
  <2>1. iteration \in 0 .. MaxIterations /\ repairs \in 0 .. MaxRepairs /\ attempt \in Nat
    BY Constants
  <2>2. breaker \in BreakerRow
    BY DEF BreakerRow, ClosedBreaker
  <2>3. QED
    BY <1>1, <1>2, <2>1, <2>2 DEF AgentTypeOK, Statuses, Places, Answers
<1>4. BatchInv
  <2>1. Len(results) + Len(batch) <= MaxToolCalls
    BY <1>1, Constants
  <2>2. QED
    BY <1>1, <1>2, <2>1 DEF BatchInv
<1>5. GateInv /\ TraceInv /\ AnswerInv /\ EvidenceInv /\ BreakerInv
  BY DEF GateInv, TraceInv, AnswerInv, EvidenceInv, BreakerInv, ClosedBreaker
<1>6. RiskyRunsAsked /\ EffectsAudited /\ EvidenceIsReal /\ DeniedNotExecuted
  BY DEF RiskyRunsAsked, EffectsAudited, EvidenceIsReal, DeniedNotExecuted
<1>7. QED
  BY <1>3, <1>4, <1>5, <1>6 DEF AgentInv

\* A new agent holds nothing yet.
LEMMA Fresh ==
  ASSUME NEW offered, offered \subseteq ControlTypes, NewAgent(offered)
  PROVE  /\ iteration' \in 0 .. MaxIterations /\ repairs' \in 0 .. MaxRepairs
         /\ types' \subseteq ControlTypes /\ IsDecision(decision)' /\ ~decision'.ok
         /\ results' \in Seq(KeptRow) /\ batch' \in Seq(Requests) /\ batch' \in Seq(Runnable)
         /\ intent' \in BOOLEAN /\ attempt' \in Nat /\ breaker' \in BreakerRow
         /\ Len(results') + Len(batch') <= MaxToolCalls /\ EvidenceInv'
         /\ breaker'.status = "closed"
<1> USE DEF NewAgent
<1>1. <<>> \in Seq(KeptRow) /\ <<>> \in Seq(Requests) /\ <<>> \in Seq(Runnable) /\ Len(<<>>) = 0
  OBVIOUS
<1>2. IsDecision(decision)' /\ ~decision'.ok
  <2>1. IsDecision(NoDecision) /\ ~NoDecision.ok
    BY NotAccepted DEF NoDecision, ErrorCodes
  <2>2. QED
    BY <2>1 DEF IsDecision
<1>3. breaker' \in BreakerRow /\ breaker'.status = "closed"
  BY DEF BreakerRow, ClosedBreaker
<1>4. Len(results') + Len(batch') <= MaxToolCalls
  BY <1>1, Constants
<1>5. EvidenceInv'
  BY <1>1 DEF EvidenceInv
<1>6. iteration' \in 0 .. MaxIterations /\ repairs' \in 0 .. MaxRepairs /\ attempt' \in Nat
  BY Constants
<1>7. QED
  BY <1>1, <1>2, <1>3, <1>4, <1>5, <1>6

\* What the histories and the stored request hold together.
HistoryOK ==
  /\ trace \in Payloads \union {NoPayload} /\ asked \subseteq Payloads /\ acted \subseteq Tools
  /\ effects \subseteq [payload : Payloads, intent : BOOLEAN, denied : BOOLEAN]
  /\ TraceInv /\ RiskyRunsAsked /\ EffectsAudited /\ DeniedNotExecuted

LEMMA HistoryHolds == AgentInv => HistoryOK
  BY DEF AgentInv, AgentTypeOK, HistoryOK

\* A step that leaves them and the contract alone leaves that as it is.
LEMMA HistoryStays ==
  ASSUME HistoryOK, UNCHANGED <<skip, trace, history>>
  PROVE  HistoryOK'
  BY DEF HistoryOK, TraceInv, RiskyRunsAsked, EffectsAudited, DeniedNotExecuted, history

\* The stage ends or waits.
LEMMA Returned ==
  ASSUME AgentInv, NEW result \in Statuses \ {"running"}, Return(result),
         answer' \in Answers, HistoryOK',
         result = "completed" /\ Evidence # {} => acted' \intersect Evidence # {}
  PROVE  AgentInv'
<1>1. NewAgent({}) /\ status' = result /\ pc' = "idle" /\ UNCHANGED <<alive, skip>>
  BY DEF Return
<1>2. AgentTypeOK'
  BY <1>1, Fresh DEF AgentInv, AgentTypeOK, Places, HistoryOK
<1>3. BatchInv' /\ GateInv' /\ BreakerInv'
  BY <1>1, Fresh DEF BatchInv, GateInv, BreakerInv
<1>4. AnswerInv' /\ EvidenceInv' /\ EvidenceIsReal'
  BY <1>1, Fresh DEF AnswerInv, Statuses, EvidenceIsReal
<1>5. QED
  BY <1>2, <1>3, <1>4 DEF AgentInv, HistoryOK

LEMMA ReturnedQuietly ==
  ASSUME AgentInv, NEW result \in Statuses \ {"running", "completed"}, Return(result),
         UNCHANGED <<trace, answer, history>>
  PROVE  AgentInv'
<1>1. HistoryOK'
  BY HistoryHolds, HistoryStays DEF Return
<1>2. answer' \in Answers
  BY DEF AgentInv, AgentTypeOK
<1>3. QED
  BY <1>1, <1>2, Returned

LEMMA Failed == ASSUME AgentInv, Fail PROVE AgentInv'
<1>1. Return("failed") /\ UNCHANGED <<trace, answer, history>>
  BY DEF Fail
<1>2. "failed" \in Statuses \ {"running", "completed"}
  BY DEF Statuses
<1>3. QED
  BY <1>1, <1>2, ReturnedQuietly

\* A step of a running activation: what is left is about the activation itself.
LEMMA Working ==
  ASSUME AgentInv, status = "running", HistoryOK', UNCHANGED <<status, alive, skip, answer>>,
         pc' \in Places, iteration' \in 0 .. MaxIterations, repairs' \in 0 .. MaxRepairs,
         types' \subseteq ControlTypes, IsDecision(decision)', results' \in Seq(KeptRow),
         batch' \in Seq(Requests), intent' \in BOOLEAN, attempt' \in Nat, breaker' \in BreakerRow,
         BatchInv', GateInv', EvidenceInv', BreakerInv'
  PROVE  AgentInv'
<1>1. AgentTypeOK'
  BY DEF AgentInv, AgentTypeOK, HistoryOK
<1>2. AnswerInv' /\ EvidenceIsReal'
  BY DEF AgentInv, AnswerInv, EvidenceIsReal
<1>3. QED
  BY <1>1, <1>2 DEF AgentInv, HistoryOK

-----------------------------------------------------------------------------
(* The activation                                                           *)

LEMMA ActivateInv == ASSUME AgentInv, Activate PROVE AgentInv'
<1> USE DEF Activate
<1>1. NewAgent(BaseTypes(MayClarify)) /\ BaseTypes(MayClarify) \subseteq ControlTypes
  BY Constants
<1>2. HistoryOK'
  BY HistoryHolds, HistoryStays
<1>3. answer \in {"none", "allowed"} /\ UNCHANGED answer
  BY DEF RunsStage
<1>4. AgentTypeOK'
  BY <1>1, <1>2, <1>3, Fresh DEF AgentInv, AgentTypeOK, HistoryOK, Statuses, Places, Answers
<1>5. BatchInv' /\ GateInv' /\ BreakerInv' /\ AnswerInv' /\ EvidenceInv' /\ EvidenceIsReal'
  BY <1>1, <1>3, Fresh DEF BatchInv, GateInv, BreakerInv, AnswerInv, EvidenceIsReal
<1>6. QED
  BY <1>2, <1>4, <1>5 DEF AgentInv, HistoryOK

\* A stage that is not running changes its status; its agent is as it was.
LEMMA Rested ==
  ASSUME AgentInv, status # "running", status' \in Statuses \ {"running", "completed"},
         answer' \in Answers, pc' = "idle" \/ UNCHANGED <<pc, answer>>,
         UNCHANGED <<alive, skip, agent, trace, history>>
  PROVE  AgentInv'
<1> USE DEF AgentInv, agent
<1>1. HistoryOK'
  BY HistoryHolds, HistoryStays
<1>2. AgentTypeOK'
  BY <1>1 DEF AgentTypeOK, HistoryOK, Places, IsDecision
<1>3. BatchInv' /\ EvidenceInv'
  BY DEF BatchInv, EvidenceInv, history
<1>4. breaker.status # "open" /\ GateInv'
  BY DEF BreakerInv, GateInv, Call, MayRun, Granted
<1>5. BreakerInv' /\ AnswerInv' /\ EvidenceIsReal'
  BY <1>4 DEF BreakerInv, AnswerInv, EvidenceIsReal
<1>6. QED
  BY <1>1, <1>2, <1>3, <1>4, <1>5 DEF HistoryOK

LEMMA BuildContextInv == ASSUME AgentInv, BuildContext PROVE AgentInv'
<1>1. CASE iteration = MaxIterations
  BY <1>1, Failed DEF BuildContext
<1>2. CASE iteration # MaxIterations
  <2> USE <1>2 DEF BuildContext, Running, AgentInv, AgentTypeOK
  <2>1. HistoryOK'
    BY HistoryHolds, HistoryStays
  <2>2. iteration' \in 0 .. MaxIterations
    BY Constants
  <2>3. BatchInv' /\ GateInv' /\ EvidenceInv' /\ BreakerInv'
    BY DEF BatchInv, GateInv, EvidenceInv, BreakerInv, history
  <2>4. QED
    BY <2>1, <2>2, <2>3, Working DEF Places, IsDecision
<1>3. QED
  BY <1>1, <1>2

-----------------------------------------------------------------------------
(* The model call                                                           *)

\* An answer is well typed, and what it accepts can be run.
LEMMA AnsweredInv ==
  ASSUME AgentInv, Running("call"), NEW r, r.calls \in Seq(Requests), Answered(r),
         breaker' \in BreakerRow, breaker'.status = "open" => r = ProviderError
  PROVE  AgentInv'
<1> USE DEF Running, Answered
<1>1. HistoryOK'
  BY HistoryHolds, HistoryStays
<1>2. Env.tools \subseteq Tools
  BY Constants DEF Env
<1>3. /\ IsDecision(Parse(r, Env))
      /\ Parse(r, Env).ok /\ Parse(r, Env).type = "request_tool_call"
           => Parse(r, Env).calls \in Seq(Runnable) /\ Parse(r, Env).calls # <<>>
  BY <1>2, ParseResult
<1>4. BatchInv'
  BY <1>3 DEF AgentInv, BatchInv
<1>5. GateInv' /\ EvidenceInv'
  BY DEF AgentInv, GateInv, EvidenceInv, history
<1>6. BreakerInv'
  <2>1. Parse(ProviderError, Env) = Rejected("provider_call_failed", "none")
    BY DEF Parse, ProviderError
  <2>2. QED
    BY <2>1 DEF BreakerInv
<1>7. IsDecision(decision)'
  BY <1>3 DEF IsDecision
<1>8. QED
  BY <1>1, <1>4, <1>5, <1>6, <1>7, Working DEF AgentInv, AgentTypeOK, Places

LEMMA BreakerRows ==
  /\ ClosedBreaker \in BreakerRow /\ ClosedBreaker.status = "closed"
  /\ \A b \in BreakerRow : AfterFailure(b) \in BreakerRow
  BY DEF ClosedBreaker, BreakerRow, AfterFailure

LEMMA NoRequests == ProviderError.calls \in Seq(Requests)
<1>1. ProviderError.calls = <<>>
  BY DEF ProviderError
<1>2. QED
  BY <1>1

LEMMA CallSucceedsInv == ASSUME AgentInv, CallSucceeds PROVE AgentInv'
<1>1. CASE ~Allowed(breaker, FALSE)
  <2>1. Answered(ProviderError) /\ breaker' = breaker
    BY <1>1 DEF CallSucceeds
  <2>2. QED
    BY <2>1, NoRequests, AnsweredInv DEF CallSucceeds, AgentInv, AgentTypeOK
<1>2. CASE Allowed(breaker, FALSE)
  <2>1. PICK m \in Messages : Answered(ReadResponse(m))
    BY <1>2 DEF CallSucceeds
  <2>2. breaker' = ClosedBreaker
    BY <1>2 DEF CallSucceeds
  <2>3. ReadResponse(m).calls = ToolRequests(m)
    BY DEF ReadResponse
  <2>4. ReadResponse(m).calls \in Seq(Requests)
    BY <2>3, RequestsRead
  <2>5. breaker' \in BreakerRow /\ breaker'.status # "open"
    BY <2>2, BreakerRows
  <2>6. QED
    BY <2>1, <2>4, <2>5, AnsweredInv DEF CallSucceeds
<1>3. QED
  BY <1>1, <1>2

LEMMA CallFailsInv == ASSUME AgentInv, NEW kind, CallFails(kind) PROVE AgentInv'
<1>1. breaker' \in BreakerRow
  BY BreakerRows DEF CallFails, AgentInv, AgentTypeOK
<1>2. CASE Answered(ProviderError)
  BY <1>1, <1>2, NoRequests, AnsweredInv DEF CallFails
<1>3. CASE /\ breaker'.status # "open" /\ attempt' = attempt + 1
           /\ UNCHANGED <<status, alive, skip, pc, iteration, types, repairs, results,
                          decision, batch, intent, trace, answer, history>>
  <2> USE <1>3 DEF CallFails, Running, AgentInv, AgentTypeOK
  <2>1. HistoryOK'
    BY HistoryHolds, HistoryStays
  <2>2. BatchInv' /\ GateInv' /\ EvidenceInv' /\ BreakerInv'
    BY DEF BatchInv, GateInv, EvidenceInv, BreakerInv, history
  <2>3. attempt' \in Nat
    OBVIOUS
  <2>4. QED
    BY <1>1, <2>1, <2>2, <2>3, Working DEF IsDecision
<1>4. QED
  BY <1>2, <1>3 DEF CallFails

-----------------------------------------------------------------------------
(* The decision                                                             *)

\* The loop goes round with nothing left of the answer.
LEMMA ContinueInv ==
  ASSUME AgentInv, Running("parse"), decision.ok \/ Repairable(decision), Continue,
         repairs' \in 0 .. MaxRepairs, types' \subseteq ControlTypes,
         UNCHANGED <<results, trace, answer, history>>
  PROVE  AgentInv'
<1> USE DEF Running, Continue
<1>1. HistoryOK'
  BY HistoryHolds, HistoryStays
<1>2. <<>> \in Seq(Requests) /\ <<>> \in Seq(Runnable) /\ Len(<<>>) = 0
  OBVIOUS
<1>3. IsDecision(decision)' /\ ~decision'.ok
  <2>1. IsDecision(NoDecision) /\ ~NoDecision.ok
    BY NotAccepted DEF NoDecision, ErrorCodes
  <2>2. QED
    BY <2>1 DEF IsDecision
<1>4. BatchInv'
  <2>1. Len(results') + Len(batch') <= MaxToolCalls
    <3>1. Len(results) \in Nat /\ Len(batch) \in Nat /\ Len(results) + Len(batch) <= MaxToolCalls
      BY DEF AgentInv, AgentTypeOK, BatchInv
    <3>2. QED
      BY <1>2, <3>1, Constants
  <2>2. QED
    BY <1>2, <1>3, <2>1 DEF BatchInv
<1>5. GateInv' /\ EvidenceInv'
  BY DEF AgentInv, GateInv, EvidenceInv, history
<1>6. breaker.status # "open"
  BY DEF AgentInv, BreakerInv, Rejected, Repairable
<1>7. BreakerInv'
  BY <1>6 DEF BreakerInv
<1>8. QED
  BY <1>1, <1>2, <1>3, <1>4, <1>5, <1>7, Working DEF AgentInv, AgentTypeOK, Places

LEMMA RepairAnswerInv == ASSUME AgentInv, RepairAnswer PROVE AgentInv'
<1>1. repairs' \in 0 .. MaxRepairs
  BY Constants DEF RepairAnswer, AgentInv, AgentTypeOK
<1>2. types' \subseteq ControlTypes
  BY DEF RepairAnswer, Repairable
<1>3. QED
  BY <1>1, <1>2, ContinueInv DEF RepairAnswer

LEMMA RetryWithPlanInv == ASSUME AgentInv, RetryWithPlan PROVE AgentInv'
<1>1. repairs' \in 0 .. MaxRepairs /\ types' \subseteq ControlTypes
  BY Constants DEF RetryWithPlan, AgentInv, AgentTypeOK
<1>2. QED
  BY <1>1, ContinueInv DEF RetryWithPlan

\* The calls of an accepted answer are taken up within the limit.
LEMMA BatchTaken ==
  ASSUME AgentInv, Running("parse"), decision.ok, NEW calls \in Seq(Runnable), calls # <<>>,
         Len(results) + Len(calls) <= MaxToolCalls,
         batch' = calls, pc' = "batch", decision' = NoDecision,
         UNCHANGED <<status, alive, skip, iteration, types, repairs, results, intent, attempt,
                     breaker, trace, answer, history>>
  PROVE  AgentInv'
<1> USE DEF Running
<1>1. HistoryOK'
  BY HistoryHolds, HistoryStays
<1>2. calls \in Seq(Requests)
  BY SeqMonotonic DEF Runnable
<1>3. IsDecision(decision)' /\ ~decision'.ok
  <2>1. IsDecision(NoDecision) /\ ~NoDecision.ok
    BY NotAccepted DEF NoDecision, ErrorCodes
  <2>2. QED
    BY <2>1 DEF IsDecision
<1>4. BatchInv'
  BY <1>3 DEF BatchInv
<1>5. GateInv' /\ EvidenceInv'
  BY DEF AgentInv, GateInv, EvidenceInv, history
<1>6. BreakerInv'
  BY DEF AgentInv, BreakerInv, Rejected
<1>7. QED
  BY <1>1, <1>2, <1>3, <1>4, <1>5, <1>6, Working DEF AgentInv, AgentTypeOK, Places

LEMMA TakeBatchInv == ASSUME AgentInv, TakeBatch PROVE AgentInv'
<1>1. CASE Len(results) + Len(decision.calls) > MaxToolCalls
  BY <1>1, Failed DEF TakeBatch
<1>2. CASE ~(Len(results) + Len(decision.calls) > MaxToolCalls)
  <2>1. decision.calls \in Seq(Runnable) /\ decision.calls # <<>>
    BY DEF AgentInv, BatchInv, TakeBatch
  <2>2. Len(results) + Len(decision.calls) <= MaxToolCalls
    <3>1. Len(results) \in Nat /\ Len(decision.calls) \in Nat
      BY <2>1 DEF AgentInv, AgentTypeOK
    <3>2. QED
      BY <1>2, <3>1, Constants
  <2>3. QED
    BY <1>2, <2>1, <2>2, BatchTaken DEF TakeBatch
<1>3. QED
  BY <1>1, <1>2

LEMMA SubmitArtifactInv == ASSUME AgentInv, SubmitArtifact PROVE AgentInv'
<1> USE DEF SubmitArtifact
<1>1. CASE Return("failed")
  BY <1>1, ReturnedQuietly DEF Statuses
<1>2. CASE (Evidence = {} \/ EvidenceFound) /\ Return("completed")
  <2>1. Evidence # {} => acted \intersect Evidence # {}
    BY <1>2 DEF EvidenceFound, AgentInv, EvidenceInv
  <2>2. HistoryOK'
    BY <1>2, HistoryHolds, HistoryStays DEF Return
  <2>3. answer' \in Answers /\ acted' = acted
    BY DEF AgentInv, AgentTypeOK, history
  <2>4. "completed" \in Statuses \ {"running"}
    BY DEF Statuses
  <2>5. QED
    BY <1>2, <2>1, <2>2, <2>3, <2>4, Returned
<1>3. QED
  BY <1>1, <1>2

LEMMA AskClarificationInv == ASSUME AgentInv, AskClarification PROVE AgentInv'
  BY ReturnedQuietly DEF AskClarification, Statuses

\* What a stage that skips confirmations does with the call it would ask about.
LEMMA ProposedRuns == ProposedCall \in Runnable
<1>1. ProposedCall \in Requests /\ ProposedCall.tool \in Tools
  BY AgentAssumption DEF Requests, ProposedCall
<1>2. QED
  BY <1>1, RequestsRun

LEMMA AskConfirmationInv == ASSUME AgentInv, AskConfirmation PROVE AgentInv'
<1> USE DEF AskConfirmation
<1>1. CASE Return("waiting_tool_confirmation") /\ trace' = NoPayload /\ answer' = "none"
  <2>1. HistoryOK
    BY HistoryHolds
  <2>2. HistoryOK'
    BY <1>1, <2>1 DEF HistoryOK, TraceInv, RiskyRunsAsked, EffectsAudited, DeniedNotExecuted,
                      history, Return
  <2>3. "waiting_tool_confirmation" \in Statuses \ {"running"} /\ "none" \in Answers
    BY DEF Statuses, Answers
  <2>4. QED
    BY <1>1, <2>2, <2>3, Returned
<1>2. CASE Return("failed") /\ UNCHANGED <<trace, answer>>
  BY <1>2, ReturnedQuietly DEF Statuses
<1>3. CASE /\ Len(results) < MaxToolCalls /\ batch' = <<ProposedCall>>
           /\ pc' = "batch" /\ decision' = NoDecision
           /\ UNCHANGED <<status, alive, skip, iteration, types, repairs, results,
                          intent, attempt, breaker, trace, answer>>
  <2>1. <<ProposedCall>> \in Seq(Runnable) /\ <<ProposedCall>> # <<>>
    BY ProposedRuns
  <2>2. Len(results) + Len(<<ProposedCall>>) <= MaxToolCalls
    BY <1>3, Constants DEF AgentInv, AgentTypeOK
  <2>3. QED
    BY <1>3, <2>1, <2>2, BatchTaken
<1>4. QED
  BY <1>1, <1>2, <1>3

-----------------------------------------------------------------------------
(* The tool gate                                                            *)

AtGate == alive /\ status = "running" /\ pc \in {"batch", "confirm", "run"}

\* The call the gate is at is one of a known tool.
LEMMA CallKnown ==
  ASSUME AgentInv, AtGate
  PROVE  /\ batch # <<>> /\ batch \in Seq(Runnable) /\ batch \in Seq(Requests)
         /\ Call \in Payloads /\ Call.tool \in Tools
<1>1. batch # <<>> /\ batch \in Seq(Runnable)
  BY DEF AgentInv, BatchInv, AtGate
<1>2. Head(batch) \in Runnable
  BY <1>1
<1>3. QED
  BY <1>1, <1>2 DEF Call, Runnable, Payloads, AgentInv, AgentTypeOK

\* A result is recorded: with it and one call less the activation is within its limit.
LEMMA Recorded ==
  ASSUME AgentInv, AtGate, NEW r, IsResultOf(r, Call.tool), Record(r), HistoryOK',
         acted \subseteq acted', r.ref /\ r.status \in EvidenceStatuses => Call.tool \in acted'
  PROVE  AgentInv'
<1>1. CASE Return("failed") /\ UNCHANGED <<trace, answer>>
  BY <1>1, Returned DEF Statuses, AgentInv, AgentTypeOK
<1>2. CASE /\ results' = Append(results, Kept(r)) /\ batch' = Tail(batch) /\ intent' = FALSE
           /\ pc' = IF Len(batch) = 1 THEN "build" ELSE "batch"
           /\ UNCHANGED <<status, alive, skip, iteration, types, repairs, decision, attempt,
                          breaker, trace, answer>>
  <2> USE <1>2 DEF AtGate
  <2>1. Kept(r) \in KeptRow
    BY CallKnown DEF Kept, KeptRow, IsResultOf
  <2>2. results \in Seq(KeptRow) /\ Len(results) + Len(batch) <= MaxToolCalls
    BY DEF AgentInv, AgentTypeOK, BatchInv
  <2>3. /\ results' \in Seq(KeptRow) /\ Len(results') = Len(results) + 1
        /\ \A i \in DOMAIN results' :
             results'[i] = IF i = Len(results) + 1 THEN Kept(r) ELSE results[i]
        /\ \A i \in DOMAIN results' : i = Len(results) + 1 \/ i \in DOMAIN results
    BY <2>1, <2>2, AppendProperties
  <2>4. /\ batch' \in Seq(Runnable) /\ batch' \in Seq(Requests)
        /\ Len(batch') = Len(batch) - 1 /\ Len(batch) \in Nat
        /\ Len(batch) # 1 => batch' # <<>>
    <3>1. batch # <<>> /\ batch \in Seq(Runnable) /\ batch \in Seq(Requests)
      BY CallKnown
    <3>2. /\ batch' \in Seq(Runnable) /\ batch' \in Seq(Requests)
          /\ Len(batch') = Len(batch) - 1 /\ Len(batch) \in Nat
      BY <3>1, HeadTailProperties
    <3>3. batch' = <<>> => Len(batch') = 0
      OBVIOUS
    <3>4. QED
      BY <3>2, <3>3
  <2>5. Len(results') + Len(batch') <= MaxToolCalls
    BY <2>2, <2>3, <2>4, Constants
  <2>6. IsDecision(decision)'
    BY DEF AgentInv, AgentTypeOK, IsDecision
  <2>7. BatchInv'
    BY <2>4, <2>5 DEF AgentInv, BatchInv
  <2>8. EvidenceInv'
    <3>1. Kept(r).tool = Call.tool /\ Kept(r).status = r.status /\ Kept(r).ref = r.ref
      BY DEF Kept, IsResultOf
    <3>2. QED
      BY <2>3, <3>1 DEF AgentInv, EvidenceInv
  <2>9. GateInv' /\ BreakerInv'
    BY DEF AgentInv, GateInv, BreakerInv
  <2>10. QED
    BY <2>3, <2>4, <2>6, <2>7, <2>8, <2>9, Working DEF AgentInv, AgentTypeOK, Places
<1>3. QED
  BY <1>1, <1>2 DEF Record

\* A result of a call that did not run.
LEMMA RecordedQuietly ==
  ASSUME AgentInv, AtGate, NEW r, IsResultOf(r, Call.tool), ~r.ref, Record(r), UNCHANGED history
  PROVE  AgentInv'
<1>1. UNCHANGED <<skip, trace>>
  BY DEF Record, Return
<1>2. HistoryOK'
  BY <1>1, HistoryHolds, HistoryStays
<1>3. QED
  BY <1>2, Recorded DEF history

LEMMA RefusedResults ==
  ASSUME NEW tool
  PROVE  /\ \A code : IsResultOf(ToolFailure(tool, code), tool) /\ ~ToolFailure(tool, code).ref
         /\ \A code : /\ IsResultOf(Result(tool, "blocked", code, "none", FALSE, FALSE), tool)
                      /\ ~Result(tool, "blocked", code, "none", FALSE, FALSE).ref
  BY DEF ToolFailure, Result, IsResultOf, ResultStatuses

LEMMA GateRefusesInv == ASSUME AgentInv, GateRefuses PROVE AgentInv'
  BY RefusedResults, RecordedQuietly DEF GateRefuses, Running, AtGate

LEMMA GateRecordsIntentInv == ASSUME AgentInv, GateRecordsIntent PROVE AgentInv'
<1> USE DEF GateRecordsIntent, Running
<1>1. CASE AuditFails
  BY <1>1, RefusedResults, RecordedQuietly DEF AuditFails, AtGate
<1>2. CASE /\ pc' = "confirm" /\ intent' = Audited(Call.tool)
           /\ UNCHANGED <<status, alive, skip, iteration, types, repairs, results, decision, batch,
                          attempt, breaker, trace, answer, history>>
  <2> USE <1>2 DEF AgentInv, AgentTypeOK
  <2>1. HistoryOK'
    BY HistoryHolds, HistoryStays
  <2>2. intent' \in BOOLEAN
    BY DEF Audited
  <2>3. BatchInv' /\ EvidenceInv' /\ BreakerInv'
    BY DEF BatchInv, EvidenceInv, BreakerInv, history
  <2>4. GateInv'
    BY DEF GateInv, Call, Audited
  <2>5. QED
    BY <2>1, <2>2, <2>3, <2>4, Working DEF Places, IsDecision
<1>3. QED
  BY <1>1, <1>2

LEMMA GateBlocksInv == ASSUME AgentInv, GateBlocks PROVE AgentInv'
  BY RefusedResults, RecordedQuietly DEF GateBlocks, Running, AtGate

LEMMA GateAsksInv == ASSUME AgentInv, GateAsks PROVE AgentInv'
<1> USE DEF GateAsks
<1>1. CASE Record(ToolFailure(Call.tool, "internal_error")) /\ UNCHANGED history
  BY <1>1, RefusedResults, RecordedQuietly DEF Running, AtGate
<1>2. CASE /\ Return("waiting_tool_confirmation") /\ trace' = Call /\ answer' = "none"
           /\ asked' = asked \union {Call} /\ UNCHANGED <<effects, acted>>
  <2>1. Call \in Payloads
    BY CallKnown DEF Running, AtGate
  <2>2. HistoryOK
    BY HistoryHolds
  <2>3. HistoryOK'
    BY <1>2, <2>1, <2>2 DEF HistoryOK, TraceInv, RiskyRunsAsked, EffectsAudited,
                            DeniedNotExecuted, Return
  <2>4. "waiting_tool_confirmation" \in Statuses \ {"running"} /\ "none" \in Answers
    BY DEF Statuses, Answers
  <2>5. QED
    BY <1>2, <2>3, <2>4, Returned
<1>3. QED
  BY <1>1, <1>2

LEMMA GatePassesInv == ASSUME AgentInv, GatePasses PROVE AgentInv'
<1> USE DEF GatePasses, Running, AgentInv, AgentTypeOK, agent
<1>1. HistoryOK'
  BY HistoryHolds, HistoryStays
<1>2. BatchInv' /\ EvidenceInv' /\ BreakerInv'
  BY DEF BatchInv, EvidenceInv, BreakerInv, history
<1>3. GateInv'
  BY DEF GateInv, Call, MayRun, Granted
<1>4. QED
  BY <1>1, <1>2, <1>3, Working DEF Places, IsDecision

\* What the gate let through acts with its intent on record, and only where it is
\* not blocked and was asked about if it had to be.
LEMMA ActedInv ==
  ASSUME AgentInv, Running("run"), NEW r, IsResultOf(r, Call.tool), Record(r), asked' = asked,
         \/ UNCHANGED <<effects, acted>> /\ ~r.ref
         \/ Acts(Call, r)
  PROVE  AgentInv'
<1>1. AtGate
  BY DEF Running, AtGate
<1>2. UNCHANGED <<skip, trace>>
  BY DEF Record, Return
<1>3. CASE UNCHANGED <<effects, acted>> /\ ~r.ref
  BY <1>1, <1>3, RecordedQuietly DEF history
<1>4. CASE Acts(Call, r)
  <2> DEFINE e == [payload |-> Call, intent |-> intent, denied |-> answer = "denied" /\ trace = Call]
  <2>1. effects' = effects \union {e}
    BY <1>4 DEF Acts
  <2>2. e.payload = Call /\ e.intent = intent /\ ~e.denied
    BY DEF AgentInv, AnswerInv, Running
  <2>3. e \in [payload : Payloads, intent : BOOLEAN, denied : BOOLEAN]
    BY <1>1, CallKnown DEF AgentInv, AgentTypeOK
  <2>4. Classify(Call).level # "blocked" /\ MayRun(Call) /\ intent = Audited(Call.tool)
    BY DEF AgentInv, GateInv, Running
  <2>5. Classify(Call).level = "high_risk" => skip \/ Call \in asked
    <3>1. Call # NoPayload
      <4>1. NoPayload.tool \notin Tools
        BY DEF NoPayload, Payload, Tools, Registry, FileReadTool, GlobTool, GrepTool,
               FileWriteTool, FileEditTool, BashTool
      <4>2. QED
        BY <1>1, <4>1, CallKnown
    <3>2. QED
      BY <2>4, <3>1 DEF MayRun, NeedsConfirmation, Granted, AgentInv, TraceInv
  <2>6. acted \subseteq acted' /\ acted' \subseteq Tools
    BY <1>1, <1>4, CallKnown DEF Acts, AgentInv, AgentTypeOK
  <2>7. r.status \in EvidenceStatuses => Call.tool \in acted'
    BY <1>4 DEF Acts
  <2> HIDE DEF e
  <2>8. HistoryOK
    BY HistoryHolds
  <2>9. HistoryOK'
    <3>1. RiskyRunsAsked'
      BY <1>2, <2>1, <2>2, <2>4, <2>5, <2>8 DEF HistoryOK, RiskyRunsAsked
    <3>2. EffectsAudited' /\ DeniedNotExecuted'
      BY <2>1, <2>2, <2>4, <2>8 DEF HistoryOK, EffectsAudited, DeniedNotExecuted
    <3>3. QED
      BY <1>2, <2>1, <2>3, <2>6, <2>8, <3>1, <3>2 DEF HistoryOK, TraceInv
  <2>10. QED
    BY <1>1, <2>6, <2>7, <2>9, Recorded
<1>5. QED
  BY <1>3, <1>4

LEMMA ToolRunsInv == ASSUME AgentInv, ToolRuns PROVE AgentInv'
<1>1. AtGate
  BY DEF ToolRuns, Running, AtGate
<1>2. PICK r \in Results(Call) :
        /\ IF r.effect THEN Acts(Call, r) ELSE UNCHANGED <<effects, acted>>
        /\ Record(r)
  BY DEF ToolRuns
<1>3. IsResultOf(r, Call.tool)
  BY <1>1, CallKnown, ToolResult
<1>4. r.ref => r.effect
  BY <1>3 DEF IsResultOf
<1>5. QED
  BY <1>2, <1>3, <1>4, ActedInv DEF ToolRuns

LEMMA ToolRaisesInv == ASSUME AgentInv, ToolRaises PROVE AgentInv'
<1>1. PICK did \in BOOLEAN, code \in {"internal_error", "tool_timeout"} :
        /\ IF did /\ Call.tool \notin ReadOnlyTools
             THEN Acts(Call, ToolFailure(Call.tool, code)) ELSE UNCHANGED <<effects, acted>>
        /\ Record(ToolFailure(Call.tool, code))
  BY DEF ToolRaises
<1>2. IsResultOf(ToolFailure(Call.tool, code), Call.tool) /\ ~ToolFailure(Call.tool, code).ref
  BY RefusedResults
<1>3. QED
  BY <1>1, <1>2, ActedInv DEF ToolRaises

-----------------------------------------------------------------------------
(* The user, the process, and every step                                    *)

LEMMA ResumeRefusedInv == ASSUME AgentInv, ResumeRefused PROVE AgentInv'
  BY Rested DEF ResumeRefused, Statuses, AgentInv, AgentTypeOK

LEMMA UserAnswersInv == ASSUME AgentInv, UserAnswers PROVE AgentInv'
<1>1. PICK a \in {"replied", "allowed", "denied"} : Resumed(a)
  BY DEF UserAnswers
<1>2. status # "running" /\ a \in Answers /\ "ready" \in Statuses \ {"running", "completed"}
  BY DEF UserAnswers, Answers, Statuses
<1>3. QED
  BY <1>1, <1>2, Rested DEF Resumed

LEMMA ProcessDiesInv == ASSUME AgentInv, ProcessDies PROVE AgentInv'
<1> USE DEF ProcessDies
<1>1. NewAgent({})
  OBVIOUS
<1>2. HistoryOK'
  BY HistoryHolds, HistoryStays
<1>3. AgentTypeOK'
  BY <1>1, <1>2, Fresh DEF AgentInv, AgentTypeOK, HistoryOK, Places
<1>4. BatchInv' /\ GateInv' /\ BreakerInv'
  BY <1>1, Fresh DEF BatchInv, GateInv, BreakerInv
<1>5. AnswerInv' /\ EvidenceInv' /\ EvidenceIsReal'
  BY <1>1, Fresh DEF AgentInv, AnswerInv, EvidenceIsReal
<1>6. QED
  BY <1>2, <1>3, <1>4, <1>5 DEF AgentInv, HistoryOK

LEMMA StutterInv == ASSUME AgentInv, UNCHANGED vars PROVE AgentInv'
<1> USE DEF vars, agent
<1>1. HistoryOK'
  BY HistoryHolds, HistoryStays
<1>2. AgentTypeOK'
  BY <1>1 DEF AgentInv, AgentTypeOK, HistoryOK, IsDecision
<1>3. BatchInv' /\ EvidenceInv' /\ BreakerInv'
  BY DEF AgentInv, BatchInv, EvidenceInv, BreakerInv, history
<1>4. GateInv' /\ AnswerInv' /\ EvidenceIsReal'
  BY DEF AgentInv, GateInv, Call, MayRun, Granted, AnswerInv, EvidenceIsReal, history
<1>5. QED
  BY <1>1, <1>2, <1>3, <1>4 DEF AgentInv, HistoryOK

LEMMA NextInv == AgentInv /\ [Next]_vars => AgentInv'
<1> SUFFICES ASSUME AgentInv, [Next]_vars PROVE AgentInv'
  OBVIOUS
<1>1. CASE AgentStep
  <2>1. CASE RejectAnswer \/ FailStage
    BY <2>1, Failed DEF RejectAnswer, FailStage
  <2>2. CASE \E kind \in ModelFailures : CallFails(kind)
    BY <2>2, CallFailsInv
  <2>3. CASE \/ GateRefuses \/ GateRecordsIntent \/ GateBlocks \/ GateAsks \/ GatePasses
             \/ ToolRuns \/ ToolRaises
    BY <2>3, GateRefusesInv, GateRecordsIntentInv, GateBlocksInv, GateAsksInv, GatePassesInv,
       ToolRunsInv, ToolRaisesInv
  <2>4. CASE \/ RepairAnswer \/ TakeBatch \/ SubmitArtifact \/ RetryWithPlan
             \/ AskClarification \/ AskConfirmation
    BY <2>4, RepairAnswerInv, TakeBatchInv, SubmitArtifactInv, RetryWithPlanInv,
       AskClarificationInv, AskConfirmationInv
  <2>5. CASE Activate \/ ResumeRefused \/ BuildContext \/ CallSucceeds
    BY <2>5, ActivateInv, ResumeRefusedInv, BuildContextInv, CallSucceedsInv
  <2>6. QED
    BY <1>1, <2>1, <2>2, <2>3, <2>4, <2>5 DEF AgentStep
<1>2. CASE StageRaises
  BY <1>2, Failed DEF StageRaises
<1>3. CASE UserAnswers \/ ProcessDies
  BY <1>3, UserAnswersInv, ProcessDiesInv
<1>4. CASE UNCHANGED vars
  BY <1>4, StutterInv
<1>5. QED
  BY <1>1, <1>2, <1>3, <1>4 DEF Next

LEMMA AgentInvAlways == Spec => []AgentInv
  BY InitInv, NextInv, PTL DEF Spec

-----------------------------------------------------------------------------
(* What holds of every behaviour                                            *)

\* Every variable keeps its type.
THEOREM AgentTyped == Spec => []AgentTypeOK
<1>1. AgentInv => AgentTypeOK
  BY DEF AgentInv
<1>2. QED
  BY <1>1, AgentInvAlways, PTL

\* However the calls come in batches, an activation stays within the tool calls its
\* stage may make: TakeBatch looks at the batch before any of it runs.
THEOREM BudgetKept == Spec => []BudgetHolds
<1>1. AgentInv => BudgetHolds
  <2> SUFFICES ASSUME AgentInv PROVE BudgetHolds
    OBVIOUS
  <2>1. /\ Len(results) \in Nat /\ Len(batch) \in Nat
        /\ Len(results) + Len(batch) <= MaxToolCalls
    BY DEF AgentInv, AgentTypeOK, BatchInv
  <2>2. QED
    BY <2>1, Constants DEF BudgetHolds
<1>2. QED
  BY <1>1, AgentInvAlways, PTL

\* A high-risk call acts only after the user was asked about exactly its payload, or in
\* a stage that skips confirmations; a blocked one never: between the gate's assessment
\* and the tool nothing changes what was assessed.
THEOREM RiskyWereAsked == Spec => []RiskyRunsAsked
<1>1. AgentInv => RiskyRunsAsked
  BY DEF AgentInv
<1>2. QED
  BY <1>1, AgentInvAlways, PTL

\* What an audited tool did has its intent on record: the gate records it before the
\* tool runs and drops it only with the result.
THEOREM EffectsOnRecord == Spec => []EffectsAudited
<1>1. AgentInv => EffectsAudited
  BY DEF AgentInv
<1>2. QED
  BY <1>1, AgentInvAlways, PTL

\* What the user denied is never executed under that answer, because only an allowed
\* confirmation makes the worker run the stage again.
THEOREM DenialsHold == Spec => []DeniedNotExecuted
<1>1. AgentInv => DeniedNotExecuted
  BY DEF AgentInv
<1>2. QED
  BY <1>1, AgentInvAlways, PTL

\* A stage whose artifact needs evidence completes only if a tool that gives it has
\* acted on the workspace.
THEOREM EvidenceActed == Spec => []EvidenceIsReal
<1>1. AgentInv => EvidenceIsReal
  BY DEF AgentInv
<1>2. QED
  BY <1>1, AgentInvAlways, PTL

\* An open breaker ends the stage at its next step: the answer that a call under it
\* would give is not one that is asked for again.
THEOREM OpenBreakerEnds == Spec => OpenEndsStage
<1> DEFINE A == breaker.status = "open" /\ alive' => status' = "failed"
<1>1. AgentInv /\ [Next]_vars => [A]_vars
  <2> SUFFICES ASSUME AgentInv, Next, breaker.status = "open", alive' PROVE status' = "failed"
    OBVIOUS
  <2>1. alive /\ status = "running" /\ pc = "parse"
    BY DEF AgentInv, BreakerInv
  <2>2. ~decision.ok /\ ~Repairable(decision)
    BY DEF AgentInv, BreakerInv, Rejected, Repairable
  <2>3. RejectAnswer \/ StageRaises \/ ProcessDies
    <3> USE <2>1, <2>2 DEF Running
    <3>1. ~Activate /\ ~ResumeRefused /\ ~BuildContext /\ ~CallSucceeds
      BY DEF Activate, ResumeRefused, BuildContext, CallSucceeds
    <3>2. ~ \E kind \in ModelFailures : CallFails(kind)
      BY DEF CallFails
    <3>3. ~RepairAnswer /\ ~TakeBatch /\ ~SubmitArtifact /\ ~RetryWithPlan
      BY DEF RepairAnswer, TakeBatch, SubmitArtifact, RetryWithPlan
    <3>4. ~AskClarification /\ ~AskConfirmation /\ ~FailStage
      BY DEF AskClarification, AskConfirmation, FailStage
    <3>5. ~GateRefuses /\ ~GateRecordsIntent /\ ~GateBlocks /\ ~GateAsks /\ ~GatePasses
      BY DEF GateRefuses, GateRecordsIntent, GateBlocks, GateAsks, GatePasses
    <3>6. ~ToolRuns /\ ~ToolRaises /\ ~UserAnswers
      BY DEF ToolRuns, ToolRaises, UserAnswers
    <3>7. QED
      BY <3>1, <3>2, <3>3, <3>4, <3>5, <3>6 DEF Next, AgentStep
  <2>4. ~ProcessDies
    BY DEF ProcessDies
  <2>5. QED
    BY <2>3, <2>4 DEF RejectAnswer, StageRaises, Fail, Return
<1>2. QED
  BY <1>1, AgentInvAlways, PTL DEF Spec, OpenEndsStage

=============================================================================
