---------------------------- MODULE AgentDecision ----------------------------
(***************************************************************************)
(* What the stage agent makes of one answer of the model: the decision the  *)
(* parser accepts, or the error it raises with the decision it thinks was    *)
(* meant.  Pure: no state.                                                  *)
(*                                                                         *)
(* An answer is provider error or not, native tool calls, and structured     *)
(* outputs.  A structured output is the decision type it declares, where it  *)
(* keeps the artifact fields ("flat" beside the type, "wrapped" in           *)
(* artifact_payload), which artifact it names, whether the artifact's        *)
(* required fields are all there, and whether the envelope validates.        *)
(*                                                                         *)
(* Source: backend/app/runtime/agent_decision.py                            *)
(***************************************************************************)
EXTENDS Naturals, Sequences

\* What a structured output may declare and the parser can accept.
ControlTypes == {"request_tool_confirmation", "submit_stage_artifact",
                 "request_clarification", "retry_with_revised_plan", "fail_stage"}

DecisionTypes ==
  ControlTypes \union {"request_tool_call", "repair_structured_output"}

\* "absent" is no decision_type at all, "unknown" a word that is not one.
Outputs == [type: DecisionTypes \union {"absent", "unknown"},
            form: {"flat", "wrapped"}, artifact: {"match", "other", "unnamed"},
            fields: BOOLEAN, valid: BOOLEAN, tool: STRING]

\* The decision types a stage offers the model: asking back only where the
\* contract allows it, a tool call never (it is native).
BaseTypes(mayClarify) ==
  IF mayClarify THEN ControlTypes ELSE ControlTypes \ {"request_clarification"}

-----------------------------------------------------------------------------
(* Normalisation                                                            *)

AsSubmit(o) == [o EXCEPT !.type = "submit_stage_artifact", !.artifact = "match",
                         !.form = "wrapped"]

\* An artifact without a decision type is taken for a submission when it is
\* wrapped and does not name another artifact, or has the required fields.
NormalizeBare(o) ==
  IF \/ o.form = "wrapped" /\ o.artifact # "other"
     \/ o.form = "flat" /\ o.fields
    THEN AsSubmit(o) ELSE o

\* A submission without an artifact type is given the contract's.
NormalizeWrapped(o) ==
  IF o.artifact = "unnamed" THEN [o EXCEPT !.artifact = "match"] ELSE o

\* Fields beside the type are moved into a payload when none is missing.
NormalizeFlat(o) ==
  IF o.fields THEN [NormalizeWrapped(o) EXCEPT !.form = "wrapped"] ELSE o

Normalize(o) ==
  CASE o.type = "absent" -> NormalizeBare(o)
    [] o.type = "submit_stage_artifact" /\ o.form = "wrapped" -> NormalizeWrapped(o)
    [] o.type = "submit_stage_artifact" /\ o.form = "flat" -> NormalizeFlat(o)
    [] OTHER -> o

-----------------------------------------------------------------------------
(* Parsing                                                                  *)

\* "none" is an error that names no decision.
Rejected(code, intended) ==
  [ok |-> FALSE, code |-> code, type |-> intended, calls |-> <<>>]

Accepted(type, calls) ==
  [ok |-> TRUE, code |-> "none", type |-> type, calls |-> calls]

InvalidOutput(intended) == Rejected("invalid_structured_output", intended)

\* The payload has the fields of its decision class, none more, and the bounds
\* the class puts on them; that is looked at here and nowhere later.
PayloadTaken(o) == o.valid

\* _build_structured_decision: a payload that is not the declared decision's.
Built(o) ==
  /\ o.type \in ControlTypes
  /\ PayloadTaken(o)
  /\ o.type = "submit_stage_artifact" => o.form = "wrapped"

Offers(env, tool) == tool \in env.tools

\* The artifact is the contract's and has all its required fields.
ArtifactTaken(o) == o.artifact = "match" /\ o.fields

\* validate_against_stage_contract for a structured decision.
\* env: [types, tools, clarify], the response schema's types, the tools that
\* are both in the envelope and in the contract, the contract's clarification.
WithinContract(o, env) ==
  IF o.type \notin env.types THEN InvalidOutput(o.type)
  ELSE IF o.type = "request_tool_confirmation" /\ ~Offers(env, o.tool)
    THEN Rejected("tool_not_available", o.type)
  ELSE IF o.type = "submit_stage_artifact" /\ ~ArtifactTaken(o)
    THEN Rejected("stage_contract_violation", o.type)
  ELSE IF o.type = "request_clarification" /\ ~env.clarify
    THEN Rejected("clarification_not_allowed", o.type)
  ELSE Accepted(o.type, <<>>)

FromStructured(output, env) ==
  LET o == Normalize(output)
  IN  IF o.type \notin DecisionTypes THEN InvalidOutput("none")
      ELSE IF ~Built(o) THEN InvalidOutput(o.type)
      ELSE WithinContract(o, env)

\* "schema" is a payload the tool's input schema does not take, "version" a call
\* made against another version of it.
WellFormed(call) == call.wellFormed = "yes"

\* Every call of a batch must be one the stage offers, in the offered schema
\* version, with a payload its schema takes; the first that is not decides.
\* The response schema's decision types are not looked at.
FromToolCalls(calls, env) ==
  LET bad == {i \in DOMAIN calls : ~Offers(env, calls[i].tool) \/ ~WellFormed(calls[i])}
  IN  IF bad = {}
        THEN Accepted("request_tool_call", calls)
        ELSE LET c == calls[CHOOSE i \in bad : \A j \in bad : i <= j]
             IN  Rejected(IF ~Offers(env, c.tool) THEN "tool_not_available"
                          ELSE IF c.wellFormed = "version" THEN "tool_schema_mismatch"
                          ELSE "tool_input_schema_invalid",
                          "request_tool_call")

\* parse_model_result, in the order of its early returns.
\* reply: [error, malformed, calls, outputs].
Parse(reply, env) ==
  IF reply.error THEN Rejected("provider_call_failed", "none")
  ELSE IF reply.malformed THEN Rejected("invalid_tool_call", "none")
  ELSE IF reply.outputs # <<>> /\ reply.calls # <<>>
    THEN Rejected("ambiguous_model_decision", "none")
  ELSE IF Len(reply.calls) = 1 /\ reply.calls[1].tool = "submit_stage_artifact"
    THEN FromStructured(reply.calls[1].submission, env)
  ELSE IF reply.calls # <<>> THEN FromToolCalls(reply.calls, env)
  ELSE IF Len(reply.outputs) = 1 THEN FromStructured(reply.outputs[1], env)
  ELSE IF reply.outputs = <<>> THEN InvalidOutput("none")
  ELSE Rejected("ambiguous_model_decision", "none")

\* Mutation: a failed call is treated like an answer that did not parse.
RepairsFailedCalls(d) ==
  ~d.ok /\ d.code \in {"invalid_structured_output", "provider_call_failed"}

\* Only a structured output that declared one of the control decisions is
\* worth asking for again; every other error ends the stage.
Repairable(d) ==
  ~d.ok /\ d.code = "invalid_structured_output" /\ d.type \in ControlTypes

=============================================================================
