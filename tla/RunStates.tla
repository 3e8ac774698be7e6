------------------------------ MODULE RunStates ------------------------------
(***************************************************************************)
(* The vocabulary every module of the project shares: the statuses of runs, *)
(* stages and LangGraph nodes, the transition table a run promises, and the *)
(* static six-stage graph with its two approval gates.                      *)
(*                                                                         *)
(* Sources: backend/app/domain/enums.py, domain/state_machine.py,           *)
(* services/graph_compiler.py, runtime/nodes.py, runtime/langgraph_engine.py*)
(***************************************************************************)

\* The three things a run can wait for; each has its request row, its graph
\* interrupt and its waiting status.
WaitKinds == {"clarification", "approval", "tool_confirmation"}

WaitingStatus(kind) ==
  CASE kind = "clarification" -> "waiting_clarification"
    [] kind = "approval" -> "waiting_approval"
    [] OTHER -> "waiting_tool_confirmation"

WaitingStatuses == {"waiting_clarification", "waiting_approval",
                    "waiting_tool_confirmation"}

TerminalStatuses == {"completed", "failed", "terminated"}

ActiveStatuses == {"running", "paused"} \union WaitingStatuses

RunStatuses == ActiveStatuses \union TerminalStatuses

\* "superseded" exists in the enum and no code assigns it.
StageStatuses == {"running"} \union WaitingStatuses \union TerminalStatuses

\* project_session_status: the session shows the same-named run status.
ProjectSessionStatus(runStatus) == runStatus

\* The statuses RunStateMachine.transition can take a run to in one event.
Transitions ==
  [ s \in RunStatuses |->
      CASE s = "running" -> WaitingStatuses \union {"paused"} \union TerminalStatuses
        [] s \in WaitingStatuses -> {"running", "paused", "failed", "terminated"}
        [] s = "paused" -> {"running", "terminated"}
        [] OTHER -> {} ]

\* _TERMINAL_RUN_STATUSES minus COMPLETED: the tails a rerun may follow.
RerunnableStatuses == {"failed", "terminated"}

-----------------------------------------------------------------------------
(* The compiled graph of a run                                              *)

StageTypes == {"requirement_analysis", "solution_design", "code_generation",
               "test_generation_execution", "code_review",
               "delivery_integration"}

FirstStage == "requirement_analysis"

\* The stages whose success node is an approval gate.
GatedStages == {"solution_design", "code_review"}

Gates == {"solution_design.approval_gate", "code_review.approval_gate"}

\* "blocked" is __non_completed_stage_result__, where a stage that did not
\* complete is routed; entering it raises.
Nodes == StageTypes \union Gates \union {"end", "blocked"}

\* Mutations: a skipped stage, a regression edge without a limit.
SuccessNodeSkipsTests ==
  [ s \in StageTypes |->
      CASE s = "requirement_analysis" -> "solution_design"
        [] s = "solution_design" -> "solution_design.approval_gate"
        [] s = "code_generation" -> "code_review"
        [] s = "code_review" -> "code_review.approval_gate"
        [] OTHER -> "end" ]

SuccessNodeLoops ==
  [ s \in StageTypes |->
      CASE s = "requirement_analysis" -> "solution_design"
        [] s = "solution_design" -> "solution_design.approval_gate"
        [] s = "code_generation" -> "test_generation_execution"
        [] s = "test_generation_execution" -> "code_generation"
        [] OTHER -> "end" ]

\* Where the graph goes after a stage completed.
SuccessNode ==
  [ s \in StageTypes |->
      CASE s = "requirement_analysis" -> "solution_design"
        [] s = "solution_design" -> "solution_design.approval_gate"
        [] s = "code_generation" -> "test_generation_execution"
        [] s = "test_generation_execution" -> "code_review"
        [] s = "code_review" -> "code_review.approval_gate"
        [] OTHER -> "end" ]

\* Mutation: the approval is filed under the gate's node key.
GateItself(gate) == gate

GateSource(gate) ==
  IF gate = "solution_design.approval_gate" THEN "solution_design" ELSE "code_review"

\* Where the graph goes after the gate behind stage s was approved or rejected.
ApprovedTarget(s) ==
  IF s = "solution_design" THEN "code_generation" ELSE "delivery_integration"

\* Mutation: a rejection falls through to the approved targets.
RejectedFallsThrough(s) == ApprovedTarget(s)

RejectedTarget(s) ==
  IF s = "solution_design" THEN "solution_design" ELSE "code_generation"

\* The stages and nodes only reachable through an approved gate.
BehindGate(s) ==
  IF s = "solution_design"
  THEN {"code_generation", "test_generation_execution", "code_review",
        "code_review.approval_gate", "delivery_integration", "end"}
  ELSE {"delivery_integration", "end"}
=============================================================================
