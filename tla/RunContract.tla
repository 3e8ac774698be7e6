----------------------------- MODULE RunContract -----------------------------
(***************************************************************************)
(* What the domain promises of a Session and its PipelineRuns, without      *)
(* stages, graph, workers or databases: RunStateMachine of                  *)
(* domain/state_machine.py.  RunLifecycle implements it.                    *)
(*                                                                         *)
(* One rule is the services' and not the table's: the table takes PAUSED    *)
(* with RESUME to RUNNING, resume_run takes the run back to the status it   *)
(* was paused in.                                                           *)
(***************************************************************************)
EXTENDS Naturals, RunStates

CONSTANT MaxRuns   \* bound on the attempts of the session

Runs == 1..MaxRuns

VARIABLES
  current,   \* Session.current_run_id, 0 = null
  status,    \* PipelineRun.status, "none" before creation
  shown,     \* Session.status
  before     \* the status a run was last paused in

vars == <<current, status, shown, before>>

TypeOK ==
  /\ current \in 0..MaxRuns
  /\ status \in [Runs -> RunStatuses \union {"none"}]
  /\ shown \in RunStatuses \union {"draft"}
  /\ before \in [Runs -> RunStatuses \union {"none"}]

Init ==
  /\ current = 0
  /\ status = [r \in Runs |-> "none"]
  /\ shown = "draft"
  /\ before = [r \in Runs |-> "none"]

Become(r, to) ==
  /\ status' = [status EXCEPT ![r] = to]
  /\ shown' = ProjectSessionStatus(to)

\* assert_can_start_first_run and assert_can_create_rerun
Start ==
  /\ \/ shown = "draft" /\ current = 0
     \/ /\ current \in 1..(MaxRuns - 1)
        /\ status[current] \in RerunnableStatuses
        /\ shown = ProjectSessionStatus(status[current])
  /\ current' = current + 1
  /\ Become(current + 1, "running")
  /\ UNCHANGED before

Pause(r) ==
  /\ status[r] \in {"running"} \union WaitingStatuses
  /\ Become(r, "paused")
  /\ before' = [before EXCEPT ![r] = status[r]]
  /\ UNCHANGED current

Resume(r) ==
  /\ status[r] = "paused"
  /\ Become(r, before[r])
  /\ UNCHANGED <<current, before>>

\* Every other event of the table
Transition(r) ==
  /\ \E to \in Transitions[status[r]] \ {"paused"} :
        /\ status[r] = "paused" => to = "terminated"
        /\ Become(r, to)
  /\ UNCHANGED <<current, before>>

Next ==
  \/ Start
  \/ \E r \in Runs : current = r /\ (Pause(r) \/ Resume(r) \/ Transition(r))

Spec == Init /\ [][Next]_vars
=============================================================================
