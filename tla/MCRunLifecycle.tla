--------------------------- MODULE MCRunLifecycle ---------------------------
(* RunLifecycle for TLC: the environments of the stage agents.              *)
EXTENDS RunLifecycle

AnyOutcome == StageOutcomes
OnlyCompletes == {"completed"}
CompletesOrClarifies == {"completed", "clarification"}
CompletesOrConfirms == {"completed", "tool_confirmation"}
=============================================================================
