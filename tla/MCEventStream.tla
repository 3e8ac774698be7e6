----------------------------- MODULE MCEventStream -----------------------------
(***************************************************************************)
(* A user's commands and the worker append to the events of one session that a page follows.       *)
(***************************************************************************)
EXTENDS EventStream

MCUsers == {"user"}
MCWorkers == {"worker"}
MCRuns == {"r1", "r2"}

=============================================================================
