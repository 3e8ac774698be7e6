---------------------------- MODULE MCCoordination ----------------------------
(***************************************************************************)
(* Two lanes whose queues share their second task.  By hand the session issues *)
(* the first lane's first claim again, and gives that lane the second task under *)
(* the name that advancing the second lane would use.                          *)
(***************************************************************************)
EXTENDS Coordination

MCLanes == {"AL01", "AL02"}
MCTasks == {"t1", "t2"}
MCQueue == [l \in MCLanes |-> IF l = "AL01" THEN <<"t1", "t2">> ELSE <<"t2">>]
MCHandClaims == {<<AutoId("AL01", "t1"), "AL01", "t1">>, <<AutoId("AL02", "t2"), "AL01", "t2">>}

=============================================================================
