------------------------------ MODULE MCDelivery ------------------------------
(***************************************************************************)
(* One run, a channel edited by two requests at a time, two repositories and one  *)
(* credential.                                                               *)
(***************************************************************************)
EXTENDS Delivery

MCRuns == {"r1"}
MCRepositories == {"fork", "upstream"}
CONSTANTS q1, q2
MCCredentials == {"env_a"}
MCRequests == {q1, q2}
Symmetry == Permutations(MCRequests)

=============================================================================
