-------------------------- MODULE MCRunPublication --------------------------
(* RunPublication for TLC.                                                  *)
EXTENDS RunPublication, TLC

\* Requests are interchangeable; all the runs here check safety only.
RequestSymmetry == Permutations(Requests)
=============================================================================
