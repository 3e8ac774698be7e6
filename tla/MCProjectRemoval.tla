------------------------- MODULE MCProjectRemoval ----------------------------
(* Two sessions, three requests at once.                                   *)
EXTENDS ProjectRemoval, TLC

Alike == Permutations(Threads) \cup Permutations(Sessions)
=============================================================================
