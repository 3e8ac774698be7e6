--------------------------- MODULE MCConfiguration ---------------------------
(* A small installation: one built-in provider and one of the user's, two  *)
(* models, two templates, two requests at once.                            *)
EXTENDS Configuration, TLC

ThreadsAlike == Permutations(Threads)

ConstOrder == <<"builtin", "custom">>
ConstDefaultBinding == <<"builtin", "m1">>

ConstProviderBodies ==
    {[enabled |-> TRUE, default |-> "m1", models |-> {"m1"}],
     [enabled |-> TRUE, default |-> "m1", models |-> {"m1", "m2"}],
     [enabled |-> TRUE, default |-> "m2", models |-> {"m1", "m2"}]}

ConstTemplateBodies ==
    {[stage |-> "custom", aux |-> <<"custom", "m2">>, limit |-> 2],
     [stage |-> "custom", aux |-> <<"builtin", "m1">>, limit |-> 1]}

ConstUpdates ==
    {[limit |-> 1], [limit |-> 2], [internal |-> <<"custom", "m1">>]}

ConstPackages ==
    {[providers |-> [p \in {"custom"} |-> [enabled |-> e, default |-> "m1", models |-> {"m1"}]],
      templates |-> [id \in {"t1"} |->
                       [stage |-> "custom", aux |-> <<"builtin", "m1">>, limit |-> 1]]] : e \in BOOLEAN}
    \cup
    {[providers |-> [p \in {} |-> p],
      templates |-> [id \in {"t2"} |->
                       [stage |-> "builtin", aux |-> <<"builtin", "m1">>, limit |-> 1]]]}
=============================================================================
