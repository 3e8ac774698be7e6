--------------------------- MODULE DeliveryPromise ---------------------------
(***************************************************************************)
(* What the delivery of a run promises, without adapters, tool calls,       *)
(* confirmations, faults or retries: the channel is approved once, a git    *)
(* delivery then branches, commits the work there, pushes it and asks for   *)
(* one review in the approved repository, each step once and in this order, *)
(* and success is recorded behind the last one.  Delivery implements it.    *)
(***************************************************************************)
EXTENDS Integers, Sequences

CONSTANTS
  Runs,           \* the runs of the project
  Repositories    \* values of repository_identifier

VARIABLES
  approved,       \* run -> the channel approved for it, as a set of at most one
  work,           \* run -> what became of its work, one of the stages below
  told,           \* run -> the results recorded for it
  announced       \* the runs with a delivery result in their feed

vars == <<approved, work, told, announced>>

Channels == [mode : {"demo", "git"}, repository : Repositories \union {"none"}]

Stage(branch, commit, pushed, reviews) ==
  [branch |-> branch, commit |-> commit, pushed |-> pushed, reviews |-> reviews]

Untouched == Stage("none", "none", "nothing", <<>>)
Branched == Stage("delivery", "none", "nothing", <<>>)
Committed == Stage("delivery", "delivery", "nothing", <<>>)
Pushed == Stage("delivery", "delivery", "work", <<>>)
Reviewed(repository) == Stage("delivery", "delivery", "work", <<repository>>)

Init ==
  /\ approved = [r \in Runs |-> {}]
  /\ work = [r \in Runs |-> Untouched]
  /\ told = [r \in Runs |-> {}]
  /\ announced = {}

Approve(r) ==
  /\ approved[r] = {}
  /\ \E channel \in Channels : approved' = [approved EXCEPT ![r] = {channel}]
  /\ UNCHANGED <<work, told, announced>>

Step(r, from, to) ==
  /\ work[r] = from
  /\ work' = [work EXCEPT ![r] = to]
  /\ UNCHANGED <<approved, told, announced>>

Work(r) ==
  \E channel \in approved[r] :
    /\ channel.mode = "git"
    /\ \/ Step(r, Untouched, Branched)
       \/ Step(r, Branched, Committed)
       \/ Step(r, Committed, Pushed)
       \/ Step(r, Pushed, Reviewed(channel.repository))

\* A demo delivery has no work to show.
Tell(r) ==
  /\ \E channel \in approved[r], result \in {"succeeded", "failed", "blocked"} :
       /\ result = "succeeded" /\ channel.mode = "git" => work[r] = Reviewed(channel.repository)
       /\ told' = [told EXCEPT ![r] = @ \union {result}]
  /\ UNCHANGED <<approved, work, announced>>

Announce(r) ==
  /\ "succeeded" \in told[r]
  /\ announced' = announced \union {r}
  /\ UNCHANGED <<approved, work, told>>

Next == \E r \in Runs : Approve(r) \/ Work(r) \/ Tell(r) \/ Announce(r)

Spec == Init /\ [][Next]_vars
=============================================================================
