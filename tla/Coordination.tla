----------------------------- MODULE Coordination -----------------------------
(***************************************************************************)
(* The claims of the acceleration workflow:                                  *)
(*   .codex/skills/acceleration-workflow/scripts/coordination_store.py       *)
(*                                                                           *)
(* Lanes work through queues of tasks, each on a branch with a worktree.  The main*)
(* session claims any task for any lane by hand, or has auto-advance issue a claim  *)
(* for a lane's next task; a worker commits the work and a report, the main session *)
(* ingests the report, the branch is merged into the integration branch, and the    *)
(* idle branch is brought up to it before the lane's next claim.  Only the main     *)
(* session writes the store (SKILL.md, Claim Rules); a command of it reads git and  *)
(* the store step by step while workers go on.  A command over several claims or    *)
(* lanes takes one after the other on one connection, so it is here as many commands.*)
(***************************************************************************)
EXTENDS Integers, SequencesExt, FiniteSetsExt

CONSTANTS
  Lanes,          \* the Lane Registry; each lane has a branch and a worktree
  Tasks,          \* the tasks of the platform plan
  Queue,          \* lane -> its queue of tasks
  OtherIds,       \* claim ids besides the ones named for a lane and a task
  HandClaims,     \* the claims <<id, lane, task>> the main session may make by hand
  MaxCommits,     \* bound: commits on all branches
  MaxMerges       \* bound: commits of the integration branch

ASSUME QueueAssumption == Queue \in [Lanes -> Seq(Tasks)]
ASSUME HandAssumption ==
  \A h \in HandClaims : h[1] \in (Lanes \X Tasks) \union OtherIds /\ h[2] \in Lanes /\ h[3] \in Tasks

VARIABLES
  claims,         \* the store: claim id -> its row, see NoClaim
  plan,           \* the tasks marked [x] in the platform plan and the split plans
  integration,    \* number of commits of the integration branch
  branch,         \* lane -> [base, own, merged]: the integration commit it contains, the
                  \* commits made on it, how many of them integration contains
  dirty,          \* the lanes whose worktree has uncommitted changes
  worker,         \* lane -> the claim its worker is at, as it was issued, or NoOne
  command         \* the command the main session is running, or Done

vars == <<claims, plan, integration, branch, dirty, worker, command>>

Unfinished == {"claimed", "reported", "implemented", "mock_ready", "integrating"}
(* Mutation: a claim with local evidence is over.                               *)
ReportedIsOver == Unfinished \ {"reported"}

ActiveStatuses == {"claimed", "reported", "implemented", "mock_ready", "integrating"}
CompleteStatuses == {"integrated", "done"}
(* Mutation: a lane that has finished a claim is not idle.                      *)
FinishedBlocks == ActiveStatuses \union CompleteStatuses \union {"blocked"}

SyncBlockingStatuses == ActiveStatuses \union {"blocked"}

AutoId(l, t) == <<l, t>>
ClaimIds == {AutoId(l, t) : l \in Lanes, t \in Tasks} \union OtherIds

(* A row, and who issued the claim ("hand" or "advance"), which the claim's events tell. *)
NoClaim == [status |-> "none", lane |-> "", task |-> "", base |-> <<0, 0>>, head |-> <<0, 0>>,
            by |-> "none"]
NoOne == [claim |-> <<"", "">>, lane |-> "", task |-> "", base |-> <<0, 0>>]
Done == [kind |-> "none", at |-> "done", lane |-> "", target |-> 0, claim |-> NoOne.claim,
         head |-> <<0, 0>>, result |-> "none"]

-----------------------------------------------------------------------------
(* Git.                                                                      *)

(* A commit is named by the integration commit below it and its number on the branch.  *)
BranchHead(l) == <<branch[l].base, Len(branch[l].own)>>
Ahead(l) == Len(branch[l].own) - branch[l].merged
Behind(l) == integration - branch[l].base

(* rev-parse gives the same commit for a branch without commits of its own.         *)
AtTarget(l, head, target) == head[1] = target /\ head[2] = branch[l].merged

(* The commits a claim's base does not have.                                    *)
Diff(l, base) == {branch[l].own[i] : i \in (base[2] + 1)..Len(branch[l].own)}

-----------------------------------------------------------------------------
(* Reading the store.                                                        *)

ClaimsOfLane(l) == {claims[c].status : c \in {c \in ClaimIds : claims[c].lane = l}}
ClaimsOfTask(t) == {claims[c].status : c \in {c \in ClaimIds : claims[c].task = t}}

LaneActive(l) == ClaimsOfLane(l) \intersect ActiveStatuses # {}
TaskActive(t) == ClaimsOfTask(t) \intersect ActiveStatuses # {}

(* The worker's gate: the one claimed or reported claim of the branch.             *)
Startable(l) ==
  {c \in ClaimIds : claims[c].lane = l /\ claims[c].status \in {"claimed", "reported"}}

(* The claim as it was issued, which the worker's report must name.               *)
Issue(c) ==
  [claim |-> c, lane |-> claims[c].lane, task |-> claims[c].task, base |-> claims[c].base]

(* The queue's first task that is neither completed nor [x]; nothing when it is      *)
(* active or blocked.                                                        *)
Passed(t) ==
  \/ ClaimsOfTask(t) \intersect CompleteStatuses # {}
  \/ t \in plan /\ "blocked" \notin ClaimsOfTask(t)
Open(l) ==
  {i \in DOMAIN Queue[l] : TaskActive(Queue[l][i]) \/ ~Passed(Queue[l][i])}
NextLaneTask(l) ==
  {Queue[l][i] : i \in {i \in Open(l) :
     /\ ~LaneActive(l) /\ \A j \in Open(l) : i <= j
     /\ ~TaskActive(Queue[l][i]) /\ "blocked" \notin ClaimsOfTask(Queue[l][i])}}

-----------------------------------------------------------------------------
(* The worker.                                                               *)

WorkerStart(l) ==
  /\ worker[l] = NoOne
  /\ \E c \in Startable(l) :
       /\ Startable(l) = {c}
       /\ worker' = [worker EXCEPT ![l] = Issue(c)]
  /\ UNCHANGED <<claims, plan, integration, branch, dirty, command>>

Edit(l) ==
  /\ worker[l] # NoOne /\ l \notin dirty
  /\ dirty' = dirty \union {l}
  /\ UNCHANGED <<claims, plan, integration, branch, worker, command>>

Commits == UNION {{l} \X DOMAIN branch[l].own : l \in Lanes}

(* A commit may hold the evidence report: it names its claim, lane, task and base and *)
(* the result to expect; the implementation plan goes with it.                    *)
Commit(l) ==
  /\ l \in dirty /\ worker[l] # NoOne /\ Cardinality(Commits) < MaxCommits
  /\ \E result \in {"none", "implemented", "mock_ready"} :
       branch' = [branch EXCEPT ![l].own =
                    Append(@, [of |-> worker[l], report |-> result])]
  /\ dirty' = dirty \ {l}
  /\ UNCHANGED <<claims, plan, integration, worker, command>>

WorkerStop(l) ==
  /\ worker[l] # NoOne
  /\ worker' = [worker EXCEPT ![l] = NoOne]
  /\ UNCHANGED <<claims, plan, integration, branch, dirty, command>>

-----------------------------------------------------------------------------
(* The main session: one command at a time, each reads the integration branch first.  *)

Idle == command = Done

Begin(kind, at, l) ==
  /\ Idle
  /\ command' = [Done EXCEPT !.kind = kind, !.at = at, !.lane = l, !.target = integration]
  /\ UNCHANGED <<claims, plan, integration, branch, dirty, worker>>

IngestWorkerCommits(l) == Begin("ingest", "scan", l)
SyncIdleBranches(l) == Begin("sync", "sync", l)
AutoAdvanceClaims(l) == Begin("advance", "advance", l)
PostCheckpoint(l) == Begin("post", "scan", l)

(* post-checkpoint goes on with the next part, another command is over.             *)
Goes(next) == IF command.kind = "post"
              THEN [Done EXCEPT !.kind = "post", !.at = next, !.lane = command.lane,
                                !.target = command.target]
              ELSE Done

(* Mutation: any committed report of the claim counts.                          *)
AnyReport(commit, c) == TRUE

(* The report is about this claim as it was issued, and committed since then.        *)
Reports(commit, c) ==
  commit.of = Issue(c) /\ commit \in Diff(claims[c].lane, claims[c].base)

(* The report at the head of the lane's branch is the claim's last one.             *)
ReportsOf(l, c) ==
  {i \in DOMAIN branch[l].own : branch[l].own[i].of.claim = c /\ branch[l].own[i].report # "none"}
Evidence(l, c) ==
  {branch[l].own[i] : i \in {i \in ReportsOf(l, c) :
     (\A j \in ReportsOf(l, c) : j <= i) /\ Reports(branch[l].own[i], c)}}

(* The scan of a claim reads the head and the worktree, then the report at the branch  *)
(* as it is.                                                                 *)
ScanHead(l) ==
  /\ command.at = "scan" /\ command.lane = l
  /\ \/ (l \in dirty \/ Startable(l) = {}) /\ command' = Goes("sync")
     \/ \E c \in Startable(l) :
          /\ l \notin dirty
          /\ command' = [command EXCEPT !.at = "read", !.claim = c, !.head = BranchHead(l)]
  /\ UNCHANGED <<claims, plan, integration, branch, dirty, worker>>

ReadReport(l) ==
  /\ command.at = "read" /\ command.lane = l
  /\ command' = IF Evidence(l, command.claim) = {} THEN Goes("sync")
                ELSE [command EXCEPT !.at = "write",
                      !.result = (CHOOSE e \in Evidence(l, command.claim) : TRUE).report]
  /\ UNCHANGED <<claims, plan, integration, branch, dirty, worker>>

WriteIngested(l) ==
  /\ command.at = "write" /\ command.lane = l
  /\ claims' = [claims EXCEPT ![command.claim].status = command.result,
                              ![command.claim].head = command.head]
  /\ command' = Goes("sync")
  /\ UNCHANGED <<plan, integration, branch, dirty, worker>>

(* Only a lane without active or blocked claim, clean and without commits of its own,  *)
(* is moved, and git refuses what is not a fast-forward.                         *)
CanSync(l) ==
  /\ ClaimsOfLane(l) \intersect SyncBlockingStatuses = {}
  /\ l \notin dirty /\ Ahead(l) = 0 /\ Behind(l) > 0

SyncLane(l) ==
  /\ command.at = "sync" /\ command.lane = l
  /\ branch' = IF CanSync(l) THEN [branch EXCEPT ![l].base = integration] ELSE branch
  /\ command' = Goes("advance")
  /\ UNCHANGED <<claims, plan, integration, dirty, worker>>

CanAdvance(l, target) ==
  ~LaneActive(l) /\ l \notin dirty /\ AtTarget(l, BranchHead(l), target)

Issued(l, t, base, by) ==
  [status |-> "claimed", lane |-> l, task |-> t, base |-> base, head |-> NoClaim.head, by |-> by]

ReadLane(l) ==
  /\ command.at = "advance" /\ command.lane = l
  /\ command' = IF CanAdvance(l, command.target)
                THEN [command EXCEPT !.at = "claim", !.head = BranchHead(l)] ELSE Done
  /\ UNCHANGED <<claims, plan, integration, branch, dirty, worker>>

(* The claim is named for its lane and task; a claim by hand may hold that name.      *)
WriteClaim(l) ==
  /\ command.at = "claim" /\ command.lane = l
  /\ claims' = [c \in ClaimIds |->
                  IF /\ \E t \in NextLaneTask(l) : c = AutoId(l, t)
                     /\ claims[c].status \notin SyncBlockingStatuses
                  THEN Issued(l, CHOOSE t \in NextLaneTask(l) : TRUE, command.head, "advance")
                  ELSE claims[c]]
  /\ command' = Done
  /\ UNCHANGED <<plan, integration, branch, dirty, worker>>

(* The ingest command sets any status; the session uses it for what it has seen: local  *)
(* evidence, a blocker.                                                      *)
Ingest(c) ==
  /\ Idle
  /\ \/ claims[c].status = "claimed" /\ claims' = [claims EXCEPT ![c].status = "reported"]
     \/ /\ claims[c].status \in {"claimed", "reported"}
        /\ claims' = [claims EXCEPT ![c].status = "blocked"]
  /\ UNCHANGED <<plan, integration, branch, dirty, worker, command>>

(* The claim command checks nothing: a new claim or one that is there, in whatever     *)
(* status, for any lane and task, from the branch as it is.                       *)
Claim(c, l, t) ==
  /\ Idle
  /\ claims' = [claims EXCEPT ![c] = Issued(l, t, BranchHead(l), "hand")]
  /\ UNCHANGED <<plan, integration, branch, dirty, worker, command>>

(* An integration checkpoint: merge the branch as it is, verify, then mark the claim,  *)
(* and the task when it is more than a mock.                                     *)
Merge(c) ==
  /\ Idle /\ claims[c].status \in {"implemented", "mock_ready"} /\ integration < MaxMerges
  /\ integration' = integration + 1
  /\ branch' = [branch EXCEPT ![claims[c].lane].merged = Len(branch[claims[c].lane].own)]
  /\ UNCHANGED <<claims, plan, dirty, worker, command>>

MarkIntegrated(c) ==
  /\ Idle /\ claims[c].status \in {"implemented", "mock_ready"}
  /\ branch[claims[c].lane].merged >= claims[c].head[2]
  /\ claims' = [claims EXCEPT ![c].status = "integrated"]
  /\ plan' = IF claims[c].status = "implemented" THEN plan \union {claims[c].task} ELSE plan
  /\ UNCHANGED <<integration, branch, dirty, worker, command>>

Init ==
  /\ claims = [c \in ClaimIds |-> NoClaim]
  /\ plan = {}
  /\ integration = 0
  /\ branch = [l \in Lanes |-> [base |-> 0, own |-> <<>>, merged |-> 0]]
  /\ dirty = {}
  /\ worker = [l \in Lanes |-> NoOne]
  /\ command = Done

Next ==
  \/ \E l \in Lanes :
       \/ WorkerStart(l) \/ Edit(l) \/ Commit(l) \/ WorkerStop(l)
       \/ IngestWorkerCommits(l) \/ SyncIdleBranches(l) \/ AutoAdvanceClaims(l)
       \/ PostCheckpoint(l) \/ ScanHead(l) \/ ReadReport(l) \/ WriteIngested(l)
       \/ SyncLane(l) \/ ReadLane(l) \/ WriteClaim(l)
  \/ \E h \in HandClaims : Claim(h[1], h[2], h[3])
  \/ \E c \in ClaimIds : Ingest(c) \/ Merge(c) \/ MarkIntegrated(c)

Spec == Init /\ [][Next]_vars

-----------------------------------------------------------------------------
(* What status-summary tells the session to do next.                            *)

NextAction(l) ==
  CASE LaneActive(l) ->
         IF ClaimsOfLane(l) \intersect {"implemented", "mock_ready"} # {} THEN "integrate"
         ELSE IF l \notin dirty /\ \E c \in Startable(l) : Evidence(l, c) # {}
         THEN "ingest" ELSE "worker"
    [] ~LaneActive(l) /\ "blocked" \in ClaimsOfLane(l) -> "blocked"
    [] OTHER ->
         IF l \in dirty THEN "inspect"
         ELSE IF ~AtTarget(l, BranchHead(l), integration)
         THEN IF Ahead(l) > 0 THEN "inspect" ELSE "sync"
         ELSE IF NextLaneTask(l) = {} THEN "nothing" ELSE "advance"

(* The summary never sends the session to a command that would skip the lane: it and   *)
(* the commands decide by code of their own.                                     *)
SummaryIsTrue ==
  \A l \in Lanes :
    /\ NextAction(l) = "sync" => CanSync(l)
    /\ NextAction(l) = "advance" => CanAdvance(l, integration) /\ NextLaneTask(l) # {}

(* Advancing never doubles what is unfinished: where two unfinished claims stand in one *)
(* lane or for one task, at least one of them was made by hand.  A task may stand in    *)
(* two queues, a lane may hold several claims, and a claim by hand may have the name    *)
(* advancing would give.                                                      *)
AdvanceKeepsApart ==
  \A c, d \in ClaimIds :
    /\ c # d /\ claims[c].status \in Unfinished /\ claims[d].status \in Unfinished
    /\ claims[c].lane = claims[d].lane \/ claims[c].task = claims[d].task
    => "hand" \in {claims[c].by, claims[d].by}

(* A claim counts as implemented or mock_ready only when a report of that result, made  *)
(* for the claim as it was last issued, is committed on its lane's branch.          *)
IngestedIsCommitted ==
  \A c \in ClaimIds :
    claims[c].status \in {"implemented", "mock_ready"} =>
      \E i \in 1..Len(branch[claims[c].lane].own) :
        LET commit == branch[claims[c].lane].own[i] IN
        i > claims[c].base[2] /\ commit.of = Issue(c) /\ commit.report = claims[c].status

=============================================================================
