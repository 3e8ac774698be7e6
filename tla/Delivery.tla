------------------------------- MODULE Delivery -------------------------------
(***************************************************************************)
(* The delivery of a run's work:                                             *)
(*   delivery/git_auto.py     the adapter: read the snapshot, then branch, commit, *)
(*                            push, review request, one tool call after the other*)
(*   delivery/scm.py          the tools: git commands, the remote's client, audits *)
(*   delivery/demo.py         the adapter that touches no repository            *)
(*   services/delivery.py     adapter selection, delivery records, the result event*)
(*                                                                           *)
(* A tool's effect stays when its call fails after it: the command times out but  *)
(* has been done, rev-parse or the remote's answer fails, the audit record cannot *)
(* be written.  Nothing is undone, and a delivery may be tried again.           *)
(***************************************************************************)
EXTENDS DeliveryChannel

CONSTANTS
  Attempts,       \* bound: deliveries started per run
  Faults          \* bound: tool calls that fail, denied confirmations, edits

VARIABLES
  job,            \* run -> its delivery under way, or Idle
  repo,           \* run -> its repository: [branch, head, dirty, commit]
  remote,         \* run -> [pushed, reviews]: its branch and its review requests
  records,        \* runtime.db: run -> its delivery records
  announced,      \* event.db: the runs with a delivery result in their feed
  attempts,       \* run -> deliveries left
  faults          \* faults left

deliveryVars == <<job, repo, remote, records, announced, attempts, faults>>
vars == <<channelVars, deliveryVars>>

Tool(name, risk, effect) == [name |-> name, risk |-> risk, effect |-> effect]

ReadDeliverySnapshotTool == Tool("read_delivery_snapshot", "read_only", "none")
PrepareBranchTool == Tool("prepare_branch", "high_risk", "git_write")
CreateCommitTool == Tool("create_commit", "high_risk", "git_write")
PushBranchTool == Tool("push_branch", "high_risk", "git_write")
CreateCodeReviewRequestTool ==
  Tool("create_code_review_request", "high_risk", "remote_delivery_write")

(* Mutation: the branch is pushed before the work is committed.                   *)
PushesFirst == <<ReadDeliverySnapshotTool, PrepareBranchTool, PushBranchTool, CreateCommitTool,
                 CreateCodeReviewRequestTool>>

(* The adapter's calls, in order.                                            *)
Calls == <<ReadDeliverySnapshotTool, PrepareBranchTool, CreateCommitTool, PushBranchTool,
           CreateCodeReviewRequestTool>>
Place(name) == CHOOSE i \in DOMAIN Calls : Calls[i].name = name

Idle == [at |-> "idle", confirmed |-> FALSE, result |-> "none", channel |-> DefaultChannel]

-----------------------------------------------------------------------------
(* One step of the adapter.                                                  *)

At(r, step) == job[r].at = step
Finished(r, result) == [job EXCEPT ![r].at = "record", ![r].result = result]

Following(step) ==
  IF Place(step) = Len(Calls) THEN "record" ELSE Calls[Place(step) + 1].name

(* The step's call succeeded: the next one, or the delivery has.                *)
Succeeded(r) ==
  LET next == Following(job[r].at) IN
  IF next = "record" THEN Finished(r, "succeeded")
  ELSE [job EXCEPT ![r].at = next, ![r].confirmed = FALSE]

(* The first step that does not succeed ends the delivery.                      *)
ToolFailure(r) == Finished(r, "failed")

Fault == faults > 0 /\ faults' = faults - 1
NoFault == UNCHANGED faults

(* A git or remote write: its audit service must be there, its effect may happen or  *)
(* not, and its call may fail in either case.                                  *)
Done(r) == NoFault /\ job' = Succeeded(r)
FailedAfter(r) == Fault /\ job' = ToolFailure(r)
FailedBefore(r) == Fault /\ job' = ToolFailure(r) /\ UNCHANGED <<repo, remote>>
Refused(r) == NoFault /\ job' = ToolFailure(r) /\ UNCHANGED <<repo, remote>>

RestUnchanged == UNCHANGED <<channelVars, records, announced, attempts>>

Write(r, tool) == At(r, tool.name) /\ job[r].confirmed /\ RestUnchanged

(* The gate asks before a high risk tool.  Without a resolver, or when it has no*)
(* answer, the delivery is blocked; an answer for another call fails it.         *)
ExecuteStep(r) ==
  /\ \E tool \in ToSet(Calls) : At(r, tool.name) /\ tool.risk = "high_risk"
  /\ ~job[r].confirmed
  /\ \/ NoFault /\ job' = [job EXCEPT ![r].confirmed = TRUE]
     \/ Fault /\ job' = Finished(r, "blocked")
     \/ Fault /\ job' = ToolFailure(r)
  /\ UNCHANGED <<repo, remote>> /\ RestUnchanged

-----------------------------------------------------------------------------
(* The tools.                                                                *)

(* switch -c refuses a branch that exists.                                      *)
CanSwitch(r) == ~repo[r].branch

PrepareBranch(r) ==
  /\ Write(r, PrepareBranchTool)
  /\ \/ /\ CanSwitch(r)
        /\ repo' = [repo EXCEPT ![r].branch = TRUE, ![r].head = "delivery"]
        /\ UNCHANGED remote
        /\ Done(r) \/ FailedAfter(r)
     \/ ~CanSwitch(r) /\ Refused(r)
     \/ FailedBefore(r)

(* Everything changed but the runtime's logs is staged; nothing staged is a failure.  *)
CreateCommit(r) ==
  /\ Write(r, CreateCommitTool)
  /\ \/ /\ repo[r].dirty
        /\ repo' = [repo EXCEPT ![r].commit = repo[r].head, ![r].dirty = FALSE]
        /\ UNCHANGED remote
        /\ Done(r) \/ FailedAfter(r)
     \/ ~repo[r].dirty /\ Refused(r)
     \/ FailedBefore(r)

(* Pushes the delivery branch, whatever it points at.                            *)
PushBranch(r) ==
  /\ Write(r, PushBranchTool)
  /\ \/ /\ repo[r].branch
        /\ remote' = [remote EXCEPT ![r].pushed =
                        IF repo[r].commit = "delivery" THEN "work" ELSE "base"]
        /\ UNCHANGED repo
        /\ Done(r) \/ FailedAfter(r)
     \/ ~repo[r].branch /\ Refused(r)
     \/ FailedBefore(r)

(* The client may be missing or raise, also after the request was made.           *)
CreateCodeReviewRequest(r) ==
  /\ Write(r, CreateCodeReviewRequestTool)
  /\ \/ /\ remote[r].pushed # "nothing"
        /\ remote' = [remote EXCEPT ![r].reviews =
                        Append(remote[r].reviews, job[r].channel.repository)]
        /\ UNCHANGED repo
        /\ Done(r) \/ FailedAfter(r)
     \/ remote[r].pushed = "nothing" /\ Refused(r)
     \/ FailedBefore(r)

(* The file tools and the user's shell keep changing the working tree.            *)
Edit(r) ==
  /\ phase[r] = "delivery" /\ ~repo[r].dirty /\ Fault
  /\ repo' = [repo EXCEPT ![r].dirty = TRUE]
  /\ UNCHANGED <<channelVars, job, remote, records, announced, attempts>>

-----------------------------------------------------------------------------
(* The delivery.                                                             *)

(* The adapter registered for the mode of the run's snapshot.                    *)
Deliver(r) ==
  /\ phase[r] = "delivery" /\ job[r] = Idle /\ attempts[r] > 0
  /\ job' = [job EXCEPT ![r].at = IF snapshot[r].channel.mode = "demo" THEN "demo"
                                ELSE Calls[1].name]
  /\ attempts' = [attempts EXCEPT ![r] = @ - 1]
  /\ UNCHANGED <<channelVars, repo, remote, records, announced, faults>>

(* Mutation: the delivery goes by the channel as it is now.                     *)
ChannelNow(r) == IF r \in Runs THEN channel ELSE DefaultChannel

FrozenChannel(r) == snapshot[r].channel

SnapshotReady(read) == read.mode = "git" /\ read.status = "ready"

ReadDeliverySnapshot(r) ==
  LET read == FrozenChannel(r) IN
  /\ At(r, ReadDeliverySnapshotTool.name)
  /\ \/ /\ SnapshotReady(read) /\ NoFault
        /\ job' = [job EXCEPT ![r].at = Following(job[r].at), ![r].channel = read]
     \/ ~SnapshotReady(read) /\ NoFault /\ job' = ToolFailure(r)
     \/ Fault /\ job' = ToolFailure(r)
  /\ UNCHANGED <<repo, remote>> /\ RestUnchanged

(* The demo adapter audits, logs and reports success; an audit failure is raised.   *)
DemoDeliver(r) ==
  /\ At(r, "demo")
  /\ \/ NoFault /\ job' = Finished(r, "succeeded")
     \/ Fault /\ job' = [job EXCEPT ![r] = Idle]
  /\ UNCHANGED <<repo, remote>> /\ RestUnchanged

-----------------------------------------------------------------------------
(* The record and the feed.                                                  *)

(* The record must be about the run's current stage, a delivery by its snapshot.     *)
ValidRecordTarget(r) == phase[r] = "delivery"

(* The row, its audit and the commit succeed together or are rolled back.            *)
CreateRecord(r) ==
  /\ At(r, "record")
  /\ \/ /\ ValidRecordTarget(r) /\ NoFault
        /\ records' = [records EXCEPT ![r] = @ \union
                         {[mode |-> FrozenChannel(r).mode, status |-> job[r].result]}]
        /\ job' = [job EXCEPT ![r] = IF job[r].result = "succeeded"
                                      THEN [Idle EXCEPT !.at = "announce"] ELSE Idle]
     \/ /\ ~ValidRecordTarget(r) /\ NoFault
        /\ job' = [job EXCEPT ![r] = Idle] /\ UNCHANGED records
     \/ /\ Fault
        /\ job' = [job EXCEPT ![r] = Idle] /\ UNCHANGED records
  /\ UNCHANGED <<channelVars, repo, remote, announced, attempts>>

AppendDeliveryResult(r) ==
  /\ At(r, "announce")
  /\ announced' = announced \union {r}
  /\ job' = [job EXCEPT ![r] = Idle]
  /\ UNCHANGED <<channelVars, repo, remote, records, attempts, faults>>

(* A delivery under way is lost, what it has done stays.                         *)
Restart ==
  /\ RestartChannel
  /\ job' = [r \in Runs |-> Idle]
  /\ UNCHANGED <<repo, remote, records, announced, attempts, faults>>

Init ==
  /\ InitChannel
  /\ job = [r \in Runs |-> Idle]
  /\ repo \in [Runs -> [branch : {FALSE}, head : {"base"}, dirty : BOOLEAN, commit : {"none"}]]
  /\ remote = [r \in Runs |-> [pushed |-> "nothing", reviews |-> <<>>]]
  /\ records = [r \in Runs |-> {}]
  /\ announced = {}
  /\ attempts = [r \in Runs |-> Attempts]
  /\ faults = Faults

Next ==
  \/ NextChannel /\ UNCHANGED deliveryVars
  \/ Restart
  \/ \E r \in Runs :
       \/ Deliver(r) \/ ReadDeliverySnapshot(r) \/ ExecuteStep(r)
       \/ PrepareBranch(r) \/ CreateCommit(r) \/ PushBranch(r) \/ CreateCodeReviewRequest(r)
       \/ DemoDeliver(r) \/ CreateRecord(r) \/ AppendDeliveryResult(r) \/ Edit(r)

Spec == Init /\ [][Next]_vars

-----------------------------------------------------------------------------
(* A run whose git delivery is recorded as succeeded has its work on the remote    *)
(* branch and a review request for it in the repository that was approved, whatever *)
(* became of the channel since.                                                *)
DeliveredWhole ==
  \A r \in Runs :
    [mode |-> "git", status |-> "succeeded"] \in records[r] =>
      /\ remote[r].pushed = "work"
      /\ snapshot[r].channel.repository \in ToSet(remote[r].reviews)

(* However often a delivery fails, times out after its effect or is cut off by a    *)
(* restart and is tried again, the run gets one review request.  KeepsPromise says   *)
(* more, and is what TLC checks.                                              *)
ReviewedOnce == \A r \in Runs : Len(remote[r].reviews) <= 1

-----------------------------------------------------------------------------
(* What it amounts to.                                                       *)

Approval(r) ==
  {[mode |-> row.channel.mode, repository |-> row.channel.repository] :
     row \in {row \in {snapshot[r]} : row.frozen}}

WorkOf(r) ==
  [branch |-> IF repo[r].branch THEN "delivery" ELSE "none", commit |-> repo[r].commit,
   pushed |-> remote[r].pushed, reviews |-> remote[r].reviews]

Promise == INSTANCE DeliveryPromise WITH
  approved <- [r \in Runs |-> Approval(r)],
  work <- [r \in Runs |-> WorkOf(r)],
  told <- [r \in Runs |-> {row.status : row \in records[r]}]

(* Whatever is cut off, tried again or done without an answer, the work only goes on:*)
(* a branch, one commit on it, one push of it, one review request in the approved    *)
(* repository, then a recorded success, then the result in the feed.               *)
KeepsPromise == Promise!Spec

=============================================================================
