---------------------------- MODULE Delivery_proofs ----------------------------
(***************************************************************************)
(* Theorems about Delivery, for any runs, repositories, credentials, request*)
(* threads and bounds:                                                     *)
(*   DeliveryTyped         Spec => []DeliveryTypeOK                        *)
(*   FrozenWasChecked      Spec => []FrozenAsChecked                       *)
(*   OneReview             Spec => []ReviewedOnce                          *)
(*   DeliveriesAreWhole    Spec => []DeliveredWhole                        *)
(*   DeliveryKeepsPromise  Spec => KeepsPromise                            *)
(* Three inductive invariants: ChannelInv says what a request that waits has*)
(* loaded and that the channel, when ready, was found ready; DeliveryInv   *)
(* says what the repository and the remote hold once a delivery is at a    *)
(* step; WorkInv says which stage of DeliveryPromise the work is at then.  *)
(***************************************************************************)
EXTENDS Delivery, SequenceTheorems, TLAPS

Statuses == {"ready", "unconfigured", "invalid"}
ChannelRow == [mode : {"demo", "git"}, repository : Repositories \union {None},
               credential : Credentials \union {None}, status : Statuses]
RequestRow == [kind : {"none", "update", "validate"}, loaded : ChannelRow, row : ChannelRow,
               stale : BOOLEAN]
SnapshotRow == [frozen : BOOLEAN, channel : ChannelRow, crossed : BOOLEAN]

ChannelTypeOK ==
  /\ channel \in ChannelRow
  /\ request \in [Requests -> RequestRow]
  /\ snapshot \in [Runs -> SnapshotRow]
  /\ phase \in [Runs -> {"review", "delivery", "over"}]
  /\ checked \subseteq (Repositories \union {None}) \X (Credentials \union {None})
  /\ crossed \in BOOLEAN

ToolSteps == {"read_delivery_snapshot", "prepare_branch", "create_commit", "push_branch",
              "create_code_review_request"}
JobRow == [at : ToolSteps \union {"idle", "demo", "record", "announce"}, confirmed : BOOLEAN,
           result : {"none", "succeeded", "failed", "blocked"}, channel : ChannelRow]
RepoRow == [branch : BOOLEAN, head : {"base", "delivery"}, dirty : BOOLEAN,
            commit : {"none", "base", "delivery"}]
RemoteRow == [pushed : {"nothing", "base", "work"}, reviews : Seq(Repositories \union {None})]
RecordRow == [mode : {"demo", "git"}, status : {"none", "succeeded", "failed", "blocked"}]

DeliveryTypeOK ==
  /\ ChannelTypeOK
  /\ job \in [Runs -> JobRow]
  /\ repo \in [Runs -> RepoRow]
  /\ remote \in [Runs -> RemoteRow]
  /\ records \in [Runs -> SUBSET RecordRow]

-----------------------------------------------------------------------------
(* The channel                                                              *)

\* Some validation found the channel ready, unless its last writer had crossed another.
ReadyWasChecked ==
  channel.mode = "git" /\ channel.status = "ready" => crossed \/ Settings(channel) \in checked

\* A request that has not been overtaken still finds the row it loaded; an update of a git
\* channel undoes its readiness, and a validation changes nothing but the status.
RequestInv(q) ==
  /\ request[q].kind = "none" => request[q] = Quiet
  /\ request[q].kind # "none" /\ ~request[q].stale => request[q].loaded = channel
  /\ request[q].kind = "update" =>
       request[q].row.mode = "demo" \/ request[q].row.status = "unconfigured"

ChannelInv ==
  /\ ReadyWasChecked
  /\ \A q \in Requests : RequestInv(q)
  /\ FrozenAsChecked

-----------------------------------------------------------------------------
(* The delivery                                                             *)

\* The work is on the remote branch and its review request in the approved repository.
Whole(r) ==
  /\ remote[r].pushed = "work"
  /\ snapshot[r].channel.repository \in ToSet(remote[r].reviews)

\* Past the branch: this delivery made it, so no other has asked for a review.
Branched(r) == repo[r].branch /\ repo[r].head = "delivery" /\ remote[r].reviews = <<>>

StepInv(r) ==
  /\ ~snapshot[r].frozen => phase[r] # "delivery" /\ job[r] = Idle /\ records[r] = {}
  /\ job[r].at \in {"prepare_branch", "create_commit", "push_branch",
                    "create_code_review_request"} => job[r].channel = snapshot[r].channel
  /\ ~repo[r].branch => remote[r].reviews = <<>>
  /\ job[r].at \in {"create_commit", "push_branch", "create_code_review_request"} => Branched(r)
  /\ job[r].at \in {"push_branch", "create_code_review_request"} => repo[r].commit = "delivery"
  /\ job[r].at = "create_code_review_request" => remote[r].pushed = "work"
  /\ job[r].at = "demo" => snapshot[r].channel.mode = "demo"
  /\ job[r].at = "record" /\ job[r].result = "succeeded" /\ snapshot[r].channel.mode = "git" =>
       Whole(r)

RunInv(r) ==
  /\ StepInv(r)
  /\ [mode |-> "git", status |-> "succeeded"] \in records[r] => Whole(r)
  /\ Len(remote[r].reviews) <= 1

DeliveryInv == \A r \in Runs : RunInv(r)

-----------------------------------------------------------------------------
(* The calls in their order                                                 *)

\* Each step's call is followed by the next one, the last by the record.
LEMMA CallsFollow ==
  /\ Following("read_delivery_snapshot") = "prepare_branch"
  /\ Following("prepare_branch") = "create_commit"
  /\ Following("create_commit") = "push_branch"
  /\ Following("push_branch") = "create_code_review_request"
  /\ Following("create_code_review_request") = "record"
<1>1. /\ DOMAIN Calls = 1..5 /\ Len(Calls) = 5
      /\ Calls[1] = ReadDeliverySnapshotTool /\ Calls[2] = PrepareBranchTool
      /\ Calls[3] = CreateCommitTool /\ Calls[4] = PushBranchTool
      /\ Calls[5] = CreateCodeReviewRequestTool
  BY DEF Calls
<1>2. /\ ReadDeliverySnapshotTool.name = "read_delivery_snapshot"
      /\ PrepareBranchTool.name = "prepare_branch"
      /\ CreateCommitTool.name = "create_commit"
      /\ PushBranchTool.name = "push_branch"
      /\ CreateCodeReviewRequestTool.name = "create_code_review_request"
  BY DEF Tool, ReadDeliverySnapshotTool, PrepareBranchTool, CreateCommitTool, PushBranchTool,
         CreateCodeReviewRequestTool
<1>3. /\ Calls[1].name = "read_delivery_snapshot" /\ Calls[2].name = "prepare_branch"
      /\ Calls[3].name = "create_commit" /\ Calls[4].name = "push_branch"
      /\ Calls[5].name = "create_code_review_request"
  BY <1>1, <1>2
<1>4. /\ Place("read_delivery_snapshot") = 1 /\ Place("prepare_branch") = 2
      /\ Place("create_commit") = 3 /\ Place("push_branch") = 4
      /\ Place("create_code_review_request") = 5
  BY <1>1, <1>3 DEF Place
<1>5. QED BY <1>1, <1>3, <1>4 DEF Following

\* The tools the gate asks for.
LEMMA RiskySteps ==
  ASSUME NEW step, NEW tool \in ToSet(Calls), tool.name = step, tool.risk = "high_risk"
  PROVE  step \in {"prepare_branch", "create_commit", "push_branch", "create_code_review_request"}
<1>1. tool \in {ReadDeliverySnapshotTool, PrepareBranchTool, CreateCommitTool, PushBranchTool,
                CreateCodeReviewRequestTool}
  BY DEF ToSet, Calls
<1>2. QED
  BY <1>1 DEF Tool, ReadDeliverySnapshotTool, PrepareBranchTool, CreateCommitTool,
              PushBranchTool, CreateCodeReviewRequestTool

-----------------------------------------------------------------------------
(* Type correctness                                                         *)

LEMMA RowsTyped ==
  ASSUME ChannelTypeOK
  PROVE  /\ DefaultChannel \in ChannelRow
         /\ Quiet \in RequestRow
         /\ Idle \in JobRow
         /\ \A row \in ChannelRow : Validated(row) \in ChannelRow
         /\ \A repository \in Repositories, credential \in Credentials :
              SavedGit(channel, repository, credential) \in ChannelRow
         /\ \A loaded, row \in ChannelRow : Flushed(loaded, row) \in ChannelRow
<1>1. DefaultChannel \in ChannelRow
  BY DEF DefaultChannel, ChannelRow, Statuses
<1>2. Quiet \in RequestRow /\ Idle \in JobRow
  BY <1>1 DEF Quiet, Idle, RequestRow, JobRow
<1>3. ASSUME NEW row \in ChannelRow PROVE Validated(row) \in ChannelRow
  <2>1. ComputeReadiness(row) \in Statuses
    BY DEF ComputeReadiness, ResolveCredential, Statuses
  <2>2. QED BY <2>1 DEF Validated, ChannelRow
<1>4. \A repository \in Repositories, credential \in Credentials :
        SavedGit(channel, repository, credential) \in ChannelRow
  BY DEF SavedGit, ChannelRow, Statuses
<1>5. ASSUME NEW loaded \in ChannelRow, NEW row \in ChannelRow
      PROVE  Flushed(loaded, row) \in ChannelRow
  <2>1. DOMAIN row = {"mode", "repository", "credential", "status"}
    BY DEF ChannelRow
  <2>2. channel \in ChannelRow
    BY DEF ChannelTypeOK
  <2>3. QED BY <2>1, <2>2 DEF Flushed, ChannelRow
<1>6. QED BY <1>1, <1>2, <1>3, <1>4, <1>5

LEMMA ChannelTyped ==
  ASSUME ChannelTypeOK, NextChannel \/ RestartChannel
  PROVE  ChannelTypeOK'
<1> USE RowsTyped
<1>1. ASSUME NEW q \in Requests, NEW kind \in {"update", "validate"}, NEW row \in ChannelRow,
             Load(q, kind, row)
      PROVE  ChannelTypeOK'
  <2>1. [kind |-> kind, loaded |-> channel, row |-> row, stale |-> FALSE] \in RequestRow
    BY DEF ChannelTypeOK, RequestRow
  <2>2. QED BY <1>1, <2>1 DEF Load, ChannelTypeOK
<1>2. ASSUME NEW q \in Requests, UpdateChannel(q) PROVE ChannelTypeOK'
  BY <1>1, <1>2 DEF UpdateChannel, SavedDemo
<1>3. ASSUME NEW q \in Requests, ValidateChannel(q) PROVE ChannelTypeOK'
  BY <1>1, <1>3 DEF ValidateChannel, ChannelTypeOK
<1>4. ASSUME NEW q \in Requests, CommitChannel(q) PROVE ChannelTypeOK'
  <2>1. request[q] \in RequestRow /\ request[q].loaded \in ChannelRow
          /\ request[q].row \in ChannelRow /\ request[q].stale \in BOOLEAN
    BY DEF ChannelTypeOK, RequestRow
  <2>2. channel' \in ChannelRow /\ crossed' \in BOOLEAN
    BY <1>4, <2>1 DEF CommitChannel
  <2>3. \A p \in Requests : [request[p] EXCEPT !.stale = TRUE] \in RequestRow
    BY DEF ChannelTypeOK, RequestRow
  <2>4. request' \in [Requests -> RequestRow]
    BY <1>4, <2>3 DEF CommitChannel, ChannelTypeOK
  <2>5. Settings(request[q].row) \in
          (Repositories \union {None}) \X (Credentials \union {None})
    BY <2>1 DEF Settings, ChannelRow
  <2>6. QED BY <1>4, <2>2, <2>4, <2>5 DEF CommitChannel, ChannelTypeOK
<1>5. ASSUME NEW q \in Requests, RollBackChannel(q) PROVE ChannelTypeOK'
  BY <1>5 DEF RollBackChannel, ChannelTypeOK
<1>6. ASSUME RestartChannel PROVE ChannelTypeOK'
  BY <1>6 DEF RestartChannel, ChannelTypeOK
<1>7. ASSUME NEW r \in Runs, PrepareDeliverySnapshot(r) PROVE ChannelTypeOK'
  <2>1. [frozen |-> TRUE, channel |-> channel, crossed |-> crossed] \in SnapshotRow
    BY DEF ChannelTypeOK, SnapshotRow
  <2>2. QED BY <1>7, <2>1 DEF PrepareDeliverySnapshot, ChannelTypeOK
<1>8. ASSUME NEW r \in Runs, EndRun(r) PROVE ChannelTypeOK'
  BY <1>8 DEF EndRun, ChannelTypeOK
<1>9. QED BY <1>2, <1>3, <1>4, <1>5, <1>6, <1>7, <1>8 DEF NextChannel

\* What becomes of a delivery whose call succeeds, and of one that is over.
LEMMA JobSteps ==
  ASSUME DeliveryTypeOK, NEW r \in Runs, NEW step \in ToolSteps, At(r, step)
  PROVE  /\ Succeeded(r) \in [Runs -> JobRow]
         /\ Succeeded(r)[r].at = Following(step)
         /\ Succeeded(r)[r].channel = job[r].channel
         /\ Following(step) = "record" => Succeeded(r)[r].result = "succeeded"
         /\ \A p \in Runs \ {r} : Succeeded(r)[p] = job[p]
<1>1. job \in [Runs -> JobRow] /\ job[r] \in JobRow /\ job[r].at = step
  BY DEF DeliveryTypeOK, At
<1>2. Following(step) \in ToolSteps \union {"record"}
  BY CallsFollow DEF ToolSteps
<1>3. CASE Following(step) = "record"
  <2> DEFINE row == [job[r] EXCEPT !.at = "record", !.result = "succeeded"]
  <2>1. Succeeded(r) = [job EXCEPT ![r] = row]
    BY <1>1, <1>3 DEF Succeeded, Finished
  <2>2. row \in JobRow /\ row.at = "record" /\ row.result = "succeeded"
          /\ row.channel = job[r].channel
    BY <1>1 DEF JobRow
  <2> HIDE DEF row
  <2>3. QED BY <1>1, <1>3, <2>1, <2>2
<1>4. CASE Following(step) # "record"
  <2> DEFINE next == Following(job[r].at)
             row == [job[r] EXCEPT !.at = next, !.confirmed = FALSE]
  <2>1. Succeeded(r) = [job EXCEPT ![r] = row]
    BY <1>1, <1>4 DEF Succeeded
  <2>2. next \in ToolSteps /\ next = Following(step)
    BY <1>1, <1>2, <1>4
  <2> HIDE DEF next
  <2>3. row \in JobRow /\ row.at = next /\ row.channel = job[r].channel
    BY <1>1, <2>2 DEF JobRow
  <2> HIDE DEF row
  <2>4. QED BY <1>1, <1>4, <2>1, <2>2, <2>3
<1>5. QED BY <1>3, <1>4

LEMMA JobEnds ==
  ASSUME DeliveryTypeOK, NEW r \in Runs, NEW result \in {"succeeded", "failed", "blocked"}
  PROVE  /\ Finished(r, result) \in [Runs -> JobRow]
         /\ Finished(r, result)[r].at = "record"
         /\ Finished(r, result)[r].result = result
         /\ \A p \in Runs \ {r} : Finished(r, result)[p] = job[p]
<1>1. job \in [Runs -> JobRow]
  BY DEF DeliveryTypeOK
<1>2. QED BY <1>1 DEF Finished, JobRow

\* What switch -c makes of a repository.
LEMMA BranchMade ==
  ASSUME DeliveryTypeOK, NEW r \in Runs
  PROVE  LET made == [repo EXCEPT ![r].branch = TRUE, ![r].head = "delivery"] IN
         /\ made \in [Runs -> RepoRow]
         /\ made[r].branch /\ made[r].head = "delivery"
         /\ \A p \in Runs \ {r} : made[p] = repo[p]
<1> DEFINE row == [repo[r] EXCEPT !.branch = TRUE, !.head = "delivery"]
<1>1. repo \in [Runs -> RepoRow]
  BY DEF DeliveryTypeOK
<1>2. row \in RepoRow /\ row.branch /\ row.head = "delivery"
  BY <1>1 DEF RepoRow
<1>3. [repo EXCEPT ![r].branch = TRUE, ![r].head = "delivery"] = [repo EXCEPT ![r] = row]
  BY <1>1
<1> HIDE DEF row
<1>4. QED BY <1>1, <1>2, <1>3

DeliverySteps(r) ==
  \/ Deliver(r) \/ ReadDeliverySnapshot(r) \/ ExecuteStep(r)
  \/ PrepareBranch(r) \/ CreateCommit(r) \/ PushBranch(r) \/ CreateCodeReviewRequest(r)
  \/ DemoDeliver(r) \/ CreateRecord(r) \/ AppendDeliveryResult(r) \/ Edit(r)

\* A delivery leaves the channel and its snapshots alone, and the other runs.
LEMMA Apart ==
  ASSUME DeliveryTypeOK, NEW r \in Runs, DeliverySteps(r)
  PROVE  /\ UNCHANGED channelVars
         /\ \A p \in Runs \ {r} : /\ job'[p] = job[p] /\ repo'[p] = repo[p]
                                  /\ remote'[p] = remote[p] /\ records'[p] = records[p]
<1>1. UNCHANGED channelVars
  BY DEF DeliverySteps, Deliver, ReadDeliverySnapshot, ExecuteStep, PrepareBranch, CreateCommit,
         PushBranch, CreateCodeReviewRequest, DemoDeliver, CreateRecord, AppendDeliveryResult,
         Edit, Write, RestUnchanged
<1>2. \A p \in Runs \ {r} : /\ repo'[p] = repo[p] /\ remote'[p] = remote[p]
                            /\ records'[p] = records[p]
  BY DEF DeliveryTypeOK, DeliverySteps, Deliver, ReadDeliverySnapshot, ExecuteStep, PrepareBranch,
         CreateCommit, PushBranch, CreateCodeReviewRequest, DemoDeliver, CreateRecord,
         AppendDeliveryResult, Edit, Write, RestUnchanged, FailedBefore, Refused
<1>3. \A p \in Runs \ {r} : job'[p] = job[p]
  <2>1. \A p \in Runs \ {r} : \A result \in {"succeeded", "failed", "blocked"} :
          Finished(r, result)[p] = job[p]
    BY JobEnds
  <2>2. \A p \in Runs \ {r} : Succeeded(r)[p] = job[p]
    BY <2>1 DEF Succeeded, DeliveryTypeOK
  <2>3. QED
    BY <2>1, <2>2
    DEF DeliveryTypeOK, DeliverySteps, Deliver, ReadDeliverySnapshot, ExecuteStep, PrepareBranch,
         CreateCommit, PushBranch, CreateCodeReviewRequest, DemoDeliver, CreateRecord,
         AppendDeliveryResult, Edit, Write, RestUnchanged, FailedBefore, FailedAfter, Refused,
         Done, ToolFailure
<1>4. QED BY <1>1, <1>2, <1>3

LEMMA DeliveryStepTyped ==
  ASSUME DeliveryTypeOK, NEW r \in Runs, DeliverySteps(r)
  PROVE  DeliveryTypeOK'
<1> DEFINE Others == /\ ChannelTypeOK' /\ repo' \in [Runs -> RepoRow]
                     /\ remote' \in [Runs -> RemoteRow]
                     /\ records' \in [Runs -> SUBSET RecordRow]
<1>1. ChannelTypeOK' /\ job \in [Runs -> JobRow] /\ job[r] \in JobRow /\ Idle \in JobRow
  BY Apart, RowsTyped DEF channelVars, ChannelTypeOK, DeliveryTypeOK
<1>2. repo \in [Runs -> RepoRow] /\ remote \in [Runs -> RemoteRow]
        /\ records \in [Runs -> SUBSET RecordRow] /\ snapshot \in [Runs -> SnapshotRow]
  BY DEF DeliveryTypeOK, ChannelTypeOK
<1>3. ASSUME job' = Succeeded(r), NEW step \in ToolSteps, At(r, step), Others
      PROVE  DeliveryTypeOK'
  BY <1>3, JobSteps DEF DeliveryTypeOK
<1>4. ASSUME NEW result \in {"succeeded", "failed", "blocked"}, job' = Finished(r, result), Others
      PROVE  DeliveryTypeOK'
  BY <1>4, JobEnds DEF DeliveryTypeOK
<1>5. ASSUME NEW row \in JobRow, job' = [job EXCEPT ![r] = row], Others PROVE DeliveryTypeOK'
  BY <1>1, <1>5 DEF DeliveryTypeOK
<1>6. ASSUME NEW step \in ToolSteps, At(r, step), Others,
             Done(r) \/ FailedAfter(r) \/ FailedBefore(r) \/ Refused(r)
      PROVE  DeliveryTypeOK'
  BY <1>3, <1>4, <1>6 DEF Done, FailedAfter, FailedBefore, Refused, ToolFailure
<1>7. CASE Deliver(r)
  <2> DEFINE row == [job[r] EXCEPT !.at = IF snapshot[r].channel.mode = "demo" THEN "demo"
                                          ELSE Calls[1].name]
  <2>1. Calls[1].name = "read_delivery_snapshot"
    BY DEF Calls, ReadDeliverySnapshotTool, Tool
  <2>2. row \in JobRow
    BY <1>1, <2>1 DEF JobRow, ToolSteps
  <2>3. job' = [job EXCEPT ![r] = row]
    BY <1>1, <1>7 DEF Deliver
  <2> HIDE DEF row
  <2>4. QED BY <1>1, <1>2, <1>5, <1>7, <2>2, <2>3 DEF Deliver
<1>8. CASE ReadDeliverySnapshot(r)
  <2> DEFINE row == [job[r] EXCEPT !.at = "prepare_branch", !.channel = snapshot[r].channel]
  <2>1. Others
    BY <1>1, <1>2, <1>8 DEF ReadDeliverySnapshot, RestUnchanged
  <2>2. CASE job' = ToolFailure(r)
    BY <1>4, <2>1, <2>2 DEF ToolFailure
  <2>3. CASE job' = [job EXCEPT ![r].at = Following(job[r].at), ![r].channel = FrozenChannel(r)]
    <3>1. job[r].at = "read_delivery_snapshot"
      BY <1>8 DEF ReadDeliverySnapshot, At, ReadDeliverySnapshotTool, Tool
    <3>2. job' = [job EXCEPT ![r] = row]
      BY <1>1, <2>3, <3>1, CallsFollow DEF FrozenChannel
    <3>3. row \in JobRow
      BY <1>1, <1>2 DEF JobRow, ToolSteps, SnapshotRow
    <3> HIDE DEF row
    <3>4. QED BY <1>5, <2>1, <3>2, <3>3
  <2>4. QED BY <1>8, <2>2, <2>3 DEF ReadDeliverySnapshot
<1>9. CASE ExecuteStep(r)
  <2>1. Others
    BY <1>1, <1>2, <1>9 DEF ExecuteStep, RestUnchanged
  <2>2. [job[r] EXCEPT !.confirmed = TRUE] \in JobRow
    BY <1>1 DEF JobRow
  <2>3. CASE job' = [job EXCEPT ![r].confirmed = TRUE]
    <3>1. job' = [job EXCEPT ![r] = [job[r] EXCEPT !.confirmed = TRUE]]
      BY <1>1, <2>3
    <3>2. QED BY <1>5, <2>1, <2>2, <3>1
  <2>4. CASE job' = Finished(r, "blocked") \/ job' = ToolFailure(r)
    BY <1>4, <2>1, <2>4 DEF ToolFailure
  <2>5. QED BY <1>9, <2>3, <2>4 DEF ExecuteStep
<1>10. CASE PrepareBranch(r)
  <2>1. Others
    BY <1>1, <1>2, <1>10, BranchMade
    DEF PrepareBranch, Write, RestUnchanged, Refused, FailedBefore
  <2>2. QED BY <1>6, <1>10, <2>1 DEF PrepareBranch, Write, PrepareBranchTool, Tool, ToolSteps
<1>11. CASE CreateCommit(r)
  <2>1. Others
    BY <1>1, <1>2, <1>11 DEF CreateCommit, Write, RestUnchanged, RepoRow, Refused, FailedBefore
  <2>2. QED BY <1>6, <1>11, <2>1 DEF CreateCommit, Write, CreateCommitTool, Tool, ToolSteps
<1>12. CASE PushBranch(r)
  <2>1. Others
    BY <1>1, <1>2, <1>12 DEF PushBranch, Write, RestUnchanged, RemoteRow, Refused, FailedBefore
  <2>2. QED BY <1>6, <1>12, <2>1 DEF PushBranch, Write, PushBranchTool, Tool, ToolSteps
<1>13. CASE CreateCodeReviewRequest(r)
  <2>1. remote[r].reviews \in Seq(Repositories \union {None})
          /\ job[r].channel.repository \in Repositories \union {None}
    BY <1>1, <1>2 DEF RemoteRow, JobRow, ChannelRow
  <2>2. Append(remote[r].reviews, job[r].channel.repository) \in Seq(Repositories \union {None})
    BY <2>1
  <2>3. [remote EXCEPT ![r].reviews = Append(remote[r].reviews, job[r].channel.repository)]
          \in [Runs -> RemoteRow]
    BY <1>2, <2>2 DEF RemoteRow
  <2>4. Others
    BY <1>1, <1>2, <1>13, <2>3
    DEF CreateCodeReviewRequest, Write, RestUnchanged, Refused, FailedBefore
  <2>5. QED
    BY <1>6, <1>13, <2>4
    DEF CreateCodeReviewRequest, Write, CreateCodeReviewRequestTool, Tool, ToolSteps
<1>14. CASE DemoDeliver(r)
  <2>1. Others
    BY <1>1, <1>2, <1>14 DEF DemoDeliver, RestUnchanged
  <2>2. QED BY <1>1, <1>4, <1>5, <1>14, <2>1 DEF DemoDeliver
<1>15. CASE CreateRecord(r)
  <2>1. [mode |-> FrozenChannel(r).mode, status |-> job[r].result] \in RecordRow
    BY <1>1, <1>2 DEF FrozenChannel, RecordRow, SnapshotRow, ChannelRow, JobRow
  <2>2. Others
    BY <1>1, <1>2, <1>15, <2>1 DEF CreateRecord
  <2>3. [Idle EXCEPT !.at = "announce"] \in JobRow
    BY <1>1 DEF JobRow
  <2>4. \E row \in {Idle, [Idle EXCEPT !.at = "announce"]} : job' = [job EXCEPT ![r] = row]
    BY <1>15 DEF CreateRecord
  <2>5. QED BY <1>1, <1>5, <2>2, <2>3, <2>4
<1>16. CASE AppendDeliveryResult(r)
  BY <1>1, <1>2, <1>5, <1>16 DEF AppendDeliveryResult
<1>17. CASE Edit(r)
  BY <1>1, <1>2, <1>17 DEF Edit, RepoRow, DeliveryTypeOK
<1>18. QED
  BY <1>7, <1>8, <1>9, <1>10, <1>11, <1>12, <1>13, <1>14, <1>15, <1>16, <1>17 DEF DeliverySteps

LEMMA DeliveryTypeInit == Init => DeliveryTypeOK
<1> SUFFICES ASSUME Init PROVE DeliveryTypeOK
  OBVIOUS
<1>1. ChannelTypeOK
  <2>1. DefaultChannel \in ChannelRow
    BY DEF DefaultChannel, ChannelRow, Statuses
  <2>2. Quiet \in RequestRow /\ NotFrozen \in SnapshotRow
    BY <2>1 DEF Quiet, NotFrozen, RequestRow, SnapshotRow
  <2>3. QED BY <2>1, <2>2 DEF Init, InitChannel, ChannelTypeOK
<1>2. Idle \in JobRow
  BY <1>1, RowsTyped
<1>3. repo \in [Runs -> RepoRow]
  BY DEF Init, RepoRow
<1>4. [pushed |-> "nothing", reviews |-> <<>>] \in RemoteRow
  BY DEF RemoteRow
<1>5. QED BY <1>1, <1>2, <1>3, <1>4 DEF Init, DeliveryTypeOK

LEMMA DeliveryTypeStep == DeliveryTypeOK /\ [Next]_vars => DeliveryTypeOK'
<1> SUFFICES ASSUME DeliveryTypeOK, [Next]_vars PROVE DeliveryTypeOK'
  OBVIOUS
<1>1. CASE NextChannel /\ UNCHANGED deliveryVars
  BY <1>1, ChannelTyped DEF DeliveryTypeOK, deliveryVars
<1>2. CASE Restart
  BY <1>2, ChannelTyped, RowsTyped DEF DeliveryTypeOK, Restart
<1>3. ASSUME NEW r \in Runs, DeliverySteps(r) PROVE DeliveryTypeOK'
  BY <1>3, DeliveryStepTyped
<1>4. CASE UNCHANGED vars
  BY <1>4 DEF vars, channelVars, deliveryVars, DeliveryTypeOK, ChannelTypeOK
<1>5. QED BY <1>1, <1>2, <1>3, <1>4 DEF Next, DeliverySteps

\* Every variable of the delivery and of the channel keeps its type, whatever requests cross
\* and whatever tool calls fail.
THEOREM DeliveryTyped == Spec => []DeliveryTypeOK
  BY DeliveryTypeInit, DeliveryTypeStep, PTL DEF Spec

-----------------------------------------------------------------------------
(* A frozen channel was found ready                                         *)

LEMMA ChannelInit == Init => ChannelInv
<1> SUFFICES ASSUME Init PROVE ChannelInv
  OBVIOUS
<1>1. ReadyWasChecked
  BY DEF Init, InitChannel, ReadyWasChecked, DefaultChannel
<1>2. ASSUME NEW q \in Requests PROVE RequestInv(q)
  BY DEF Init, InitChannel, RequestInv, Quiet
<1>3. ASSUME NEW r \in Runs PROVE ~snapshot[r].frozen
  BY DEF Init, InitChannel, NotFrozen
<1>4. QED BY <1>1, <1>2, <1>3 DEF ChannelInv, FrozenAsChecked

\* Writing back a row that nobody has changed since puts the row as it was meant.
LEMMA FlushedWhole ==
  ASSUME ChannelTypeOK, NEW row \in ChannelRow
  PROVE  Flushed(channel, row) = row
<1>1. DOMAIN row = {"mode", "repository", "credential", "status"}
        /\ row = [f \in {"mode", "repository", "credential", "status"} |-> row[f]]
  BY DEF ChannelRow
<1>2. QED BY <1>1 DEF Flushed

LEMMA RequestsStep ==
  ASSUME ChannelTypeOK, ChannelInv, NEW q \in Requests, NEW p \in Requests,
         UpdateChannel(q) \/ ValidateChannel(q) \/ CommitChannel(q) \/ RollBackChannel(q)
  PROVE  RequestInv(p)'
<1>1. request \in [Requests -> RequestRow] /\ RequestInv(p)
  BY DEF ChannelTypeOK, ChannelInv
<1>2. ASSUME NEW kind \in {"update", "validate"}, NEW row, Load(q, kind, row),
             kind = "update" => row.mode = "demo" \/ row.status = "unconfigured"
      PROVE  RequestInv(p)'
  <2>1. channel' = channel
    BY <1>2 DEF Load
  <2>2. CASE p # q
    <3>1. request'[p] = request[p]
      BY <1>1, <1>2, <2>2 DEF Load
    <3>2. QED BY <1>1, <2>1, <3>1 DEF RequestInv
  <2>3. CASE p = q
    <3> DEFINE mine == [kind |-> kind, loaded |-> channel, row |-> row, stale |-> FALSE]
    <3>1. mine.kind = kind /\ mine.loaded = channel /\ mine.row = row
      OBVIOUS
    <3>2. request'[p] = mine
      BY <1>1, <1>2, <2>3 DEF Load
    <3> HIDE DEF mine
    <3>3. request'[p].kind = kind /\ request'[p].loaded = channel /\ request'[p].row = row
      BY <3>1, <3>2
    <3>4. QED BY <1>2, <2>1, <3>3 DEF RequestInv
  <2>4. QED BY <2>2, <2>3
<1>3. CASE UpdateChannel(q)
  <2>1. SavedDemo.mode = "demo"
    BY DEF SavedDemo, DefaultChannel
  <2>2. \A repository, credential : SavedGit(channel, repository, credential).status = "unconfigured"
    BY DEF SavedGit
  <2>3. QED BY <1>2, <1>3, <2>1, <2>2 DEF UpdateChannel
<1>4. CASE ValidateChannel(q)
  BY <1>2, <1>4 DEF ValidateChannel
<1>5. CASE CommitChannel(q)
  <2>1. request'[p] = IF p = q \/ request[p] = Quiet THEN Quiet
                      ELSE [request[p] EXCEPT !.stale = TRUE]
    BY <1>5 DEF CommitChannel
  <2>2. CASE p = q \/ request[p] = Quiet
    BY <2>1, <2>2 DEF RequestInv, Quiet
  <2>3. CASE ~(p = q \/ request[p] = Quiet)
    <3>1. request[p] \in RequestRow
      BY <1>1
    <3>2. /\ request'[p].kind = request[p].kind /\ request'[p].row = request[p].row
          /\ request'[p].stale
      BY <2>1, <2>3, <3>1 DEF RequestRow
    <3>3. QED BY <1>1, <2>3, <3>2 DEF RequestInv
  <2>4. QED BY <2>2, <2>3
<1>6. CASE RollBackChannel(q)
  <2>1. channel' = channel /\ request'[p] = IF p = q THEN Quiet ELSE request[p]
    BY <1>1, <1>6 DEF RollBackChannel
  <2>2. QED BY <1>1, <2>1 DEF RequestInv, Quiet
<1>7. QED BY <1>3, <1>4, <1>5, <1>6

\* Only a validation makes a git channel ready; it has found these settings ready unless
\* another write has come between.
LEMMA ReadyStep ==
  ASSUME ChannelTypeOK, ChannelInv, NEW q \in Requests, CommitChannel(q)
  PROVE  ReadyWasChecked'
<1>1. request[q] \in RequestRow /\ RequestInv(q) /\ request[q] # Quiet
  BY DEF ChannelTypeOK, ChannelInv, CommitChannel
<1>2. request[q].kind \in {"update", "validate"} /\ request[q].row \in ChannelRow
        /\ request[q].stale \in BOOLEAN /\ crossed' = request[q].stale
  BY <1>1 DEF RequestRow, RequestInv, CommitChannel
<1>3. CASE request[q].stale
  BY <1>2, <1>3 DEF ReadyWasChecked
<1>4. CASE ~request[q].stale
  <2>1. channel' = request[q].row
    <3>1. request[q].loaded = channel
      BY <1>1, <1>2, <1>4 DEF RequestInv
    <3>2. QED BY <1>2, <3>1, FlushedWhole DEF CommitChannel
  <2>2. CASE request[q].kind = "update"
    BY <1>1, <2>1, <2>2 DEF RequestInv, ReadyWasChecked
  <2>3. CASE request[q].kind = "validate"
    BY <2>1, <2>3 DEF CommitChannel, ReadyWasChecked
  <2>4. QED BY <1>2, <2>2, <2>3
<1>5. QED BY <1>2, <1>3, <1>4

LEMMA ChannelStep ==
  ASSUME ChannelTypeOK, ChannelInv, NextChannel \/ RestartChannel \/ UNCHANGED channelVars
  PROVE  ChannelInv'
<1>1. ASSUME NEW q \in Requests,
             UpdateChannel(q) \/ ValidateChannel(q) \/ CommitChannel(q) \/ RollBackChannel(q)
      PROVE  ChannelInv'
  <2>1. \A p \in Requests : RequestInv(p)'
    BY <1>1, RequestsStep
  <2>2. ReadyWasChecked'
    <3>1. CASE CommitChannel(q)
      BY <3>1, ReadyStep
    <3>2. CASE UpdateChannel(q) \/ ValidateChannel(q) \/ RollBackChannel(q)
      BY <3>2 DEF UpdateChannel, ValidateChannel, RollBackChannel, Load, ChannelInv,
                  ReadyWasChecked
    <3>3. QED BY <1>1, <3>1, <3>2
  <2>3. snapshot' = snapshot /\ checked \subseteq checked'
    BY <1>1 DEF UpdateChannel, ValidateChannel, RollBackChannel, CommitChannel, Load
  <2>4. FrozenAsChecked'
    BY <2>3 DEF ChannelInv, FrozenAsChecked
  <2>5. QED BY <2>1, <2>2, <2>4 DEF ChannelInv
<1>2. ASSUME NEW r \in Runs, PrepareDeliverySnapshot(r) PROVE ChannelInv'
  <2>1. channel' = channel /\ request' = request /\ checked' = checked /\ crossed' = crossed
    BY <1>2 DEF PrepareDeliverySnapshot
  <2>2. ReadyWasChecked'
    BY <2>1 DEF ChannelInv, ReadyWasChecked
  <2>3. \A q \in Requests : RequestInv(q)'
    BY <2>1 DEF ChannelInv, RequestInv
  <2>4. ASSUME NEW p \in Runs, snapshot'[p].frozen, snapshot'[p].channel.mode = "git"
        PROVE  /\ snapshot'[p].channel.status = "ready"
               /\ snapshot'[p].crossed \/ Settings(snapshot'[p].channel) \in checked'
    <3>1. CASE p # r
      <4>1. snapshot'[p] = snapshot[p]
        BY <1>2, <3>1 DEF PrepareDeliverySnapshot, ChannelTypeOK
      <4>2. QED BY <2>1, <2>4, <4>1 DEF ChannelInv, FrozenAsChecked
    <3>2. CASE p = r
      <4> DEFINE taken == [frozen |-> TRUE, channel |-> channel, crossed |-> crossed]
      <4>1. taken.channel = channel /\ taken.crossed = crossed
        OBVIOUS
      <4>2. snapshot'[p] = taken
        BY <1>2, <3>2 DEF PrepareDeliverySnapshot, ChannelTypeOK
      <4> HIDE DEF taken
      <4>3. snapshot'[p].channel = channel /\ snapshot'[p].crossed = crossed
        BY <4>1, <4>2
      <4>4. channel.status = "ready" /\ (crossed \/ Settings(channel) \in checked)
        BY <1>2, <2>4, <4>3 DEF PrepareDeliverySnapshot, ReadyToApprove, ChannelInv,
                                ReadyWasChecked
      <4>5. QED BY <2>1, <4>3, <4>4
    <3>3. QED BY <3>1, <3>2
  <2>5. FrozenAsChecked'
    BY <2>4 DEF FrozenAsChecked
  <2>6. QED BY <2>2, <2>3, <2>5 DEF ChannelInv
<1>3. ASSUME NEW r \in Runs, EndRun(r) PROVE ChannelInv'
  BY <1>3 DEF EndRun, ChannelInv, ReadyWasChecked, RequestInv, FrozenAsChecked
<1>4. CASE RestartChannel
  <2>1. \A q \in Requests : request'[q] = Quiet
    BY <1>4 DEF RestartChannel
  <2>2. Quiet.kind = "none"
    BY DEF Quiet
  <2>3. \A q \in Requests : RequestInv(q)'
    BY <2>1, <2>2 DEF RequestInv
  <2>4. QED BY <1>4, <2>3 DEF RestartChannel, ChannelInv, ReadyWasChecked, FrozenAsChecked
<1>5. CASE UNCHANGED channelVars
  BY <1>5 DEF channelVars, ChannelInv, ReadyWasChecked, RequestInv, FrozenAsChecked
<1>6. QED BY <1>1, <1>2, <1>3, <1>4, <1>5 DEF NextChannel

\* A frozen git channel is ready, and some validation found exactly its settings ready unless
\* the requests that made the row crossed.
THEOREM FrozenWasChecked == Spec => []FrozenAsChecked
<1>1. DeliveryTypeOK /\ ChannelInv /\ [Next]_vars => ChannelInv'
  <2> SUFFICES ASSUME DeliveryTypeOK, ChannelInv, [Next]_vars PROVE ChannelInv'
    OBVIOUS
  <2>1. NextChannel \/ RestartChannel \/ UNCHANGED channelVars
    BY Apart DEF Next, DeliverySteps, Restart, vars
  <2>2. QED BY <2>1, ChannelStep DEF DeliveryTypeOK
<1>2. ChannelInv => FrozenAsChecked
  BY DEF ChannelInv
<1>3. QED BY <1>1, <1>2, ChannelInit, DeliveryTyped, PTL DEF Spec

-----------------------------------------------------------------------------
(* One review, of the work, in the approved repository                      *)

\* The invariant of a run is about its own rows only.
LEMMA Untouched ==
  ASSUME NEW r \in Runs, RunInv(r),
         job'[r] = job[r], repo'[r] = repo[r], remote'[r] = remote[r],
         records'[r] = records[r], snapshot'[r] = snapshot[r],
         phase'[r] = phase[r] \/ phase'[r] = "over"
  PROVE  RunInv(r)'
<1>1. Whole(r) => Whole(r)'
  BY DEF Whole
<1>2. Branched(r) => Branched(r)'
  BY DEF Branched
<1>3. StepInv(r)'
  BY <1>1, <1>2 DEF RunInv, StepInv
<1>4. QED BY <1>1, <1>3 DEF RunInv

LEMMA DeliveryInit == Init => DeliveryInv
<1> SUFFICES ASSUME Init, NEW r \in Runs PROVE RunInv(r)
  BY DEF DeliveryInv
<1>1. job[r].at = "idle" /\ job[r] = Idle
  BY DEF Init, Idle
<1>2. remote[r].reviews = <<>> /\ records[r] = {}
  BY DEF Init
<1>3. phase[r] = "review"
  BY DEF Init, InitChannel
<1>4. QED BY <1>1, <1>2, <1>3 DEF RunInv, StepInv

\* Freezing a run's channel finds no delivery under way and no record, and nothing else in the
\* channel's steps touches what a delivery goes by.
LEMMA ChannelKeepsRuns ==
  ASSUME DeliveryTypeOK, DeliveryInv, NextChannel, UNCHANGED deliveryVars, NEW r \in Runs
  PROVE  RunInv(r)'
<1>1. /\ job'[r] = job[r] /\ repo'[r] = repo[r] /\ remote'[r] = remote[r]
      /\ records'[r] = records[r] /\ RunInv(r)
  BY DEF deliveryVars, DeliveryInv
<1>2. CASE snapshot'[r] = snapshot[r] /\ (phase'[r] = phase[r] \/ phase'[r] = "over")
  BY <1>1, <1>2, Untouched
<1>3. CASE ~(snapshot'[r] = snapshot[r] /\ (phase'[r] = phase[r] \/ phase'[r] = "over"))
  <2>1. PrepareDeliverySnapshot(r)
    BY <1>3 DEF NextChannel, UpdateChannel, ValidateChannel, CommitChannel, RollBackChannel, Load,
                PrepareDeliverySnapshot, EndRun, DeliveryTypeOK, ChannelTypeOK
  <2>2. ~snapshot[r].frozen
    BY <2>1 DEF PrepareDeliverySnapshot
  <2>3. snapshot'[r].frozen
    BY <2>1 DEF PrepareDeliverySnapshot, DeliveryTypeOK, ChannelTypeOK
  <2>4. job'[r] = Idle /\ records'[r] = {}
    BY <1>1, <2>2 DEF RunInv, StepInv
  <2>5. job'[r].at = "idle"
    BY <2>4 DEF Idle
  <2>6. ~repo'[r].branch => remote'[r].reviews = <<>>
    BY <1>1 DEF RunInv, StepInv
  <2>7. StepInv(r)'
    BY <2>3, <2>5, <2>6 DEF StepInv
  <2>8. QED BY <1>1, <2>4, <2>7 DEF RunInv
<1>4. QED BY <1>2, <1>3

\* A delivery that goes no further, because it failed or was lost, promises nothing.
LEMMA Abandoned ==
  ASSUME NEW r \in Runs, RunInv(r), snapshot[r].frozen, snapshot'[r] = snapshot[r],
         \/ job'[r].at \in {"idle", "announce", "read_delivery_snapshot"}
         \/ job'[r].at = "record" /\ job'[r].result # "succeeded",
         records'[r] = records[r],
         Whole(r) => Whole(r)',
         ~repo'[r].branch => remote'[r].reviews = <<>>,
         Len(remote'[r].reviews) <= 1
  PROVE  RunInv(r)'
<1>1. StepInv(r)'
  BY DEF StepInv
<1>2. QED BY <1>1 DEF RunInv

LEMMA DeliveryStep ==
  ASSUME DeliveryTypeOK, DeliveryInv, NEW r \in Runs, DeliverySteps(r)
  PROVE  RunInv(r)'
<1>1. /\ RunInv(r) /\ StepInv(r) /\ snapshot'[r] = snapshot[r] /\ phase'[r] = phase[r]
      /\ Len(remote[r].reviews) <= 1
  BY Apart DEF DeliveryInv, RunInv, channelVars
<1>2. /\ job \in [Runs -> JobRow] /\ job[r] \in JobRow /\ repo \in [Runs -> RepoRow]
      /\ remote \in [Runs -> RemoteRow] /\ records \in [Runs -> SUBSET RecordRow]
      /\ snapshot[r] \in SnapshotRow
      /\ remote[r].reviews \in Seq(Repositories \union {None})
  BY DEF DeliveryTypeOK, ChannelTypeOK, RemoteRow
<1>3. Idle.at = "idle" /\ Idle.result = "none"
  BY DEF Idle
<1>4. job[r] # Idle \/ phase[r] = "delivery" => snapshot[r].frozen
  BY <1>1 DEF StepInv
<1>5. ASSUME NEW result \in {"failed", "blocked"}, job' = Finished(r, result),
             remote'[r] = remote[r], records'[r] = records[r], repo'[r] = repo[r],
             job[r] # Idle
      PROVE  RunInv(r)'
  <2>1. job'[r].at = "record" /\ job'[r].result # "succeeded"
    BY <1>5, JobEnds
  <2>2. QED BY <1>1, <1>4, <1>5, <2>1, Abandoned DEF Whole, StepInv
<1>6. CASE Deliver(r)
  <2>1. job'[r].at = IF snapshot[r].channel.mode = "demo" THEN "demo"
                     ELSE "read_delivery_snapshot"
    <3>1. Calls[1].name = "read_delivery_snapshot"
      BY DEF Calls, ReadDeliverySnapshotTool, Tool
    <3>2. QED BY <1>2, <1>6, <3>1 DEF Deliver, JobRow
  <2>2. remote'[r] = remote[r] /\ repo'[r] = repo[r] /\ records'[r] = records[r]
          /\ snapshot[r].frozen
    BY <1>4, <1>6 DEF Deliver
  <2>3. StepInv(r)'
    BY <1>1, <2>1, <2>2 DEF StepInv
  <2>4. QED BY <1>1, <2>2, <2>3 DEF RunInv, Whole
<1>7. CASE ReadDeliverySnapshot(r)
  <2>1. job[r].at = "read_delivery_snapshot"
    BY <1>7 DEF ReadDeliverySnapshot, At, ReadDeliverySnapshotTool, Tool
  <2>2. remote'[r] = remote[r] /\ repo'[r] = repo[r] /\ records'[r] = records[r]
          /\ snapshot[r].frozen /\ job[r] # Idle
    BY <1>3, <1>4, <1>7, <2>1 DEF ReadDeliverySnapshot, RestUnchanged
  <2>3. CASE job' = ToolFailure(r)
    BY <1>5, <2>2, <2>3 DEF ToolFailure
  <2>4. CASE job' = [job EXCEPT ![r].at = Following(job[r].at), ![r].channel = FrozenChannel(r)]
    <3> DEFINE row == [job[r] EXCEPT !.at = "prepare_branch", !.channel = snapshot[r].channel]
    <3>1. row.at = "prepare_branch" /\ row.channel = snapshot[r].channel
      BY <1>2 DEF JobRow
    <3>2. job' = [job EXCEPT ![r] = row]
      BY <1>2, <2>1, <2>4, CallsFollow DEF FrozenChannel
    <3> HIDE DEF row
    <3>3. job'[r].at = "prepare_branch" /\ job'[r].channel = snapshot[r].channel
      BY <1>2, <3>1, <3>2
    <3>4. StepInv(r)'
      BY <1>1, <2>2, <3>3 DEF StepInv
    <3>5. QED BY <1>1, <2>2, <3>4 DEF RunInv, Whole
  <2>5. QED BY <1>7, <2>3, <2>4 DEF ReadDeliverySnapshot
<1>8. CASE ExecuteStep(r)
  <2>1. remote'[r] = remote[r] /\ repo'[r] = repo[r] /\ records'[r] = records[r]
    BY <1>8 DEF ExecuteStep, RestUnchanged
  <2>2. job[r].at \in {"prepare_branch", "create_commit", "push_branch",
                       "create_code_review_request"}
    BY <1>8, RiskySteps DEF ExecuteStep, At
  <2>3. CASE job' = [job EXCEPT ![r].confirmed = TRUE]
    <3>1. job'[r].at = job[r].at /\ job'[r].channel = job[r].channel
      BY <1>2, <2>3 DEF JobRow
    <3>2. StepInv(r)'
      BY <1>1, <1>3, <1>4, <2>1, <2>2, <3>1 DEF StepInv, Branched
    <3>3. QED BY <1>1, <2>1, <3>2 DEF RunInv, Whole
  <2>4. CASE job' = Finished(r, "blocked") \/ job' = ToolFailure(r)
    BY <1>3, <1>5, <2>1, <2>2, <2>4 DEF ToolFailure
  <2>5. QED BY <1>8, <2>3, <2>4 DEF ExecuteStep
<1>9. CASE PrepareBranch(r)
  <2>1. At(r, "prepare_branch") /\ job[r].at = "prepare_branch" /\ records'[r] = records[r]
    BY <1>9 DEF PrepareBranch, Write, PrepareBranchTool, Tool, At, RestUnchanged
  <2>2. job[r] # Idle /\ snapshot[r].frozen /\ job[r].channel = snapshot[r].channel
    BY <1>1, <1>3, <1>4, <2>1 DEF StepInv
  <2>3. CASE Refused(r) \/ FailedBefore(r)
    BY <1>5, <2>1, <2>2, <2>3 DEF Refused, FailedBefore, ToolFailure
  <2>4. CASE CanSwitch(r) /\ remote' = remote /\ (Done(r) \/ FailedAfter(r))
             /\ repo' = [repo EXCEPT ![r].branch = TRUE, ![r].head = "delivery"]
    <3>1. Branched(r)'
      BY <1>1, <2>4, BranchMade DEF Branched, CanSwitch, StepInv
    <3>2. CASE Done(r)
      <4>1. job'[r].at = "create_commit" /\ job'[r].channel = job[r].channel
        BY <2>1, <3>2, JobSteps, CallsFollow DEF Done, ToolSteps
      <4>2. StepInv(r)'
        BY <1>1, <2>2, <3>1, <4>1 DEF StepInv, Branched
      <4>3. QED BY <1>1, <2>1, <2>4, <4>2 DEF RunInv, Whole
    <3>3. CASE FailedAfter(r)
      <4>1. job'[r].at = "record" /\ job'[r].result # "succeeded"
        BY <3>3, JobEnds DEF FailedAfter, ToolFailure
      <4>2. QED BY <1>1, <2>1, <2>2, <2>4, <3>1, <4>1, Abandoned DEF Whole, Branched
    <3>4. QED BY <2>4, <3>2, <3>3
  <2>5. QED BY <1>9, <2>3, <2>4 DEF PrepareBranch
<1>10. CASE CreateCommit(r)
  <2>1. At(r, "create_commit") /\ job[r].at = "create_commit" /\ records'[r] = records[r]
    BY <1>10 DEF CreateCommit, Write, CreateCommitTool, Tool, At, RestUnchanged
  <2>2. job[r] # Idle /\ snapshot[r].frozen /\ job[r].channel = snapshot[r].channel
          /\ Branched(r)
    BY <1>1, <1>3, <1>4, <2>1 DEF StepInv
  <2>3. CASE Refused(r) \/ FailedBefore(r)
    BY <1>5, <2>1, <2>2, <2>3 DEF Refused, FailedBefore, ToolFailure
  <2>4. CASE remote' = remote /\ (Done(r) \/ FailedAfter(r))
             /\ repo' = [repo EXCEPT ![r].commit = repo[r].head, ![r].dirty = FALSE]
    <3> DEFINE row == [repo[r] EXCEPT !.commit = repo[r].head, !.dirty = FALSE]
    <3>1. row.branch = repo[r].branch /\ row.head = repo[r].head /\ row.commit = repo[r].head
      BY <1>2 DEF RepoRow
    <3>2. repo' = [repo EXCEPT ![r] = row]
      BY <1>2, <2>4
    <3> HIDE DEF row
    <3>3. Branched(r)' /\ repo'[r].commit = "delivery" /\ repo'[r].branch
      BY <1>2, <2>2, <2>4, <3>1, <3>2 DEF Branched
    <3>4. CASE Done(r)
      <4>1. job'[r].at = "push_branch" /\ job'[r].channel = job[r].channel
        BY <2>1, <3>4, JobSteps, CallsFollow DEF Done, ToolSteps
      <4>2. StepInv(r)'
        BY <1>1, <2>2, <3>3, <4>1 DEF StepInv
      <4>3. QED BY <1>1, <2>1, <2>4, <4>2 DEF RunInv, Whole
    <3>5. CASE FailedAfter(r)
      <4>1. job'[r].at = "record" /\ job'[r].result # "succeeded"
        BY <3>5, JobEnds DEF FailedAfter, ToolFailure
      <4>2. QED BY <1>1, <2>1, <2>2, <2>4, <3>3, <4>1, Abandoned DEF Whole
    <3>6. QED BY <2>4, <3>4, <3>5
  <2>5. QED BY <1>10, <2>3, <2>4 DEF CreateCommit
<1>11. CASE PushBranch(r)
  <2>1. At(r, "push_branch") /\ job[r].at = "push_branch" /\ records'[r] = records[r]
    BY <1>11 DEF PushBranch, Write, PushBranchTool, Tool, At, RestUnchanged
  <2>2. job[r] # Idle /\ snapshot[r].frozen /\ job[r].channel = snapshot[r].channel
          /\ Branched(r) /\ repo[r].commit = "delivery"
    BY <1>1, <1>3, <1>4, <2>1 DEF StepInv
  <2>3. CASE Refused(r) \/ FailedBefore(r)
    BY <1>5, <2>1, <2>2, <2>3 DEF Refused, FailedBefore, ToolFailure
  <2>4. CASE repo' = repo /\ (Done(r) \/ FailedAfter(r))
             /\ remote' = [remote EXCEPT ![r].pushed =
                             IF repo[r].commit = "delivery" THEN "work" ELSE "base"]
    <3>1. remote'[r].pushed = "work" /\ remote'[r].reviews = remote[r].reviews
      BY <1>2, <2>2, <2>4 DEF RemoteRow
    <3>2. Branched(r)' /\ repo'[r].commit = "delivery" /\ (Whole(r) => Whole(r)')
      BY <1>1, <2>2, <2>4, <3>1 DEF Branched, Whole
    <3>3. CASE Done(r)
      <4>1. job'[r].at = "create_code_review_request" /\ job'[r].channel = job[r].channel
        BY <2>1, <3>3, JobSteps, CallsFollow DEF Done, ToolSteps
      <4>2. StepInv(r)'
        BY <1>1, <2>2, <3>1, <3>2, <4>1 DEF StepInv, Branched
      <4>3. QED BY <1>1, <2>1, <3>1, <3>2, <4>2 DEF RunInv
    <3>4. CASE FailedAfter(r)
      <4>1. job'[r].at = "record" /\ job'[r].result # "succeeded"
        BY <3>4, JobEnds DEF FailedAfter, ToolFailure
      <4>2. QED BY <1>1, <2>1, <2>2, <3>1, <3>2, <4>1, Abandoned DEF Branched
    <3>5. QED BY <2>4, <3>3, <3>4
  <2>5. QED BY <1>11, <2>3, <2>4 DEF PushBranch
<1>12. CASE CreateCodeReviewRequest(r)
  <2>1. At(r, "create_code_review_request") /\ job[r].at = "create_code_review_request"
          /\ records'[r] = records[r]
    BY <1>12
    DEF CreateCodeReviewRequest, Write, CreateCodeReviewRequestTool, Tool, At, RestUnchanged
  <2>2. job[r] # Idle /\ snapshot[r].frozen /\ job[r].channel = snapshot[r].channel
          /\ Branched(r) /\ remote[r].pushed = "work"
    BY <1>1, <1>3, <1>4, <2>1 DEF StepInv
  <2>3. CASE Refused(r) \/ FailedBefore(r)
    BY <1>5, <2>1, <2>2, <2>3 DEF Refused, FailedBefore, ToolFailure
  <2>4. CASE repo' = repo /\ (Done(r) \/ FailedAfter(r))
             /\ remote' = [remote EXCEPT ![r].reviews =
                             Append(remote[r].reviews, job[r].channel.repository)]
    <3>1. remote'[r].pushed = "work"
            /\ remote'[r].reviews = Append(<<>>, snapshot[r].channel.repository)
      BY <1>2, <2>2, <2>4 DEF RemoteRow, Branched
    <3>2. Append(<<>>, snapshot[r].channel.repository) = <<snapshot[r].channel.repository>>
      OBVIOUS
    <3>3. Len(remote'[r].reviews) = 1 /\ remote'[r].reviews[1] = snapshot[r].channel.repository
            /\ DOMAIN remote'[r].reviews = 1..1
      BY <3>1, <3>2
    <3>4. Whole(r)'
      BY <1>1, <3>1, <3>3 DEF Whole, ToSet
    <3>5. repo'[r].branch
      BY <2>2, <2>4 DEF Branched
    <3>6. CASE Done(r)
      <4>1. job'[r].at = "record"
        BY <2>1, <3>6, JobSteps, CallsFollow DEF Done, ToolSteps
      <4>2. StepInv(r)'
        BY <1>1, <2>2, <3>4, <3>5, <4>1 DEF StepInv
      <4>3. QED BY <3>3, <3>4, <4>2 DEF RunInv
    <3>7. CASE FailedAfter(r)
      <4>1. job'[r].at = "record" /\ job'[r].result # "succeeded"
        BY <3>7, JobEnds DEF FailedAfter, ToolFailure
      <4>2. Len(remote'[r].reviews) <= 1
        BY <3>3
      <4>3. QED BY <1>1, <2>1, <2>2, <3>4, <3>5, <4>1, <4>2, Abandoned
    <3>8. QED BY <2>4, <3>6, <3>7
  <2>5. QED BY <1>12, <2>3, <2>4 DEF CreateCodeReviewRequest
<1>13. CASE DemoDeliver(r)
  <2>1. job[r].at = "demo" /\ remote'[r] = remote[r] /\ repo'[r] = repo[r]
          /\ records'[r] = records[r]
    BY <1>13 DEF DemoDeliver, At, RestUnchanged
  <2>2. snapshot[r].frozen /\ snapshot[r].channel.mode # "git"
    BY <1>1, <1>3, <1>4, <2>1 DEF StepInv
  <2>3. job'[r].at \in {"record", "idle"}
    BY <1>2, <1>3, <1>13, JobEnds DEF DemoDeliver
  <2>4. StepInv(r)'
    BY <1>1, <2>1, <2>2, <2>3 DEF StepInv
  <2>5. QED BY <1>1, <2>1, <2>4 DEF RunInv, Whole
<1>14. CASE CreateRecord(r)
  <2>1. job[r].at = "record" /\ remote'[r] = remote[r] /\ repo'[r] = repo[r]
          /\ snapshot[r].frozen
    BY <1>3, <1>4, <1>14 DEF CreateRecord, At
  <2>2. job'[r].at \in {"idle", "announce"}
    <3>1. [Idle EXCEPT !.at = "announce"].at = "announce"
      BY DEF Idle
    <3>2. QED BY <1>2, <1>3, <1>14, <3>1 DEF CreateRecord
  <2>3. StepInv(r)'
    BY <1>1, <2>1, <2>2 DEF StepInv
  <2>4. ASSUME [mode |-> "git", status |-> "succeeded"] \in records'[r] PROVE Whole(r)
    <3> DEFINE new == [mode |-> FrozenChannel(r).mode, status |-> job[r].result]
    <3>1. new.mode = snapshot[r].channel.mode /\ new.status = job[r].result
      BY DEF FrozenChannel
    <3>2. records'[r] = records[r] \/ records'[r] = records[r] \union {new}
      BY <1>2, <1>14 DEF CreateRecord
    <3> HIDE DEF new
    <3>3. CASE [mode |-> "git", status |-> "succeeded"] \in records[r]
      BY <1>1, <3>3 DEF RunInv
    <3>4. CASE [mode |-> "git", status |-> "succeeded"] = new
      <4>1. new.mode = "git" /\ new.status = "succeeded"
        BY <3>4
      <4>2. QED BY <1>1, <2>1, <3>1, <4>1 DEF StepInv
    <3>5. QED BY <2>4, <3>2, <3>3, <3>4
  <2>5. QED BY <1>1, <2>1, <2>3, <2>4 DEF RunInv, Whole
<1>15. CASE AppendDeliveryResult(r)
  <2>1. job[r].at = "announce" /\ remote'[r] = remote[r] /\ repo'[r] = repo[r]
          /\ snapshot[r].frozen /\ records'[r] = records[r]
    BY <1>3, <1>4, <1>15 DEF AppendDeliveryResult, At
  <2>2. job'[r].at = "idle"
    BY <1>2, <1>3, <1>15 DEF AppendDeliveryResult
  <2>3. StepInv(r)'
    BY <1>1, <2>1, <2>2 DEF StepInv
  <2>4. QED BY <1>1, <2>1, <2>3 DEF RunInv, Whole
<1>16. CASE Edit(r)
  <2>1. job'[r] = job[r] /\ remote'[r] = remote[r] /\ records'[r] = records[r]
          /\ repo'[r].branch = repo[r].branch /\ repo'[r].head = repo[r].head
          /\ repo'[r].commit = repo[r].commit
    BY <1>2, <1>16 DEF Edit, RepoRow
  <2>2. StepInv(r)'
    BY <1>1, <2>1 DEF StepInv, Branched, Whole
  <2>3. QED BY <1>1, <2>1, <2>2 DEF RunInv, Whole
<1>17. QED
  BY <1>6, <1>7, <1>8, <1>9, <1>10, <1>11, <1>12, <1>13, <1>14, <1>15, <1>16 DEF DeliverySteps

LEMMA DeliveryInvStep == DeliveryTypeOK /\ DeliveryInv /\ [Next]_vars => DeliveryInv'
<1> SUFFICES ASSUME DeliveryTypeOK, DeliveryInv, [Next]_vars, NEW r \in Runs PROVE RunInv(r)'
  BY DEF DeliveryInv
<1>1. RunInv(r)
  BY DEF DeliveryInv
<1>2. CASE NextChannel /\ UNCHANGED deliveryVars
  BY <1>2, ChannelKeepsRuns
<1>3. CASE Restart
  <2>1. job'[r] = Idle /\ Idle.at = "idle"
    BY <1>3 DEF Restart, Idle
  <2>2. /\ remote'[r] = remote[r] /\ repo'[r] = repo[r] /\ records'[r] = records[r]
        /\ snapshot'[r] = snapshot[r] /\ phase'[r] = phase[r]
    BY <1>3 DEF Restart, RestartChannel
  <2>3. StepInv(r)'
    BY <1>1, <2>1, <2>2 DEF RunInv, StepInv
  <2>4. QED BY <1>1, <2>2, <2>3 DEF RunInv, Whole
<1>4. ASSUME NEW p \in Runs, DeliverySteps(p) PROVE RunInv(r)'
  <2>1. CASE p = r
    BY <1>4, <2>1, DeliveryStep
  <2>2. CASE p # r
    BY <1>1, <1>4, <2>2, Apart, Untouched DEF channelVars
  <2>3. QED BY <2>1, <2>2
<1>5. CASE UNCHANGED vars
  BY <1>1, <1>5, Untouched DEF vars, channelVars, deliveryVars
<1>6. QED BY <1>2, <1>3, <1>4, <1>5 DEF Next, DeliverySteps

LEMMA DeliveryInvAlways == Spec => []DeliveryInv
  BY DeliveryInit, DeliveryInvStep, DeliveryTyped, PTL DEF Spec

\* However often a delivery fails, times out after its effect or is cut off by a restart and is
\* tried again, the run gets one review request: only the delivery that made the branch gets
\* past it.
THEOREM OneReview == Spec => []ReviewedOnce
<1>1. DeliveryInv => ReviewedOnce
  BY DEF DeliveryInv, RunInv, ReviewedOnce
<1>2. QED BY <1>1, DeliveryInvAlways, PTL

\* A git delivery recorded as succeeded has its work on the remote branch and a review request
\* in the repository that was approved, whatever became of the channel since.
THEOREM DeliveriesAreWhole == Spec => []DeliveredWhole
<1>1. DeliveryInv => DeliveredWhole
  BY DEF DeliveryInv, RunInv, DeliveredWhole, Whole
<1>2. QED BY <1>1, DeliveryInvAlways, PTL

-----------------------------------------------------------------------------
(* The delivery keeps its promise                                           *)

WriteSteps == {"prepare_branch", "create_commit", "push_branch", "create_code_review_request"}
Git(r) == snapshot[r].channel.mode = "git"
ReviewedWork(r) == Promise!Reviewed(snapshot[r].channel.repository)

\* Where the work of a run is when its delivery is at a step.
WorkInv(r) ==
  /\ ~repo[r].branch => WorkOf(r) = Promise!Untouched
  /\ job[r].at \in WriteSteps => Git(r)
  /\ job[r].at = "create_commit" => WorkOf(r) = Promise!Branched
  /\ job[r].at = "push_branch" => WorkOf(r) = Promise!Committed
  /\ job[r].at = "create_code_review_request" => WorkOf(r) = Promise!Pushed
  /\ job[r].at = "record" =>
       /\ job[r].result \in {"succeeded", "failed", "blocked"}
       /\ job[r].result = "succeeded" /\ Git(r) => WorkOf(r) = ReviewedWork(r)
  /\ job[r].at = "announce" => \E row \in records[r] : row.status = "succeeded"

\* The invariant of a run is about its own rows only.
LEMMA WorkUntouched ==
  ASSUME NEW r \in Runs, WorkInv(r), job'[r] = job[r], repo'[r] = repo[r],
         remote'[r] = remote[r], records'[r] = records[r], snapshot'[r] = snapshot[r]
  PROVE  WorkInv(r)'
<1>1. WorkOf(r)' = WorkOf(r) /\ (Git(r)' <=> Git(r)) /\ ReviewedWork(r)' = ReviewedWork(r)
  BY DEF WorkOf, Git, ReviewedWork
<1>2. QED BY <1>1 DEF WorkInv

\* A delivery that has not begun, or goes no further, promises nothing.
LEMMA WorkEnds ==
  ASSUME NEW r \in Runs, ~repo'[r].branch => WorkOf(r)' = Promise!Untouched,
         \/ job'[r].at \in {"idle", "demo", "read_delivery_snapshot"}
         \/ job'[r].at = "record" /\ job'[r].result \in {"failed", "blocked"}
  PROVE  WorkInv(r)'
  BY DEF WorkInv, WriteSteps

\* What the step of a delivery leaves to see of the other runs, and of this one.
LEMMA PromiseApart ==
  ASSUME DeliveryTypeOK, NEW r \in Runs, DeliverySteps(r)
  PROVE  /\ \A p \in Runs : Approval(p)' = Approval(p)
         /\ \A p \in Runs \ {r} : WorkOf(p)' = WorkOf(p) /\ records'[p] = records[p]
<1>1. snapshot' = snapshot
  BY Apart DEF channelVars
<1>2. \A p \in Runs : Approval(p)' = Approval(p)
  BY <1>1 DEF Approval
<1>3. QED BY <1>2, Apart DEF WorkOf

LEMMA NothingSeen ==
  ASSUME \A p \in Runs : Approval(p)' = Approval(p) /\ WorkOf(p)' = WorkOf(p)
                         /\ records'[p] = records[p],
         announced' = announced
  PROVE  UNCHANGED Promise!vars
<1>1. [p \in Runs |-> Approval(p)]' = [p \in Runs |-> Approval(p)]
  OBVIOUS
<1>2. [p \in Runs |-> WorkOf(p)]' = [p \in Runs |-> WorkOf(p)]
  OBVIOUS
<1>3. [p \in Runs |-> {row.status : row \in records[p]}]'
        = [p \in Runs |-> {row.status : row \in records[p]}]
  OBVIOUS
<1>4. QED BY <1>1, <1>2, <1>3 DEF Promise!vars

LEMMA ApprovedChannel ==
  ASSUME NEW r \in Runs, snapshot[r].frozen
  PROVE  Approval(r) = {[mode |-> snapshot[r].channel.mode,
                         repository |-> snapshot[r].channel.repository]}
  BY DEF Approval

\* One stage of the work of a git delivery.
LEMMA WorkGoes ==
  ASSUME DeliveryTypeOK, NEW r \in Runs, DeliverySteps(r), snapshot[r].frozen, Git(r),
         records'[r] = records[r], announced' = announced,
         \/ WorkOf(r) = Promise!Untouched /\ WorkOf(r)' = Promise!Branched
         \/ WorkOf(r) = Promise!Branched /\ WorkOf(r)' = Promise!Committed
         \/ WorkOf(r) = Promise!Committed /\ WorkOf(r)' = Promise!Pushed
         \/ WorkOf(r) = Promise!Pushed /\ WorkOf(r)' = ReviewedWork(r)
  PROVE  Promise!Next
<1> DEFINE chosen == [mode |-> snapshot[r].channel.mode,
                      repository |-> snapshot[r].channel.repository]
<1>1. chosen.mode = "git" /\ chosen.repository = snapshot[r].channel.repository
  BY DEF Git
<1>2. Approval(r) = {chosen}
  BY ApprovedChannel
<1> HIDE DEF chosen
<1>3. /\ [p \in Runs |-> Approval(p)]' = [p \in Runs |-> Approval(p)]
      /\ [p \in Runs |-> {row.status : row \in records[p]}]'
           = [p \in Runs |-> {row.status : row \in records[p]}]
  BY PromiseApart
<1>4. ASSUME NEW from, NEW to, WorkOf(r) = from, WorkOf(r)' = to
      PROVE  Promise!Step(r, from, to)
  <2>1. [p \in Runs |-> WorkOf(p)]' = [[p \in Runs |-> WorkOf(p)] EXCEPT ![r] = to]
    BY <1>4, PromiseApart
  <2>2. QED BY <1>3, <1>4, <2>1 DEF Promise!Step
<1>5. \/ Promise!Step(r, Promise!Untouched, Promise!Branched)
      \/ Promise!Step(r, Promise!Branched, Promise!Committed)
      \/ Promise!Step(r, Promise!Committed, Promise!Pushed)
      \/ Promise!Step(r, Promise!Pushed, Promise!Reviewed(chosen.repository))
  BY <1>1, <1>4 DEF ReviewedWork
<1>6. Promise!Work(r)
  BY <1>1, <1>2, <1>5 DEF Promise!Work
<1>7. QED BY <1>6 DEF Promise!Next

\* A stage, field by field.
LEMMA StageIs ==
  ASSUME NEW r, NEW branch, NEW commit, NEW pushed, NEW reviews
  PROVE  /\ WorkOf(r) = Promise!Stage(branch, commit, pushed, reviews) <=>
              /\ (IF repo[r].branch THEN "delivery" ELSE "none") = branch
              /\ repo[r].commit = commit
              /\ remote[r].pushed = pushed /\ remote[r].reviews = reviews
         /\ WorkOf(r)' = Promise!Stage(branch, commit, pushed, reviews) <=>
              /\ (IF repo'[r].branch THEN "delivery" ELSE "none") = branch
              /\ repo'[r].commit = commit
              /\ remote'[r].pushed = pushed /\ remote'[r].reviews = reviews
  BY DEF WorkOf, Promise!Stage

\* A step of a delivery takes the work one stage on, tells a result, announces it, or shows
\* nothing.
LEMMA PromiseStep ==
  ASSUME DeliveryTypeOK, DeliveryInv, NEW r \in Runs, WorkInv(r), DeliverySteps(r)
  PROVE  WorkInv(r)' /\ (Promise!Next \/ UNCHANGED Promise!vars)
<1> DEFINE Goal == WorkInv(r)' /\ (Promise!Next \/ UNCHANGED Promise!vars)
<1>1. /\ StepInv(r) /\ snapshot'[r] = snapshot[r] /\ (Git(r)' <=> Git(r))
      /\ ReviewedWork(r)' = ReviewedWork(r)
  BY Apart DEF DeliveryInv, RunInv, channelVars, Git, ReviewedWork
<1>2. /\ job \in [Runs -> JobRow] /\ job[r] \in JobRow /\ repo \in [Runs -> RepoRow]
      /\ repo[r] \in RepoRow /\ remote \in [Runs -> RemoteRow] /\ remote[r] \in RemoteRow
      /\ records \in [Runs -> SUBSET RecordRow] /\ snapshot[r].channel \in ChannelRow
  BY DEF DeliveryTypeOK, ChannelTypeOK, SnapshotRow
<1>3. Idle.at = "idle"
  BY DEF Idle
<1>4. job[r].at # "idle" \/ phase[r] = "delivery" => snapshot[r].frozen
  BY <1>1, <1>3 DEF StepInv
<1>5. ASSUME WorkOf(r)' = WorkOf(r), records'[r] = records[r], announced' = announced
      PROVE  UNCHANGED Promise!vars
  BY <1>5, PromiseApart, NothingSeen
<1>6. ASSUME repo'[r].branch = repo[r].branch, WorkOf(r)' = WorkOf(r)
      PROVE  ~repo'[r].branch => WorkOf(r)' = Promise!Untouched
  BY <1>6 DEF WorkInv
<1>7. ASSUME NEW result \in {"failed", "blocked"}, job' = Finished(r, result),
             repo'[r] = repo[r], remote'[r] = remote[r], records'[r] = records[r],
             announced' = announced
      PROVE  Goal
  <2>1. job'[r].at = "record" /\ job'[r].result = result /\ WorkOf(r)' = WorkOf(r)
    BY <1>7, JobEnds DEF WorkOf
  <2>2. QED BY <1>5, <1>6, <1>7, <2>1, WorkEnds
<1>8. ASSUME NEW step \in WriteSteps, job[r].at = step, repo'[r].branch,
             Git(r) => Promise!Next, FailedAfter(r)
      PROVE  Goal
  <2>1. job'[r].at = "record" /\ job'[r].result = "failed"
    BY <1>8, JobEnds DEF FailedAfter, ToolFailure
  <2>2. Git(r)
    BY <1>8 DEF WorkInv
  <2>3. QED BY <1>8, <2>1, <2>2, WorkEnds
<1>9. CASE Deliver(r)
  <2>1. Calls[1].name = "read_delivery_snapshot"
    BY DEF Calls, ReadDeliverySnapshotTool, Tool
  <2>2. job'[r].at \in {"demo", "read_delivery_snapshot"}
    BY <1>2, <1>9, <2>1 DEF Deliver, JobRow
  <2>3. WorkOf(r)' = WorkOf(r) /\ repo' = repo /\ records' = records /\ announced' = announced
    BY <1>9 DEF Deliver, WorkOf
  <2>4. QED BY <1>5, <1>6, <2>2, <2>3, WorkEnds
<1>10. CASE ReadDeliverySnapshot(r)
  <2>1. job[r].at = "read_delivery_snapshot" /\ At(r, "read_delivery_snapshot")
    BY <1>10 DEF ReadDeliverySnapshot, At, ReadDeliverySnapshotTool, Tool
  <2>2. repo' = repo /\ remote' = remote /\ records' = records /\ announced' = announced
          /\ WorkOf(r)' = WorkOf(r)
    BY <1>10 DEF ReadDeliverySnapshot, RestUnchanged, WorkOf
  <2>3. CASE job' = ToolFailure(r)
    BY <1>7, <2>2, <2>3 DEF ToolFailure
  <2>4. CASE SnapshotReady(FrozenChannel(r))
             /\ job' = [job EXCEPT ![r].at = Following(job[r].at), ![r].channel = FrozenChannel(r)]
    <3> DEFINE row == [job[r] EXCEPT !.at = "prepare_branch", !.channel = snapshot[r].channel]
    <3>1. row.at = "prepare_branch"
      BY <1>2 DEF JobRow
    <3>2. job' = [job EXCEPT ![r] = row]
      BY <1>2, <2>1, <2>4, CallsFollow DEF FrozenChannel
    <3> HIDE DEF row
    <3>3. job'[r].at = "prepare_branch" /\ Git(r)
      BY <1>2, <2>4, <3>1, <3>2 DEF SnapshotReady, FrozenChannel, Git
    <3>4. WorkInv(r)'
      BY <1>1, <1>6, <2>2, <3>3 DEF WorkInv
    <3>5. QED BY <1>5, <2>2, <3>4
  <2>5. QED BY <1>10, <2>3, <2>4 DEF ReadDeliverySnapshot
<1>11. CASE ExecuteStep(r)
  <2>1. repo' = repo /\ remote' = remote /\ records' = records /\ announced' = announced
          /\ WorkOf(r)' = WorkOf(r)
    BY <1>11 DEF ExecuteStep, RestUnchanged, WorkOf
  <2>2. job[r].at \in WriteSteps
    BY <1>11, RiskySteps DEF ExecuteStep, At, WriteSteps
  <2>3. CASE job' = [job EXCEPT ![r].confirmed = TRUE]
    <3>1. job'[r].at = job[r].at
      BY <1>2, <2>3 DEF JobRow
    <3>2. WorkInv(r)'
      BY <1>1, <2>1, <2>2, <3>1 DEF WorkInv, WriteSteps
    <3>3. QED BY <1>5, <2>1, <3>2
  <2>4. CASE job' = Finished(r, "blocked") \/ job' = ToolFailure(r)
    BY <1>7, <2>1, <2>4 DEF ToolFailure
  <2>5. QED BY <1>11, <2>3, <2>4 DEF ExecuteStep
<1>12. CASE PrepareBranch(r)
  <2>1. At(r, "prepare_branch") /\ job[r].at = "prepare_branch" /\ records' = records
          /\ announced' = announced /\ snapshot[r].frozen /\ Git(r)
    BY <1>4, <1>12 DEF PrepareBranch, Write, PrepareBranchTool, Tool, At, RestUnchanged, WorkInv,
                       WriteSteps
  <2>2. CASE Refused(r) \/ FailedBefore(r)
    BY <1>7, <2>1, <2>2 DEF Refused, FailedBefore, ToolFailure
  <2>3. CASE CanSwitch(r) /\ remote' = remote /\ (Done(r) \/ FailedAfter(r))
             /\ repo' = [repo EXCEPT ![r].branch = TRUE, ![r].head = "delivery"]
    <3>1. WorkOf(r) = Promise!Untouched
      BY <2>3 DEF CanSwitch, WorkInv
    <3> DEFINE row == [repo[r] EXCEPT !.branch = TRUE, !.head = "delivery"]
    <3>2. row.branch = TRUE /\ row.commit = repo[r].commit
      BY <1>2 DEF RepoRow
    <3>3. repo' = [repo EXCEPT ![r] = row]
      BY <1>2, <2>3
    <3> HIDE DEF row
    <3>4. repo'[r].branch /\ repo'[r].commit = repo[r].commit
      BY <1>2, <3>2, <3>3
    <3>5. WorkOf(r)' = Promise!Branched
      <4>1. repo[r].commit = "none" /\ remote[r].pushed = "nothing" /\ remote[r].reviews = <<>>
        BY <3>1, StageIs DEF Promise!Untouched
      <4>2. remote'[r].pushed = "nothing" /\ remote'[r].reviews = <<>>
              /\ repo'[r].commit = "none"
        BY <2>3, <3>4, <4>1
      <4>3. (IF repo'[r].branch THEN "delivery" ELSE "none") = "delivery"
        BY <3>4
      <4>4. QED BY <4>2, <4>3, StageIs DEF Promise!Branched
    <3>6. Promise!Next
      BY <2>1, <3>1, <3>5, WorkGoes
    <3>7. CASE Done(r)
      <4>1. job'[r].at = "create_commit"
        BY <2>1, <3>7, JobSteps, CallsFollow DEF Done, ToolSteps
      <4>2. WorkInv(r)'
        BY <1>1, <2>1, <3>4, <3>5, <4>1 DEF WorkInv
      <4>3. QED BY <3>6, <4>2
    <3>8. CASE FailedAfter(r)
      BY <1>8, <2>1, <3>4, <3>6, <3>8 DEF WriteSteps
    <3>9. QED BY <2>3, <3>7, <3>8
  <2>4. QED BY <1>12, <2>2, <2>3 DEF PrepareBranch
<1>13. CASE CreateCommit(r)
  <2>1. At(r, "create_commit") /\ job[r].at = "create_commit" /\ records' = records
          /\ announced' = announced /\ snapshot[r].frozen /\ Git(r)
    BY <1>4, <1>13 DEF CreateCommit, Write, CreateCommitTool, Tool, At, RestUnchanged, WorkInv,
                       WriteSteps
  <2>2. WorkOf(r) = Promise!Branched /\ repo[r].head = "delivery"
    BY <1>1, <2>1 DEF WorkInv, StepInv, Branched
  <2>3. CASE Refused(r) \/ FailedBefore(r)
    BY <1>7, <2>1, <2>3 DEF Refused, FailedBefore, ToolFailure
  <2>4. CASE remote' = remote /\ (Done(r) \/ FailedAfter(r))
             /\ repo' = [repo EXCEPT ![r].commit = repo[r].head, ![r].dirty = FALSE]
    <3> DEFINE row == [repo[r] EXCEPT !.commit = repo[r].head, !.dirty = FALSE]
    <3>1. row.branch = repo[r].branch /\ row.commit = repo[r].head
      BY <1>2 DEF RepoRow
    <3>2. repo' = [repo EXCEPT ![r] = row]
      BY <1>2, <2>4
    <3> HIDE DEF row
    <3>3. repo'[r].branch = repo[r].branch /\ repo'[r].commit = "delivery"
      BY <1>2, <2>2, <3>1, <3>2
    <3>4. WorkOf(r)' = Promise!Committed /\ repo'[r].branch
      <4>1. /\ repo[r].branch /\ remote[r].pushed = "nothing"
            /\ remote[r].reviews = <<>>
        BY <2>2, StageIs DEF Promise!Branched
      <4>2. repo'[r].branch /\ remote'[r].pushed = "nothing" /\ remote'[r].reviews = <<>>
        BY <2>4, <3>3, <4>1
      <4>3. (IF repo'[r].branch THEN "delivery" ELSE "none") = "delivery"
        BY <4>2
      <4>4. QED BY <3>3, <4>2, <4>3, StageIs DEF Promise!Committed
    <3>5. Promise!Next
      BY <2>1, <2>2, <3>4, WorkGoes
    <3>6. CASE Done(r)
      <4>1. job'[r].at = "push_branch"
        BY <2>1, <3>6, JobSteps, CallsFollow DEF Done, ToolSteps
      <4>2. WorkInv(r)'
        BY <1>1, <2>1, <3>4, <4>1 DEF WorkInv
      <4>3. QED BY <3>5, <4>2
    <3>7. CASE FailedAfter(r)
      BY <1>8, <2>1, <3>4, <3>5, <3>7 DEF WriteSteps
    <3>8. QED BY <2>4, <3>6, <3>7
  <2>5. QED BY <1>13, <2>3, <2>4 DEF CreateCommit
<1>14. CASE PushBranch(r)
  <2>1. At(r, "push_branch") /\ job[r].at = "push_branch" /\ records' = records
          /\ announced' = announced /\ snapshot[r].frozen /\ Git(r)
    BY <1>4, <1>14 DEF PushBranch, Write, PushBranchTool, Tool, At, RestUnchanged, WorkInv,
                       WriteSteps
  <2>2. WorkOf(r) = Promise!Committed /\ repo[r].commit = "delivery"
    BY <1>1, <2>1 DEF WorkInv, StepInv
  <2>3. CASE Refused(r) \/ FailedBefore(r)
    BY <1>7, <2>1, <2>3 DEF Refused, FailedBefore, ToolFailure
  <2>4. CASE repo' = repo /\ (Done(r) \/ FailedAfter(r))
             /\ remote' = [remote EXCEPT ![r].pushed =
                             IF repo[r].commit = "delivery" THEN "work" ELSE "base"]
    <3>1. remote'[r].pushed = "work" /\ remote'[r].reviews = remote[r].reviews
      BY <1>2, <2>2, <2>4 DEF RemoteRow
    <3>2. WorkOf(r)' = Promise!Pushed /\ repo'[r].branch
      <4>1. repo[r].branch /\ remote[r].reviews = <<>>
        BY <2>2, StageIs DEF Promise!Committed
      <4>2. QED BY <2>2, <2>4, <3>1, <4>1, StageIs DEF Promise!Pushed
    <3>3. Promise!Next
      BY <2>1, <2>2, <3>2, WorkGoes
    <3>4. CASE Done(r)
      <4>1. job'[r].at = "create_code_review_request"
        BY <2>1, <3>4, JobSteps, CallsFollow DEF Done, ToolSteps
      <4>2. WorkInv(r)'
        BY <1>1, <2>1, <3>2, <4>1 DEF WorkInv
      <4>3. QED BY <3>3, <4>2
    <3>5. CASE FailedAfter(r)
      BY <1>8, <2>1, <3>2, <3>3, <3>5 DEF WriteSteps
    <3>6. QED BY <2>4, <3>4, <3>5
  <2>5. QED BY <1>14, <2>3, <2>4 DEF PushBranch
<1>15. CASE CreateCodeReviewRequest(r)
  <2>1. At(r, "create_code_review_request") /\ job[r].at = "create_code_review_request"
          /\ records' = records /\ announced' = announced /\ snapshot[r].frozen /\ Git(r)
    BY <1>4, <1>15 DEF CreateCodeReviewRequest, Write, CreateCodeReviewRequestTool, Tool, At,
                       RestUnchanged, WorkInv, WriteSteps
  <2>2. WorkOf(r) = Promise!Pushed /\ job[r].channel = snapshot[r].channel
    BY <1>1, <2>1 DEF WorkInv, StepInv
  <2>3. CASE Refused(r) \/ FailedBefore(r)
    BY <1>7, <2>1, <2>3 DEF Refused, FailedBefore, ToolFailure
  <2>4. CASE repo' = repo /\ (Done(r) \/ FailedAfter(r))
             /\ remote' = [remote EXCEPT ![r].reviews =
                             Append(remote[r].reviews, job[r].channel.repository)]
    <3>1. remote[r].reviews = <<>>
      BY <2>2, StageIs DEF Promise!Pushed
    <3>2. remote'[r].pushed = remote[r].pushed
            /\ remote'[r].reviews = Append(<<>>, snapshot[r].channel.repository)
      BY <1>2, <2>2, <2>4, <3>1 DEF RemoteRow
    <3>3. Append(<<>>, snapshot[r].channel.repository) = <<snapshot[r].channel.repository>>
      OBVIOUS
    <3>4. WorkOf(r)' = ReviewedWork(r) /\ repo'[r].branch
      <4>1. /\ repo[r].branch /\ repo[r].commit = "delivery"
            /\ remote[r].pushed = "work"
        BY <2>2, StageIs DEF Promise!Pushed
      <4>2. /\ repo'[r].branch /\ repo'[r].commit = "delivery" /\ remote'[r].pushed = "work"
            /\ remote'[r].reviews = <<snapshot[r].channel.repository>>
        BY <2>4, <3>2, <3>3, <4>1
      <4>3. (IF repo'[r].branch THEN "delivery" ELSE "none") = "delivery"
        BY <4>2
      <4>4. QED BY <4>2, <4>3, StageIs DEF ReviewedWork, Promise!Reviewed
    <3>5. Promise!Next
      BY <2>1, <2>2, <3>4, WorkGoes
    <3>6. CASE Done(r)
      <4>1. job'[r].at = "record" /\ job'[r].result = "succeeded"
        BY <2>1, <3>6, JobSteps, CallsFollow DEF Done, ToolSteps
      <4>2. WorkInv(r)'
        BY <1>1, <2>1, <3>4, <4>1 DEF WorkInv, WriteSteps
      <4>3. QED BY <3>5, <4>2
    <3>7. CASE FailedAfter(r)
      BY <1>8, <2>1, <3>4, <3>5, <3>7 DEF WriteSteps
    <3>8. QED BY <2>4, <3>6, <3>7
  <2>5. QED BY <1>15, <2>3, <2>4 DEF CreateCodeReviewRequest
<1>16. CASE DemoDeliver(r)
  <2>1. /\ job[r].at = "demo" /\ repo' = repo /\ remote' = remote /\ records' = records
        /\ announced' = announced /\ WorkOf(r)' = WorkOf(r)
    BY <1>16 DEF DemoDeliver, At, RestUnchanged, WorkOf
  <2>2. ~Git(r)
    BY <1>1, <2>1 DEF StepInv, Git
  <2>3. \/ job'[r].at = "record" /\ job'[r].result = "succeeded"
        \/ job'[r].at = "idle"
    BY <1>2, <1>3, <1>16, JobEnds DEF DemoDeliver
  <2>4. WorkInv(r)'
    BY <1>1, <1>6, <2>1, <2>2, <2>3 DEF WorkInv, WriteSteps
  <2>5. QED BY <1>5, <2>1, <2>4
<1>17. CASE CreateRecord(r)
  <2>1. /\ job[r].at = "record" /\ repo' = repo /\ remote' = remote /\ announced' = announced
        /\ WorkOf(r)' = WorkOf(r)
    BY <1>17 DEF CreateRecord, At, WorkOf
  <2>2. CASE job' = [job EXCEPT ![r] = Idle] /\ records' = records
    <3>1. job'[r].at = "idle"
      BY <1>2, <1>3, <2>2
    <3>2. QED BY <1>5, <1>6, <2>1, <2>2, <3>1, WorkEnds
  <2>3. CASE /\ records' = [records EXCEPT ![r] = @ \union
                              {[mode |-> FrozenChannel(r).mode, status |-> job[r].result]}]
             /\ job' = [job EXCEPT ![r] = IF job[r].result = "succeeded"
                                           THEN [Idle EXCEPT !.at = "announce"] ELSE Idle]
    <3> DEFINE new == [mode |-> FrozenChannel(r).mode, status |-> job[r].result]
               chosen == [mode |-> snapshot[r].channel.mode,
                          repository |-> snapshot[r].channel.repository]
    <3>1. new.status = job[r].result /\ records'[r] = records[r] \union {new}
      BY <1>2, <2>3
    <3>2. chosen.mode = snapshot[r].channel.mode
            /\ chosen.repository = snapshot[r].channel.repository
            /\ Approval(r) = {chosen}
      BY <1>4, <2>1, ApprovedChannel
    <3> HIDE DEF new, chosen
    <3>3. /\ job[r].result \in {"succeeded", "failed", "blocked"}
          /\ job[r].result = "succeeded" /\ Git(r) => WorkOf(r) = ReviewedWork(r)
      BY <2>1 DEF WorkInv
    <3>4. [Idle EXCEPT !.at = "announce"].at = "announce"
      BY DEF Idle
    <3>5. \/ job'[r].at = "idle"
          \/ job'[r].at = "announce" /\ job[r].result = "succeeded"
      BY <1>2, <1>3, <2>3, <3>4
    <3>6. WorkInv(r)'
      <4>1. CASE job'[r].at = "idle"
        BY <1>6, <2>1, <4>1, WorkEnds
      <4>2. CASE job'[r].at = "announce" /\ job[r].result = "succeeded"
        BY <1>6, <2>1, <3>1, <4>2 DEF WorkInv, WriteSteps
      <4>3. QED BY <3>5, <4>1, <4>2
    <3>7. \A p \in Runs : {row.status : row \in records'[p]} =
                          IF p = r THEN {row.status : row \in records[r]} \union {job[r].result}
                          ELSE {row.status : row \in records[p]}
      BY <3>1, PromiseApart
    <3>8. [p \in Runs |-> {row.status : row \in records[p]}]' =
            [[p \in Runs |-> {row.status : row \in records[p]}] EXCEPT ![r] =
               @ \union {job[r].result}]
      BY <3>7
    <3>9. [p \in Runs |-> Approval(p)]' = [p \in Runs |-> Approval(p)]
            /\ [p \in Runs |-> WorkOf(p)]' = [p \in Runs |-> WorkOf(p)]
      BY <2>1, PromiseApart
    <3>10. job[r].result = "succeeded" /\ chosen.mode = "git" =>
             WorkOf(r) = Promise!Reviewed(chosen.repository)
      BY <3>2, <3>3 DEF Git, ReviewedWork
    <3>11. Promise!Tell(r)
      BY <2>1, <3>2, <3>3, <3>8, <3>9, <3>10 DEF Promise!Tell
    <3>12. QED BY <3>6, <3>11 DEF Promise!Next
  <2>4. QED BY <1>17, <2>2, <2>3 DEF CreateRecord
<1>18. CASE AppendDeliveryResult(r)
  <2>1. /\ job[r].at = "announce" /\ repo' = repo /\ remote' = remote /\ records' = records
        /\ announced' = announced \union {r} /\ WorkOf(r)' = WorkOf(r)
    BY <1>18 DEF AppendDeliveryResult, At, WorkOf
  <2>2. job'[r].at = "idle"
    BY <1>2, <1>3, <1>18 DEF AppendDeliveryResult
  <2>3. "succeeded" \in {row.status : row \in records[r]}
    BY <2>1 DEF WorkInv
  <2>4. /\ [p \in Runs |-> Approval(p)]' = [p \in Runs |-> Approval(p)]
        /\ [p \in Runs |-> WorkOf(p)]' = [p \in Runs |-> WorkOf(p)]
        /\ [p \in Runs |-> {row.status : row \in records[p]}]'
             = [p \in Runs |-> {row.status : row \in records[p]}]
    BY <2>1, PromiseApart
  <2>5. Promise!Announce(r)
    BY <2>1, <2>3, <2>4 DEF Promise!Announce
  <2>6. QED BY <1>6, <2>1, <2>2, <2>5, WorkEnds DEF Promise!Next
<1>19. CASE Edit(r)
  <2>1. /\ job' = job /\ remote' = remote /\ records' = records /\ announced' = announced
        /\ repo'[r].branch = repo[r].branch /\ repo'[r].commit = repo[r].commit
    BY <1>2, <1>19 DEF Edit, RepoRow
  <2>2. WorkOf(r)' = WorkOf(r)
    BY <2>1 DEF WorkOf
  <2>3. WorkInv(r)'
    BY <1>1, <2>1, <2>2 DEF WorkInv
  <2>4. QED BY <1>5, <2>1, <2>2, <2>3
<1>20. QED
  BY <1>9, <1>10, <1>11, <1>12, <1>13, <1>14, <1>15, <1>16, <1>17, <1>18, <1>19
  DEF DeliverySteps

\* The channel's steps show nothing of a delivery but its approval.
LEMMA ChannelKeepsPromise ==
  ASSUME DeliveryTypeOK, DeliveryInv, \A r \in Runs : WorkInv(r), NextChannel,
         UNCHANGED deliveryVars
  PROVE  (\A r \in Runs : WorkInv(r)') /\ (Promise!Next \/ UNCHANGED Promise!vars)
<1>1. /\ job' = job /\ repo' = repo /\ remote' = remote /\ records' = records
      /\ announced' = announced
  BY DEF deliveryVars
<1>2. \A r \in Runs : WorkOf(r)' = WorkOf(r)
  BY <1>1 DEF WorkOf
<1>3. CASE snapshot' = snapshot
  <2>1. \A r \in Runs : WorkInv(r)' /\ Approval(r)' = Approval(r)
    BY <1>1, <1>3, WorkUntouched DEF Approval
  <2>2. QED BY <1>1, <1>2, <2>1, NothingSeen
<1>4. ASSUME NEW r \in Runs, PrepareDeliverySnapshot(r)
      PROVE  (\A p \in Runs : WorkInv(p)') /\ Promise!Next
  <2>1. /\ snapshot' = [snapshot EXCEPT ![r] = [frozen |-> TRUE, channel |-> channel,
                                               crossed |-> crossed]]
        /\ ~snapshot[r].frozen
    BY <1>4 DEF PrepareDeliverySnapshot
  <2>2. snapshot \in [Runs -> SnapshotRow] /\ channel \in ChannelRow
    BY DEF DeliveryTypeOK, ChannelTypeOK
  <2>3. \A p \in Runs \ {r} : snapshot'[p] = snapshot[p]
    BY <2>1, <2>2
  <2>4. WorkInv(r)'
    <3>1. job[r] = Idle /\ Idle.at = "idle"
      BY <2>1 DEF DeliveryInv, RunInv, StepInv, Idle
    <3>2. ~repo'[r].branch => WorkOf(r)' = Promise!Untouched
      BY <1>1, <1>2 DEF WorkInv
    <3>3. QED BY <1>1, <3>1, <3>2, WorkEnds
  <2>5. \A p \in Runs : WorkInv(p)'
    BY <1>1, <2>3, <2>4, WorkUntouched
  <2> DEFINE new == [frozen |-> TRUE, channel |-> channel, crossed |-> crossed]
             chosen == [mode |-> channel.mode, repository |-> channel.repository]
  <2>6. chosen \in Promise!Channels
    BY <2>2 DEF ChannelRow, Promise!Channels, None
  <2>7. snapshot'[r].frozen /\ snapshot'[r].channel = channel
    <3>1. snapshot'[r] = new
      BY <2>1, <2>2
    <3>2. QED BY <3>1
  <2>8. Approval(r) = {} /\ Approval(r)' = {chosen}
    BY <2>1, <2>7 DEF Approval
  <2> HIDE DEF chosen
  <2>9. \A p \in Runs \ {r} : Approval(p)' = Approval(p)
    BY <2>3 DEF Approval
  <2>10. [p \in Runs |-> Approval(p)]' =
           [[p \in Runs |-> Approval(p)] EXCEPT ![r] = {chosen}]
    BY <2>8, <2>9
  <2>11. /\ [p \in Runs |-> WorkOf(p)]' = [p \in Runs |-> WorkOf(p)]
         /\ [p \in Runs |-> {row.status : row \in records[p]}]'
              = [p \in Runs |-> {row.status : row \in records[p]}]
    BY <1>1, <1>2
  <2>12. Promise!Approve(r)
    BY <1>1, <2>6, <2>8, <2>10, <2>11 DEF Promise!Approve
  <2>13. QED BY <2>5, <2>12 DEF Promise!Next
<1>5. QED
  BY <1>3, <1>4 DEF NextChannel, UpdateChannel, ValidateChannel, CommitChannel, RollBackChannel,
                    Load, EndRun

LEMMA KeepsPromiseStep ==
  ASSUME DeliveryTypeOK, DeliveryInv, \A r \in Runs : WorkInv(r), [Next]_vars
  PROVE  (\A r \in Runs : WorkInv(r)') /\ [Promise!Next]_(Promise!vars)
<1>1. CASE NextChannel /\ UNCHANGED deliveryVars
  BY <1>1, ChannelKeepsPromise
<1>2. CASE Restart
  <2>1. /\ repo' = repo /\ remote' = remote /\ records' = records /\ announced' = announced
        /\ snapshot' = snapshot /\ \A r \in Runs : job'[r] = Idle
    BY <1>2 DEF Restart, RestartChannel
  <2>2. \A r \in Runs : WorkOf(r)' = WorkOf(r) /\ Approval(r)' = Approval(r)
    BY <2>1 DEF WorkOf, Approval
  <2>3. \A r \in Runs : ~repo'[r].branch => WorkOf(r)' = Promise!Untouched
    BY <2>1, <2>2 DEF WorkInv
  <2>4. Idle.at = "idle"
    BY DEF Idle
  <2>5. QED BY <2>1, <2>2, <2>3, <2>4, WorkEnds, NothingSeen
<1>3. ASSUME NEW r \in Runs, DeliverySteps(r)
      PROVE  (\A p \in Runs : WorkInv(p)') /\ (Promise!Next \/ UNCHANGED Promise!vars)
  <2>1. WorkInv(r)' /\ (Promise!Next \/ UNCHANGED Promise!vars)
    BY <1>3, PromiseStep
  <2>2. \A p \in Runs \ {r} : WorkInv(p)'
    BY <1>3, Apart, WorkUntouched DEF channelVars
  <2>3. QED BY <2>1, <2>2
<1>4. CASE UNCHANGED vars
  <2>1. /\ job' = job /\ repo' = repo /\ remote' = remote /\ records' = records
        /\ announced' = announced /\ snapshot' = snapshot
    BY <1>4 DEF vars, channelVars, deliveryVars
  <2>2. \A r \in Runs : WorkOf(r)' = WorkOf(r) /\ Approval(r)' = Approval(r)
    BY <2>1 DEF WorkOf, Approval
  <2>3. QED BY <2>1, <2>2, WorkUntouched, NothingSeen
<1>5. QED BY <1>1, <1>2, <1>3, <1>4 DEF Next, DeliverySteps

\* Delivery implements DeliveryPromise: whatever is cut off, tried again or done without an
\* answer, the work of a run goes on stage by stage, each once, and success is recorded, and
\* announced, behind the last one.
THEOREM DeliveryKeepsPromise == Spec => KeepsPromise
<1> DEFINE AllWorkInv == \A r \in Runs : WorkInv(r)
<1>1. Init => Promise!Init /\ AllWorkInv
  <2> SUFFICES ASSUME Init PROVE Promise!Init /\ AllWorkInv
    OBVIOUS
  <2>1. \A r \in Runs : /\ ~snapshot[r].frozen /\ records[r] = {} /\ job[r].at = "idle"
                        /\ ~repo[r].branch /\ repo[r].commit = "none"
                        /\ remote[r].pushed = "nothing" /\ remote[r].reviews = <<>>
    BY DEF Init, InitChannel, NotFrozen, Idle
  <2>2. \A r \in Runs : Approval(r) = {} /\ WorkOf(r) = Promise!Untouched
    BY <2>1, StageIs DEF Approval, Promise!Untouched
  <2>3. AllWorkInv
    BY <2>1, <2>2 DEF WorkInv, WriteSteps
  <2>4. announced = {}
    BY DEF Init
  <2>5. QED BY <2>1, <2>2, <2>3, <2>4 DEF Promise!Init
<1>2. DeliveryTypeOK /\ DeliveryInv /\ AllWorkInv /\ [Next]_vars
        => AllWorkInv' /\ [Promise!Next]_(Promise!vars)
  BY KeepsPromiseStep
<1> HIDE DEF AllWorkInv
<1>3. QED
  BY <1>1, <1>2, DeliveryTyped, DeliveryInvAlways, PTL DEF Spec, KeepsPromise, Promise!Spec

=============================================================================
