-------------------------- MODULE Coordination_proofs --------------------------
(***************************************************************************)
(* Theorems about Coordination, for any lanes, tasks, queues, claims by      *)
(* hand and bounds:                                                         *)
(*   CoordinationTyped    Spec => []CoordinationTypeOK                      *)
(*   SummaryHolds         Spec => []SummaryIsTrue                           *)
(*   AdvanceHolds         Spec => []AdvanceKeepsApart                       *)
(*   IngestedWasCommitted Spec => []IngestedIsCommitted                     *)
(* The type invariant says besides the types that a claim that was issued   *)
(* names a lane and a task, and that the claim a scan is at can still be     *)
(* worked on.  EvidenceInv adds to IngestedIsCommitted what a command that   *)
(* is about to write has read.                                              *)
(***************************************************************************)
EXTENDS Coordination, TLAPS

Statuses == {"none", "claimed", "reported", "blocked", "implemented", "mock_ready", "integrated"}
CommitName == Nat \X Nat
Results == {"none", "implemented", "mock_ready"}
LaneName == Lanes \union {""}
TaskName == Tasks \union {""}
ClaimName == ClaimIds \union {NoOne.claim}
ClaimRow == [status : Statuses, lane : LaneName, task : TaskName, base : CommitName,
             head : CommitName, by : {"none", "hand", "advance"}]
IssueRow == [claim : ClaimName, lane : LaneName, task : TaskName, base : CommitName]
ReportRow == [of : IssueRow, report : Results]
BranchRow == [base : Nat, own : Seq(ReportRow), merged : Nat]
CommandRow ==
  [kind : {"none", "ingest", "sync", "advance", "post"},
   at : {"done", "scan", "read", "write", "sync", "advance", "claim"},
   lane : LaneName, target : Nat, claim : ClaimName, head : CommitName, result : Results]

\* A claim that was issued names its lane and task.
Placed(row) == row.status # "none" => row.lane \in Lanes /\ row.task \in Tasks

\* The claim that is scanned is one the worker may be at.
Scanned ==
  command.at \in {"read", "write"} => command.claim \in Startable(command.lane)

CoordinationTypeOK ==
  /\ claims \in [ClaimIds -> ClaimRow]
  /\ \A c \in ClaimIds : Placed(claims[c])
  /\ plan \subseteq Tasks
  /\ integration \in Nat
  /\ branch \in [Lanes -> BranchRow]
  /\ dirty \subseteq Lanes
  /\ worker \in [Lanes -> IssueRow]
  /\ command \in CommandRow
  /\ Scanned

\* A branch contains commits of the integration branch, which contains commits of it.
BranchInv ==
  \A l \in Lanes : branch[l].base <= integration /\ branch[l].merged <= Len(branch[l].own)

-----------------------------------------------------------------------------
(* The inductive invariant of the evidence                                  *)

\* A committed report of this result is about the claim as it was last issued.
Backed(c, result) ==
  \E i \in 1..Len(branch[claims[c].lane].own) :
    /\ i > claims[c].base[2]
    /\ branch[claims[c].lane].own[i].of = Issue(c)
    /\ branch[claims[c].lane].own[i].report = result

\* What the command is about to write down has been read.
HasRead ==
  command.at = "write" =>
    command.result \in {"implemented", "mock_ready"} /\ Backed(command.claim, command.result)

EvidenceInv ==
  /\ \A c \in ClaimIds :
       claims[c].status \in {"implemented", "mock_ready"} => Backed(c, claims[c].status)
  /\ HasRead

-----------------------------------------------------------------------------
(* Type correctness                                                         *)

LEMMA RowsTyped ==
  /\ NoClaim \in ClaimRow /\ Placed(NoClaim) /\ NoOne \in IssueRow
  /\ Done \in CommandRow /\ Done.at = "done" /\ NoClaim.status = "none"
<1>1. NoClaim \in ClaimRow /\ NoClaim.status = "none"
  BY DEF NoClaim, ClaimRow, Statuses, CommitName, LaneName, TaskName
<1>2. NoOne \in IssueRow
  BY DEF NoOne, IssueRow, CommitName, LaneName, TaskName, ClaimName
<1>3. Done \in CommandRow /\ Done.at = "done"
  BY DEF Done, CommandRow, CommitName, Results, LaneName, ClaimName
<1>4. QED BY <1>1, <1>2, <1>3 DEF Placed

LEMMA CoordinationTypeInit == Init => CoordinationTypeOK
<1> SUFFICES ASSUME Init PROVE CoordinationTypeOK
  OBVIOUS
<1>1. [base |-> 0, own |-> <<>>, merged |-> 0] \in BranchRow
  BY DEF BranchRow
<1>2. claims \in [ClaimIds -> ClaimRow] /\ \A c \in ClaimIds : Placed(claims[c])
  BY RowsTyped DEF Init
<1>3. command \in CommandRow /\ Scanned
  BY RowsTyped DEF Init, Scanned
<1>4. QED BY <1>1, <1>2, <1>3, RowsTyped DEF Init, CoordinationTypeOK

LEMMA HeadTyped ==
  ASSUME CoordinationTypeOK, NEW l \in Lanes
  PROVE  BranchHead(l) \in CommitName
<1>1. branch[l].base \in Nat /\ Len(branch[l].own) \in Nat
  BY DEF CoordinationTypeOK, BranchRow
<1>2. QED BY <1>1 DEF BranchHead, CommitName

LEMMA IssuedTyped ==
  ASSUME NEW l \in Lanes, NEW t \in Tasks, NEW base \in CommitName,
         NEW by \in {"hand", "advance"}
  PROVE  /\ Issued(l, t, base, by) \in ClaimRow /\ Placed(Issued(l, t, base, by))
         /\ Issued(l, t, base, by).status = "claimed" /\ Issued(l, t, base, by).lane = l
         /\ Issued(l, t, base, by).task = t /\ Issued(l, t, base, by).by = by
<1>1. <<0, 0>> \in CommitName /\ NoClaim.head = <<0, 0>>
  BY DEF CommitName, NoClaim
<1>2. QED BY <1>1 DEF Issued, ClaimRow, Statuses, LaneName, TaskName, Placed

LEMMA IssueTyped ==
  ASSUME CoordinationTypeOK, NEW c \in ClaimIds
  PROVE  Issue(c) \in IssueRow
<1>1. claims[c] \in ClaimRow
  BY DEF CoordinationTypeOK
<1>2. QED BY <1>1 DEF Issue, IssueRow, ClaimRow, ClaimName

\* The next task is a task, and there is one at most.
LEMMA NextIsTask ==
  ASSUME NEW l \in Lanes, NEW t \in NextLaneTask(l)
  PROVE  /\ t \in Tasks /\ \A u \in NextLaneTask(l) : u = t
         /\ ~LaneActive(l) /\ ~TaskActive(t)
<1>1. PICK i \in Open(l) : /\ t = Queue[l][i] /\ \A j \in Open(l) : i <= j
                           /\ ~LaneActive(l) /\ ~TaskActive(Queue[l][i])
  BY DEF NextLaneTask
<1>2. Open(l) \subseteq Nat /\ Queue[l] \in Seq(Tasks) /\ i \in DOMAIN Queue[l]
  BY <1>1, QueueAssumption DEF Open
<1>3. ASSUME NEW u \in NextLaneTask(l) PROVE u = t
  <2>1. PICK k \in Open(l) : u = Queue[l][k] /\ \A j \in Open(l) : k <= j
    BY DEF NextLaneTask
  <2>2. i = k
    BY <1>1, <1>2, <2>1
  <2>3. QED BY <1>1, <2>1, <2>2
<1>4. QED BY <1>1, <1>2, <1>3

\* What the evidence on a branch is.
LEMMA EvidenceFound ==
  ASSUME CoordinationTypeOK, NEW l \in Lanes, NEW c \in ClaimIds, claims[c].lane = l,
         NEW e \in Evidence(l, c)
  PROVE  e.report \in {"implemented", "mock_ready"} /\ Backed(c, e.report)
<1>1. branch[l].own \in Seq(ReportRow) /\ claims[c].base \in CommitName
  BY DEF CoordinationTypeOK, BranchRow, ClaimRow
<1>2. PICK i \in ReportsOf(l, c) : e = branch[l].own[i] /\ Reports(e, c)
  BY DEF Evidence
<1>3. i \in DOMAIN branch[l].own /\ e.report # "none"
  BY <1>2 DEF ReportsOf
<1>4. e \in ReportRow
  BY <1>1, <1>2, <1>3
<1>5. e.of = Issue(c) /\ e \in Diff(l, claims[c].base)
  BY <1>2 DEF Reports
<1>6. PICK j \in (claims[c].base[2] + 1)..Len(branch[l].own) : e = branch[l].own[j]
  BY <1>5 DEF Diff
<1>7. claims[c].base[2] \in Nat /\ Len(branch[l].own) \in Nat
  BY <1>1 DEF CommitName
<1>8. j \in 1..Len(branch[l].own) /\ j > claims[c].base[2]
  BY <1>6, <1>7
<1>9. QED BY <1>3, <1>4, <1>5, <1>6, <1>8 DEF Backed, ReportRow, Results

LEMMA GoesTyped ==
  ASSUME CoordinationTypeOK, NEW next \in {"sync", "advance"}
  PROVE  Goes(next) \in CommandRow /\ Goes(next).at \in {next, "done"}
<1>1. /\ [Done EXCEPT !.kind = "post", !.at = next, !.lane = command.lane,
                      !.target = command.target] \in CommandRow
      /\ [Done EXCEPT !.kind = "post", !.at = next, !.lane = command.lane,
                      !.target = command.target].at = next
  BY RowsTyped DEF CoordinationTypeOK, CommandRow
<1>2. QED BY <1>1, RowsTyped DEF Goes

\* The steps of a worker, of a command of the main session, and of the session between commands.
WorkerSteps(l) == WorkerStart(l) \/ Edit(l) \/ Commit(l) \/ WorkerStop(l)
CommandSteps(l) ==
  \/ IngestWorkerCommits(l) \/ SyncIdleBranches(l) \/ AutoAdvanceClaims(l) \/ PostCheckpoint(l)
  \/ ScanHead(l) \/ ReadReport(l) \/ WriteIngested(l) \/ SyncLane(l) \/ ReadLane(l)
  \/ WriteClaim(l)
SessionSteps(c) == Ingest(c) \/ Merge(c) \/ MarkIntegrated(c)
ByHand == \E h \in HandClaims : Claim(h[1], h[2], h[3])

LEMMA WorkerTyped ==
  ASSUME CoordinationTypeOK, NEW l \in Lanes, WorkerSteps(l)
  PROVE  CoordinationTypeOK'
<1>1. claims' = claims /\ command' = command /\ Scanned'
  BY DEF WorkerSteps, WorkerStart, Edit, Commit, WorkerStop, CoordinationTypeOK, Scanned, Startable
<1>2. CASE WorkerStart(l)
  <2>1. PICK c \in ClaimIds : worker' = [worker EXCEPT ![l] = Issue(c)]
    BY <1>2 DEF WorkerStart, Startable
  <2>2. QED BY <1>1, <1>2, <2>1, IssueTyped DEF WorkerStart, CoordinationTypeOK
<1>3. CASE Edit(l)
  BY <1>1, <1>3 DEF Edit, CoordinationTypeOK
<1>4. CASE Commit(l)
  <2>1. PICK result \in Results :
          branch' = [branch EXCEPT ![l].own = Append(@, [of |-> worker[l], report |-> result])]
    BY <1>4 DEF Commit, Results
  <2>2. [of |-> worker[l], report |-> result] \in ReportRow
    BY DEF CoordinationTypeOK, ReportRow
  <2>3. branch[l].own \in Seq(ReportRow)
    BY DEF CoordinationTypeOK, BranchRow
  <2>4. Append(branch[l].own, [of |-> worker[l], report |-> result]) \in Seq(ReportRow)
    BY <2>2, <2>3
  <2>5. branch' \in [Lanes -> BranchRow]
    BY <2>1, <2>4 DEF CoordinationTypeOK, BranchRow
  <2>6. QED BY <1>1, <1>4, <2>5 DEF Commit, CoordinationTypeOK
<1>5. CASE WorkerStop(l)
  BY <1>1, <1>5, RowsTyped DEF WorkerStop, CoordinationTypeOK
<1>6. QED BY <1>2, <1>3, <1>4, <1>5 DEF WorkerSteps

\* What a command's write does to the claims.
LEMMA IngestedIs ==
  ASSUME CoordinationTypeOK, NEW l \in Lanes, WriteIngested(l)
  PROVE  /\ command.claim \in Startable(l)
         /\ claims' = [claims EXCEPT ![command.claim] =
                         [claims[command.claim] EXCEPT !.status = command.result,
                                                       !.head = command.head]]
<1>1. command.claim \in Startable(l)
  BY DEF WriteIngested, CoordinationTypeOK, Scanned
<1>2. QED BY <1>1 DEF WriteIngested, Startable, CoordinationTypeOK

LEMMA ClaimIs ==
  ASSUME NEW l \in Lanes, WriteClaim(l), NEW c \in ClaimIds
  PROVE  \/ claims'[c] = claims[c]
         \/ \E t \in Tasks :
              /\ t \in NextLaneTask(l) /\ claims'[c] = Issued(l, t, command.head, "advance")
<1>1. CASE \E t \in NextLaneTask(l) : c = AutoId(l, t)
  <2>1. (CHOOSE t \in NextLaneTask(l) : TRUE) \in NextLaneTask(l)
    BY <1>1
  <2>2. (CHOOSE t \in NextLaneTask(l) : TRUE) \in Tasks
    BY <2>1, NextIsTask
  <2>3. QED BY <2>1, <2>2 DEF WriteClaim
<1>2. CASE ~\E t \in NextLaneTask(l) : c = AutoId(l, t)
  BY <1>2 DEF WriteClaim
<1>3. QED BY <1>1, <1>2

\* Beginning a command keeps the types, going on with the next part of it too.
LEMMA CommandTyped ==
  ASSUME CoordinationTypeOK, NEW l \in Lanes, CommandSteps(l)
  PROVE  CoordinationTypeOK'
<1>1. command \in CommandRow /\ BranchHead(l) \in CommitName
  BY HeadTyped DEF CoordinationTypeOK
<1>2. ASSUME command' \in CommandRow, Scanned', claims' \in [ClaimIds -> ClaimRow],
             \A c \in ClaimIds : Placed(claims'[c]), branch' \in [Lanes -> BranchRow],
             UNCHANGED <<plan, integration, dirty, worker>>
      PROVE  CoordinationTypeOK'
  BY <1>2 DEF CoordinationTypeOK
<1>3. ASSUME NEW kind \in {"ingest", "sync", "advance", "post"},
             NEW at \in {"scan", "sync", "advance"}, Begin(kind, at, l)
      PROVE  CoordinationTypeOK'
  <2>1. /\ [Done EXCEPT !.kind = kind, !.at = at, !.lane = l, !.target = integration] \in CommandRow
        /\ [Done EXCEPT !.kind = kind, !.at = at, !.lane = l, !.target = integration].at = at
    BY RowsTyped DEF CommandRow, CoordinationTypeOK, LaneName
  <2>2. command' \in CommandRow /\ command'.at = at
    BY <1>3, <2>1 DEF Begin
  <2>3. QED BY <1>2, <1>3, <2>2 DEF Begin, CoordinationTypeOK, Scanned
<1>4. CASE IngestWorkerCommits(l) \/ SyncIdleBranches(l) \/ AutoAdvanceClaims(l)
             \/ PostCheckpoint(l)
  BY <1>3, <1>4 DEF IngestWorkerCommits, SyncIdleBranches, AutoAdvanceClaims, PostCheckpoint
<1>5. CASE ScanHead(l)
  <2>1. CASE command' = Goes("sync")
    BY <1>2, <1>5, <2>1, GoesTyped DEF ScanHead, CoordinationTypeOK, Scanned
  <2>2. ASSUME NEW c \in Startable(l),
               command' = [command EXCEPT !.at = "read", !.claim = c, !.head = BranchHead(l)]
        PROVE  CoordinationTypeOK'
    <3>1. c \in ClaimIds /\ c \in ClaimName
      BY DEF Startable, ClaimName
    <3>2. /\ command' \in CommandRow /\ command'.at = "read" /\ command'.claim = c
          /\ command'.lane = command.lane
      BY <1>1, <2>2, <3>1 DEF CommandRow
    <3>3. Scanned'
      BY <1>5, <3>2 DEF ScanHead, Scanned, Startable
    <3>4. QED BY <1>2, <1>5, <3>2, <3>3 DEF ScanHead, CoordinationTypeOK
  <2>3. QED BY <1>5, <2>1, <2>2 DEF ScanHead
<1>6. CASE ReadReport(l)
  <2> DEFINE c == command.claim
             result == (CHOOSE e \in Evidence(l, c) : TRUE).report
  <2>1. c \in Startable(l) /\ c \in ClaimIds /\ claims[c].lane = l
    BY <1>6 DEF ReadReport, CoordinationTypeOK, Scanned, Startable
  <2>2. CASE Evidence(l, c) = {}
    BY <1>2, <1>6, <2>2, GoesTyped DEF ReadReport, CoordinationTypeOK, Scanned
  <2>3. CASE Evidence(l, c) # {}
    <3>1. result \in {"implemented", "mock_ready"}
      BY <2>1, <2>3, EvidenceFound
    <3>2. command' = [command EXCEPT !.at = "write", !.result = result]
      BY <1>6, <2>3 DEF ReadReport
    <3> HIDE DEF result
    <3>3. /\ command' \in CommandRow /\ command'.claim = c /\ command'.lane = l
      BY <1>1, <1>6, <3>1, <3>2 DEF CommandRow, Results, ReadReport
    <3>4. Scanned'
      BY <1>6, <2>1, <3>3 DEF ReadReport, Scanned, Startable
    <3>5. QED BY <1>2, <1>6, <3>3, <3>4 DEF ReadReport, CoordinationTypeOK
  <2>4. QED BY <2>2, <2>3
<1>7. CASE WriteIngested(l)
  <2> DEFINE c == command.claim
             row == [claims[c] EXCEPT !.status = command.result, !.head = command.head]
  <2>1. c \in ClaimIds /\ claims[c].status # "none" /\ claims' = [claims EXCEPT ![c] = row]
    BY <1>7, IngestedIs DEF Startable
  <2>2. row \in ClaimRow /\ row.lane = claims[c].lane /\ row.task = claims[c].task
    BY <1>1, <2>1 DEF CoordinationTypeOK, ClaimRow, CommandRow, Results, Statuses
  <2>3. Placed(row)
    BY <2>1, <2>2 DEF Placed, CoordinationTypeOK
  <2> HIDE DEF row
  <2>4. claims' \in [ClaimIds -> ClaimRow] /\ \A d \in ClaimIds : Placed(claims'[d])
    BY <2>1, <2>2, <2>3 DEF CoordinationTypeOK
  <2>5. command' \in CommandRow /\ Scanned'
    BY <1>7, GoesTyped DEF WriteIngested, Scanned
  <2>6. QED BY <1>2, <1>7, <2>4, <2>5 DEF WriteIngested, CoordinationTypeOK
<1>8. CASE SyncLane(l)
  <2>1. branch' \in [Lanes -> BranchRow]
    BY <1>8 DEF SyncLane, CoordinationTypeOK, BranchRow
  <2>2. command' \in CommandRow /\ Scanned'
    BY <1>8, GoesTyped DEF SyncLane, Scanned
  <2>3. QED BY <1>2, <1>8, <2>1, <2>2 DEF SyncLane, CoordinationTypeOK
<1>9. CASE ReadLane(l)
  <2>1. /\ [command EXCEPT !.at = "claim", !.head = BranchHead(l)] \in CommandRow
        /\ [command EXCEPT !.at = "claim", !.head = BranchHead(l)].at = "claim"
    BY <1>1 DEF CommandRow
  <2>2. command' \in CommandRow /\ Scanned'
    BY <1>9, <2>1, RowsTyped DEF ReadLane, Scanned
  <2>3. QED BY <1>2, <1>9, <2>2 DEF ReadLane, CoordinationTypeOK
<1>10. CASE WriteClaim(l)
  <2>1. command.head \in CommitName
    BY <1>1 DEF CommandRow
  <2>2. \A c \in ClaimIds : claims'[c] \in ClaimRow /\ Placed(claims'[c])
    BY <1>10, <2>1, ClaimIs, IssuedTyped DEF CoordinationTypeOK
  <2>3. claims' \in [ClaimIds -> ClaimRow]
    BY <1>10, <2>2 DEF WriteClaim
  <2>4. command' \in CommandRow /\ Scanned'
    BY <1>10, RowsTyped DEF WriteClaim, Scanned
  <2>5. QED BY <1>2, <1>10, <2>2, <2>3, <2>4 DEF WriteClaim, CoordinationTypeOK
<1>11. QED BY <1>4, <1>5, <1>6, <1>7, <1>8, <1>9, <1>10 DEF CommandSteps

LEMMA SessionTyped ==
  ASSUME CoordinationTypeOK, NEW c \in ClaimIds, SessionSteps(c)
  PROVE  CoordinationTypeOK'
<1>1. /\ claims \in [ClaimIds -> ClaimRow] /\ claims[c] \in ClaimRow /\ claims[c].status # "none"
      /\ claims[c].lane \in Lanes /\ claims[c].task \in Tasks
  BY DEF CoordinationTypeOK, Placed, SessionSteps, Ingest, Merge, MarkIntegrated
<1>2. command' = command /\ command.at = "done" /\ Scanned'
  BY RowsTyped DEF SessionSteps, Ingest, Merge, MarkIntegrated, Idle, Scanned
<1>3. ASSUME NEW status \in Statuses, claims' = [claims EXCEPT ![c].status = status]
      PROVE  claims' \in [ClaimIds -> ClaimRow] /\ \A d \in ClaimIds : Placed(claims'[d])
  <2>1. claims' \in [ClaimIds -> ClaimRow]
    BY <1>1, <1>3 DEF ClaimRow
  <2>2. \A d \in ClaimIds : d # c => claims'[d] = claims[d]
    BY <1>1, <1>3
  <2>3. claims'[c].lane = claims[c].lane /\ claims'[c].task = claims[c].task
    BY <1>1, <1>3 DEF ClaimRow
  <2>4. QED BY <1>1, <2>1, <2>2, <2>3 DEF CoordinationTypeOK, Placed
<1>4. CASE Ingest(c)
  <2>1. PICK status \in Statuses : claims' = [claims EXCEPT ![c].status = status]
    BY <1>4 DEF Ingest, Statuses
  <2>2. QED BY <1>2, <1>3, <1>4, <2>1 DEF Ingest, CoordinationTypeOK
<1>5. CASE Merge(c)
  <2>1. Len(branch[claims[c].lane].own) \in Nat
    BY <1>1 DEF CoordinationTypeOK, BranchRow
  <2>2. branch' \in [Lanes -> BranchRow]
    BY <1>1, <1>5, <2>1 DEF Merge, CoordinationTypeOK, BranchRow
  <2>3. QED BY <1>2, <1>5, <2>2 DEF Merge, CoordinationTypeOK
<1>6. CASE MarkIntegrated(c)
  <2>1. claims' \in [ClaimIds -> ClaimRow] /\ \A d \in ClaimIds : Placed(claims'[d])
    BY <1>3, <1>6 DEF MarkIntegrated, Statuses
  <2>2. plan' \subseteq Tasks
    BY <1>1, <1>6 DEF MarkIntegrated, CoordinationTypeOK
  <2>3. QED BY <1>2, <1>6, <2>1, <2>2 DEF MarkIntegrated, CoordinationTypeOK
<1>7. QED BY <1>4, <1>5, <1>6 DEF SessionSteps

\* What a claim by hand does.
LEMMA HandIs ==
  ASSUME CoordinationTypeOK, ByHand
  PROVE  \E c \in ClaimIds, l \in Lanes, t \in Tasks :
           /\ Claim(c, l, t) /\ BranchHead(l) \in CommitName
           /\ \A d \in ClaimIds : claims'[d] = IF d = c THEN Issued(l, t, BranchHead(l), "hand")
                                               ELSE claims[d]
<1>1. PICK h \in HandClaims : Claim(h[1], h[2], h[3])
  BY DEF ByHand
<1>2. h[1] \in ClaimIds /\ h[2] \in Lanes /\ h[3] \in Tasks
  BY HandAssumption DEF ClaimIds, AutoId
<1>3. QED BY <1>1, <1>2, HeadTyped DEF Claim, CoordinationTypeOK

LEMMA HandTyped ==
  ASSUME CoordinationTypeOK, ByHand
  PROVE  CoordinationTypeOK'
<1>1. PICK c \in ClaimIds, l \in Lanes, t \in Tasks :
        /\ Claim(c, l, t) /\ BranchHead(l) \in CommitName
        /\ \A d \in ClaimIds : claims'[d] = IF d = c THEN Issued(l, t, BranchHead(l), "hand")
                                            ELSE claims[d]
  BY HandIs
<1>2. \A d \in ClaimIds : claims'[d] \in ClaimRow /\ Placed(claims'[d])
  BY <1>1, IssuedTyped DEF CoordinationTypeOK
<1>3. claims' \in [ClaimIds -> ClaimRow]
  BY <1>1, <1>2 DEF Claim, CoordinationTypeOK
<1>4. command' = command /\ Scanned'
  BY <1>1, RowsTyped DEF Claim, Idle, Scanned
<1>5. QED BY <1>1, <1>2, <1>3, <1>4 DEF Claim, CoordinationTypeOK

LEMMA CoordinationTypeStep == CoordinationTypeOK /\ [Next]_vars => CoordinationTypeOK'
<1> SUFFICES ASSUME CoordinationTypeOK, [Next]_vars PROVE CoordinationTypeOK'
  OBVIOUS
<1>1. CASE UNCHANGED vars
  BY <1>1 DEF vars, CoordinationTypeOK, Scanned, Startable
<1>2. QED
  BY <1>1, WorkerTyped, CommandTyped, SessionTyped, HandTyped
  DEF Next, WorkerSteps, CommandSteps, SessionSteps, ByHand

\* Every variable of the store, the branches and the sessions keeps its type.
THEOREM CoordinationTyped == Spec => []CoordinationTypeOK
  BY CoordinationTypeInit, CoordinationTypeStep, PTL DEF Spec

-----------------------------------------------------------------------------
(* The summary                                                              *)

LEMMA BranchStep ==
  ASSUME CoordinationTypeOK, BranchInv, [Next]_vars
  PROVE  BranchInv'
<1>1. \A l \in Lanes : /\ branch[l] \in BranchRow /\ branch[l].base \in Nat
                       /\ branch[l].merged \in Nat /\ Len(branch[l].own) \in Nat
                       /\ branch[l].own \in Seq(ReportRow)
  BY DEF CoordinationTypeOK, BranchRow
<1>2. integration \in Nat /\ branch \in [Lanes -> BranchRow]
  BY DEF CoordinationTypeOK
<1>3. ASSUME NEW l \in Lanes, Commit(l) PROVE BranchInv'
  <2>1. PICK new : branch' = [branch EXCEPT ![l].own = Append(@, new)]
    BY <1>3 DEF Commit
  <2>2. Len(Append(branch[l].own, new)) = Len(branch[l].own) + 1
    BY <1>1
  <2>3. \A k \in Lanes : /\ branch'[k].base = branch[k].base
                         /\ branch'[k].merged = branch[k].merged
                         /\ Len(branch'[k].own) >= Len(branch[k].own)
    BY <1>1, <1>2, <2>1, <2>2 DEF BranchRow
  <2>4. \A k \in Lanes : Len(branch'[k].own) \in Nat
    BY <1>1, <1>2, <2>1, <2>2 DEF BranchRow
  <2>5. QED BY <1>1, <1>2, <1>3, <2>3, <2>4 DEF Commit, BranchInv
<1>4. ASSUME NEW l \in Lanes, SyncLane(l) PROVE BranchInv'
  BY <1>1, <1>2, <1>4 DEF SyncLane, BranchInv, BranchRow
<1>5. ASSUME NEW c \in ClaimIds, Merge(c) PROVE BranchInv'
  <2> claims[c].lane \in Lanes
    BY <1>5 DEF Merge, CoordinationTypeOK, Placed
  <2>1. \A k \in Lanes : /\ branch'[k].base = branch[k].base
                         /\ branch'[k].own = branch[k].own
                         /\ branch'[k].merged \in {branch[k].merged, Len(branch[k].own)}
    BY <1>1, <1>2, <1>5 DEF Merge, BranchRow
  <2>2. integration' = integration + 1
    BY <1>5 DEF Merge
  <2>3. QED BY <1>1, <1>2, <2>1, <2>2 DEF BranchInv
<1>6. CASE UNCHANGED <<branch, integration>>
  BY <1>6 DEF BranchInv
<1>7. QED
  BY <1>3, <1>4, <1>5, <1>6
  DEF Next, vars, WorkerStart, Edit, WorkerStop, IngestWorkerCommits, SyncIdleBranches,
      AutoAdvanceClaims, PostCheckpoint, Begin, ScanHead, ReadReport, WriteIngested, ReadLane,
      WriteClaim, Ingest, Claim, MarkIntegrated

LEMMA SummaryStands ==
  ASSUME CoordinationTypeOK, BranchInv
  PROVE  SummaryIsTrue
<1> SUFFICES ASSUME NEW l \in Lanes
             PROVE  /\ NextAction(l) = "sync" => CanSync(l)
                    /\ NextAction(l) = "advance" =>
                         CanAdvance(l, integration) /\ NextLaneTask(l) # {}
  BY DEF SummaryIsTrue
<1>1. /\ branch[l].base \in Nat /\ branch[l].merged \in Nat /\ Len(branch[l].own) \in Nat
      /\ integration \in Nat /\ branch[l].base <= integration
      /\ branch[l].merged <= Len(branch[l].own)
  BY DEF CoordinationTypeOK, BranchRow, BranchInv
<1>2. NextAction(l) \in {"sync", "advance"} =>
        /\ ~LaneActive(l) /\ "blocked" \notin ClaimsOfLane(l) /\ l \notin dirty
        /\ NextAction(l) = "sync" => ~AtTarget(l, BranchHead(l), integration) /\ ~(Ahead(l) > 0)
        /\ NextAction(l) = "advance" =>
             AtTarget(l, BranchHead(l), integration) /\ NextLaneTask(l) # {}
  BY DEF NextAction
<1>3. ~LaneActive(l) /\ "blocked" \notin ClaimsOfLane(l) =>
        ClaimsOfLane(l) \intersect SyncBlockingStatuses = {}
  BY DEF LaneActive, SyncBlockingStatuses
<1>4. ~AtTarget(l, BranchHead(l), integration) /\ ~(Ahead(l) > 0) =>
        Ahead(l) = 0 /\ Behind(l) > 0
  BY <1>1 DEF AtTarget, BranchHead, Ahead, Behind
<1>5. QED BY <1>2, <1>3, <1>4 DEF CanSync, CanAdvance

\* The summary never sends the session to a command that would skip the lane.
THEOREM SummaryHolds == Spec => []SummaryIsTrue
<1>1. Init => BranchInv
  BY DEF Init, BranchInv
<1>2. CoordinationTypeOK /\ BranchInv /\ [Next]_vars => BranchInv'
  BY BranchStep
<1>3. CoordinationTypeOK /\ BranchInv => SummaryIsTrue
  BY SummaryStands
<1>4. QED BY <1>1, <1>2, <1>3, CoordinationTyped, PTL DEF Spec

-----------------------------------------------------------------------------
(* Advancing keeps claims apart                                             *)

IsActive(c) == claims[c].status \in ActiveStatuses

\* A step that leaves the claim where it is, and makes nothing active that was not.
StaysPut(c) ==
  /\ IsActive(c)' => IsActive(c)
  /\ claims'[c].lane = claims[c].lane /\ claims'[c].task = claims[c].task
  /\ claims'[c].by = claims[c].by

\* A step that makes one claim active and leaves the others.
LEMMA OneStarts ==
  ASSUME AdvanceKeepsApart, NEW new,
         \A d \in ClaimIds \ {new} : StaysPut(d),
         \/ claims'[new].by = "hand"
         \/ \A d \in ClaimIds :
              IsActive(d) => claims[d].lane # claims'[new].lane /\ claims[d].task # claims'[new].task
  PROVE  AdvanceKeepsApart'
<1>1. ActiveStatuses = Unfinished
  BY DEF ActiveStatuses, Unfinished
<1>2. QED BY <1>1 DEF AdvanceKeepsApart, StaysPut, IsActive

LEMMA NothingStarts ==
  ASSUME AdvanceKeepsApart, \A d \in ClaimIds : StaysPut(d)
  PROVE  AdvanceKeepsApart'
<1>1. ActiveStatuses = Unfinished
  BY DEF ActiveStatuses, Unfinished
<1>2. QED BY <1>1 DEF AdvanceKeepsApart, StaysPut, IsActive

\* The next task of a lane: no active claim stands in that lane or for that task.
LEMMA NextIsFree ==
  ASSUME NEW l \in Lanes, NEW t \in NextLaneTask(l), NEW d \in ClaimIds, IsActive(d)
  PROVE  claims[d].lane # l /\ claims[d].task # t
<1>1. ~LaneActive(l) /\ ~TaskActive(t)
  BY NextIsTask
<1>2. QED BY <1>1 DEF LaneActive, TaskActive, ClaimsOfLane, ClaimsOfTask, IsActive

LEMMA ApartStep ==
  ASSUME CoordinationTypeOK, AdvanceKeepsApart, [Next]_vars
  PROVE  AdvanceKeepsApart'
<1>1. claims \in [ClaimIds -> ClaimRow] /\ command \in CommandRow
  BY DEF CoordinationTypeOK
<1>2. CASE claims' = claims
  BY <1>2, NothingStarts DEF StaysPut, IsActive
<1>3. ASSUME NEW c \in ClaimIds, NEW row, claims' = [claims EXCEPT ![c] = row],
             row.lane = claims[c].lane, row.task = claims[c].task, row.by = claims[c].by,
             row.status \in ActiveStatuses => IsActive(c)
      PROVE  AdvanceKeepsApart'
  <2>1. \A d \in ClaimIds : claims'[d] = IF d = c THEN row ELSE claims[d]
    BY <1>1, <1>3
  <2>2. \A d \in ClaimIds : StaysPut(d)
    BY <1>3, <2>1 DEF StaysPut, IsActive
  <2>3. QED BY <2>2, NothingStarts
<1>4. ASSUME NEW l \in Lanes, WriteIngested(l) PROVE AdvanceKeepsApart'
  <2> DEFINE c == command.claim
             row == [claims[c] EXCEPT !.status = command.result, !.head = command.head]
  <2>1. c \in ClaimIds /\ IsActive(c) /\ claims' = [claims EXCEPT ![c] = row]
    BY <1>4, IngestedIs DEF Startable, IsActive, ActiveStatuses
  <2>2. row.lane = claims[c].lane /\ row.task = claims[c].task /\ row.by = claims[c].by
    BY <1>1, <2>1 DEF ClaimRow
  <2> HIDE DEF row
  <2>3. QED BY <1>3, <2>1, <2>2
<1>5. ASSUME NEW l \in Lanes, WriteClaim(l) PROVE AdvanceKeepsApart'
  <2>1. CASE NextLaneTask(l) = {}
    <3>1. \A c \in ClaimIds : claims'[c] = claims[c]
      BY <1>5, <2>1, ClaimIs
    <3>2. \A d \in ClaimIds : StaysPut(d)
      BY <3>1 DEF StaysPut, IsActive
    <3>3. QED BY <3>2, NothingStarts
  <2>2. ASSUME NEW t \in NextLaneTask(l) PROVE AdvanceKeepsApart'
    <3> DEFINE new == AutoId(l, t)
    <3>1. \A u \in NextLaneTask(l) : u = t
      BY NextIsTask
    <3>2. \A d \in ClaimIds : d # new => claims'[d] = claims[d]
      BY <1>5, <3>1 DEF WriteClaim
    <3>3. new \in ClaimIds
      BY NextIsTask DEF ClaimIds
    <3>4. \/ claims'[new] = claims[new]
          \/ claims'[new].lane = l /\ claims'[new].task = t
      <4>1. CASE claims'[new] = claims[new]
        BY <4>1
      <4>2. ASSUME NEW u \in Tasks, u \in NextLaneTask(l),
                   claims'[new] = Issued(l, u, command.head, "advance")
            PROVE  claims'[new].lane = l /\ claims'[new].task = t
        BY <3>1, <4>2 DEF Issued
      <4>3. QED BY <1>5, <3>3, <4>1, <4>2, ClaimIs
    <3> HIDE DEF new
    <3>5. \A d \in ClaimIds \ {new} : StaysPut(d)
      BY <3>2 DEF StaysPut, IsActive
    <3>6. CASE claims'[new] = claims[new]
      <4>1. \A d \in ClaimIds : StaysPut(d)
        BY <3>2, <3>6 DEF StaysPut, IsActive
      <4>2. QED BY <4>1, NothingStarts
    <3>7. CASE claims'[new].lane = l /\ claims'[new].task = t
      BY <3>5, <3>7, NextIsFree, OneStarts
    <3>8. QED BY <3>4, <3>6, <3>7
  <2>3. QED BY <2>1, <2>2
<1>6. ASSUME NEW c \in ClaimIds, Ingest(c) \/ MarkIntegrated(c) PROVE AdvanceKeepsApart'
  <2> DEFINE row(status) == [claims[c] EXCEPT !.status = status]
  <2>1. \A status : /\ row(status).status = status /\ row(status).lane = claims[c].lane
                    /\ row(status).task = claims[c].task /\ row(status).by = claims[c].by
    BY <1>1 DEF ClaimRow
  <2>2. IsActive(c)
    BY <1>6 DEF Ingest, MarkIntegrated, IsActive, ActiveStatuses
  <2>3. \E status : claims' = [claims EXCEPT ![c] = row(status)]
    BY <1>1, <1>6 DEF Ingest, MarkIntegrated
  <2> HIDE DEF row
  <2>4. QED BY <1>3, <2>1, <2>2, <2>3
<1>7. ASSUME ByHand PROVE AdvanceKeepsApart'
  <2>1. PICK c \in ClaimIds, l \in Lanes, t \in Tasks :
          \A d \in ClaimIds : claims'[d] = IF d = c THEN Issued(l, t, BranchHead(l), "hand")
                                           ELSE claims[d]
    BY <1>7, HandIs
  <2>2. claims'[c].by = "hand"
    BY <2>1 DEF Issued
  <2>3. \A d \in ClaimIds \ {c} : StaysPut(d)
    BY <2>1 DEF StaysPut, IsActive
  <2>4. QED BY <2>2, <2>3, OneStarts
<1>8. QED
  BY <1>2, <1>4, <1>5, <1>6, <1>7
  DEF Next, vars, WorkerStart, Edit, Commit, WorkerStop, IngestWorkerCommits, SyncIdleBranches,
      AutoAdvanceClaims, PostCheckpoint, Begin, ScanHead, ReadReport, SyncLane, ReadLane, Merge,
      ByHand

\* Of two unfinished claims of one lane or task one was made by hand: advancing finds the lane and
\* the task free, whatever the session claimed before and after.
THEOREM AdvanceHolds == Spec => []AdvanceKeepsApart
<1>1. Init => AdvanceKeepsApart
  BY RowsTyped DEF Init, AdvanceKeepsApart, Unfinished
<1>2. CoordinationTypeOK /\ AdvanceKeepsApart /\ [Next]_vars => AdvanceKeepsApart'
  BY ApartStep
<1>3. QED BY <1>1, <1>2, CoordinationTyped, PTL DEF Spec

-----------------------------------------------------------------------------
(* What is ingested is committed                                            *)

\* Branches only grow.
LEMMA OwnGrows ==
  ASSUME CoordinationTypeOK, [Next]_vars, NEW l \in Lanes
  PROVE  \/ branch'[l].own = branch[l].own
         \/ \E new : branch'[l].own = Append(branch[l].own, new)
<1>1. branch \in [Lanes -> BranchRow]
  BY DEF CoordinationTypeOK
<1>2. ASSUME NEW k \in Lanes, Commit(k)
      PROVE  \/ branch'[l].own = branch[l].own
             \/ \E new : branch'[l].own = Append(branch[l].own, new)
  <2>1. PICK new : branch' = [branch EXCEPT ![k].own = Append(@, new)]
    BY <1>2 DEF Commit
  <2>2. branch'[l].own = IF l = k THEN Append(branch[l].own, new) ELSE branch[l].own
    BY <1>1, <2>1 DEF BranchRow
  <2>3. QED BY <2>2
<1>3. ASSUME NEW k \in Lanes, SyncLane(k) PROVE branch'[l].own = branch[l].own
  BY <1>1, <1>3 DEF SyncLane, BranchRow
<1>4. ASSUME NEW c \in ClaimIds, Merge(c) PROVE branch'[l].own = branch[l].own
  <2>1. claims[c].lane \in Lanes
    BY <1>4 DEF Merge, CoordinationTypeOK, Placed
  <2>2. QED BY <1>1, <1>4, <2>1 DEF Merge, BranchRow
<1>5. CASE branch' = branch
  BY <1>5
<1>6. QED
  BY <1>2, <1>3, <1>4, <1>5
  DEF Next, vars, WorkerStart, Edit, WorkerStop, IngestWorkerCommits, SyncIdleBranches,
      AutoAdvanceClaims, PostCheckpoint, Begin, ScanHead, ReadReport, WriteIngested, ReadLane,
      WriteClaim, Ingest, Claim, MarkIntegrated

\* The claim is as it was issued.
SameIssue(c) ==
  /\ claims'[c].lane = claims[c].lane /\ claims'[c].task = claims[c].task
  /\ claims'[c].base = claims[c].base

\* A report stays committed, and it stays about the claim until that is issued again.
LEMMA BackedKept ==
  ASSUME CoordinationTypeOK, [Next]_vars, NEW c \in ClaimIds, claims[c].status # "none",
         NEW result, Backed(c, result), SameIssue(c)
  PROVE  Backed(c, result)'
<1> DEFINE l == claims[c].lane
<1>1. l \in Lanes /\ branch[l].own \in Seq(ReportRow)
  BY DEF CoordinationTypeOK, BranchRow, Placed
<1>2. claims'[c].lane = l /\ claims'[c].base = claims[c].base /\ Issue(c)' = Issue(c)
  BY DEF SameIssue, Issue
<1>3. PICK i \in 1..Len(branch[l].own) :
        /\ i > claims[c].base[2] /\ branch[l].own[i].of = Issue(c)
        /\ branch[l].own[i].report = result
  BY DEF Backed
<1> HIDE DEF l
<1>4. i \in 1..Len(branch'[l].own) /\ branch'[l].own[i] = branch[l].own[i]
  <2>1. CASE branch'[l].own = branch[l].own
    BY <1>3, <2>1
  <2>2. ASSUME NEW new, branch'[l].own = Append(branch[l].own, new)
        PROVE  i \in 1..Len(branch'[l].own) /\ branch'[l].own[i] = branch[l].own[i]
    BY <1>1, <1>3, <2>2
  <2>3. QED BY <1>1, <2>1, <2>2, OwnGrows
<1>5. \E j \in 1..Len(branch'[l].own) :
        /\ j > claims'[c].base[2] /\ branch'[l].own[j].of = Issue(c)'
        /\ branch'[l].own[j].report = result
  BY <1>2, <1>3, <1>4
<1>6. QED BY <1>2, <1>5 DEF Backed

\* The claims and the command as they are: only branches grow.
LEMMA EvidenceKept ==
  ASSUME CoordinationTypeOK, EvidenceInv, [Next]_vars, claims' = claims,
         command' = command \/ command'.at # "write"
  PROVE  EvidenceInv'
<1>1. \A c \in ClaimIds : claims[c].status # "none" =>
        \A result : Backed(c, result) => Backed(c, result)'
  BY BackedKept DEF SameIssue
<1>2. \A c \in ClaimIds : claims'[c].status \in {"implemented", "mock_ready"} =>
                            Backed(c, claims[c].status)'
  <2> SUFFICES ASSUME NEW c \in ClaimIds, claims'[c].status \in {"implemented", "mock_ready"}
               PROVE  Backed(c, claims[c].status)'
    OBVIOUS
  <2> DEFINE status == claims[c].status
  <2>1. status # "none" /\ Backed(c, status) /\ claims'[c].status = status
    BY DEF EvidenceInv
  <2> HIDE DEF status
  <2>2. Backed(c, status)'
    BY <1>1, <2>1 DEF status
  <2>3. QED BY <2>1, <2>2 DEF Backed, status
<1>3. HasRead'
  <2>1. CASE command'.at # "write"
    BY <2>1 DEF HasRead
  <2>2. CASE command' = command /\ command.at = "write"
    <3>0. PICK c, result : c = command.claim /\ result = command.result
      OBVIOUS
    <3>1. c \in ClaimIds /\ claims[c].status # "none" /\ Backed(c, result)
            /\ result \in {"implemented", "mock_ready"}
      BY <2>2, <3>0 DEF EvidenceInv, HasRead, CoordinationTypeOK, Scanned, Startable
    <3>2. command'.claim = c /\ command'.result = result
      BY <2>2, <3>0
    <3>3. Backed(c, result)'
      BY <1>1, <3>1
    <3>4. Backed(command.claim, command.result)'
      BY <3>2, <3>3 DEF Backed, Issue
    <3>5. QED BY <3>1, <3>2, <3>4 DEF HasRead
  <2>3. QED BY <2>1, <2>2
<1>4. QED BY <1>2, <1>3 DEF EvidenceInv

\* A claim that moves is not ingested, or its report has been read.
LEMMA EvidenceMoves ==
  ASSUME CoordinationTypeOK, EvidenceInv, [Next]_vars, command'.at # "write",
         \A c \in ClaimIds :
           \/ claims'[c] = claims[c]
           \/ claims'[c].status \notin {"implemented", "mock_ready"}
           \/ claims[c].status # "none" /\ SameIssue(c) /\ Backed(c, claims'[c].status)
  PROVE  EvidenceInv'
<1>1. ASSUME NEW c \in ClaimIds, claims'[c].status \in {"implemented", "mock_ready"}
      PROVE  Backed(c, claims[c].status)'
  <2>1. PICK result : claims'[c].status = result
    OBVIOUS
  <2>2. claims[c].status # "none" /\ SameIssue(c) /\ Backed(c, result)
    <3>1. CASE claims'[c] = claims[c]
      BY <1>1, <2>1, <3>1 DEF EvidenceInv, SameIssue
    <3>2. CASE claims'[c] # claims[c]
      BY <1>1, <2>1, <3>2
    <3>3. QED BY <3>1, <3>2
  <2>3. Backed(c, result)'
    BY <2>2, BackedKept
  <2>4. QED BY <2>1, <2>3 DEF Backed
<1>2. QED BY <1>1 DEF EvidenceInv, HasRead

LEMMA EvidenceStep ==
  ASSUME CoordinationTypeOK, EvidenceInv, [Next]_vars
  PROVE  EvidenceInv'
<1>1. claims \in [ClaimIds -> ClaimRow] /\ command \in CommandRow /\ Done.at = "done"
  BY RowsTyped DEF CoordinationTypeOK
<1>2. CASE claims' = claims /\ (command' = command \/ command'.at # "write")
  BY <1>2, EvidenceKept
<1>3. ASSUME NEW l \in Lanes, ReadReport(l) PROVE EvidenceInv'
  <2> DEFINE c == command.claim
             result == (CHOOSE e \in Evidence(l, c) : TRUE).report
  <2>1. claims' = claims /\ branch' = branch /\ c \in ClaimIds /\ claims[c].lane = l
    BY <1>3 DEF ReadReport, CoordinationTypeOK, Scanned, Startable
  <2>2. CASE Evidence(l, c) = {}
    <3>1. command'.at # "write"
      BY <1>3, <2>2, GoesTyped DEF ReadReport
    <3>2. QED BY <1>2, <2>1, <3>1
  <2>3. CASE Evidence(l, c) # {}
    <3>1. result \in {"implemented", "mock_ready"} /\ Backed(c, result)
      BY <2>1, <2>3, EvidenceFound
    <3>2. command' = [command EXCEPT !.at = "write", !.result = result]
      BY <1>3, <2>3 DEF ReadReport
    <3> HIDE DEF result
    <3>3. command'.claim = c /\ command'.result = result
      BY <1>1, <3>2 DEF CommandRow
    <3> HIDE DEF c
    <3>4. Backed(command.claim, command.result)'
      BY <2>1, <3>1, <3>3 DEF Backed, Issue
    <3>5. HasRead'
      BY <3>1, <3>3, <3>4 DEF HasRead
    <3>6. \A d \in ClaimIds : claims'[d].status \in {"implemented", "mock_ready"} =>
                                Backed(d, claims[d].status)'
      BY <2>1 DEF EvidenceInv, Backed, Issue
    <3>7. QED BY <3>5, <3>6 DEF EvidenceInv
  <2>4. QED BY <2>2, <2>3
<1>4. ASSUME NEW l \in Lanes, WriteIngested(l) PROVE EvidenceInv'
  <2> DEFINE c == command.claim
             row == [claims[c] EXCEPT !.status = command.result, !.head = command.head]
  <2>1. c \in ClaimIds /\ claims[c].status # "none" /\ claims' = [claims EXCEPT ![c] = row]
    BY <1>4, IngestedIs DEF Startable
  <2>2. /\ row.status = command.result /\ row.lane = claims[c].lane
        /\ row.task = claims[c].task /\ row.base = claims[c].base
    BY <1>1, <2>1 DEF ClaimRow
  <2>3. Backed(c, command.result)
    BY <1>4 DEF WriteIngested, EvidenceInv, HasRead
  <2> HIDE DEF row
  <2>4. claims'[c] = row /\ \A e \in ClaimIds \ {c} : claims'[e] = claims[e]
    BY <1>1, <2>1
  <2>5. SameIssue(c) /\ claims'[c].status = command.result
    BY <2>2, <2>4 DEF SameIssue
  <2>6. Backed(c, claims'[c].status)
    BY <2>3, <2>5
  <2>7. command'.at # "write"
    BY <1>4, GoesTyped DEF WriteIngested
  <2> HIDE DEF c
  <2>8. QED BY <2>1, <2>4, <2>5, <2>6, <2>7, EvidenceMoves
<1>5. ASSUME NEW l \in Lanes, WriteClaim(l) PROVE EvidenceInv'
  <2>1. \A c \in ClaimIds : claims'[c] = claims[c] \/ claims'[c].status = "claimed"
    <3>1. \A t : Issued(l, t, command.head, "advance").status = "claimed"
      BY DEF Issued
    <3>2. QED BY <1>5, <3>1, ClaimIs
  <2>2. command'.at # "write"
    BY <1>1, <1>5 DEF WriteClaim
  <2>3. QED BY <2>1, <2>2, EvidenceMoves
<1>6. ASSUME NEW c \in ClaimIds, Ingest(c) \/ MarkIntegrated(c) PROVE EvidenceInv'
  <2>1. claims'[c].status \in {"reported", "blocked", "integrated"}
    BY <1>1, <1>6 DEF Ingest, MarkIntegrated, ClaimRow
  <2>2. \A d \in ClaimIds \ {c} : claims'[d] = claims[d]
    BY <1>1, <1>6 DEF Ingest, MarkIntegrated
  <2>3. command'.at # "write"
    BY <1>1, <1>6 DEF Ingest, MarkIntegrated, Idle
  <2>4. QED BY <2>1, <2>2, <2>3, EvidenceMoves
<1>7. ASSUME ByHand PROVE EvidenceInv'
  <2>1. PICK c \in ClaimIds, l \in Lanes, t \in Tasks :
          /\ Claim(c, l, t)
          /\ \A d \in ClaimIds : claims'[d] = IF d = c THEN Issued(l, t, BranchHead(l), "hand")
                                              ELSE claims[d]
    BY <1>7, HandIs
  <2>2. \A d \in ClaimIds : claims'[d] = claims[d] \/ claims'[d].status = "claimed"
    BY <2>1 DEF Issued
  <2>3. command'.at # "write"
    BY <1>1, <2>1 DEF Claim, Idle
  <2>4. QED BY <2>2, <2>3, EvidenceMoves
<1>8. ASSUME NEW l \in Lanes, NEW kind, NEW at \in {"scan", "sync", "advance"},
             Begin(kind, at, l)
      PROVE  EvidenceInv'
  <2>1. command'.at = at /\ claims' = claims
    BY <1>8 DEF Begin, Done
  <2>2. QED BY <1>2, <1>8, <2>1
<1>9. ASSUME NEW l \in Lanes, ScanHead(l) \/ SyncLane(l) \/ ReadLane(l) PROVE EvidenceInv'
  <2>1. \A c : [command EXCEPT !.at = "read", !.claim = c, !.head = BranchHead(l)].at = "read"
          /\ [command EXCEPT !.at = "claim", !.head = BranchHead(l)].at = "claim"
    BY <1>1 DEF CommandRow
  <2>2. command'.at # "write" /\ claims' = claims
    BY <1>1, <1>9, <2>1, GoesTyped DEF ScanHead, SyncLane, ReadLane
  <2>3. QED BY <1>2, <2>2
<1>10. QED
  BY <1>2, <1>3, <1>4, <1>5, <1>6, <1>7, <1>8, <1>9
  DEF Next, vars, WorkerStart, Edit, Commit, WorkerStop, IngestWorkerCommits, SyncIdleBranches,
      AutoAdvanceClaims, PostCheckpoint, Merge, ByHand

\* A claim counts as implemented or mock_ready only when a report of that result, made for the
\* claim as it was last issued, is committed on its lane's branch.
THEOREM IngestedWasCommitted == Spec => []IngestedIsCommitted
<1>1. Init => EvidenceInv
  <2> SUFFICES ASSUME Init PROVE EvidenceInv
    OBVIOUS
  <2>1. command.at = "done" /\ \A c \in ClaimIds : claims[c].status = "none"
    BY RowsTyped DEF Init
  <2>2. QED BY <2>1 DEF EvidenceInv, HasRead
<1>2. CoordinationTypeOK /\ EvidenceInv /\ [Next]_vars => EvidenceInv'
  BY EvidenceStep
<1>3. EvidenceInv => IngestedIsCommitted
  BY DEF EvidenceInv, IngestedIsCommitted, Backed
<1>4. QED BY <1>1, <1>2, <1>3, CoordinationTyped, PTL DEF Spec

=============================================================================
