------------------------ MODULE RunPublication_proofs ------------------------
(***************************************************************************)
(* Theorems about RunPublication, for any set of requests:                  *)
(*   PublicationTyped    Spec => []TypeOK                                   *)
(*   StartIsWhole        Spec => []StartWhole                               *)
(*   OneStartWins        Spec => []OneStart                                 *)
(*   RemovalWaits        Spec => []ClaimBlocksRemoval                       *)
(*   RerunIsWhole        Spec => []RerunWhole                               *)
(*   FailureIsClean      Spec => []FailedLeavesNothing                      *)
(* They rest on two inductive invariants: PublicationInv, what the position *)
(* of a request says about its publication, and RowsInv, what it says about *)
(* its rows in the four files and about the session that may show them.     *)
(***************************************************************************)
EXTENDS RunPublication, TLAPS

\* A request that starts the first run owns the session's live publication; one that
\* reruns has none and knows an earlier run; rows are deleted runtime first.
Phase(q) ==
  /\ pc[q] \in Starting \ {"reload"} => publication[q] = "pending"
  /\ pc[q] \in Starting \union Aborting => publication[q] \in {"pending", "published"}
  /\ pc[q] \in {"idle"} \union Rerunning \union Compensating => publication[q] = "none"
  /\ pc[q] \in Rerunning \union Compensating => seen[q].current # NoRun
  /\ pc[q] \in {"abort graph", "abort event", "abort control"} => run[q] = "none"

\* Once a first run was published the session shows some run.
PublishedShows ==
  \A q \in Requests : publication[q] = "published" => session.current # NoRun

PublicationInv ==
  /\ TypeOK
  /\ \A q \in Requests : Phase(q)
  /\ PublishedShows
  /\ StartWhole
  /\ OneStart
  /\ ClaimBlocksRemoval

-----------------------------------------------------------------------------
(* Type correctness                                                         *)

LEMMA PublicationInit == Init => PublicationInv
  BY NoRunAssumption
  DEF Init, PublicationInv, TypeOK, Phase, PublishedShows, StartWhole, OneStart,
      ClaimBlocksRemoval, NoPending, Ids, Draft, InProgress, Starting, Aborting, Rerunning,
      Compensating, Sessions, Snapshots

LEMMA StartTyped ==
  ASSUME TypeOK, NEW q \in Requests, StartFirstRun(q)
  PROVE  TypeOK'
<1> USE DEF TypeOK, Goto, Ids, InProgress, Starting, Aborting, Over
<1>1. CASE Claim(q) BY <1>1 DEF Claim
<1>2. CASE Stage(q, "claimed", "start runtime") \/ Stage(q, "abort", "abort runtime")
  BY <1>2 DEF Stage
<1>3. CASE CommitRuntime(q, "start runtime", "start event")
  BY <1>3 DEF CommitRuntime
<1>4. CASE StartCommitEvent(q) BY <1>4 DEF StartCommitEvent
<1>5. CASE StartCommitGraph(q) BY <1>5 DEF StartCommitGraph
<1>6. CASE Publish(q) BY <1>6 DEF Publish, Show, RunOf, Sessions
<1>7. CASE Answered(q) BY <1>7 DEF Answered
<1>8. CASE \/ \E at \in Starting : Fails(q, at, "abort")
           \/ \E at \in Aborting : Fails(q, at, "broken")
  BY <1>8 DEF Fails
<1>9. CASE \/ DeleteRuntime(q, "abort runtime", "abort graph")
           \/ DeleteGraph(q, "abort graph", "abort event")
  BY <1>9 DEF DeleteRuntime, DeleteGraph
<1>10. CASE AbortEvent(q) BY <1>10 DEF AbortEvent
<1>11. CASE AbortControl(q) BY <1>11 DEF AbortControl, Sessions
<1>12. QED
  BY <1>1, <1>2, <1>3, <1>4, <1>5, <1>6, <1>7, <1>8, <1>9, <1>10, <1>11 DEF StartFirstRun

LEMMA RerunTyped ==
  ASSUME TypeOK, NEW q \in Requests, CreateRerun(q) \/ CompensateRerun(q)
  PROVE  TypeOK'
<1> USE DEF TypeOK, Goto, Ids, InProgress, Rerunning, Compensating, Over
<1>1. CASE ReadTail(q) BY <1>1 DEF ReadTail, Sessions, Snapshots
<1>2. CASE Stage(q, "read", "rerun runtime") BY <1>2 DEF Stage
<1>3. CASE CommitRuntime(q, "rerun runtime", "rerun graph") BY <1>3 DEF CommitRuntime
<1>4. CASE RerunCommitGraph(q) BY <1>4 DEF RerunCommitGraph
<1>5. CASE RerunCommitControl(q) BY <1>5 DEF RerunCommitControl, Show, RunOf, Sessions
<1>6. CASE RerunCommitEvent(q) BY <1>6 DEF RerunCommitEvent
<1>7. CASE RestoreControl(q) BY <1>7 DEF RestoreControl, Show, Sessions, Snapshots
<1>8. ASSUME NEW from, NEW to \in Compensating \union Over, Fails(q, from, to)
      PROVE  TypeOK'
  BY <1>8 DEF Fails
<1>9. ASSUME NEW from, NEW to \in Compensating \union Over, DeleteRuntime(q, from, to)
      PROVE  TypeOK'
  BY <1>9 DEF DeleteRuntime
<1>10. ASSUME NEW from, NEW to \in Compensating \union Over, DeleteGraph(q, from, to)
       PROVE  TypeOK'
  BY <1>10 DEF DeleteGraph
<1>11. CASE CreateRerun(q)
  BY <1>1, <1>2, <1>3, <1>4, <1>5, <1>6, <1>8, <1>11 DEF CreateRerun, WithoutGraph
<1>12. CASE CompensateRerun(q)
  BY <1>7, <1>8, <1>9, <1>10, <1>12 DEF CompensateRerun, WithoutSession
<1>13. QED BY <1>11, <1>12

\* Everything that is not a step of a request.
Surroundings ==
  (\E q \in Requests : EndRun(q)) \/ DeleteSession \/ AuditRemoval \/ Crash

LEMMA SurroundingsTyped ==
  ASSUME TypeOK, Surroundings
  PROVE  TypeOK'
<1>1. CASE \E q \in Requests : EndRun(q)
  BY <1>1 DEF EndRun, TypeOK, Sessions
<1>2. CASE DeleteSession BY <1>2 DEF DeleteSession, TypeOK, Sessions
<1>3. CASE Crash BY <1>3 DEF Crash, TypeOK, Ids, Over, Sessions
<1>4. CASE AuditRemoval BY <1>4 DEF AuditRemoval, TypeOK, Sessions
<1>5. QED BY <1>1, <1>2, <1>3, <1>4 DEF Surroundings

LEMMA PublicationTypeStep == TypeOK /\ [Next]_vars => TypeOK'
<1> SUFFICES ASSUME TypeOK, [Next]_vars PROVE TypeOK'
  OBVIOUS
<1>1. CASE UNCHANGED vars BY <1>1 DEF vars, TypeOK
<1>2. QED BY <1>1, StartTyped, RerunTyped, SurroundingsTyped DEF Next, Surroundings

\* Every variable keeps its type, whatever fails.
THEOREM PublicationTyped == Spec => []TypeOK
<1>1. Init => TypeOK
  BY PublicationInit DEF PublicationInv
<1>2. QED BY <1>1, PublicationTypeStep, PTL DEF Spec

-----------------------------------------------------------------------------
(* The inductive invariant                                                  *)

\* A step of q leaves what another request knows as it is.
LEMMA PhaseFrame ==
  ASSUME NEW p \in Requests, Phase(p), pc'[p] = pc[p], publication'[p] = publication[p],
         seen'[p] = seen[p], run'[p] = run[p]
  PROVE  Phase(p)'
  BY DEF Phase

\* What a step of q leaves alone: everything of the other requests.
Others(q) ==
  \A p \in Requests \ {q} :
    /\ pc'[p] = pc[p] /\ publication'[p] = publication[p] /\ seen'[p] = seen[p]
    /\ run'[p] = run[p] /\ thread'[p] = thread[p] /\ created'[p] = created[p]

\* The rows of a published run are not taken one by one.
KeepsRows(q) ==
  publication[q] = "published" /\ run'[q] # "none"
    => /\ run[q] # "none"
       /\ thread[q] # "none" => thread'[q] # "none"
       /\ created[q] => created'[q]

LEMMA OtherPhases ==
  ASSUME NEW q \in Requests, \A p \in Requests : Phase(p), Others(q), Phase(q)'
  PROVE  \A p \in Requests : Phase(p)'
  BY PhaseFrame DEF Others

\* A step that touches neither the session nor a publication and keeps rows together.
LEMMA QuietRows ==
  ASSUME PublicationInv, TypeOK', NEW q \in Requests, Phase(q)', Others(q), KeepsRows(q),
         UNCHANGED <<session, publication>>
  PROVE  PublicationInv'
<1>1. \A p \in Requests : Phase(p)'
  BY OtherPhases DEF PublicationInv
<1>2. StartWhole'
  BY DEF PublicationInv, StartWhole, Others, KeepsRows
<1>3. PublishedShows' /\ OneStart' /\ ClaimBlocksRemoval'
  BY DEF PublicationInv, PublishedShows, OneStart, ClaimBlocksRemoval, NoPending
<1>4. QED BY <1>1, <1>2, <1>3 DEF PublicationInv

\* The steps both commands are built from, wherever they start and lead.
LEMMA SharedStep ==
  ASSUME PublicationInv, TypeOK', NEW q \in Requests, NEW from, NEW to,
         \/ Stage(q, from, to) \/ Fails(q, from, to)
         \/ CommitRuntime(q, from, to) /\ publication[q] # "published"
         \/ DeleteRuntime(q, from, to)
         \/ DeleteGraph(q, from, to) /\ (publication[q] = "published" => run[q] = "none"),
         Phase(q)'
  PROVE  PublicationInv'
<1>0. TypeOK
  BY DEF PublicationInv
<1>1. CASE Stage(q, from, to)
  <2>1. Others(q) /\ KeepsRows(q) /\ UNCHANGED <<session, publication>>
    BY <1>0, <1>1 DEF Stage, Goto, TypeOK, Others, KeepsRows
  <2>2. QED BY <2>1, QuietRows
<1>2. CASE Fails(q, from, to)
  <2>1. Others(q) /\ KeepsRows(q) /\ UNCHANGED <<session, publication>>
    BY <1>0, <1>2 DEF Fails, Goto, TypeOK, Others, KeepsRows
  <2>2. QED BY <2>1, QuietRows
<1>3. CASE CommitRuntime(q, from, to) /\ publication[q] # "published"
  <2>1. Others(q) /\ KeepsRows(q) /\ UNCHANGED <<session, publication>>
    BY <1>0, <1>3 DEF CommitRuntime, Goto, TypeOK, Others, KeepsRows
  <2>2. QED BY <2>1, QuietRows
<1>4. CASE DeleteRuntime(q, from, to)
  <2>1. Others(q) /\ KeepsRows(q) /\ UNCHANGED <<session, publication>>
    BY <1>0, <1>4 DEF DeleteRuntime, Goto, TypeOK, Others, KeepsRows
  <2>2. QED BY <2>1, QuietRows
<1>5. CASE DeleteGraph(q, from, to) /\ (publication[q] = "published" => run[q] = "none")
  <2>1. Others(q) /\ KeepsRows(q) /\ UNCHANGED <<session, publication>>
    BY <1>0, <1>5 DEF DeleteGraph, Goto, TypeOK, Others, KeepsRows
  <2>2. QED BY <2>1, QuietRows
<1>6. QED BY <1>1, <1>2, <1>3, <1>4, <1>5

LEMMA StartStep ==
  ASSUME PublicationInv, NEW q \in Requests, StartFirstRun(q)
  PROVE  PublicationInv'
<1>0. TypeOK /\ TypeOK' /\ Phase(q) /\ q # NoRun
  BY StartTyped, NoRunAssumption DEF PublicationInv
<1> USE <1>0 DEF TypeOK, Goto
<1>1. CASE Claim(q)
  <2>1. Others(q)
    BY <1>1 DEF Claim, Others
  <2>2. Phase(q)'
    BY <1>1 DEF Claim, Claimable, Phase, Starting, Aborting, Rerunning, Compensating
  <2>3. \A p \in Requests : Phase(p)'
    BY <2>1, <2>2, OtherPhases DEF PublicationInv
  <2>4. \A p \in Requests : publication[p] \notin {"pending", "published"}
    BY <1>1 DEF Claim, Claimable, NoPending, PublicationInv, PublishedShows
  <2>5. StartWhole' /\ OneStart'
    BY <1>1, <2>4 DEF Claim, StartWhole, OneStart
  <2>6. PublishedShows' /\ ClaimBlocksRemoval'
    BY <1>1, <2>4 DEF Claim, Claimable, PublishedShows, ClaimBlocksRemoval
  <2>7. QED BY <2>3, <2>5, <2>6 DEF PublicationInv
<1>2. CASE Stage(q, "claimed", "start runtime")
  <2>1. Phase(q)'
    BY <1>2 DEF Stage, Phase, Starting, Aborting, Rerunning, Compensating
  <2>2. QED BY <1>2, <2>1, SharedStep
<1>3. CASE CommitRuntime(q, "start runtime", "start event")
  <2>1. Phase(q)'
    BY <1>3 DEF CommitRuntime, Phase, Starting, Aborting, Rerunning, Compensating
  <2>2. publication[q] # "published"
    BY <1>3 DEF CommitRuntime, Phase, Starting
  <2>3. QED BY <1>3, <2>1, <2>2, SharedStep
<1>4. CASE StartCommitEvent(q)
  <2>1. Others(q)
    BY <1>4 DEF StartCommitEvent, Others
  <2>2. Phase(q)'
    BY <1>4 DEF StartCommitEvent, Phase, Starting, Aborting, Rerunning, Compensating
  <2>3. UNCHANGED <<session, publication>> /\ KeepsRows(q)
    BY <1>4 DEF StartCommitEvent, KeepsRows, Phase, Starting, Aborting, Rerunning, Compensating
  <2>4. QED BY <2>1, <2>2, <2>3, QuietRows
<1>5. CASE StartCommitGraph(q)
  <2>1. Others(q)
    BY <1>5 DEF StartCommitGraph, Others
  <2>2. Phase(q)'
    BY <1>5 DEF StartCommitGraph, Phase, Starting, Aborting, Rerunning, Compensating
  <2>3. UNCHANGED <<session, publication>> /\ KeepsRows(q)
    BY <1>5 DEF StartCommitGraph, KeepsRows, Phase, Starting, Aborting, Rerunning, Compensating
  <2>4. QED BY <2>1, <2>2, <2>3, QuietRows
<1>6. CASE Publish(q)
  <2>1. Others(q)
    BY <1>6 DEF Publish, Others
  <2>2. Phase(q)'
    BY <1>6 DEF Publish, Publishable, Phase, Starting, Aborting, Rerunning, Compensating
  <2>3. \A p \in Requests : Phase(p)'
    BY <2>1, <2>2, OtherPhases DEF PublicationInv
  <2>4. StartWhole' /\ OneStart'
    BY <1>6 DEF Publish, Publishable, PublicationInv, StartWhole, OneStart
  <2>5. PublishedShows' /\ ClaimBlocksRemoval'
    BY <1>6 DEF Publish, Show, RunOf, PublishedShows, ClaimBlocksRemoval
  <2>6. QED BY <2>3, <2>4, <2>5 DEF PublicationInv
<1>7. CASE Answered(q)
  <2>1. Others(q)
    BY <1>7 DEF Answered, Others
  <2>2. Phase(q)'
    BY <1>7 DEF Answered, Phase, Starting, Aborting, Rerunning, Compensating, Over
  <2>3. UNCHANGED <<session, publication>> /\ KeepsRows(q)
    BY <1>7 DEF Answered, KeepsRows, Phase, Starting, Aborting, Rerunning, Compensating
  <2>4. QED BY <2>1, <2>2, <2>3, QuietRows
<1>8. CASE \E at \in Starting : Fails(q, at, "abort")
  <2>1. PICK at \in Starting : Fails(q, at, "abort")
    BY <1>8
  <2>2. Phase(q)'
    BY <2>1 DEF Fails, Phase, Starting, Aborting, Rerunning, Compensating
  <2>3. QED BY <2>1, <2>2, SharedStep
<1>9. CASE DeleteRuntime(q, "abort runtime", "abort graph")
  <2>1. Phase(q)'
    BY <1>9 DEF DeleteRuntime, Phase, Starting, Aborting, Rerunning, Compensating
  <2>2. QED BY <1>9, <2>1, SharedStep
<1>10. CASE DeleteGraph(q, "abort graph", "abort event")
  <2>1. Phase(q)'
    BY <1>10 DEF DeleteGraph, Phase, Starting, Aborting, Rerunning, Compensating
  <2>2. run[q] = "none"
    BY <1>10 DEF DeleteGraph, Phase
  <2>3. QED BY <1>10, <2>1, <2>2, SharedStep
<1>11. CASE AbortEvent(q)
  <2>1. Others(q)
    BY <1>11 DEF AbortEvent, Others
  <2>2. Phase(q)'
    BY <1>11 DEF AbortEvent, Phase, Starting, Aborting, Rerunning, Compensating
  <2>3. UNCHANGED <<session, publication>> /\ KeepsRows(q)
    BY <1>11 DEF AbortEvent, KeepsRows, Phase, Starting, Aborting, Rerunning, Compensating
  <2>4. QED BY <2>1, <2>2, <2>3, QuietRows
<1>12. CASE AbortControl(q)
  <2>1. Others(q)
    BY <1>12 DEF AbortControl, Others
  <2>2. Phase(q)'
    BY <1>12 DEF AbortControl, Phase, Starting, Aborting, Rerunning, Compensating
  <2>3. \A p \in Requests : Phase(p)'
    BY <2>1, <2>2, OtherPhases DEF PublicationInv
  <2>4. \A p \in Requests : publication'[p] \notin {"pending", "published"}
    BY <1>12 DEF AbortControl, PublicationInv, OneStart, Phase, Aborting
  <2>5. PublishedShows' /\ StartWhole' /\ OneStart' /\ ClaimBlocksRemoval'
    BY <2>4 DEF PublishedShows, StartWhole, OneStart, ClaimBlocksRemoval, NoPending
  <2>6. QED BY <2>3, <2>5 DEF PublicationInv
<1>13. CASE Stage(q, "abort", "abort runtime")
  <2>1. Phase(q)'
    BY <1>13 DEF Stage, Phase, Starting, Aborting, Rerunning, Compensating
  <2>2. QED BY <1>13, <2>1, SharedStep
<1>14. CASE \E at \in Aborting : Fails(q, at, "broken")
  <2>1. PICK at \in Aborting : Fails(q, at, "broken")
    BY <1>14
  <2>2. Phase(q)'
    BY <2>1 DEF Fails, Phase, Starting, Aborting, Rerunning, Compensating
  <2>3. QED BY <2>1, <2>2, SharedStep
<1>15. QED
  BY <1>1, <1>2, <1>3, <1>4, <1>5, <1>6, <1>7, <1>8, <1>9, <1>10, <1>11, <1>12, <1>13, <1>14
  DEF StartFirstRun

LEMMA RerunStep ==
  ASSUME PublicationInv, NEW q \in Requests, CreateRerun(q) \/ CompensateRerun(q)
  PROVE  PublicationInv'
<1>0. TypeOK /\ TypeOK' /\ Phase(q) /\ q # NoRun
  BY RerunTyped, NoRunAssumption DEF PublicationInv
<1> USE <1>0 DEF TypeOK, Goto
<1>1. ASSUME NEW from \in Rerunning \union Compensating,
             NEW to \in Rerunning \union Compensating \union {"failed", "broken"},
             \/ Stage(q, from, to) \/ Fails(q, from, to)
             \/ CommitRuntime(q, from, to) \/ DeleteRuntime(q, from, to)
             \/ DeleteGraph(q, from, to)
      PROVE  PublicationInv'
  <2>1. publication[q] = "none" /\ seen[q].current # NoRun /\ pc[q] = from /\ pc'[q] = to
        /\ UNCHANGED <<publication, seen>>
    BY <1>1 DEF Phase, Stage, Fails, CommitRuntime, DeleteRuntime, DeleteGraph
  <2>2. Phase(q)'
    BY <2>1 DEF Phase, Starting, Aborting, Rerunning, Compensating
  <2>3. QED BY <1>1, <2>1, <2>2, SharedStep
<1>2. CASE ReadTail(q)
  <2>1. Others(q) /\ KeepsRows(q) /\ UNCHANGED <<session, publication>>
    BY <1>2 DEF ReadTail, Others, KeepsRows
  <2>2. Phase(q)'
    BY <1>2 DEF ReadTail, Phase, Starting, Aborting, Rerunning, Compensating
  <2>3. QED BY <2>1, <2>2, QuietRows
<1>3. ASSUME NEW from \in Rerunning \union Compensating,
             NEW to \in Rerunning \union Compensating \union {"done"},
             pc[q] = from, pc'[q] = to, UNCHANGED <<publication, seen>>
      PROVE  Phase(q)' /\ KeepsRows(q)
  <2>1. publication[q] = "none" /\ seen[q].current # NoRun
    BY <1>3 DEF Phase
  <2>2. QED
    BY <1>3, <2>1 DEF Phase, KeepsRows, Starting, Aborting, Rerunning, Compensating
<1>4. CASE RerunCommitGraph(q)
  <2>1. Others(q) /\ pc[q] = "rerun graph" /\ pc'[q] = "rerun control"
        /\ UNCHANGED <<session, publication, seen>>
    BY <1>4 DEF RerunCommitGraph, Others
  <2>2. QED BY <1>3, <2>1, QuietRows DEF Rerunning
<1>5. CASE RerunCommitEvent(q)
  <2>1. Others(q)
    BY <1>5 DEF RerunCommitEvent, Others
  <2>2. pc[q] = "rerun event" /\ pc'[q] = "done" /\ UNCHANGED <<session, publication, seen>>
    BY <1>5 DEF RerunCommitEvent
  <2>3. QED BY <1>3, <2>1, <2>2, QuietRows DEF Rerunning
<1>6. CASE RerunCommitControl(q) \/ RestoreControl(q)
  <2>1. UNCHANGED <<publication, seen, run, thread, created>> /\ Others(q)
    <3>1. UNCHANGED <<publication, seen, run, thread, created>>
      BY <1>6 DEF RerunCommitControl, RestoreControl
    <3>2. \A p \in Requests \ {q} : pc'[p] = pc[p]
      BY <1>6 DEF RerunCommitControl, RestoreControl
    <3>3. QED BY <3>1, <3>2 DEF Others
  <2>2. Phase(q)'
    BY <1>3, <1>6, <2>1 DEF RerunCommitControl, RestoreControl, Rerunning, Compensating
  <2>3. \A p \in Requests : Phase(p)'
    BY <2>1, <2>2, OtherPhases DEF PublicationInv
  <2>4. session'.current # NoRun /\ session'.visible = session.visible
    <3>1. session \in Sessions
      BY DEF PublicationInv, TypeOK
    <3>2. CASE RerunCommitControl(q)
      BY <3>1, <3>2, <1>3 DEF RerunCommitControl, Show, RunOf, Sessions
    <3>3. CASE RestoreControl(q)
      BY <3>1, <3>3, <1>3 DEF RestoreControl, Show, Phase, Compensating, Sessions
    <3>4. QED BY <1>6, <3>2, <3>3
  <2>5. StartWhole' /\ OneStart' /\ PublishedShows' /\ ClaimBlocksRemoval'
    BY <2>1, <2>4
    DEF PublicationInv, StartWhole, OneStart, PublishedShows, ClaimBlocksRemoval, NoPending
  <2>6. QED BY <2>3, <2>5 DEF PublicationInv
<1>7. CASE CreateRerun(q)
  BY <1>1, <1>2, <1>4, <1>5, <1>6, <1>7 DEF CreateRerun, WithoutGraph, Rerunning, Compensating
<1>8. CASE CompensateRerun(q)
  BY <1>1, <1>6, <1>8 DEF CompensateRerun, WithoutSession, Rerunning, Compensating
<1>9. QED BY <1>7, <1>8

LEMMA SurroundingsStep ==
  ASSUME PublicationInv, Surroundings
  PROVE  PublicationInv'
<1>0. TypeOK /\ TypeOK'
  BY SurroundingsTyped DEF PublicationInv
<1>1. CASE \E q \in Requests : EndRun(q)
  <2>1. PICK q \in Requests : EndRun(q)
    BY <1>1
  <2>2. Others(q) /\ UNCHANGED <<publication, created, pc, seen>>
    BY <1>0, <2>1 DEF EndRun, TypeOK, Others
  <2>3. run[q] = "running" /\ run'[q] = "terminated" /\ thread'[q] = "terminated"
        /\ pc[q] \in Over /\ session'.current = session.current
        /\ session'.visible = session.visible
    BY <1>0, <2>1 DEF EndRun, TypeOK
  <2>4. Phase(q)'
    BY <2>2, <2>3
    DEF PublicationInv, Phase, Over, Starting, Aborting, Rerunning, Compensating
  <2>5. \A p \in Requests : Phase(p)'
    BY <2>2, <2>4, OtherPhases DEF PublicationInv
  <2>6. StartWhole' /\ OneStart' /\ PublishedShows' /\ ClaimBlocksRemoval'
    BY <2>2, <2>3
    DEF PublicationInv, StartWhole, OneStart, PublishedShows, ClaimBlocksRemoval, NoPending,
        Others
  <2>7. QED BY <1>0, <2>5, <2>6 DEF PublicationInv
<1>2. CASE DeleteSession
  <2>1. \A p \in Requests : Phase(p)'
    BY <1>2 DEF DeleteSession, PublicationInv, Phase
  <2>2. StartWhole' /\ OneStart' /\ PublishedShows' /\ ClaimBlocksRemoval'
    BY <1>0, <1>2
    DEF DeleteSession, Removable, PublicationInv, TypeOK, StartWhole, OneStart,
        PublishedShows, ClaimBlocksRemoval, NoPending
  <2>3. QED BY <1>0, <2>1, <2>2 DEF PublicationInv
<1>3. CASE Crash
  <2>1. \A p \in Requests : Phase(p)'
    <3>1. TAKE p \in Requests
    <3>2. pc'[p] \in Over \union {"idle"} /\ (pc'[p] = "idle" => pc[p] = "idle")
      BY <1>0, <1>3 DEF Crash, TypeOK, InProgress, Over
    <3>3. Phase(p)
      BY DEF PublicationInv
    <3>4. QED
      BY <1>3, <3>2, <3>3
      DEF Crash, Phase, Over, Starting, Aborting, Rerunning, Compensating
  <2>2. StartWhole' /\ OneStart' /\ PublishedShows' /\ ClaimBlocksRemoval'
    BY <1>0, <1>3
    DEF Crash, TypeOK, PublicationInv, StartWhole, OneStart, PublishedShows, ClaimBlocksRemoval,
        NoPending
  <2>3. QED BY <1>0, <2>1, <2>2 DEF PublicationInv
<1>4. CASE AuditRemoval
  <2>1. /\ UNCHANGED <<publication, run, thread, created, pc, seen, writer>>
        /\ session'.current = session.current
        /\ ~session'.visible => ~session.visible
    BY <1>0, <1>4 DEF AuditRemoval, TypeOK, Sessions
  <2>2. \A p \in Requests : Phase(p)'
    BY <2>1 DEF PublicationInv, Phase
  <2>3. StartWhole' /\ OneStart' /\ PublishedShows' /\ ClaimBlocksRemoval'
    BY <2>1
    DEF PublicationInv, StartWhole, OneStart, PublishedShows, ClaimBlocksRemoval, NoPending
  <2>4. QED BY <1>0, <2>2, <2>3 DEF PublicationInv
<1>5. QED BY <1>1, <1>2, <1>3, <1>4 DEF Surroundings

LEMMA PublicationStep == PublicationInv /\ [Next]_vars => PublicationInv'
<1> SUFFICES ASSUME PublicationInv, [Next]_vars PROVE PublicationInv'
  OBVIOUS
<1>1. CASE UNCHANGED vars
  BY <1>1
  DEF vars, PublicationInv, TypeOK, Phase, PublishedShows, StartWhole, OneStart,
      ClaimBlocksRemoval, NoPending
<1>2. QED BY <1>1, StartStep, RerunStep, SurroundingsStep DEF Next, Surroundings

LEMMA PublicationAlways == Spec => []PublicationInv
  BY PublicationInit, PublicationStep, PTL DEF Spec

-----------------------------------------------------------------------------
(* What follows                                                             *)

\* No reader ever sees a half-started first run.
THEOREM StartIsWhole == Spec => []StartWhole
<1>1. PublicationInv => StartWhole
  BY DEF PublicationInv
<1>2. QED BY <1>1, PublicationAlways, PTL

\* Two first messages never both start the session.
THEOREM OneStartWins == Spec => []OneStart
<1>1. PublicationInv => OneStart
  BY DEF PublicationInv
<1>2. QED BY <1>1, PublicationAlways, PTL

\* A session is never removed under a startup in flight.
THEOREM RemovalWaits == Spec => []ClaimBlocksRemoval
<1>1. PublicationInv => ClaimBlocksRemoval
  BY DEF PublicationInv
<1>2. QED BY <1>1, PublicationAlways, PTL

-----------------------------------------------------------------------------
(* The rows of a request and the session that shows them                    *)

\* Where a request has not committed its run yet, or has deleted it.
WithoutRun == {"idle", "claimed", "start runtime", "read", "rerun runtime", "abort graph",
               "abort event", "abort control", "delete graph", "failed"}

\* The same of its thread, and of its events.
WithoutThread == {"idle", "claimed", "start runtime", "start event", "start graph", "read",
                  "rerun runtime", "rerun graph", "delete runtime only", "abort event",
                  "abort control", "failed"}
WithoutEvents == {"idle", "claimed", "start runtime", "start event", "abort control", "failed"}
                   \union Rerunning \union Compensating

\* What its position says about the rows of a request; a run ends with its thread,
\* and only when its request is over.
RowsOf(q) ==
  /\ pc[q] \in WithoutRun => run[q] = "none"
  /\ pc[q] \in WithoutThread => thread[q] = "none"
  /\ pc[q] \in WithoutEvents => ~created[q]
  /\ pc[q] \in {"rerun graph", "rerun control", "rerun event", "restore control"}
       => run[q] # "none"
  /\ pc[q] \in {"rerun control", "rerun event", "restore control"} => thread[q] # "none"
  /\ run[q] = "terminated" => thread[q] = "terminated" /\ pc[q] \in Over \ {"failed"}

\* The session shows a rerun only where its rows are there to stay or are restored
\* first; a rerun may go back to an ended run only; nothing shows a failed request.
ShownOf(q) ==
  /\ session.current = q /\ publication[q] = "none"
       => /\ pc[q] \in {"rerun event", "restore control", "done", "broken", "dead"}
          /\ run[q] # "none" /\ thread[q] # "none"
  /\ pc[q] \in Rerunning \union Compensating => run[seen[q].current] = "terminated"
  /\ pc[q] = "failed" => session.current # q /\ publication[q] \in {"none", "aborted"}

RowsInv ==
  /\ PublicationInv
  /\ \A q \in Requests : RowsOf(q) /\ ShownOf(q)

LEMMA RowsInit == Init => RowsInv
<1> SUFFICES ASSUME Init PROVE RowsInv
  OBVIOUS
<1>1. \A q \in Requests : RowsOf(q) /\ ShownOf(q)
  BY NoRunAssumption DEF Init, RowsOf, ShownOf, Rerunning, Compensating
<1>2. QED BY <1>1, PublicationInit DEF RowsInv

\* A run that has ended stays.
EndedStay == \A p \in Requests : run[p] = "terminated" => run'[p] = "terminated"

\* A step of q turns the session to q, away, or back to a run that has ended.
Turns(q) ==
  \/ session'.current \in {session.current, q, NoRun}
  \/ run[session'.current] = "terminated"

LEMMA OtherRows ==
  ASSUME RowsInv, NEW q \in Requests, Others(q), EndedStay, Turns(q),
         RowsOf(q)', ShownOf(q)'
  PROVE  \A p \in Requests : RowsOf(p)' /\ ShownOf(p)'
<1> TAKE p \in Requests
<1>1. CASE p = q BY <1>1
<1>2. CASE p # q
  <2>1. /\ pc'[p] = pc[p] /\ publication'[p] = publication[p] /\ seen'[p] = seen[p]
        /\ run'[p] = run[p] /\ thread'[p] = thread[p] /\ created'[p] = created[p]
    BY <1>2 DEF Others
  <2>2. RowsOf(p) /\ ShownOf(p)
    BY DEF RowsInv
  <2>3. RowsOf(p)'
    BY <2>1, <2>2 DEF RowsOf
  <2>4. session'.current = p => session.current = p \/ run[p] = "terminated"
    BY <1>2, NoRunAssumption DEF Turns
  <2>5. run[p] = "terminated" =>
          pc[p] \in {"done", "broken", "dead"} /\ thread[p] = "terminated"
    BY <2>2 DEF RowsOf, Over
  <2>6. pc[p] \in Rerunning \union Compensating => run'[seen[p].current] = "terminated"
    <3>1. HAVE pc[p] \in Rerunning \union Compensating
    <3>2. seen[p].current \in Requests
      BY <3>1 DEF RowsInv, PublicationInv, Phase, TypeOK, Snapshots, Ids
    <3>3. QED BY <2>2, <3>1, <3>2 DEF ShownOf, EndedStay
  <2>7. ShownOf(p)'
    BY <2>1, <2>2, <2>4, <2>5, <2>6 DEF ShownOf
  <2>8. QED BY <2>3, <2>7
<1>3. QED BY <1>1, <1>2

\* A step of q that leaves the session alone.
LEMMA RowStep ==
  ASSUME RowsInv, PublicationInv', NEW q \in Requests, Others(q), EndedStay,
         UNCHANGED session, RowsOf(q)', ShownOf(q)'
  PROVE  RowsInv'
<1>1. Turns(q)
  BY DEF Turns
<1>2. QED BY <1>1, OtherRows DEF RowsInv

\* While a request is under way its run has not ended, and it is not the run that it
\* may restore.
LEMMA UnderWay ==
  ASSUME RowsInv, NEW q \in Requests, pc[q] \in {"idle"} \union InProgress
  PROVE  /\ run[q] # "terminated"
         /\ pc[q] \in Rerunning \union Compensating =>
              /\ seen[q].current \in Requests \ {q}
              /\ run[seen[q].current] = "terminated"
<1>1. run[q] # "terminated"
  BY DEF RowsInv, RowsOf, Over, InProgress, Starting, Aborting, Rerunning, Compensating
<1>2. ASSUME pc[q] \in Rerunning \union Compensating
      PROVE  seen[q].current \in Requests /\ run[seen[q].current] = "terminated"
  <2>1. seen[q].current # NoRun /\ run[seen[q].current] = "terminated"
    BY <1>2 DEF RowsInv, PublicationInv, Phase, ShownOf
  <2>2. seen[q].current \in Ids
    BY DEF RowsInv, PublicationInv, TypeOK, Snapshots
  <2>3. QED BY <2>1, <2>2 DEF Ids
<1>3. QED BY <1>1, <1>2

\* A step of a request under way that does not touch the session.
LEMMA RowsMove ==
  ASSUME RowsInv, PublicationInv', NEW q \in Requests, pc[q] \in {"idle"} \union InProgress,
         Others(q), UNCHANGED session, RowsOf(q)', ShownOf(q)'
  PROVE  RowsInv'
<1>1. EndedStay
  BY UnderWay DEF Others, EndedStay
<1>2. QED BY <1>1, RowStep

\* The steps of the request's own rows, wherever they start and lead.
LEMMA SharedRows ==
  ASSUME RowsInv, PublicationInv', NEW q \in Requests,
         NEW from \in InProgress, NEW to \in InProgress \union Over,
         \/ Stage(q, from, to) \/ Fails(q, from, to)
         \/ CommitRuntime(q, from, to)
         \/ DeleteRuntime(q, from, to)
         \/ DeleteGraph(q, from, to),
         RowsOf(q)', ShownOf(q)'
  PROVE  RowsInv'
<1>1. TypeOK
  BY DEF RowsInv, PublicationInv
<1>2. pc[q] \in {"idle"} \union InProgress
  BY DEF Stage, Fails, CommitRuntime, DeleteRuntime, DeleteGraph
<1>3. UNCHANGED session
  BY DEF Stage, Fails, CommitRuntime, DeleteRuntime, DeleteGraph
<1>4. Others(q)
  BY <1>1 DEF Stage, Fails, CommitRuntime, DeleteRuntime, DeleteGraph, TypeOK, Goto, Others
<1>5. QED BY <1>2, <1>3, <1>4, RowsMove

LEMMA StartRows ==
  ASSUME RowsInv, NEW q \in Requests, StartFirstRun(q)
  PROVE  RowsInv'
<1>0. /\ TypeOK /\ TypeOK' /\ PublicationInv' /\ q # NoRun
      /\ RowsOf(q) /\ ShownOf(q) /\ Phase(q) /\ Phase(q)'
  BY StartTyped, StartStep, NoRunAssumption DEF RowsInv, PublicationInv
<1>a. ASSUME Others(q), UNCHANGED session, RowsOf(q)', ShownOf(q)',
             pc[q] \in {"idle"} \union InProgress
      PROVE  RowsInv'
  BY <1>0, <1>a, RowsMove
<1> USE DEF TypeOK, Goto
<1>1. CASE Claim(q)
  <2>1. Others(q) /\ UNCHANGED session /\ pc[q] = "idle"
    BY <1>0, <1>1 DEF Claim, Others
  <2>2. RowsOf(q)'
    BY <1>0, <1>1 DEF Claim, RowsOf, WithoutRun, WithoutThread, WithoutEvents, Over
  <2>3. ShownOf(q)'
    BY <1>0, <1>1 DEF Claim, ShownOf, Rerunning, Compensating
  <2>4. QED BY <2>1, <2>2, <2>3, <1>a
<1>2. CASE Stage(q, "claimed", "start runtime") \/ Stage(q, "abort", "abort runtime")
  <2>1. /\ \/ pc[q] = "claimed" /\ pc'[q] = "start runtime"
           \/ pc[q] = "abort" /\ pc'[q] = "abort runtime"
        /\ UNCHANGED <<session, publication, run, thread, created, seen>>
    BY <1>0, <1>2 DEF Stage
  <2>2. RowsOf(q)'
    BY <1>0, <2>1
    DEF RowsOf, WithoutRun, WithoutThread, WithoutEvents, Over, Rerunning, Compensating
  <2>3. ShownOf(q)'
    BY <1>0, <2>1 DEF ShownOf, Rerunning, Compensating, Phase, Starting, Aborting
  <2>4. QED BY <1>0, <1>2, <2>2, <2>3, SharedRows DEF InProgress, Starting, Aborting
<1>3. CASE CommitRuntime(q, "start runtime", "start event")
  <2>1. /\ pc[q] = "start runtime" /\ pc'[q] = "start event" /\ run'[q] = "running"
        /\ UNCHANGED <<session, publication, thread, created, seen>>
    BY <1>0, <1>3 DEF CommitRuntime
  <2>2. RowsOf(q)'
    BY <1>0, <2>1
    DEF RowsOf, WithoutRun, WithoutThread, WithoutEvents, Over, Rerunning, Compensating
  <2>3. ShownOf(q)'
    BY <1>0, <2>1 DEF ShownOf, Rerunning, Compensating, Phase, Starting, Aborting
  <2>4. QED BY <1>0, <1>3, <2>2, <2>3, SharedRows DEF InProgress, Starting, Aborting
<1>4. CASE StartCommitEvent(q)
  <2>1. /\ pc[q] = "start event" /\ pc'[q] = "start graph" /\ Others(q)
        /\ UNCHANGED <<session, publication, run, thread, seen>>
    BY <1>0, <1>4 DEF StartCommitEvent, Others
  <2>2. RowsOf(q)'
    BY <1>0, <2>1
    DEF RowsOf, WithoutRun, WithoutThread, WithoutEvents, Over, Rerunning, Compensating
  <2>3. ShownOf(q)'
    BY <1>0, <2>1 DEF ShownOf, Rerunning, Compensating, Phase, Starting, Aborting
  <2>4. QED BY <2>1, <2>2, <2>3, <1>a DEF InProgress, Starting
<1>5. CASE StartCommitGraph(q)
  <2>1. /\ pc[q] = "start graph" /\ pc'[q] = "publish" /\ Others(q) /\ thread'[q] = "running"
        /\ UNCHANGED <<session, publication, run, created, seen>>
    BY <1>0, <1>5 DEF StartCommitGraph, Others
  <2>2. RowsOf(q)'
    BY <1>0, <2>1
    DEF RowsOf, WithoutRun, WithoutThread, WithoutEvents, Over, Rerunning, Compensating
  <2>3. ShownOf(q)'
    BY <1>0, <2>1 DEF ShownOf, Rerunning, Compensating, Phase, Starting, Aborting
  <2>4. QED BY <2>1, <2>2, <2>3, <1>a DEF InProgress, Starting
<1>6. CASE Publish(q)
  <2>1. /\ pc[q] = "publish" /\ pc'[q] = "reload" /\ Others(q)
        /\ publication'[q] = "published" /\ session'.current = q
        /\ UNCHANGED <<run, thread, created, seen>>
    BY <1>0, <1>6 DEF Publish, Publishable, Others, Show, RunOf, Sessions
  <2>2. RowsOf(q)'
    BY <1>0, <2>1
    DEF RowsOf, WithoutRun, WithoutThread, WithoutEvents, Over, Rerunning, Compensating
  <2>3. ShownOf(q)'
    BY <1>0, <2>1 DEF ShownOf, Rerunning, Compensating
  <2>4. EndedStay /\ Turns(q)
    BY <2>1 DEF EndedStay, Turns
  <2>5. QED BY <1>0, <2>1, <2>2, <2>3, <2>4, OtherRows DEF RowsInv
<1>7. CASE Answered(q)
  <2>1. /\ pc[q] = "reload" /\ pc'[q] = "done" /\ Others(q)
        /\ UNCHANGED <<session, publication, run, thread, created, seen>>
    BY <1>0, <1>7 DEF Answered, Others
  <2>2. RowsOf(q)'
    BY <1>0, <2>1
    DEF RowsOf, WithoutRun, WithoutThread, WithoutEvents, Over, Rerunning, Compensating
  <2>3. ShownOf(q)'
    BY <1>0, <2>1 DEF ShownOf, Rerunning, Compensating, Phase, Starting, Aborting
  <2>4. QED BY <2>1, <2>2, <2>3, <1>a DEF InProgress, Starting
<1>8. CASE \/ \E at \in Starting : Fails(q, at, "abort")
           \/ \E at \in Aborting : Fails(q, at, "broken")
  <2>1. PICK at, to : /\ Fails(q, at, to)
                      /\ \/ at \in Starting /\ to = "abort"
                         \/ at \in Aborting /\ to = "broken"
    BY <1>8
  <2>2. /\ pc[q] = at /\ pc'[q] = to
        /\ UNCHANGED <<session, publication, run, thread, created, seen>>
    BY <1>0, <2>1 DEF Fails
  <2>3. publication[q] \in {"pending", "published"}
    BY <1>0, <2>1, <2>2 DEF Phase
  <2>4. run[q] # "terminated"
    BY <1>0, <2>1, <2>2 DEF RowsOf, Over, Starting, Aborting
  <2>5. RowsOf(q)'
    BY <2>1, <2>2, <2>4
    DEF RowsOf, WithoutRun, WithoutThread, WithoutEvents, Rerunning, Compensating
  <2>6. ShownOf(q)'
    BY <2>1, <2>2, <2>3 DEF ShownOf, Rerunning, Compensating
  <2>7. QED
    BY <1>0, <2>1, <2>5, <2>6, SharedRows DEF InProgress, Over, Aborting
<1>9. CASE DeleteRuntime(q, "abort runtime", "abort graph")
  <2>1. /\ pc[q] = "abort runtime" /\ pc'[q] = "abort graph" /\ run'[q] = "none"
        /\ UNCHANGED <<session, publication, thread, created, seen>>
    BY <1>0, <1>9 DEF DeleteRuntime
  <2>2. RowsOf(q)'
    BY <1>0, <2>1
    DEF RowsOf, WithoutRun, WithoutThread, WithoutEvents, Over, Rerunning, Compensating
  <2>3. ShownOf(q)'
    BY <1>0, <2>1 DEF ShownOf, Rerunning, Compensating, Phase, Starting, Aborting
  <2>4. QED BY <1>0, <1>9, <2>2, <2>3, SharedRows DEF InProgress, Aborting
<1>10. CASE DeleteGraph(q, "abort graph", "abort event")
  <2>1. /\ pc[q] = "abort graph" /\ pc'[q] = "abort event" /\ thread'[q] = "none"
        /\ UNCHANGED <<session, publication, run, created, seen>>
    BY <1>0, <1>10 DEF DeleteGraph
  <2>2. RowsOf(q)'
    BY <1>0, <2>1
    DEF RowsOf, WithoutRun, WithoutThread, WithoutEvents, Over, Rerunning, Compensating
  <2>3. ShownOf(q)'
    BY <1>0, <2>1 DEF ShownOf, Rerunning, Compensating, Phase, Starting, Aborting
  <2>4. QED BY <1>0, <1>10, <2>2, <2>3, SharedRows DEF InProgress, Aborting
<1>11. CASE AbortEvent(q)
  <2>1. /\ pc[q] = "abort event" /\ pc'[q] = "abort control" /\ ~created'[q] /\ Others(q)
        /\ UNCHANGED <<session, publication, run, thread, seen>>
    BY <1>0, <1>11 DEF AbortEvent, Others
  <2>2. RowsOf(q)'
    BY <1>0, <2>1
    DEF RowsOf, WithoutRun, WithoutThread, WithoutEvents, Over, Rerunning, Compensating
  <2>3. ShownOf(q)'
    BY <1>0, <2>1 DEF ShownOf, Rerunning, Compensating, Phase, Starting, Aborting
  <2>4. QED BY <2>1, <2>2, <2>3, <1>a DEF InProgress, Aborting
<1>12. CASE AbortControl(q)
  <2>1. /\ pc[q] = "abort control" /\ pc'[q] = "failed" /\ Others(q)
        /\ publication'[q] = "aborted"
        /\ UNCHANGED <<run, thread, created, seen>>
    BY <1>0, <1>12 DEF AbortControl, Others
  <2>2. session'.current # q /\ session'.current \in {session.current, NoRun}
    BY <1>0, <1>12 DEF AbortControl, Sessions
  <2>3. RowsOf(q)'
    BY <1>0, <2>1
    DEF RowsOf, WithoutRun, WithoutThread, WithoutEvents, Over, Rerunning, Compensating
  <2>4. ShownOf(q)'
    BY <2>1, <2>2 DEF ShownOf, Rerunning, Compensating
  <2>5. EndedStay /\ Turns(q)
    BY <2>1, <2>2 DEF EndedStay, Turns
  <2>6. QED BY <1>0, <2>1, <2>3, <2>4, <2>5, OtherRows DEF RowsInv
<1>13. QED
  BY <1>1, <1>2, <1>3, <1>4, <1>5, <1>6, <1>7, <1>8, <1>9, <1>10, <1>11, <1>12
  DEF StartFirstRun

LEMMA RerunRows ==
  ASSUME RowsInv, NEW q \in Requests, CreateRerun(q) \/ CompensateRerun(q)
  PROVE  RowsInv'
<1>0. /\ TypeOK /\ TypeOK' /\ PublicationInv' /\ q # NoRun
      /\ RowsOf(q) /\ ShownOf(q) /\ Phase(q)
  BY RerunTyped, RerunStep, NoRunAssumption DEF RowsInv, PublicationInv
<1> USE DEF TypeOK, Goto
<1>1. CASE ReadTail(q)
  <2>1. /\ pc[q] = "idle" /\ pc'[q] = "read" /\ Others(q)
        /\ UNCHANGED <<session, publication, run, thread, created>>
        /\ seen'[q].current = session.current /\ run[session.current] = "terminated"
    BY <1>0, <1>1 DEF ReadTail, Others
  <2>2. RowsOf(q)'
    BY <1>0, <2>1
    DEF RowsOf, WithoutRun, WithoutThread, WithoutEvents, Over, Rerunning, Compensating
  <2>3. ShownOf(q)'
    BY <1>0, <2>1 DEF ShownOf, Phase
  <2>4. QED BY <1>0, <2>1, <2>2, <2>3, RowsMove
\* What stays true of the session when a rerun only moves on.
<1>2. ASSUME NEW from \in Rerunning \union Compensating,
             NEW to \in Rerunning \union Compensating \union {"done", "failed", "broken"},
             pc[q] = from, pc'[q] = to, from \notin {"rerun event", "restore control"},
             UNCHANGED <<session, publication, seen>>, EndedStay
      PROVE  ShownOf(q)'
  <2>1. publication[q] = "none" /\ session.current # q
    BY <1>0, <1>2 DEF Phase, ShownOf, Rerunning, Compensating
  <2>2. /\ seen[q].current \in Requests
        /\ run[seen[q].current] = "terminated"
    BY <1>2, UnderWay DEF InProgress
  <2>3. QED BY <1>2, <2>1, <2>2 DEF ShownOf, EndedStay
<1>3. CASE Stage(q, "read", "rerun runtime")
  <2>1. /\ pc[q] = "read" /\ pc'[q] = "rerun runtime"
        /\ UNCHANGED <<session, publication, run, thread, created, seen>>
    BY <1>0, <1>3 DEF Stage
  <2>2. RowsOf(q)'
    BY <1>0, <2>1
    DEF RowsOf, WithoutRun, WithoutThread, WithoutEvents, Over, Rerunning, Compensating
  <2>3. ShownOf(q)'
    BY <1>2, <2>1 DEF EndedStay, Rerunning
  <2>4. QED BY <1>0, <1>3, <2>2, <2>3, SharedRows DEF InProgress, Rerunning
<1>4. CASE CommitRuntime(q, "rerun runtime", "rerun graph")
  <2>1. /\ pc[q] = "rerun runtime" /\ pc'[q] = "rerun graph" /\ run'[q] = "running"
        /\ UNCHANGED <<session, publication, thread, created, seen>>
        /\ \A p \in Requests \ {q} : run'[p] = run[p]
    BY <1>0, <1>4 DEF CommitRuntime
  <2>2. RowsOf(q)'
    BY <1>0, <2>1
    DEF RowsOf, WithoutRun, WithoutThread, WithoutEvents, Over, Rerunning, Compensating
  <2>3. EndedStay
    BY <2>1, UnderWay DEF EndedStay, InProgress, Rerunning
  <2>4. ShownOf(q)'
    BY <1>2, <2>1, <2>3 DEF Rerunning
  <2>5. QED BY <1>0, <1>4, <2>2, <2>4, SharedRows DEF InProgress, Rerunning
<1>5. CASE RerunCommitGraph(q)
  <2>1. /\ pc[q] = "rerun graph" /\ pc'[q] = "rerun control" /\ Others(q)
        /\ thread'[q] = "running"
        /\ UNCHANGED <<session, publication, run, created, seen>>
    BY <1>0, <1>5 DEF RerunCommitGraph, Others
  <2>2. run[q] \notin {"none", "terminated"}
    BY <1>0, <2>1 DEF RowsOf, Over
  <2>3. RowsOf(q)'
    BY <1>0, <2>1, <2>2
    DEF RowsOf, WithoutRun, WithoutThread, WithoutEvents, Over, Rerunning, Compensating
  <2>4. ShownOf(q)'
    BY <1>2, <2>1 DEF EndedStay, Rerunning
  <2>5. QED BY <1>0, <2>1, <2>3, <2>4, RowsMove DEF InProgress, Rerunning
<1>6. CASE RerunCommitControl(q)
  <2>1. /\ pc[q] = "rerun control" /\ pc'[q] = "rerun event" /\ Others(q)
        /\ session'.current = q
        /\ UNCHANGED <<publication, run, thread, created, seen>>
    BY <1>0, <1>6 DEF RerunCommitControl, Others, Show, RunOf, Sessions
  <2>2. RowsOf(q)'
    BY <1>0, <2>1
    DEF RowsOf, WithoutRun, WithoutThread, WithoutEvents, Over, Rerunning, Compensating
  <2>3. ShownOf(q)'
    BY <1>0, <2>1 DEF ShownOf, RowsOf, Rerunning
  <2>4. EndedStay /\ Turns(q)
    BY <2>1 DEF EndedStay, Turns
  <2>5. QED BY <1>0, <2>1, <2>2, <2>3, <2>4, OtherRows DEF RowsInv
<1>7. CASE RerunCommitEvent(q)
  <2>1. /\ pc[q] = "rerun event" /\ pc'[q] = "done" /\ Others(q)
        /\ UNCHANGED <<session, publication, run, thread, seen>>
    BY <1>0, <1>7 DEF RerunCommitEvent, Others
  <2>2. RowsOf(q)'
    BY <1>0, <2>1
    DEF RowsOf, WithoutRun, WithoutThread, WithoutEvents, Over, Rerunning, Compensating
  <2>3. ShownOf(q)'
    BY <1>0, <2>1 DEF ShownOf, Rerunning, Compensating
  <2>4. QED BY <1>0, <2>1, <2>2, <2>3, RowsMove DEF InProgress, Rerunning
<1>8. CASE RestoreControl(q)
  <2>1. /\ pc[q] = "restore control" /\ pc'[q] = "delete runtime" /\ Others(q)
        /\ session'.current = seen[q].current
        /\ UNCHANGED <<publication, run, thread, created, seen>>
    BY <1>0, <1>8 DEF RestoreControl, Others, Show, Sessions
  <2>2. RowsOf(q)'
    BY <1>0, <2>1
    DEF RowsOf, WithoutRun, WithoutThread, WithoutEvents, Over, Rerunning, Compensating
  <2>3. seen[q].current \in Requests \ {q} /\ run[seen[q].current] = "terminated"
    BY <2>1, UnderWay DEF InProgress, Compensating
  <2>4. ShownOf(q)'
    BY <1>0, <2>1, <2>3 DEF ShownOf
  <2>5. EndedStay /\ Turns(q)
    BY <2>1, <2>3 DEF EndedStay, Turns
  <2>6. QED BY <1>0, <2>1, <2>2, <2>4, <2>5, OtherRows DEF RowsInv
\* A commit or a clean-up that fails.
<1>9. ASSUME NEW from \in (Rerunning \union Compensating),
             NEW to \in Compensating \union {"failed", "broken"}, Fails(q, from, to),
             from \notin {"rerun event", "restore control"},
             to \in WithoutRun => from \in WithoutRun,
             to \in WithoutThread => from \in WithoutThread,
             to # "restore control"
      PROVE  RowsInv'
  <2>1. /\ pc[q] = from /\ pc'[q] = to
        /\ UNCHANGED <<session, publication, run, thread, created, seen>>
    BY <1>0, <1>9 DEF Fails
  <2>2. run[q] # "terminated"
    BY <2>1, UnderWay DEF InProgress
  <2>3. ~created[q]
    BY <1>0, <2>1 DEF RowsOf, WithoutEvents
  <2>4. RowsOf(q)'
    BY <1>0, <1>9, <2>1, <2>2, <2>3 DEF RowsOf, Rerunning, Compensating
  <2>5. ShownOf(q)'
    BY <1>2, <1>9, <2>1 DEF EndedStay
  <2>6. QED BY <1>0, <1>9, <2>4, <2>5, SharedRows DEF InProgress, Over
\* The two failures that leave the session showing the rerun.
<1>10. CASE \/ Fails(q, "rerun event", "restore control")
            \/ Fails(q, "restore control", WithoutSession)
  <2>1. /\ \/ pc[q] = "rerun event" /\ pc'[q] = "restore control"
           \/ pc[q] = "restore control" /\ pc'[q] = "broken"
        /\ UNCHANGED <<session, publication, run, thread, created, seen>>
    BY <1>0, <1>10 DEF Fails, WithoutSession
  <2>2. RowsOf(q)'
    BY <1>0, <2>1
    DEF RowsOf, WithoutRun, WithoutThread, WithoutEvents, Over, Rerunning, Compensating
  <2>3. ShownOf(q)'
    BY <1>0, <2>1 DEF ShownOf, RowsOf, Rerunning, Compensating
  <2>4. QED
    BY <1>0, <1>10, <2>2, <2>3, SharedRows
    DEF InProgress, Over, Rerunning, Compensating, WithoutSession
\* A clean-up that deletes the run.
<1>11. ASSUME NEW from \in {"delete runtime only", "delete runtime"},
              NEW to \in {"failed", "delete graph"},
              from = "delete runtime only" <=> to = "failed", DeleteRuntime(q, from, to)
       PROVE  RowsInv'
  <2>1. /\ pc[q] = from /\ pc'[q] = to /\ run'[q] = "none"
        /\ UNCHANGED <<session, publication, thread, created, seen>>
        /\ \A p \in Requests \ {q} : run'[p] = run[p]
    BY <1>0, <1>11 DEF DeleteRuntime
  <2>2. RowsOf(q)'
    BY <1>0, <1>11, <2>1
    DEF RowsOf, WithoutRun, WithoutThread, WithoutEvents, Over, Rerunning, Compensating
  <2>3. EndedStay
    BY <1>11, <2>1, UnderWay DEF EndedStay, InProgress, Compensating
  <2>4. ShownOf(q)'
    BY <1>2, <1>11, <2>1, <2>3 DEF Compensating
  <2>5. QED BY <1>0, <1>11, <2>2, <2>4, SharedRows DEF InProgress, Compensating, Over
\* A clean-up that deletes the thread.
<1>12. CASE \/ DeleteGraph(q, "delete graph", "failed")
            \/ DeleteGraph(q, "delete graph, then fail", "broken")
  <2>1. /\ \/ pc[q] = "delete graph" /\ pc'[q] = "failed"
           \/ pc[q] = "delete graph, then fail" /\ pc'[q] = "broken"
        /\ thread'[q] = "none"
        /\ UNCHANGED <<session, publication, run, created, seen>>
    BY <1>0, <1>12 DEF DeleteGraph
  <2>2. run[q] # "terminated"
    BY <2>1, UnderWay DEF InProgress, Compensating
  <2>3. RowsOf(q)'
    BY <1>0, <2>1, <2>2
    DEF RowsOf, WithoutRun, WithoutThread, WithoutEvents, Over, Rerunning, Compensating
  <2>4. ShownOf(q)'
    BY <1>2, <2>1 DEF EndedStay, Compensating
  <2>5. QED BY <1>0, <1>12, <2>3, <2>4, SharedRows DEF InProgress, Compensating, Over
<1>13. CASE \/ Fails(q, "read", "failed") \/ Fails(q, "rerun runtime", "failed")
            \/ Fails(q, "rerun graph", WithoutGraph)
            \/ Fails(q, "rerun control", "delete runtime")
  BY <1>9, <1>13 DEF Rerunning, Compensating, WithoutGraph, WithoutRun, WithoutThread
<1>14. CASE \/ Fails(q, "delete runtime only", "broken")
            \/ Fails(q, "delete runtime", "delete graph, then fail")
            \/ Fails(q, "delete graph", "broken")
            \/ Fails(q, "delete graph, then fail", "broken")
  BY <1>9, <1>14 DEF Compensating, WithoutRun, WithoutThread
<1>15. CASE CreateRerun(q)
  BY <1>1, <1>3, <1>4, <1>5, <1>6, <1>7, <1>10, <1>13, <1>15 DEF CreateRerun
<1>16. CASE CompensateRerun(q)
  BY <1>8, <1>10, <1>11, <1>12, <1>14, <1>16 DEF CompensateRerun
<1>17. QED BY <1>15, <1>16

LEMMA SurroundingsRows ==
  ASSUME RowsInv, Surroundings
  PROVE  RowsInv'
<1>0. TypeOK /\ TypeOK' /\ PublicationInv'
  BY SurroundingsTyped, SurroundingsStep DEF RowsInv, PublicationInv
<1>1. CASE \E q \in Requests : EndRun(q)
  <2>1. PICK q \in Requests : EndRun(q)
    BY <1>1
  <2>2. /\ Others(q) /\ UNCHANGED <<publication, created, pc, seen>>
        /\ session'.current = session.current
    BY <1>0, <2>1 DEF EndRun, TypeOK, Others, Sessions
  <2>3. /\ run[q] = "running" /\ run'[q] = "terminated" /\ thread'[q] = "terminated"
        /\ pc[q] \in Over /\ session.current = q
    BY <1>0, <2>1 DEF EndRun, TypeOK
  <2>4. pc[q] \in {"done", "broken", "dead"} /\ RowsOf(q) /\ ShownOf(q)
    BY <2>3 DEF RowsInv, RowsOf, ShownOf, WithoutRun, Over
  <2>5. RowsOf(q)'
    BY <2>2, <2>3, <2>4
    DEF RowsOf, WithoutRun, WithoutThread, WithoutEvents, Over, Rerunning, Compensating
  <2>6. ShownOf(q)'
    BY <2>2, <2>3, <2>4 DEF ShownOf, Rerunning, Compensating
  <2>7. EndedStay
    BY <2>2, <2>3 DEF Others, EndedStay
  <2>8. Turns(q)
    BY <2>2 DEF Turns
  <2>9. QED BY <1>0, <2>2, <2>5, <2>6, <2>7, <2>8, OtherRows DEF RowsInv
<1>2. CASE DeleteSession \/ AuditRemoval
  <2>1. /\ UNCHANGED <<publication, run, thread, created, pc, seen>>
        /\ session'.current = session.current
    <3>1. CASE DeleteSession BY <1>0, <3>1 DEF DeleteSession, TypeOK, Sessions
    <3>2. CASE AuditRemoval BY <1>0, <3>2 DEF AuditRemoval, TypeOK, Sessions
    <3>3. QED BY <1>2, <3>1, <3>2
  <2>2. ASSUME NEW p \in Requests
        PROVE  RowsOf(p)' /\ ShownOf(p)'
    <3>1. RowsOf(p) /\ ShownOf(p)
      BY DEF RowsInv
    <3>2. QED BY <2>1, <3>1 DEF RowsOf, ShownOf
  <2>3. QED BY <1>0, <2>2 DEF RowsInv
<1>3. CASE Crash
  <2>1. /\ UNCHANGED <<publication, run, thread, created, seen>>
        /\ session'.current = session.current
    BY <1>0, <1>3 DEF Crash, TypeOK, Sessions
  <2>2. ASSUME NEW p \in Requests
        PROVE  RowsOf(p)' /\ ShownOf(p)'
    <3>1. RowsOf(p) /\ ShownOf(p)
      BY DEF RowsInv
    <3>2. CASE pc[p] \in InProgress
      <4>1. pc'[p] = "dead"
        BY <1>0, <1>3, <3>2 DEF Crash, TypeOK
      <4>2. run[p] # "terminated"
        BY <3>2, UnderWay DEF RowsInv
      <4>3. RowsOf(p)'
        BY <2>1, <4>1, <4>2
        DEF RowsOf, WithoutRun, WithoutThread, WithoutEvents, Rerunning, Compensating
      <4>4. ShownOf(p)'
        BY <2>1, <3>1, <4>1 DEF ShownOf, Rerunning, Compensating
      <4>5. QED BY <4>3, <4>4
    <3>3. CASE pc[p] \notin InProgress
      <4>1. pc'[p] = pc[p]
        BY <1>0, <1>3, <3>3 DEF Crash, TypeOK
      <4>2. QED BY <2>1, <3>1, <4>1 DEF RowsOf, ShownOf
    <3>4. QED BY <3>2, <3>3
  <2>3. QED BY <1>0, <2>2 DEF RowsInv
<1>4. QED BY <1>1, <1>2, <1>3 DEF Surroundings

LEMMA RowsStep == RowsInv /\ [Next]_vars => RowsInv'
<1> SUFFICES ASSUME RowsInv, [Next]_vars PROVE RowsInv'
  OBVIOUS
<1>1. CASE UNCHANGED vars
  <2>1. PublicationInv'
    BY <1>1, PublicationStep DEF RowsInv
  <2>2. QED BY <1>1, <2>1 DEF vars, RowsInv, RowsOf, ShownOf
<1>2. QED BY <1>1, StartRows, RerunRows, SurroundingsRows DEF Next, Surroundings

LEMMA RowsAlways == Spec => []RowsInv
  BY RowsInit, RowsStep, PTL DEF Spec

\* A session that shows a rerun has its run and its thread, whatever fails.
THEOREM RerunIsWhole == Spec => []RerunWhole
<1>1. RowsInv => RerunWhole
  BY DEF RowsInv, ShownOf, RerunWhole
<1>2. QED BY <1>1, RowsAlways, PTL

\* A command that failed and cleaned up has left nothing in any of the four files.
THEOREM FailureIsClean == Spec => []FailedLeavesNothing
<1>1. RowsInv => FailedLeavesNothing
  BY DEF RowsInv, RowsOf, ShownOf, FailedLeavesNothing, WithoutRun, WithoutThread,
         WithoutEvents
<1>2. QED BY <1>1, RowsAlways, PTL
=============================================================================
