------------------------ MODULE ProjectRemoval_proofs ------------------------
(***************************************************************************)
(* Theorems about ProjectRemoval, for any sessions and any threads:         *)
(*   RemovalTyped    Spec => []RemovalTypeOK                                *)
(*   RemovalSeesAll  Spec => RemovalSeesRuns                                *)
(* The inductive invariant says who holds the two write locks at which step *)
(* and what the removal that holds them has seen: behind the runtime lock no*)
(* run can be added, behind the control lock no session can change.         *)
(***************************************************************************)
EXTENDS ProjectRemoval, TLAPS

Row == [visible : BOOLEAN, status : {"unborn", "draft", "running", "ended"}, run : Nat]

\* Some of the sessions as a removal has read them.
Readings == UNION {[some -> Row] : some \in SUBSET Sessions}

Starts == [at : {"start", "staged start", "publish", "abort"}, of : Sessions, run : Nat]
Reruns == [at : {"rerun", "staged rerun", "show", "shown", "undo"}, of : Sessions, run : Nat,
           was : Nat]
Deletes == [at : {"delete"}, of : Sessions, was : Row]
Audits == [at : {"audit delete"}, of : Sessions]
Removals == [at : {"remove", "barred", "hidden", "commit", "audit remove"},
             checked : Readings, again : BOOLEAN]
Simple == [at : {"idle", "create"}]

RemovalTypeOK ==
  /\ visible \in BOOLEAN
  /\ sessions \in [Sessions -> Row]
  /\ pending \subseteq Sessions
  /\ active \subseteq Nat
  /\ writer \in Threads \union {Nobody}
  /\ control \in Threads \union {Nobody}
  /\ requests \in [Threads -> Simple \union Starts \union Reruns \union Deletes \union Audits
                                \union Removals]
  /\ begun \in Nat

\* A startup is pending on a session in sight only.
PendingInSight == \A s \in pending : sessions[s].visible

\* Who holds the write locks; a removal that holds both still finds the sessions as it
\* read them, and after its second look nothing blocks it.
Holds(t) ==
  /\ requests[t].at \in {"staged start", "staged rerun", "barred", "hidden", "commit"}
       => writer = t
  /\ requests[t].at \in {"hidden", "commit"} => control = t /\ AsChecked(requests[t].checked)
  /\ requests[t].at = "commit" => ~Blocking(requests[t].checked)

RemovalInv ==
  /\ RemovalTypeOK
  /\ PendingInSight
  /\ \A t \in Threads : Holds(t)

-----------------------------------------------------------------------------
(* Type correctness                                                         *)

\* The step a request is at says what it has read.
LEMMA Shapes ==
  ASSUME RemovalTypeOK, NEW t \in Threads
  PROVE  /\ requests[t].at \in {"start", "staged start", "publish", "abort"}
              => requests[t] \in Starts
         /\ requests[t].at \in {"rerun", "staged rerun", "show", "shown", "undo"}
              => requests[t] \in Reruns
         /\ requests[t].at = "delete" => requests[t] \in Deletes
         /\ requests[t].at = "audit delete" => requests[t] \in Audits
         /\ requests[t].at \in {"remove", "barred", "hidden", "commit", "audit remove"}
              => requests[t] \in Removals
<1>1. requests[t] \in Simple \union Starts \union Reruns \union Deletes \union Audits
                        \union Removals
  BY DEF RemovalTypeOK
<1>2. QED BY <1>1 DEF Simple, Starts, Reruns, Deletes, Audits, Removals

\* Some sessions, each with its row, are a reading.
LEMMA ReadingTyped ==
  ASSUME RemovalTypeOK
  PROVE  CheckedSessions \in Readings
<1>1. Visible \in SUBSET Sessions
  BY DEF Visible
<1>2. CheckedSessions \in [Visible -> Row]
  BY <1>1 DEF CheckedSessions, RemovalTypeOK
<1>3. QED BY <1>1, <1>2 DEF Readings

\* A request that goes on to a typed step keeps the requests typed.
LEMMA GotoTyped ==
  ASSUME RemovalTypeOK, NEW t \in Threads,
         NEW r \in Simple \union Starts \union Reruns \union Deletes \union Audits
                     \union Removals,
         Goto(t, r) \/ Begin(t, r)
  PROVE  /\ requests' \in [Threads -> Simple \union Starts \union Reruns \union Deletes
                                        \union Audits \union Removals]
         /\ begun' \in Nat
         /\ requests'[t] = r
         /\ \A u \in Threads \ {t} : requests'[u] = requests[u]
BY DEF RemovalTypeOK, Goto, Begin

\* A session that shows a run is a row.
LEMMA ShownTyped ==
  ASSUME RemovalTypeOK, NEW s \in Sessions, NEW status \in {"draft", "running", "ended"},
         NEW run \in Nat
  PROVE  /\ Shown(s, status, run) \in [Sessions -> Row]
         /\ \A x \in Sessions : Shown(s, status, run)[x].visible = sessions[x].visible
BY DEF RemovalTypeOK, Shown, Row

LEMMA RunTyped ==
  ASSUME RemovalTypeOK, NEW t \in Threads, Run(t)
  PROVE  RemovalTypeOK'
<1>0. begun + 1 \in Nat
  BY DEF RemovalTypeOK
<1>1. CASE ClaimStart(t)
  <2>1. PICK s \in Visible \ pending :
          /\ pending' = pending \union {s}
          /\ Begin(t, [at |-> "start", of |-> s, run |-> begun + 1])
    BY <1>1 DEF ClaimStart
  <2>2. [at |-> "start", of |-> s, run |-> begun + 1] \in Starts
    BY <1>0 DEF Visible, Starts
  <2>3. s \in Sessions
    BY DEF Visible
  <2>4. QED BY <1>1, <2>1, <2>2, <2>3, GotoTyped DEF ClaimStart, RemovalTypeOK
<1>2. CASE StageRun(t)
  <2>1. [requests[t] EXCEPT !.at = IF @ = "start" THEN "staged start" ELSE "staged rerun"]
          \in Starts \union Reruns
    BY <1>2, Shapes DEF StageRun, Starts, Reruns
  <2>2. QED BY <1>2, <2>1, GotoTyped DEF StageRun, RemovalTypeOK
<1>3. CASE CommitRun(t)
  <2>1. [requests[t] EXCEPT !.at = IF @ = "staged start" THEN "publish" ELSE "show"]
          \in Starts \union Reruns
    BY <1>3, Shapes DEF CommitRun, Starts, Reruns
  <2>2. requests[t].run \in Nat
    BY <1>3, Shapes DEF CommitRun, Starts, Reruns
  <2>3. QED BY <1>3, <2>1, <2>2, GotoTyped DEF CommitRun, RemovalTypeOK
<1>4. CASE PublishRun(t)
  <2>1. requests[t].of \in Sessions /\ requests[t].run \in Nat
    BY <1>4, Shapes DEF PublishRun, Starts
  <2>2. Idle \in Simple
    BY DEF Idle, Simple
  <2>3. QED
    BY <1>4, <2>1, <2>2, GotoTyped, ShownTyped DEF PublishRun, End, RemovalTypeOK
<1>5. CASE AbortRuntime(t)
  <2>1. [requests[t] EXCEPT !.at = "abort"] \in Starts
    BY <1>5, Shapes DEF AbortRuntime, Starts
  <2>2. QED BY <1>5, <2>1, GotoTyped DEF AbortRuntime, RemovalTypeOK
<1>6. CASE AbortControl(t)
  <2>1. Idle \in Simple
    BY DEF Idle, Simple
  <2>2. QED BY <1>6, <2>1, GotoTyped DEF AbortControl, End, RemovalTypeOK
<1>7. CASE ReadTail(t)
  <2>1. PICK s \in Visible :
          Begin(t, [at |-> "rerun", of |-> s, run |-> begun + 1, was |-> sessions[s].run])
    BY <1>7 DEF ReadTail
  <2>2. s \in Sessions /\ sessions[s].run \in Nat
    BY DEF Visible, RemovalTypeOK, Row
  <2>3. [at |-> "rerun", of |-> s, run |-> begun + 1, was |-> sessions[s].run] \in Reruns
    BY <1>0, <2>2 DEF Reruns
  <2>4. QED BY <1>7, <2>1, <2>3, GotoTyped DEF ReadTail, RemovalTypeOK
<1>8. CASE ShowRerun(t)
  <2>1. requests[t] \in Reruns
    BY <1>8, Shapes DEF ShowRerun
  <2>2. /\ requests[t].of \in Sessions /\ requests[t].run \in Nat
        /\ [requests[t] EXCEPT !.at = "shown"] \in Reruns
    BY <2>1 DEF Reruns
  <2>3. QED BY <1>8, <2>2, GotoTyped, ShownTyped DEF ShowRerun, RemovalTypeOK
<1>9. CASE CommitRerunEvents(t)
  <2>1. requests[t] \in Reruns
    BY <1>9, Shapes DEF CommitRerunEvents
  <2>2. /\ requests[t].of \in Sessions /\ requests[t].was \in Nat
        /\ [requests[t] EXCEPT !.at = "undo"] \in Reruns /\ Idle \in Simple
    BY <2>1 DEF Reruns, Idle, Simple
  <2>3. QED
    BY <1>9, <2>2, GotoTyped, ShownTyped DEF CommitRerunEvents, End, RemovalTypeOK
<1>10. CASE FailRerun(t)
  <2>1. Idle \in Simple
    BY DEF Idle, Simple
  <2>2. QED BY <1>10, <2>1, GotoTyped DEF FailRerun, End, Drop, RemovalTypeOK
<1>11. QED
  BY <1>1, <1>2, <1>3, <1>4, <1>5, <1>6, <1>7, <1>8, <1>9, <1>10 DEF Run

LEMMA ManageTyped ==
  ASSUME RemovalTypeOK, NEW t \in Threads, Manage(t)
  PROVE  RemovalTypeOK'
<1>0. Idle \in Simple /\ [at |-> "create"] \in Simple
  BY DEF Idle, Simple
<1>1. CASE ReadProject(t)
  BY <1>0, <1>1, GotoTyped DEF ReadProject, RemovalTypeOK
<1>2. CASE CreateSession(t)
  <2>1. sessions' \in [Sessions -> Row]
    BY <1>2 DEF CreateSession, RemovalTypeOK, Row
  <2>2. QED BY <1>0, <1>2, <2>1, GotoTyped DEF CreateSession, End, RemovalTypeOK
<1>3. CASE LoadProject(t)
  BY <1>0, <1>3, GotoTyped DEF LoadProject, RemovalTypeOK
<1>4. CASE ReadSession(t)
  <2>1. PICK s \in Visible : Begin(t, [at |-> "delete", of |-> s, was |-> sessions[s]])
    BY <1>4 DEF ReadSession
  <2>2. [at |-> "delete", of |-> s, was |-> sessions[s]] \in Deletes
    BY DEF Visible, RemovalTypeOK, Deletes
  <2>3. QED BY <1>4, <2>1, <2>2, GotoTyped DEF ReadSession, RemovalTypeOK
<1>5. CASE DeleteSession(t)
  <2>1. requests[t].of \in Sessions
    BY <1>5, Shapes DEF DeleteSession, Deletes
  <2>2. [at |-> "audit delete", of |-> requests[t].of] \in Audits
    BY <2>1 DEF Audits
  <2>3. sessions' \in [Sessions -> Row]
    BY <1>5, <2>1 DEF DeleteSession, RemovalTypeOK, Row
  <2>4. Goto(t, [at |-> "audit delete", of |-> requests[t].of]) \/ Goto(t, Idle)
    BY <1>5 DEF DeleteSession, End
  <2>5. QED BY <1>0, <1>5, <2>2, <2>3, <2>4, GotoTyped DEF DeleteSession, RemovalTypeOK
<1>6. CASE AuditDelete(t)
  <2>1. sessions' \in [Sessions -> Row]
    BY <1>6 DEF AuditDelete, RemovalTypeOK, Row
  <2>2. QED BY <1>0, <1>6, <2>1, GotoTyped DEF AuditDelete, End, RemovalTypeOK
<1>7. QED BY <1>1, <1>2, <1>3, <1>4, <1>5, <1>6 DEF Manage

LEMMA RemoveTyped ==
  ASSUME RemovalTypeOK, NEW t \in Threads, Remove(t)
  PROVE  RemovalTypeOK'
<1>0. Idle \in Simple
  BY DEF Idle, Simple
<1>1. ASSUME NEW at \in {"barred", "hidden", "commit", "audit remove"},
             requests[t] \in Removals
      PROVE  [requests[t] EXCEPT !.at = at] \in Removals
  BY <1>1 DEF Removals
<1>2. CASE AssertRemovable(t)
  <2>1. [at |-> "remove", checked |-> CheckedSessions, again |-> TRUE] \in Removals
    BY ReadingTyped DEF Removals
  <2>2. QED BY <1>2, <2>1, GotoTyped DEF AssertRemovable, RemovalTypeOK
<1>3. CASE RuntimeRemoveBarrier(t)
  <2>1. requests[t] \in Removals
    BY <1>3, Shapes DEF RuntimeRemoveBarrier
  <2>2. Goto(t, [requests[t] EXCEPT !.at = "barred"]) \/ Goto(t, Idle)
    BY <1>3 DEF RuntimeRemoveBarrier, End
  <2>3. writer' \in Threads \union {Nobody}
    BY <1>3 DEF RuntimeRemoveBarrier, Barrier, RemovalTypeOK
  <2>4. QED
    BY <1>0, <1>1, <1>3, <2>1, <2>2, <2>3, GotoTyped DEF RuntimeRemoveBarrier, RemovalTypeOK
<1>4. CASE HideProjectSessions(t)
  BY <1>1, <1>4, Shapes, GotoTyped DEF HideProjectSessions, RemovalTypeOK
<1>5. CASE GuardLost(t)
  <2>1. [at |-> "barred", checked |-> CheckedSessions, again |-> FALSE] \in Removals
    BY ReadingTyped DEF Removals
  <2>2. \/ Goto(t, [at |-> "barred", checked |-> CheckedSessions, again |-> FALSE])
        \/ Goto(t, Idle)
    BY <1>5 DEF GuardLost, End
  <2>3. writer' \in Threads \union {Nobody}
    BY <1>5 DEF GuardLost, Drop, RemovalTypeOK
  <2>4. QED BY <1>0, <1>5, <2>1, <2>2, <2>3, GotoTyped DEF GuardLost, RemovalTypeOK
<1>6. CASE LookAgain(t)
  <2>1. Goto(t, [requests[t] EXCEPT !.at = "commit"]) \/ Goto(t, Idle)
    BY <1>6 DEF LookAgain, End
  <2>2. requests[t] \in Removals
    BY <1>6, Shapes DEF LookAgain
  <2>3. writer' \in Threads \union {Nobody} /\ control' \in Threads \union {Nobody}
    BY <1>6 DEF LookAgain, Drop, RemovalTypeOK
  <2>4. QED BY <1>0, <1>1, <1>6, <2>1, <2>2, <2>3, GotoTyped DEF LookAgain, RemovalTypeOK
<1>7. CASE SoftRemove(t)
  <2>1. sessions' \in [Sessions -> Row]
    BY <1>7 DEF SoftRemove, RemovalTypeOK, Row
  <2>2. requests[t] \in Removals
    BY <1>7, Shapes DEF SoftRemove
  <2>3. QED BY <1>1, <1>7, <2>1, <2>2, GotoTyped DEF SoftRemove, RemovalTypeOK
<1>8. CASE AuditRemove(t)
  <2>1. sessions' \in [Sessions -> Row]
    BY <1>8 DEF AuditRemove, RemovalTypeOK, Row
  <2>2. QED
    BY <1>0, <1>8, <2>1, GotoTyped DEF AuditRemove, End, Drop, RemovalTypeOK
<1>9. QED BY <1>2, <1>3, <1>4, <1>5, <1>6, <1>7, <1>8 DEF Remove

LEMMA RemovalTypeStep == RemovalTypeOK /\ [Next]_vars => RemovalTypeOK'
<1> SUFFICES ASSUME RemovalTypeOK, [Next]_vars PROVE RemovalTypeOK'
  OBVIOUS
<1>1. CASE UNCHANGED vars BY <1>1 DEF vars, RemovalTypeOK
<1>2. ASSUME NEW s \in Sessions, EndRun(s) PROVE RemovalTypeOK'
  <2>1. sessions[s].run \in Nat
    BY DEF RemovalTypeOK, Row
  <2>2. QED BY <1>2, <2>1, ShownTyped DEF EndRun, RemovalTypeOK
<1>3. CASE Crash
  BY <1>3 DEF Crash, RemovalTypeOK, Idle, Simple
<1>4. QED BY <1>1, <1>2, <1>3, RunTyped, ManageTyped, RemoveTyped DEF Next

\* Every variable and what every request has read keep their types.
THEOREM RemovalTyped == Spec => []RemovalTypeOK
<1>1. Init => RemovalTypeOK
  BY DEF Init, RemovalTypeOK, Row, Idle, Simple
<1>2. QED BY <1>1, RemovalTypeStep, PTL DEF Spec

-----------------------------------------------------------------------------
(* The inductive invariant                                                  *)

\* A step of t respects the locks of the others: it adds no run while another holds the
\* runtime database, and changes nothing of the control database while another holds it.
Respects(t) ==
  /\ \A u \in Threads \ {t} : requests'[u] = requests[u]
  /\ writer \in Threads \ {t} => writer' = writer /\ active' \subseteq active
  /\ control \in Threads \ {t} =>
       control' = control /\ UNCHANGED <<visible, sessions, pending>>

LEMMA HoldsFrame ==
  ASSUME RemovalInv, NEW t \in Threads, Respects(t)
  PROVE  \A u \in Threads \ {t} : Holds(u)'
<1> TAKE u \in Threads \ {t}
<1>1. Holds(u) /\ requests'[u] = requests[u]
  BY DEF RemovalInv, Respects
<1>2. writer = u => writer' = u /\ active' \subseteq active
  BY DEF Respects
<1>3. control = u => control' = u /\ visible' = visible /\ sessions' = sessions
                       /\ pending' = pending
  BY DEF Respects
<1>4. AsChecked(requests[u].checked) /\ control = u => AsChecked(requests[u].checked)'
  BY <1>1, <1>3 DEF AsChecked, Visible
<1>5. ~Blocking(requests[u].checked) /\ control = u /\ writer = u
        => ~Blocking(requests[u].checked)'
  BY <1>1, <1>2, <1>3 DEF Blocking
<1>6. QED BY <1>1, <1>2, <1>3, <1>4, <1>5 DEF Holds

\* What a step has to show.
LEMMA RespectfulStep ==
  ASSUME RemovalInv, RemovalTypeOK', NEW t \in Threads, Respects(t), Holds(t)',
         PendingInSight'
  PROVE  RemovalInv'
BY HoldsFrame DEF RemovalInv

\* A request that is at none of the guarded steps holds nothing.
LEMMA HoldsNothing ==
  ASSUME NEW t \in Threads,
         requests'[t].at \notin {"staged start", "staged rerun", "barred", "hidden", "commit"}
  PROVE  Holds(t)'
BY DEF Holds

\* Where a request goes, and that the others stay.
LEMMA Moved ==
  ASSUME RemovalTypeOK, NEW t \in Threads, NEW r, Goto(t, r) \/ Begin(t, r)
  PROVE  requests'[t] = r /\ \A u \in Threads \ {t} : requests'[u] = requests[u]
BY DEF Goto, Begin, RemovalTypeOK

\* An answered request holds nothing.
LEMMA Ended ==
  ASSUME RemovalTypeOK, NEW t \in Threads, Goto(t, Idle) \/ Begin(t, Idle)
  PROVE  requests'[t].at = "idle" /\ Holds(t)'
<1>1. requests'[t] = Idle
  BY Moved
<1>2. requests'[t].at = "idle"
  BY <1>1 DEF Idle
<1>3. QED BY <1>2, HoldsNothing

LEMMA RunHolds ==
  ASSUME RemovalInv, NEW t \in Threads, Run(t)
  PROVE  RemovalInv'
<1>0. /\ RemovalTypeOK /\ RemovalTypeOK' /\ Holds(t) /\ PendingInSight
      /\ Nobody \notin Threads
  BY RunTyped, NobodyAssumption DEF RemovalInv
<1>a. ASSUME Respects(t), Holds(t)', PendingInSight' PROVE RemovalInv'
  BY <1>0, <1>a, RespectfulStep
<1>1. CASE ClaimStart(t)
  <2>1. PICK s \in Visible \ pending :
          /\ pending' = pending \union {s}
          /\ Begin(t, [at |-> "start", of |-> s, run |-> begun + 1])
    BY <1>1 DEF ClaimStart
  <2>2. Respects(t)
    BY <1>0, <1>1, Moved, <2>1 DEF ClaimStart, Respects, Free
  <2>3. Holds(t)'
    <3>1. requests'[t] = [at |-> "start", of |-> s, run |-> begun + 1]
      BY <1>0, Moved, <2>1
    <3>2. requests'[t].at = "start"
      BY <3>1
    <3>3. QED BY <3>2, HoldsNothing
  <2>4. PendingInSight'
    BY <1>0, <1>1, <2>1 DEF ClaimStart, PendingInSight, Visible
  <2>5. QED BY <1>a, <2>2, <2>3, <2>4
<1>2. CASE StageRun(t)
  <2>1. /\ Goto(t, [requests[t] EXCEPT !.at = IF @ = "start" THEN "staged start"
                                              ELSE "staged rerun"])
        /\ writer = Nobody /\ writer' = t
        /\ UNCHANGED <<visible, sessions, pending, active, control>>
    BY <1>2 DEF StageRun, Free
  <2>2. requests[t] \in Starts \union Reruns
    BY <1>0, <1>2, Shapes DEF StageRun
  <2>3. requests'[t].at \in {"staged start", "staged rerun"}
    <3>1. requests'[t] = [requests[t] EXCEPT !.at = IF @ = "start" THEN "staged start"
                                                    ELSE "staged rerun"]
      BY <1>0, Moved, <2>1
    <3>2. QED BY <2>2, <3>1 DEF Starts, Reruns
  <2>4. Respects(t)
    BY Moved, <1>0, <2>1 DEF Respects
  <2>5. Holds(t)'
    BY <2>1, <2>3 DEF Holds
  <2>6. QED BY <1>0, <1>a, <2>1, <2>4, <2>5 DEF PendingInSight
<1>3. CASE CommitRun(t)
  <2>1. /\ Goto(t, [requests[t] EXCEPT !.at = IF @ = "staged start" THEN "publish"
                                              ELSE "show"])
        /\ writer = t
        /\ UNCHANGED <<visible, sessions, pending, control>>
    BY <1>0, <1>3 DEF CommitRun, Holds
  <2>2. requests[t] \in Starts \union Reruns
    BY <1>0, <1>3, Shapes DEF CommitRun
  <2>3. requests'[t].at \in {"publish", "show"}
    <3>1. requests'[t] = [requests[t] EXCEPT !.at = IF @ = "staged start" THEN "publish"
                                                    ELSE "show"]
      BY <1>0, Moved, <2>1
    <3>2. QED BY <2>2, <3>1 DEF Starts, Reruns
  <2>4. Respects(t)
    BY Moved, <1>0, <2>1 DEF Respects
  <2>5. Holds(t)'
    BY <2>3, HoldsNothing
  <2>6. QED BY <1>0, <1>a, <2>1, <2>4, <2>5 DEF PendingInSight
<1>4. CASE PublishRun(t)
  <2>1. /\ Goto(t, Idle) /\ control = Nobody
        /\ sessions' = Shown(requests[t].of, "running", requests[t].run)
        /\ pending' = pending \ {requests[t].of}
        /\ UNCHANGED <<visible, active, writer, control>>
    BY <1>4 DEF PublishRun, End, Free
  <2>2. requests[t].of \in Sessions /\ requests[t].run \in Nat
    BY <1>0, <1>4, Shapes DEF PublishRun, Starts
  <2>3. Respects(t)
    BY Moved, <1>0, <2>1 DEF Respects
  <2>4. Holds(t)'
    BY Ended, <1>0, <2>1
  <2>5. \A x \in Sessions : sessions'[x].visible = sessions[x].visible
    BY <1>0, <2>1, <2>2, ShownTyped
  <2>6. PendingInSight'
    BY <1>0, <2>1, <2>5 DEF PendingInSight, RemovalTypeOK
  <2>7. QED BY <1>a, <2>3, <2>4, <2>6
<1>5. CASE AbortRuntime(t)
  <2>1. /\ Goto(t, [requests[t] EXCEPT !.at = "abort"])
        /\ writer \in {Nobody, t} /\ UNCHANGED <<visible, sessions, pending, control>>
    BY <1>5 DEF AbortRuntime
  <2>2. requests'[t].at = "abort"
    <3>1. requests'[t] = [requests[t] EXCEPT !.at = "abort"]
      BY <1>0, Moved, <2>1
    <3>2. requests[t] \in Starts
      BY <1>0, <1>5, Shapes DEF AbortRuntime
    <3>3. QED BY <3>1, <3>2 DEF Starts
  <2>3. Respects(t)
    BY Moved, <1>0, <2>1 DEF Respects
  <2>4. QED BY <1>0, <1>a, <2>1, <2>2, <2>3, HoldsNothing DEF PendingInSight
<1>6. CASE AbortControl(t)
  <2>1. /\ Goto(t, Idle) /\ control = Nobody /\ pending' \subseteq pending
        /\ UNCHANGED <<visible, sessions, active, writer, control>>
    BY <1>6 DEF AbortControl, End, Free
  <2>2. Respects(t)
    BY Moved, <1>0, <2>1 DEF Respects
  <2>3. PendingInSight'
    BY <1>0, <2>1 DEF PendingInSight
  <2>4. Holds(t)'
    BY Ended, <1>0, <2>1
  <2>5. QED BY <1>a, <2>2, <2>3, <2>4
<1>7. CASE ReadTail(t)
  <2>1. /\ \E s \in Visible :
             Begin(t, [at |-> "rerun", of |-> s, run |-> begun + 1, was |-> sessions[s].run])
        /\ UNCHANGED <<visible, sessions, pending, active, writer, control>>
    BY <1>7 DEF ReadTail
  <2>2. Respects(t) /\ requests'[t].at = "rerun"
    BY <1>0, Moved, <2>1 DEF Respects
  <2>3. QED BY <1>0, <1>a, <2>1, <2>2, HoldsNothing DEF PendingInSight
<1>8. CASE ShowRerun(t)
  <2>1. /\ Goto(t, [requests[t] EXCEPT !.at = "shown"]) /\ control = Nobody
        /\ sessions' = Shown(requests[t].of, "running", requests[t].run)
        /\ UNCHANGED <<visible, pending, active, writer, control>>
    BY <1>8 DEF ShowRerun, Free
  <2>2. requests[t] \in Reruns
    BY <1>0, <1>8, Shapes DEF ShowRerun
  <2>3. Respects(t) /\ requests'[t] = [requests[t] EXCEPT !.at = "shown"]
    BY Moved, <1>0, <2>1 DEF Respects
  <2>4. /\ requests'[t].at = "shown"
        /\ requests[t].of \in Sessions /\ requests[t].run \in Nat
    BY <2>2, <2>3 DEF Reruns
  <2>5. \A x \in Sessions : sessions'[x].visible = sessions[x].visible
    BY <1>0, <2>1, <2>4, ShownTyped
  <2>6. PendingInSight'
    BY <1>0, <2>1, <2>5 DEF PendingInSight, RemovalTypeOK
  <2>7. QED BY <1>a, <2>3, <2>4, <2>6, HoldsNothing
<1>9. CASE CommitRerunEvents(t)
  <2>1. requests[t] \in Reruns /\ UNCHANGED <<visible, pending, active, writer, control>>
    BY <1>0, <1>9, Shapes DEF CommitRerunEvents
  <2>2. \/ Goto(t, Idle) /\ UNCHANGED sessions
        \/ /\ control = Nobody
           /\ sessions' = Shown(requests[t].of, "ended", requests[t].was)
           /\ Goto(t, [requests[t] EXCEPT !.at = "undo"])
    BY <1>9 DEF CommitRerunEvents, End, Free
  <2>3. /\ requests'[t].at \in {"idle", "undo"}
        /\ requests[t].of \in Sessions /\ requests[t].was \in Nat
    <3>1. Goto(t, Idle) \/ requests'[t] = [requests[t] EXCEPT !.at = "undo"]
      BY <1>0, Moved, <2>2
    <3>2. QED BY Ended, <1>0, <2>1, <3>1 DEF Reruns
  <2>4. Respects(t)
    BY Moved, <1>0, <2>1, <2>2 DEF Respects
  <2>5. \A x \in Sessions : sessions'[x].visible = sessions[x].visible
    BY <1>0, <2>2, <2>3, ShownTyped
  <2>6. PendingInSight'
    BY <1>0, <2>1, <2>5 DEF PendingInSight, RemovalTypeOK
  <2>7. QED BY <1>a, <2>3, <2>4, <2>6, HoldsNothing
<1>10. CASE FailRerun(t)
  <2>1. /\ Goto(t, Idle) /\ writer' = Drop(writer, t) /\ active' \subseteq active
        /\ UNCHANGED <<visible, sessions, pending, control>>
    BY <1>10 DEF FailRerun, End
  <2>2. Respects(t)
    BY Moved, <1>0, <2>1 DEF Respects, Drop
  <2>3. Holds(t)'
    BY Ended, <1>0, <2>1
  <2>4. QED BY <1>0, <1>a, <2>1, <2>2, <2>3 DEF PendingInSight
<1>11. QED
  BY <1>1, <1>2, <1>3, <1>4, <1>5, <1>6, <1>7, <1>8, <1>9, <1>10 DEF Run

LEMMA ManageHolds ==
  ASSUME RemovalInv, NEW t \in Threads, Manage(t)
  PROVE  RemovalInv'
<1>0. /\ RemovalTypeOK /\ RemovalTypeOK' /\ Holds(t) /\ PendingInSight
      /\ Nobody \notin Threads
  BY ManageTyped, NobodyAssumption DEF RemovalInv
<1>a. ASSUME Respects(t), Holds(t)', PendingInSight' PROVE RemovalInv'
  BY <1>0, <1>a, RespectfulStep
<1>1. CASE ReadProject(t) \/ ReadSession(t)
  <2>1. UNCHANGED <<visible, sessions, pending, active, writer, control>>
    BY <1>1 DEF ReadProject, ReadSession
  <2>2. \/ Begin(t, [at |-> "create"])
        \/ \E s \in Visible : Begin(t, [at |-> "delete", of |-> s, was |-> sessions[s]])
    BY <1>1 DEF ReadProject, ReadSession
  <2>3. Respects(t)
    BY <1>0, <2>1, <2>2, Moved DEF Respects
  <2>4. \/ requests'[t] = [at |-> "create"]
        \/ \E s \in Visible : requests'[t] = [at |-> "delete", of |-> s, was |-> sessions[s]]
    BY <1>0, <2>2, Moved
  <2>5. requests'[t].at \in {"create", "delete"}
    <3>1. /\ [at |-> "create"].at = "create"
          /\ \A s : [at |-> "delete", of |-> s, was |-> sessions[s]].at = "delete"
      OBVIOUS
    <3>2. QED BY <2>4, <3>1
  <2>6. QED BY <1>0, <1>a, <2>1, <2>3, <2>5, HoldsNothing DEF PendingInSight
<1>2. CASE CreateSession(t)
  <2>1. /\ Goto(t, Idle) /\ control = Nobody
        /\ UNCHANGED <<visible, pending, active, writer, control>>
    BY <1>2 DEF CreateSession, End, Free
  <2>2. Respects(t) /\ Holds(t)'
    BY <1>0, <2>1, Moved, Ended DEF Respects
  <2>3. \A x \in Sessions : sessions[x].visible => sessions'[x].visible
    BY <1>0, <1>2 DEF CreateSession, RemovalTypeOK
  <2>4. PendingInSight'
    BY <1>0, <2>1, <2>3 DEF PendingInSight, RemovalTypeOK
  <2>5. QED BY <1>a, <2>2, <2>4
<1>3. CASE LoadProject(t)
  <2>1. /\ Begin(t, Idle) /\ control = Nobody
        /\ UNCHANGED <<sessions, pending, active, writer, control>>
    BY <1>3 DEF LoadProject, Free
  <2>2. Respects(t) /\ Holds(t)'
    BY <1>0, <2>1, Moved, Ended DEF Respects
  <2>3. QED BY <1>0, <1>a, <2>1, <2>2 DEF PendingInSight
<1>4. CASE DeleteSession(t)
  <2>1. /\ control = Nobody /\ UNCHANGED <<visible, pending, active, writer, control>>
        /\ \/ /\ requests[t].of \notin pending
              /\ sessions' = [sessions EXCEPT ![requests[t].of].visible = FALSE]
              /\ Goto(t, [at |-> "audit delete", of |-> requests[t].of])
           \/ UNCHANGED sessions /\ Goto(t, Idle)
    BY <1>4 DEF DeleteSession, End, Free
  <2>2. requests'[t] = [at |-> "audit delete", of |-> requests[t].of] \/ Goto(t, Idle)
    BY <1>0, <2>1, Moved
  <2>3. Holds(t)'
    <3>1. CASE requests'[t] = [at |-> "audit delete", of |-> requests[t].of]
      <4>1. [at |-> "audit delete", of |-> requests[t].of].at = "audit delete"
        OBVIOUS
      <4>2. QED BY <3>1, <4>1, HoldsNothing
    <3>2. CASE Goto(t, Idle)
      BY <1>0, <3>2, Ended
    <3>3. QED BY <2>2, <3>1, <3>2
  <2>4. Respects(t)
    BY <1>0, <2>1, Moved DEF Respects
  <2>5. PendingInSight'
    BY <1>0, <2>1 DEF PendingInSight, RemovalTypeOK
  <2>6. QED BY <1>a, <2>3, <2>4, <2>5
<1>5. CASE AuditDelete(t)
  <2>1. /\ Goto(t, Idle) /\ UNCHANGED <<visible, pending, active, writer, control>>
        /\ \/ UNCHANGED sessions
           \/ /\ control = Nobody
              /\ sessions' = [sessions EXCEPT ![requests[t].of].visible = TRUE]
    BY <1>5 DEF AuditDelete, End, Free
  <2>2. Respects(t) /\ Holds(t)'
    BY <1>0, <2>1, Moved, Ended DEF Respects
  <2>3. \A x \in Sessions : sessions[x].visible => sessions'[x].visible
    BY <1>0, <2>1 DEF RemovalTypeOK, Row
  <2>4. PendingInSight'
    BY <1>0, <2>1, <2>3 DEF PendingInSight, RemovalTypeOK
  <2>5. QED BY <1>a, <2>2, <2>4
<1>6. QED BY <1>1, <1>2, <1>3, <1>4, <1>5 DEF Manage

LEMMA RemoveHolds ==
  ASSUME RemovalInv, NEW t \in Threads, Remove(t)
  PROVE  RemovalInv'
<1>0. /\ RemovalTypeOK /\ RemovalTypeOK' /\ Holds(t) /\ PendingInSight
      /\ Nobody \notin Threads
  BY RemoveTyped, NobodyAssumption DEF RemovalInv
<1>a. ASSUME Respects(t), Holds(t)', PendingInSight' PROVE RemovalInv'
  BY <1>0, <1>a, RespectfulStep
\* A removal that goes on keeps what it has read.
<1>b. ASSUME NEW at \in {"barred", "hidden", "commit", "audit remove"},
             requests[t] \in Removals, Goto(t, [requests[t] EXCEPT !.at = at])
      PROVE  requests'[t].at = at /\ requests'[t].checked = requests[t].checked
  <2>1. requests'[t] = [requests[t] EXCEPT !.at = at]
    BY <1>0, <1>b, Moved
  <2>2. QED BY <1>b, <2>1 DEF Removals
<1>1. CASE AssertRemovable(t)
  <2>1. /\ Begin(t, [at |-> "remove", checked |-> CheckedSessions, again |-> TRUE])
        /\ UNCHANGED <<visible, sessions, pending, active, writer, control>>
    BY <1>1 DEF AssertRemovable
  <2>2. /\ requests'[t] = [at |-> "remove", checked |-> CheckedSessions, again |-> TRUE]
        /\ Respects(t)
    BY <1>0, <2>1, Moved DEF Respects
  <2>3. requests'[t].at = "remove"
    BY <2>2
  <2>4. QED BY <1>0, <1>a, <2>1, <2>2, <2>3, HoldsNothing DEF PendingInSight
<1>2. CASE RuntimeRemoveBarrier(t)
  <2>1. /\ requests[t] \in Removals
        /\ UNCHANGED <<visible, sessions, pending, active, control>>
    BY <1>0, <1>2, Shapes DEF RuntimeRemoveBarrier
  <2>2. \/ /\ writer = Nobody /\ writer' = t
           /\ Goto(t, [requests[t] EXCEPT !.at = "barred"])
        \/ Goto(t, Idle) /\ UNCHANGED writer
    BY <1>2 DEF RuntimeRemoveBarrier, Barrier, Free, End
  <2>3. Respects(t)
    BY <1>0, <2>1, <2>2, Moved DEF Respects
  <2>4. Holds(t)'
    BY <1>0, <1>b, <2>1, <2>2, Ended DEF Holds
  <2>5. QED BY <1>0, <1>a, <2>1, <2>3, <2>4 DEF PendingInSight
<1>3. CASE HideProjectSessions(t)
  <2>1. /\ requests[t] \in Removals /\ writer = t
        /\ UNCHANGED <<visible, sessions, pending, active, writer>>
    BY <1>0, <1>3, Shapes DEF HideProjectSessions, Holds
  <2>2. /\ control = Nobody /\ control' = t /\ AsChecked(requests[t].checked)
        /\ Goto(t, [requests[t] EXCEPT !.at = "hidden"])
    BY <1>3 DEF HideProjectSessions, Free
  <2>3. requests'[t].at = "hidden" /\ requests'[t].checked = requests[t].checked
    BY <1>b, <2>1, <2>2
  <2>4. AsChecked(requests[t].checked)'
    BY <2>1, <2>2, <2>3 DEF AsChecked, Visible
  <2>5. Holds(t)'
    BY <2>1, <2>2, <2>3, <2>4 DEF Holds
  <2>6. Respects(t)
    BY <1>0, <2>1, <2>2, Moved DEF Respects
  <2>7. QED BY <1>0, <1>a, <2>1, <2>5, <2>6 DEF PendingInSight
<1>4. CASE GuardLost(t)
  <2>1. writer = t /\ UNCHANGED <<visible, sessions, pending, active, control>>
    BY <1>0, <1>4 DEF GuardLost, Holds
  <2>2. \/ /\ Goto(t, [at |-> "barred", checked |-> CheckedSessions, again |-> FALSE])
           /\ UNCHANGED writer
        \/ Goto(t, Idle) /\ writer' = Nobody
    BY <1>4, <2>1 DEF GuardLost, End, Drop
  <2>3. Respects(t)
    BY <1>0, <2>1, <2>2, Moved DEF Respects
  <2>4. \/ /\ requests'[t] = [at |-> "barred", checked |-> CheckedSessions, again |-> FALSE]
           /\ writer' = t
        \/ Goto(t, Idle)
    BY <1>0, <2>1, <2>2, Moved
  <2>5. Holds(t)'
    <3>1. CASE requests'[t] = [at |-> "barred", checked |-> CheckedSessions,
                               again |-> FALSE] /\ writer' = t
      <4>1. requests'[t].at = "barred"
        BY <3>1
      <4>2. QED BY <3>1, <4>1 DEF Holds
    <3>2. CASE Goto(t, Idle)
      BY <1>0, <3>2, Ended
    <3>3. QED BY <2>4, <3>1, <3>2
  <2>6. QED BY <1>0, <1>a, <2>1, <2>3, <2>5 DEF PendingInSight
<1>5. CASE LookAgain(t)
  <2>1. /\ requests[t] \in Removals /\ writer = t /\ control = t
        /\ AsChecked(requests[t].checked)
        /\ UNCHANGED <<visible, sessions, pending, active>>
    BY <1>0, <1>5, Shapes DEF LookAgain, Holds
  <2>2. \/ Goto(t, Idle)
        \/ /\ Goto(t, [requests[t] EXCEPT !.at = "commit"]) /\ UNCHANGED <<writer, control>>
           /\ ~Blocking(requests[t].checked)
    BY <1>5 DEF LookAgain, End
  <2>3. Respects(t)
    BY <1>0, <2>1, <2>2, Moved DEF Respects
  <2>4. CASE Goto(t, Idle)
    BY <1>0, <1>a, <2>1, <2>3, <2>4, Ended DEF PendingInSight
  <2>5. CASE /\ Goto(t, [requests[t] EXCEPT !.at = "commit"]) /\ UNCHANGED <<writer, control>>
             /\ ~Blocking(requests[t].checked)
    <3>1. requests'[t].at = "commit" /\ requests'[t].checked = requests[t].checked
      BY <1>b, <2>1, <2>5
    <3>2. AsChecked(requests[t].checked)' /\ ~Blocking(requests[t].checked)'
      BY <2>1, <2>5, <3>1 DEF AsChecked, Visible, Blocking
    <3>3. Holds(t)'
      BY <2>1, <2>5, <3>1, <3>2 DEF Holds
    <3>4. QED BY <1>0, <1>a, <2>1, <2>3, <3>3 DEF PendingInSight
  <2>6. QED BY <2>2, <2>4, <2>5
<1>6. CASE SoftRemove(t)
  <2>1. /\ requests[t] \in Removals /\ control = t
        /\ ~Blocking(requests[t].checked)
        /\ UNCHANGED <<pending, active, writer>>
    BY <1>0, <1>6, Shapes DEF SoftRemove, Holds
  <2>2. /\ Goto(t, [requests[t] EXCEPT !.at = "audit remove"])
        /\ sessions' = [s \in Sessions |->
                          IF s \in DOMAIN requests[t].checked
                          THEN [sessions[s] EXCEPT !.visible = FALSE] ELSE sessions[s]]
    BY <1>6 DEF SoftRemove
  <2>3. Respects(t)
    BY <1>0, <2>1, <2>2, Moved DEF Respects
  <2>4. PendingInSight'
    BY <1>0, <2>1, <2>2 DEF PendingInSight, RemovalTypeOK, Blocking
  <2>5. QED BY <1>a, <1>b, <2>1, <2>2, <2>3, <2>4, HoldsNothing
<1>7. CASE AuditRemove(t)
  <2>1. /\ Goto(t, Idle) /\ writer' = Drop(writer, t) /\ UNCHANGED <<pending, active, control>>
        /\ \/ UNCHANGED <<visible, sessions>>
           \/ /\ control = Nobody
              /\ sessions' = [s \in Sessions |->
                                IF s \in DOMAIN requests[t].checked
                                THEN [sessions[s] EXCEPT !.visible = TRUE] ELSE sessions[s]]
    BY <1>7 DEF AuditRemove, End, Free
  <2>2. Respects(t) /\ Holds(t)'
    BY <1>0, <2>1, Moved, Ended DEF Respects, Drop
  <2>3. \A x \in Sessions : sessions[x].visible => sessions'[x].visible
    BY <1>0, <2>1 DEF RemovalTypeOK, Row
  <2>4. PendingInSight'
    BY <1>0, <2>1, <2>3 DEF PendingInSight, RemovalTypeOK
  <2>5. QED BY <1>a, <2>2, <2>4
<1>8. QED BY <1>1, <1>2, <1>3, <1>4, <1>5, <1>6, <1>7 DEF Remove

LEMMA RemovalStep == RemovalInv /\ [Next]_vars => RemovalInv'
<1> SUFFICES ASSUME RemovalInv, [Next]_vars PROVE RemovalInv'
  OBVIOUS
<1>0. RemovalTypeOK /\ RemovalTypeOK' /\ PendingInSight /\ Nobody \notin Threads
  BY RemovalTypeStep, NobodyAssumption DEF RemovalInv
<1>1. CASE UNCHANGED vars
  <2>1. \A t \in Threads : Holds(t)'
    BY <1>1 DEF vars, RemovalInv, Holds, AsChecked, Visible, Blocking
  <2>2. QED BY <1>0, <1>1, <2>1 DEF vars, RemovalInv, PendingInSight
<1>2. ASSUME NEW s \in Sessions, EndRun(s)
      PROVE  RemovalInv'
  <2>1. /\ writer = Nobody /\ control = Nobody
        /\ UNCHANGED <<visible, pending, writer, control, requests>>
        /\ sessions' = Shown(s, "ended", sessions[s].run)
    BY <1>2 DEF EndRun, Free
  <2>2. \A t \in Threads : requests[t].at
          \notin {"staged start", "staged rerun", "barred", "hidden", "commit"}
    BY <1>0, <2>1 DEF RemovalInv, Holds
  <2>3. \A t \in Threads : Holds(t)'
    BY <2>1, <2>2 DEF Holds
  <2>4. sessions[s].run \in Nat
    BY <1>0 DEF RemovalTypeOK, Row
  <2>5. \A x \in Sessions : sessions'[x].visible = sessions[x].visible
    BY <1>0, <2>1, <2>4, ShownTyped
  <2>6. PendingInSight'
    BY <1>0, <2>1, <2>5 DEF PendingInSight, RemovalTypeOK
  <2>7. QED BY <1>0, <2>3, <2>6 DEF RemovalInv
<1>3. CASE Crash
  <2>1. /\ \A t \in Threads : requests'[t] = Idle
        /\ UNCHANGED <<visible, sessions, pending, active>>
    BY <1>3 DEF Crash
  <2>2. Idle.at = "idle"
    BY DEF Idle
  <2>3. \A t \in Threads : Holds(t)'
    BY <2>1, <2>2 DEF Holds
  <2>4. QED BY <1>0, <2>1, <2>3 DEF RemovalInv, PendingInSight
<1>4. QED BY <1>1, <1>2, <1>3, RunHolds, ManageHolds, RemoveHolds DEF Next

LEMMA RemovalAlways == Spec => []RemovalInv
<1>1. Init => RemovalInv
  <2>1. Init => RemovalTypeOK
    BY DEF Init, RemovalTypeOK, Row, Idle, Simple
  <2>2. Idle.at = "idle"
    BY DEF Idle
  <2>3. Init => \A t \in Threads : Holds(t)
    BY <2>2 DEF Init, Holds
  <2>4. QED BY <2>1, <2>3 DEF Init, RemovalInv, PendingInSight
<1>2. QED BY <1>1, RemovalStep, PTL DEF Spec

-----------------------------------------------------------------------------
(* What follows                                                             *)

\* When a project is hidden, no run is active, no startup is pending and no session
\* stays in sight.
THEOREM RemovalSeesAll == Spec => RemovalSeesRuns
<1> DEFINE Seen == visible /\ ~visible' =>
                     /\ active = {} /\ pending = {}
                     /\ \A s \in Sessions : ~sessions'[s].visible
<1>1. RemovalInv /\ [Next]_vars => [Seen]_vars
  <2> SUFFICES ASSUME RemovalInv, Next, visible, ~visible' PROVE Seen
    OBVIOUS
  <2>1. PICK t \in Threads : SoftRemove(t)
    <3>1. visible' # visible
      OBVIOUS
    <3>2. \A t \in Threads : ~Run(t)
      BY <3>1
      DEF Run, ClaimStart, StageRun, CommitRun, PublishRun, AbortRuntime, AbortControl,
          ReadTail, ShowRerun, CommitRerunEvents, FailRerun
    <3>3. \A t \in Threads : ~Manage(t)
      BY <3>1
      DEF Manage, ReadProject, CreateSession, LoadProject, ReadSession, DeleteSession,
          AuditDelete
    <3>4. ~(\E s \in Sessions : EndRun(s)) /\ ~Crash
      BY <3>1 DEF EndRun, Crash
    <3>5. QED
      BY <3>1, <3>2, <3>3, <3>4
      DEF Next, Remove, AssertRemovable, RuntimeRemoveBarrier, HideProjectSessions, GuardLost,
          LookAgain, AuditRemove
  <2>2. /\ RemovalTypeOK /\ PendingInSight
        /\ AsChecked(requests[t].checked) /\ ~Blocking(requests[t].checked)
    BY <2>1 DEF RemovalInv, Holds, SoftRemove
  <2>3. active = {} /\ pending = {}
    BY <2>2 DEF AsChecked, Blocking, PendingInSight, Visible, RemovalTypeOK
  <2>4. \A s \in Sessions : ~sessions'[s].visible
    BY <2>1, <2>2 DEF SoftRemove, AsChecked, Visible, RemovalTypeOK, Row
  <2>5. QED BY <2>3, <2>4
<1>2. QED BY <1>1, RemovalAlways, PTL DEF Spec, RemovalSeesRuns
=============================================================================
