--------------------------- MODULE ProjectRemoval ----------------------------
(***************************************************************************)
(* A project is removed while its sessions are started, rerun, created and *)
(* removed by other requests:                                              *)
(*   services/projects.py, services/sessions.py,                           *)
(*   services/publication_boundary.py, services/runs.py                    *)
(*                                                                         *)
(* What is visible is in the control database, what runs in the runtime    *)
(* database, and a transaction spans one of them.  The removal reads the   *)
(* runs behind a barrier, the write lock of the runtime database, and      *)
(* hides the sessions only as it had read them.                            *)
(*                                                                         *)
(* Rows of other projects are left out.  updated_at is taken to move with  *)
(* a session's status: an edit of its name or template only makes a hiding *)
(* miss the row, as any other change does.  Bound: MaxRequests requests.   *)
(***************************************************************************)
EXTENDS Naturals, FiniteSets

CONSTANTS Sessions,     \* the ids sessions of the project can take
          Threads,      \* requests served at once
          Nobody,
          MaxRequests

ASSUME NobodyAssumption == Nobody \notin Threads

VARIABLES
  visible,      \* control: is the project listed
  sessions,     \* control: id -> [visible, status, run]
  pending,      \* control: sessions with a pending startup publication
  active,       \* runtime: the runs that are not over
  writer,       \* who holds the write lock of the runtime database
  control,      \* who holds the write lock of the control database
  requests,     \* thread -> what its request is at and has read
  begun         \* requests so far; a run has the number of its request

vars == <<visible, sessions, pending, active, writer, control, requests, begun>>

Idle == [at |-> "idle"]
Born(s) == sessions[s].status # "unborn"
Visible == {s \in Sessions : sessions[s].visible}

Begin(t, request) ==
    /\ requests[t] = Idle /\ begun < MaxRequests
    /\ requests' = [requests EXCEPT ![t] = request]
    /\ begun' = begun + 1

Goto(t, request) == requests' = [requests EXCEPT ![t] = request] /\ UNCHANGED begun
End(t) == Goto(t, Idle)

Free(lock) == lock = Nobody
Drop(lock, t) == IF lock = t THEN Nobody ELSE lock

-----------------------------------------------------------------------------
(* The first run of a session: claimed, staged, published or taken back    *)

ClaimStart(t) ==
    /\ \E s \in Visible \ pending :
          /\ sessions[s].status = "draft"
          /\ pending' = pending \cup {s}
          /\ Begin(t, [at |-> "start", of |-> s, run |-> begun + 1])
    /\ Free(control)
    /\ UNCHANGED <<visible, sessions, active, writer, control>>

\* Rows flushed to the runtime database hold its write lock until they are committed.
StageRun(t) ==
    /\ requests[t].at \in {"start", "rerun"}
    /\ Free(writer) /\ writer' = t
    /\ Goto(t, [requests[t] EXCEPT !.at = IF @ = "start" THEN "staged start" ELSE "staged rerun"])
    /\ UNCHANGED <<visible, sessions, pending, active, control>>

CommitRun(t) ==
    /\ requests[t].at \in {"staged start", "staged rerun"}
    /\ active' = active \cup {requests[t].run}
    /\ writer' = Nobody
    /\ Goto(t, [requests[t] EXCEPT !.at = IF @ = "staged start" THEN "publish" ELSE "show"])
    /\ UNCHANGED <<visible, sessions, pending, control>>

\* The session points to the run, whether it is still in sight or not.
Shown(s, status, run) == [sessions EXCEPT ![s].status = status, ![s].run = run]

PublishRun(t) ==
    /\ requests[t].at = "publish"
    /\ Free(control)
    /\ sessions[requests[t].of].visible
    /\ sessions' = Shown(requests[t].of, "running", requests[t].run)
    /\ pending' = pending \ {requests[t].of}
    /\ End(t)
    /\ UNCHANGED <<visible, active, writer, control>>

\* The runtime rows go first, the publication after them.
AbortRuntime(t) ==
    /\ requests[t].at \in {"start", "staged start", "publish"}
    /\ writer \in {Nobody, t} /\ writer' = Nobody
    /\ active' = active \ {requests[t].run}
    /\ Goto(t, [requests[t] EXCEPT !.at = "abort"])
    /\ UNCHANGED <<visible, sessions, pending, control>>

AbortControl(t) ==
    /\ requests[t].at = "abort"
    /\ Free(control)
    /\ pending' = pending \ {requests[t].of}
    /\ End(t)
    /\ UNCHANGED <<visible, sessions, active, writer, control>>

-----------------------------------------------------------------------------
(* A rerun: read, staged, shown; its UPDATE of the session has no condition *)

ReadTail(t) ==
    /\ \E s \in Visible :
          /\ sessions[s].status = "ended" /\ sessions[s].run \notin active
          /\ Begin(t, [at |-> "rerun", of |-> s, run |-> begun + 1, was |-> sessions[s].run])
    /\ UNCHANGED <<visible, sessions, pending, active, writer, control>>

ShowRerun(t) ==
    /\ requests[t].at = "show"
    /\ Free(control)
    /\ sessions' = Shown(requests[t].of, "running", requests[t].run)
    /\ Goto(t, [requests[t] EXCEPT !.at = "shown"])
    /\ UNCHANGED <<visible, pending, active, writer, control>>

\* The events are committed last: with them the rerun stands, without them the
\* session is put back as it was read, and then the run is deleted.
CommitRerunEvents(t) ==
    /\ requests[t].at = "shown"
    /\ \/ End(t) /\ UNCHANGED sessions
       \/ /\ Free(control)
          /\ sessions' = Shown(requests[t].of, "ended", requests[t].was)
          /\ Goto(t, [requests[t] EXCEPT !.at = "undo"])
    /\ UNCHANGED <<visible, pending, active, writer, control>>

FailRerun(t) ==
    /\ requests[t].at \in {"rerun", "staged rerun", "show", "undo"}
    /\ requests[t].run \in active => Free(writer)
    /\ writer' = Drop(writer, t)
    /\ active' = active \ {requests[t].run}
    /\ End(t)
    /\ UNCHANGED <<visible, sessions, pending, control>>

EndRun(s) ==
    /\ sessions[s].status = "running" /\ sessions[s].run \in active
    /\ Free(writer) /\ Free(control)
    /\ active' = active \ {sessions[s].run}
    /\ sessions' = Shown(s, "ended", sessions[s].run)
    /\ UNCHANGED <<visible, pending, writer, control, requests, begun>>

-----------------------------------------------------------------------------
(* Sessions and projects come and go                                       *)

ReadProject(t) ==
    /\ visible
    /\ Begin(t, [at |-> "create"])
    /\ UNCHANGED <<visible, sessions, pending, active, writer, control>>

CreateSession(t) ==
    /\ requests[t].at = "create"
    /\ Free(control)
    /\ \E s \in Sessions :
          /\ ~Born(s)
          /\ sessions' = [sessions EXCEPT ![s] = [visible |-> TRUE, status |-> "draft", run |-> 0]]
    /\ End(t)
    /\ UNCHANGED <<visible, pending, active, writer, control>>

\* The project comes back, its hidden sessions do not.
LoadProject(t) ==
    /\ Begin(t, Idle)
    /\ Free(control)
    /\ visible' = TRUE
    /\ UNCHANGED <<sessions, pending, active, writer, control>>

ReadSession(t) ==
    /\ \E s \in Visible \ pending :
          /\ sessions[s].run \notin active
          /\ Begin(t, [at |-> "delete", of |-> s, was |-> sessions[s]])
    /\ UNCHANGED <<visible, sessions, pending, active, writer, control>>

\* Hidden only as it was read; otherwise it is read again, once.
DeleteSession(t) ==
    /\ requests[t].at = "delete"
    /\ Free(control)
    /\ LET s == requests[t].of
       IN  IF sessions[s] = requests[t].was /\ s \notin pending
           THEN /\ sessions' = [sessions EXCEPT ![s].visible = FALSE]
                /\ Goto(t, [at |-> "audit delete", of |-> s])
           ELSE UNCHANGED sessions /\ End(t)
    /\ UNCHANGED <<visible, pending, active, writer, control>>

AuditDelete(t) ==
    /\ requests[t].at = "audit delete"
    /\ \/ UNCHANGED sessions
       \/ Free(control) /\ sessions' = [sessions EXCEPT ![requests[t].of].visible = TRUE]
    /\ End(t)
    /\ UNCHANGED <<visible, pending, active, writer, control>>

-----------------------------------------------------------------------------
(* remove_project                                                          *)

CheckedSessions == [s \in Visible |-> sessions[s]]

\* A first startup that is pending, or any run of the project that is not over.
Blocking(checked) == DOMAIN checked \cap pending # {} \/ active # {}

AssertRemovable(t) ==
    /\ visible
    /\ Begin(t, [at |-> "remove", checked |-> CheckedSessions, again |-> TRUE])
    /\ UNCHANGED <<visible, sessions, pending, active, writer, control>>

\* Mutation: nothing keeps the runs from starting while they are looked at.
NoBarrier(t) == UNCHANGED writer

Barrier(t) == Free(writer) /\ writer' = t

\* BEGIN IMMEDIATE on the runtime database, and the first look.
RuntimeRemoveBarrier(t) ==
    /\ requests[t].at = "remove"
    /\ \/ /\ Barrier(t) /\ ~Blocking(requests[t].checked)
          /\ Goto(t, [requests[t] EXCEPT !.at = "barred"])
       \/ End(t) /\ UNCHANGED writer      \* blocked, or the lock is not free in time
    /\ UNCHANGED <<visible, sessions, pending, active, control>>

\* Every session read is still as it was, and none has been added.
AsChecked(checked) ==
    /\ \A s \in DOMAIN checked : sessions[s] = checked[s] /\ s \notin pending
    /\ Visible \subseteq DOMAIN checked
    /\ visible

\* The conditional updates, not committed yet.
HideProjectSessions(t) ==
    /\ requests[t].at = "barred"
    /\ Free(control)
    /\ AsChecked(requests[t].checked)
    /\ control' = t
    /\ Goto(t, [requests[t] EXCEPT !.at = "hidden"])
    /\ UNCHANGED <<visible, sessions, pending, active, writer>>

\* An update missed a row: everything is read again, and tried once more.
GuardLost(t) ==
    /\ requests[t].at = "barred"
    /\ Free(control)
    /\ ~AsChecked(requests[t].checked)
    /\ IF visible /\ ~Blocking(CheckedSessions) /\ requests[t].again
       THEN /\ Goto(t, [at |-> "barred", checked |-> CheckedSessions, again |-> FALSE])
            /\ UNCHANGED writer
       ELSE End(t) /\ writer' = Drop(writer, t)
    /\ UNCHANGED <<visible, sessions, pending, active, control>>

\* The second look, with the updates flushed: committed, or rolled back.
LookAgain(t) ==
    /\ requests[t].at = "hidden"
    /\ IF Blocking(requests[t].checked)
       THEN End(t) /\ writer' = Drop(writer, t) /\ control' = Nobody
       ELSE Goto(t, [requests[t] EXCEPT !.at = "commit"]) /\ UNCHANGED <<writer, control>>
    /\ UNCHANGED <<visible, sessions, pending, active>>

SoftRemove(t) ==
    /\ requests[t].at = "commit"
    /\ visible' = FALSE
    /\ sessions' = [s \in Sessions |-> IF s \in DOMAIN requests[t].checked
                                       THEN [sessions[s] EXCEPT !.visible = FALSE] ELSE sessions[s]]
    /\ control' = Nobody
    /\ Goto(t, [requests[t] EXCEPT !.at = "audit remove"])
    /\ UNCHANGED <<pending, active, writer>>

\* Without its audit record the removal is taken back, where it still stands.
AuditRemove(t) ==
    /\ requests[t].at = "audit remove"
    /\ \/ UNCHANGED <<visible, sessions>>
       \/ /\ Free(control)
          /\ visible' = TRUE
          /\ sessions' = [s \in Sessions |-> IF s \in DOMAIN requests[t].checked
                                             THEN [sessions[s] EXCEPT !.visible = TRUE] ELSE sessions[s]]
    /\ writer' = Drop(writer, t)
    /\ End(t)
    /\ UNCHANGED <<pending, active, control>>

Crash ==
    /\ requests' = [t \in Threads |-> Idle]
    /\ writer' = Nobody /\ control' = Nobody
    /\ UNCHANGED <<visible, sessions, pending, active, begun>>

-----------------------------------------------------------------------------
Init ==
    /\ visible = TRUE
    /\ \E s \in Sessions :
          sessions = [i \in Sessions |-> [visible |-> i = s, run |-> 0,
                                          status |-> IF i = s THEN "draft" ELSE "unborn"]]
    /\ pending = {} /\ active = {}
    /\ writer = Nobody /\ control = Nobody
    /\ requests = [t \in Threads |-> Idle]
    /\ begun = 0

Run(t) ==
    \/ ClaimStart(t) \/ StageRun(t) \/ CommitRun(t) \/ PublishRun(t)
    \/ AbortRuntime(t) \/ AbortControl(t)
    \/ ReadTail(t) \/ ShowRerun(t) \/ CommitRerunEvents(t) \/ FailRerun(t)

Manage(t) ==
    \/ ReadProject(t) \/ CreateSession(t) \/ LoadProject(t)
    \/ ReadSession(t) \/ DeleteSession(t) \/ AuditDelete(t)

Remove(t) ==
    \/ AssertRemovable(t) \/ RuntimeRemoveBarrier(t) \/ HideProjectSessions(t)
    \/ GuardLost(t) \/ LookAgain(t) \/ SoftRemove(t) \/ AuditRemove(t)

Next ==
    \/ \E t \in Threads : Run(t) \/ Manage(t) \/ Remove(t)
    \/ \E s \in Sessions : EndRun(s)
    \/ Crash

Spec == Init /\ [][Next]_vars

-----------------------------------------------------------------------------
\* When a project is hidden nothing of it is going on in either database: no
\* run that is not over, no startup that is pending, and no session is left in
\* sight, whatever was begun between reading the sessions and hiding them
\* (services/projects.py:340-540).
RemovalSeesRuns ==
    [][visible /\ ~visible' =>
         /\ active = {} /\ pending = {}
         /\ \A s \in Sessions : ~sessions'[s].visible]_vars
=============================================================================
