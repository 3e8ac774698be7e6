---------------------------- MODULE DeliveryChannel ----------------------------
(***************************************************************************)
(* The delivery channel of a project, and the snapshot of it a run delivers by:*)
(*   services/delivery_channels.py    saving and validating the channel         *)
(*   services/delivery_snapshots.py   freezing it when the code review is approved*)
(*   services/approvals.py            the readiness check before that           *)
(*                                                                           *)
(* A request loads the channel's row, changes its copy and writes back only the *)
(* columns it changed (the unit of work of SQLAlchemy); SQLite keeps no lock    *)
(* between its SELECT and its UPDATE, so two requests may cross.  The status     *)
(* stands for readiness_status and credential_status, which the code always sets *)
(* together: ready/ready, unconfigured/unbound, invalid/invalid.                *)
(***************************************************************************)
EXTENDS Integers, SequencesExt

CONSTANTS
  Runs,           \* the runs of the project
  Repositories,   \* values of repository_identifier
  Credentials,    \* values of credential_ref, environment variables
  Requests,       \* the request threads
  Changes         \* bound: requests that start, and restarts

VARIABLES
  channel,        \* control.db: the project's delivery channel
  environment,    \* the environment: credential -> "set", "blank" or "absent"
  request,        \* thread -> what it has loaded and what it will write, or Quiet
  snapshot,       \* runtime.db: run -> its frozen channel, or NotFrozen
  phase,          \* runtime.db: run -> "review", "delivery" or "over"
  changes,        \* changes left
  checked,        \* history: the settings some validation found ready
  crossed         \* history: the channel's last writer had loaded an older row

channelVars == <<channel, environment, request, snapshot, phase, changes, checked, crossed>>

None == "none"
DefaultChannel == [mode |-> "demo", repository |-> None, credential |-> None, status |-> "ready"]

Settings(row) == <<row.repository, row.credential>>
Quiet == [kind |-> "none", loaded |-> DefaultChannel, row |-> DefaultChannel, stale |-> FALSE]
NotFrozen == [frozen |-> FALSE, channel |-> DefaultChannel, crossed |-> FALSE]

-----------------------------------------------------------------------------
(* Saving and validating.                                                    *)

ResolveCredential(c) ==
  CASE environment[c] = "absent" -> "unconfigured"
    [] environment[c] = "blank" -> "invalid"
    [] OTHER -> "ready"

(* Requests that cross may leave a git channel without one of its fields.        *)
ComputeReadiness(row) ==
  CASE row.mode = "demo" -> "ready"
    [] row.mode # "demo" /\ None \in {row.repository, row.credential} -> "unconfigured"
    [] OTHER -> ResolveCredential(row.credential)

(* The bodies a save is not refused for: a git channel comes with every field and a *)
(* credential reference the environment settings allow.                       *)
SavedDemo == DefaultChannel

(* Mutation: saving keeps what the last validation said.                       *)
StatusKept(row, repository, credential) ==
  [row EXCEPT !.mode = "git", !.repository = repository, !.credential = credential]

SavedGit(row, repository, credential) ==
  [mode |-> "git", repository |-> repository, credential |-> credential,
   status |-> "unconfigured"]

Validated(row) == [row EXCEPT !.status = ComputeReadiness(row)]

Load(q, kind, row) ==
  /\ request[q] = Quiet /\ changes > 0
  /\ request' = [request EXCEPT ![q] = [kind |-> kind, loaded |-> channel, row |-> row,
                                        stale |-> FALSE]]
  /\ changes' = changes - 1
  /\ UNCHANGED <<channel, environment, snapshot, phase, checked, crossed>>

UpdateChannel(q) ==
  \/ Load(q, "update", SavedDemo)
  \/ \E repository \in Repositories, credential \in Credentials :
       Load(q, "update", SavedGit(channel, repository, credential))

ValidateChannel(q) == Load(q, "validate", Validated(channel))

(* Only the columns that differ from the loaded row are in the UPDATE.          *)
Flushed(loaded, row) == [f \in DOMAIN row |-> IF row[f] = loaded[f] THEN channel[f] ELSE row[f]]

CommitChannel(q) ==
  LET mine == request[q] IN
  /\ mine # Quiet
  /\ channel' = Flushed(mine.loaded, mine.row)
  /\ request' = [p \in Requests |->
                   IF p = q \/ request[p] = Quiet THEN Quiet
                   ELSE [request[p] EXCEPT !.stale = TRUE]]
  /\ checked' = checked \union
                  (IF mine.kind = "validate" /\ mine.row.status = "ready"
                   THEN {Settings(mine.row)} ELSE {})
  /\ crossed' = mine.stale
  /\ UNCHANGED <<environment, snapshot, phase, changes>>

(* The audit record or the commit fails: the session rolls back.                *)
RollBackChannel(q) ==
  /\ request[q] # Quiet
  /\ request' = [request EXCEPT ![q] = Quiet]
  /\ UNCHANGED <<channel, environment, snapshot, phase, changes, checked, crossed>>

(* The process dies or is stopped, and is started again with another environment. *)
RestartChannel ==
  /\ changes > 0
  /\ environment' \in [Credentials -> {"set", "blank", "absent"}]
  /\ request' = [q \in Requests |-> Quiet]
  /\ changes' = changes - 1
  /\ UNCHANGED <<channel, snapshot, phase, checked, crossed>>

-----------------------------------------------------------------------------
(* Approving the code review freezes the channel as it is, once per run.       *)

ReadyToApprove == channel.mode = "git" => channel.status = "ready"

(* The approve command checks the readiness, takes the snapshot and moves the run on *)
(* in one transaction of runtime.db.                                           *)
PrepareDeliverySnapshot(r) ==
  /\ phase[r] = "review" /\ ~snapshot[r].frozen
  /\ ReadyToApprove
  /\ snapshot' = [snapshot EXCEPT ![r] = [frozen |-> TRUE, channel |-> channel,
                                          crossed |-> crossed]]
  /\ phase' = [phase EXCEPT ![r] = "delivery"]
  /\ UNCHANGED <<channel, environment, request, changes, checked, crossed>>

(* The run ends: terminated, failed, or completed after its delivery.           *)
EndRun(r) ==
  /\ phase[r] # "over"
  /\ phase' = [phase EXCEPT ![r] = "over"]
  /\ UNCHANGED <<channel, environment, request, snapshot, changes, checked, crossed>>

InitChannel ==
  /\ channel = DefaultChannel
  /\ environment \in [Credentials -> {"set", "blank", "absent"}]
  /\ request = [q \in Requests |-> Quiet]
  /\ snapshot = [r \in Runs |-> NotFrozen]
  /\ phase = [r \in Runs |-> "review"]
  /\ changes = Changes
  /\ checked = {}
  /\ crossed = FALSE

NextChannel ==
  \/ \E q \in Requests :
       UpdateChannel(q) \/ ValidateChannel(q) \/ CommitChannel(q) \/ RollBackChannel(q)
  \/ \E r \in Runs : PrepareDeliverySnapshot(r) \/ EndRun(r)

-----------------------------------------------------------------------------
(* A frozen git channel is ready, and some validation found exactly these settings  *)
(* ready, unless the requests that made the row crossed.                        *)
FrozenAsChecked ==
  \A r \in Runs :
    LET s == snapshot[r] IN
    s.frozen /\ s.channel.mode = "git" =>
      /\ s.channel.status = "ready"
      /\ s.crossed \/ Settings(s.channel) \in checked

=============================================================================
