---------------------------- MODULE Configuration ----------------------------
(***************************************************************************)
(* The configuration a run is started from, and the commands that change   *)
(* it while somebody else starts one:                                      *)
(*   services/providers.py, services/templates.py,                         *)
(*   services/configuration_packages.py, services/runtime_settings.py,     *)
(*   repositories/runtime_settings.py, services/sessions.py (the selected  *)
(*   template, the first start), services/runs.py (what a run freezes),    *)
(*   domain/template_snapshot.py, domain/provider_snapshot.py,             *)
(*   domain/runtime_limit_snapshot.py.                                     *)
(*                                                                         *)
(* A request reads rows with no lock, decides, and writes later: each      *)
(* command is a step that reads and one that commits, and any other        *)
(* request may commit between the two.  A commit writes only the columns   *)
(* the request changed in the row it had read.  A start reads the most     *)
(* rows, each of them in a step of its own.                                *)
(*                                                                         *)
(* Bounds: MaxChanges requests in all; one session, whose runs are taken   *)
(* as ended when a rerun begins (RunLifecycle has the rest of them).       *)
(***************************************************************************)
EXTENDS Naturals, Sequences, FiniteSets

CONSTANTS Builtin,         \* the providers every installation has
          Custom,          \* the ids a user's providers can take
          Models,          \* the models a provider can list
          Order,           \* all the providers, oldest first
          DefaultBinding,  \* the auxiliary binding of an installation with no usable provider
          UserTemplates,   \* the ids a user's templates can take
          Threads,         \* requests served at once
          HardLimit,       \* the platform's bound on a limit
          ProviderBodies,  \* what a user may submit for a provider,
          TemplateBodies,  \* for a template,
          Updates,         \* for the runtime settings
          Packages,        \* and as an imported package
          MaxChanges,
          Unborn,          \* in place of a row: an id not given yet, a row not read yet,
          Deleted          \* a row deleted

VARIABLES providers,   \* provider id -> its row, Unborn or Deleted
          templates,   \* template id -> its row, Unborn or Deleted
          session,     \* the session's selected template, and whether it was started
          settings,    \* the runtime settings and their version
          run,         \* what the last run froze
          requests,    \* thread -> what its request has read and means to write
          changes,     \* requests begun
          since        \* thread -> what was configured while its start was at work; no action reads it

vars == <<providers, templates, session, settings, run, requests, changes, since>>

Providers == Builtin \cup Custom
System == "system"
TemplateIds == {System} \cup UserTemplates
None == "none"
Idle == [kind |-> "idle"]

ModelChoices == Providers \X Models
ProviderRows == [configured : BOOLEAN, enabled : BOOLEAN, default : Models, models : SUBSET Models]
TemplateRows == [stage : Providers, aux : ModelChoices, limit : Nat, base : TemplateIds \cup {None}]

ASSUME InstallationAssumption ==
    /\ Order \in Seq(Providers) /\ DefaultBinding \in ModelChoices /\ HardLimit \in Nat
    /\ System \notin UserTemplates

\* What the API's schemas let through.
ASSUME SubmittedAssumption ==
    /\ ProviderBodies \subseteq [enabled : BOOLEAN, default : Models, models : SUBSET Models]
    /\ TemplateBodies \subseteq [stage : Providers, aux : ModelChoices, limit : Nat]
    /\ \A update \in Updates :
          /\ DOMAIN update \subseteq {"limit", "internal"}
          /\ "limit" \in DOMAIN update => update.limit \in Nat
          /\ "internal" \in DOMAIN update => update.internal \in ModelChoices
    /\ \A package \in Packages :
          /\ DOMAIN package.providers \subseteq Providers
          /\ \A p \in DOMAIN package.providers :
                package.providers[p] \in [enabled : BOOLEAN, default : Models, models : SUBSET Models]
          /\ DOMAIN package.templates \subseteq TemplateIds
          /\ \A id \in DOMAIN package.templates :
                package.templates[id] \in [stage : Providers, aux : ModelChoices, limit : Nat]

\* A missing row is no row.
ASSUME NoRowAssumption == \A x \in {Unborn, Deleted} : x \notin ProviderRows /\ x \notin TemplateRows

Row(x) == x \notin {Unborn, Deleted}
Exists(p) == Row(providers[p])
UsableRow(row) == Row(row) /\ row.configured /\ row.enabled
Usable(p) == UsableRow(providers[p])

-----------------------------------------------------------------------------
(* What a write does to a row that may have changed since it was read      *)

\* Every column the request gave another value, and no other.
Flush(row, was, new) == [c \in DOMAIN row |-> IF new[c] # was[c] THEN new[c] ELSE row[c]]

\* A row that equals the one read is not written; one that was not there is inserted.
Saved(row, was, new) ==
    IF new = was THEN row ELSE IF Row(was) THEN Flush(row, was, new) ELSE new
Savable(row, was, new) == new = was \/ (Row(row) <=> Row(was))

\* Mutation: a deployment that leaves SQLite's foreign keys off.
NoForeignKeys(rows, selected) == TRUE

\* The foreign keys of the control database: a session's template, a template's base.
ForeignKeys(rows, selected) ==
    /\ Row(rows[selected])
    /\ \A t \in TemplateIds : Row(rows[t]) /\ rows[t].base # None => Row(rows[rows[t].base])

Begin(t, request) ==
    /\ requests[t] = Idle /\ changes < MaxChanges
    /\ requests' = [requests EXCEPT ![t] = request]
    /\ changes' = changes + 1

End(t) == requests' = [requests EXCEPT ![t] = Idle] /\ UNCHANGED changes

-----------------------------------------------------------------------------
(* Templates: the system template follows the first usable provider        *)

FirstUsable(rows) ==
    {i \in DOMAIN Order : UsableRow(rows[Order[i]]) /\ \A j \in 1..(i - 1) : ~UsableRow(rows[Order[j]])}

SystemBindings(rows) ==
    IF FirstUsable(rows) = {} THEN [stage |-> DefaultBinding[1], aux |-> DefaultBinding]
    ELSE LET p == Order[CHOOSE i \in FirstUsable(rows) : TRUE]
         IN  [stage |-> p, aux |-> <<p, rows[p].default>>]

Refresh(all, rows) == [all EXCEPT ![System].stage = SystemBindings(rows).stage,
                                  ![System].aux = SystemBindings(rows).aux]
Refreshed == Refresh(templates, providers)

ListTemplates ==
    /\ templates' = Refreshed
    /\ UNCHANGED <<providers, session, settings, run, requests, changes>>

ValidBindings(body) ==
    /\ Usable(body.stage) /\ Usable(body.aux[1])
    /\ body.aux[2] \in providers[body.aux[1]].models

SaveAsTemplate(t) ==
    /\ \E new \in UserTemplates, source \in TemplateIds \cup {None}, body \in TemplateBodies :
          /\ templates[new] = Unborn
          /\ \A u \in Threads : requests[u].kind = "save_as" => requests[u].id # new
          /\ source # None => Row(templates[source])
          /\ ValidBindings(body)
          /\ Begin(t, [kind |-> "save_as", id |-> new, base |-> source, body |-> body])
    /\ templates' = Refreshed
    /\ UNCHANGED <<providers, session, settings, run>>

PatchTemplate(t) ==
    /\ \E id \in UserTemplates, body \in TemplateBodies :
          /\ Row(templates[id]) /\ ValidBindings(body)
          /\ Begin(t, [kind |-> "patch_template", id |-> id, was |-> templates[id], body |-> body])
    /\ templates' = Refreshed
    /\ UNCHANGED <<providers, session, settings, run>>

\* Refused while another template is based on it or a started session selects it.
DeleteTemplate(t) ==
    /\ \E id \in UserTemplates :
          /\ Row(templates[id])
          /\ \A child \in TemplateIds : Row(templates[child]) => templates[child].base # id
          /\ ~(session.template = id /\ session.started)
          /\ Begin(t, [kind |-> "delete_template", id |-> id, moves |-> session.template = id])
    /\ templates' = Refreshed
    /\ UNCHANGED <<providers, session, settings, run>>

TemplateRow(body, base) == [stage |-> body.stage, aux |-> body.aux, limit |-> body.limit, base |-> base]

CommitTemplate(t) ==
    /\ requests[t].kind \in {"save_as", "patch_template", "delete_template"}
    /\ LET r == requests[t]
           selected == IF r.kind = "delete_template" /\ r.moves THEN System ELSE session.template
           row == CASE r.kind = "save_as" -> TemplateRow(r.body, r.base)
                    [] r.kind = "patch_template" ->
                         IF Row(templates[r.id])
                         THEN Flush(templates[r.id], r.was, TemplateRow(r.body, r.was.base))
                         ELSE Deleted
                    [] r.kind = "delete_template" -> Deleted
           rows == [templates EXCEPT ![r.id] = row]
       IN  \/ /\ r.kind = "save_as" => templates[r.id] = Unborn
              /\ r.kind = "patch_template" => Row(templates[r.id])
              /\ ForeignKeys(rows, selected)
              /\ templates' = rows /\ session' = [session EXCEPT !.template = selected]
           \/ UNCHANGED <<templates, session>>   \* the row is gone, a key refuses, the audit fails
    /\ End(t)
    /\ UNCHANGED <<providers, settings, run>>

SelectTemplate(t) ==
    /\ ~session.started
    /\ \E id \in TemplateIds :
          /\ Row(templates[id])
          /\ Begin(t, [kind |-> "select", id |-> id, was |-> session.template])
    /\ UNCHANGED <<providers, templates, session, settings, run>>

CommitSelect(t) ==
    /\ requests[t].kind = "select"
    /\ LET r == requests[t]
           selected == IF r.id # r.was THEN r.id ELSE session.template
       IN  \/ ForeignKeys(templates, selected) /\ session' = [session EXCEPT !.template = selected]
           \/ UNCHANGED session
    /\ End(t)
    /\ UNCHANGED <<providers, templates, settings, run>>

-----------------------------------------------------------------------------
(* Providers                                                               *)

ValidProvider(body) == body.default \in body.models

ProviderRow(body) == [configured |-> TRUE, enabled |-> body.enabled,
                      default |-> body.default, models |-> body.models]

CreateProvider(t) ==
    /\ \E p \in Custom, body \in ProviderBodies :
          /\ providers[p] = Unborn /\ ValidProvider(body)
          /\ providers' = [providers EXCEPT ![p] = ProviderRow(body)]
    /\ requests[t] = Idle /\ changes < MaxChanges /\ changes' = changes + 1
    /\ UNCHANGED <<templates, session, settings, run, requests>>

PatchProvider(t) ==
    /\ \E p \in Providers, body \in ProviderBodies :
          /\ Exists(p) /\ ValidProvider(body)
          /\ Begin(t, [kind |-> "provider", id |-> p, was |-> providers[p], new |-> ProviderRow(body)])
    /\ UNCHANGED <<providers, templates, session, settings, run>>

\* A built-in provider is only switched off; nobody looks at the templates that name it.
DeleteProvider(t) ==
    /\ \E p \in Providers :
          /\ Exists(p)
          /\ Begin(t, [kind |-> "provider", id |-> p, was |-> providers[p],
                       new |-> IF p \in Custom THEN Deleted
                               ELSE [providers[p] EXCEPT !.configured = FALSE, !.enabled = FALSE]])
    /\ UNCHANGED <<providers, templates, session, settings, run>>

CommitProvider(t) ==
    /\ requests[t].kind = "provider"
    /\ LET r == requests[t]
       IN  \/ /\ Exists(r.id)
              /\ providers' = [providers EXCEPT ![r.id] =
                                 IF Row(r.new) THEN Flush(@, r.was, r.new) ELSE Deleted]
           \/ UNCHANGED providers
    /\ End(t)
    /\ UNCHANGED <<templates, session, settings, run>>

-----------------------------------------------------------------------------
(* A package: providers and templates in one transaction                   *)

ValidImportedProvider(p, body) == (p \in Builtin => Exists(p)) /\ body.default \in body.models

\* Against the rows as they are, and the providers the package would enable.
ValidImportedTemplate(body, package) ==
    LET imported(p) == p \in DOMAIN package.providers /\ package.providers[p].enabled
        models == IF imported(body.aux[1]) THEN package.providers[body.aux[1]].models
                  ELSE providers[body.aux[1]].models
    IN  /\ \A p \in {body.stage, body.aux[1]} : Usable(p) \/ imported(p)
        /\ body.aux[2] \in models

ValidPackage(package) ==
    /\ System \notin DOMAIN package.templates
    /\ \A p \in DOMAIN package.providers : ValidImportedProvider(p, package.providers[p])
    /\ \A id \in DOMAIN package.templates : ValidImportedTemplate(package.templates[id], package)

ImportPackage(t) ==
    /\ \E package \in Packages :
          /\ ValidPackage(package)
          /\ Begin(t, [kind |-> "import", package |-> package,
                       providers |-> providers, templates |-> templates])
    /\ UNCHANGED <<providers, templates, session, settings, run>>

ImportedProvider(r, p) == ProviderRow(r.package.providers[p])

\* A new template is based on nothing, and one imported over a row keeps the row's base.
ImportedTemplate(r, id) ==
    TemplateRow(r.package.templates[id], IF Row(r.templates[id]) THEN r.templates[id].base ELSE None)

ApplyProviders(r) ==
    [p \in Providers |-> IF p \in DOMAIN r.package.providers
                         THEN Saved(providers[p], r.providers[p], ImportedProvider(r, p))
                         ELSE providers[p]]

ApplyTemplates(r, rows) ==
    [id \in TemplateIds |-> IF id \in DOMAIN r.package.templates
                            THEN Saved(rows[id], r.templates[id], ImportedTemplate(r, id))
                            ELSE rows[id]]

CommitImport(t) ==
    /\ requests[t].kind = "import"
    /\ LET r == requests[t]
       IN  \/ /\ \A p \in DOMAIN r.package.providers :
                    Savable(providers[p], r.providers[p], ImportedProvider(r, p))
              /\ \A id \in DOMAIN r.package.templates :
                    Savable(templates[id], r.templates[id], ImportedTemplate(r, id))
              /\ providers' = ApplyProviders(r)
              /\ templates' = ApplyTemplates(r, IF DOMAIN r.package.providers = {} THEN templates
                                                ELSE Refresh(templates, ApplyProviders(r)))
           \/ UNCHANGED <<providers, templates>>   \* a row came or went, the audit fails
    /\ End(t)
    /\ UNCHANGED <<session, settings, run>>

-----------------------------------------------------------------------------
(* The runtime settings: one row, saved against the version it was read at *)

WithinHardLimits(values) == values.limit <= HardLimit

ValidInternalBinding(values) ==
    Exists(values.internal[1]) /\ values.internal[2] \in providers[values.internal[1]].models

Merged(update) == [f \in {"limit", "internal"} |-> IF f \in DOMAIN update THEN update[f] ELSE settings[f]]

UpdateSettings(t) ==
    /\ \E update \in Updates :
          LET values == Merged(update)
          IN  /\ WithinHardLimits(values) /\ ValidInternalBinding(values)
              /\ Begin(t, [kind |-> "settings", expected |-> settings.version,
                           update |-> update, values |-> values])
    /\ UNCHANGED <<providers, templates, session, settings, run>>

\* Mutation: the row is saved whatever its version is by then.
SavedAnyway(expected) == TRUE

ConditionalUpdate(expected) == settings.version = expected

CommitSettings(t) ==
    /\ requests[t].kind = "settings"
    /\ LET r == requests[t]
       IN  \/ /\ ConditionalUpdate(r.expected)
              /\ settings' = [version |-> r.expected + 1, limit |-> r.values.limit,
                              internal |-> r.values.internal]
           \/ UNCHANGED settings
    /\ End(t)
    /\ UNCHANGED <<providers, templates, session, run>>

-----------------------------------------------------------------------------
(* A run is started: the template is read, then the settings, then each    *)
(* provider the template names, then the run is written.                   *)

Starting == {"start", "rerun"}

\* The session's template as it is after the refresh, whatever becomes of the row.
TemplateSnapshot == Refreshed[session.template]

ReadTemplate(t, kind) ==
    /\ templates' = Refreshed
    /\ Row(TemplateSnapshot)
    /\ Begin(t, [kind |-> kind, id |-> session.template, template |-> TemplateSnapshot,
                 settings |-> Unborn, rows |-> [p \in Providers |-> Unborn]])
    /\ UNCHANGED <<providers, session, settings, run>>

FirstStart(t) == ~session.started /\ ReadTemplate(t, "start")

\* Nobody reads the system template unrefreshed: that the rerun's refresh is
\* rolled back with a refused rerun shows nowhere.
Rerun(t) == session.started /\ ReadTemplate(t, "rerun")

WithinLimits(template) == template.limit <= settings.limit /\ template.limit <= HardLimit

ReadSettings(t) ==
    /\ requests[t].kind \in Starting /\ requests[t].settings = Unborn
    /\ WithinLimits(requests[t].template)
    /\ requests' = [requests EXCEPT ![t].settings = settings]
    /\ UNCHANGED <<providers, templates, session, settings, run, changes>>

RequiredProviders(template) == {template.stage, template.aux[1]}

ReadProvider(t) ==
    /\ requests[t].kind \in Starting /\ requests[t].settings # Unborn
    /\ \E p \in RequiredProviders(requests[t].template) :
          /\ requests[t].rows[p] = Unborn /\ Usable(p)
          /\ requests' = [requests EXCEPT ![t].rows[p] = providers[p]]
    /\ UNCHANGED <<providers, templates, session, settings, run, changes>>

\* One snapshot per model: the default of every provider, and the auxiliary model.
ProviderSnapshots(r) ==
    {<<p, r.rows[p].default>> : p \in RequiredProviders(r.template)} \cup {r.template.aux}

HaveCapabilities(r) == \A s \in ProviderSnapshots(r) : s[2] \in r.rows[s[1]].models

ModelBindings(r) == {<<r.template.stage, r.rows[r.template.stage].default>>, r.template.aux}

Startable(r) ==
    /\ r.settings # Unborn /\ \A p \in RequiredProviders(r.template) : Row(r.rows[p])
    /\ HaveCapabilities(r)

\* Mutation: the version is read again when the run is written.
FrozenVersionNow(r) == [template |-> r.id, bindings |-> ModelBindings(r),
                        snapshots |-> ProviderSnapshots(r),
                        limit |-> r.template.limit, version |-> settings.version]

Frozen(r) == [template |-> r.id, bindings |-> ModelBindings(r), snapshots |-> ProviderSnapshots(r),
              limit |-> r.template.limit, version |-> r.settings.version]

\* At any step: what was read does not do, the audit fails.
Refused == UNCHANGED <<run, session>>

StartFirstRun(t) ==
    /\ requests[t].kind = "start"
    /\ \/ /\ ~session.started /\ Startable(requests[t])
          /\ run' = Frozen(requests[t])
          /\ session' = [session EXCEPT !.started = TRUE]
       \/ Refused
    /\ End(t)
    /\ UNCHANGED <<providers, templates, settings>>

CreateRerun(t) ==
    /\ requests[t].kind = "rerun"
    /\ \/ /\ Startable(requests[t])
          /\ run' = Frozen(requests[t])
          /\ UNCHANGED session
       \/ Refused
    /\ End(t)
    /\ UNCHANGED <<providers, templates, settings>>

-----------------------------------------------------------------------------
(* A new installation with its built-in providers configured, or one in    *)
(* use: a user's provider, a user's template, a draft that selects it.     *)
NewInstallation ==
    /\ \A p \in Custom : providers[p] = Unborn
    /\ \A id \in UserTemplates : templates[id] = Unborn
    /\ session.template = System

InUse ==
    /\ \A p \in Custom : \E body \in ProviderBodies : ValidProvider(body) /\ providers[p] = ProviderRow(body)
    /\ session.template # System
    /\ \A id \in UserTemplates \ {session.template} : templates[id] = Unborn
    /\ \E body \in TemplateBodies :
          ValidBindings(body) /\ templates[session.template] = TemplateRow(body, System)

Init ==
    /\ \E body \in ProviderBodies, theirs \in ProviderBodies \cup {Unborn} :
          /\ ValidProvider(body) /\ body.enabled
          /\ providers = [p \in Providers |->
               IF p \in Builtin THEN ProviderRow(body)
               ELSE IF theirs = Unborn THEN Unborn ELSE ProviderRow(theirs)]
    /\ \E selected \in TemplateIds, body \in TemplateBodies :
          /\ templates = [i \in TemplateIds |->
               CASE i = System -> TemplateRow([stage |-> SystemBindings(providers).stage,
                                               aux |-> SystemBindings(providers).aux, limit |-> 1], None)
                 [] i = selected /\ i # System -> TemplateRow(body, System)
                 [] OTHER -> Unborn]
          /\ session = [template |-> selected, started |-> FALSE]
    /\ NewInstallation \/ InUse
    /\ settings = [version |-> 1, limit |-> HardLimit, internal |-> DefaultBinding]
    /\ ValidInternalBinding(settings)
    /\ run = [template |-> None, bindings |-> {}, snapshots |-> {}, limit |-> 0, version |-> 0]
    /\ requests = [t \in Threads |-> Idle]
    /\ changes = 0
    /\ since = [t \in Threads |-> {}]

Request(t) ==
    \/ SaveAsTemplate(t) \/ PatchTemplate(t) \/ DeleteTemplate(t) \/ SelectTemplate(t)
    \/ CreateProvider(t) \/ PatchProvider(t) \/ DeleteProvider(t)
    \/ ImportPackage(t) \/ UpdateSettings(t) \/ FirstStart(t) \/ Rerun(t)

Commit(t) ==
    \/ CommitTemplate(t) \/ CommitSelect(t) \/ CommitProvider(t)
    \/ CommitImport(t) \/ CommitSettings(t) \/ StartFirstRun(t) \/ CreateRerun(t)

Read(t) == ReadSettings(t) \/ ReadProvider(t)

\* What a start might have read: all that was configured since it read its template.
Watched ==
    [t \in Threads |->
       IF requests'[t].kind \in Starting
       THEN since[t] \cup {[providers |-> providers', settings |-> settings']} ELSE {}]

Next ==
    /\ ListTemplates \/ \E t \in Threads : Request(t) \/ Read(t) \/ Commit(t)
    /\ since' = Watched

Spec == Init /\ [][Next]_vars

-----------------------------------------------------------------------------
(* Properties                                                              *)

\* However updates of the settings cross, the one that is saved changes the
\* fields its user sent and leaves those another user saved meanwhile as they
\* are, and no version is given twice (services/runtime_settings.py:148,
\* repositories/runtime_settings.py:53): a save writes all the groups of the
\* row, so one that was read too early would undo the other.
UpdatesKeepOthers ==
    [][settings' # settings =>
         /\ settings'.version = settings.version + 1
         /\ \E t \in Threads :
               /\ requests[t].kind = "settings"
               /\ \A f \in {"limit", "internal"} :
                     settings'[f] = IF f \in DOMAIN requests[t].update
                                    THEN requests[t].update[f] ELSE settings[f]]_vars

\* However deleting a template crosses selecting it, saving one based on it,
\* importing over it or starting with it, the session's template and every
\* template's base are rows that exist (services/templates.py:710,
\* services/sessions.py:608): otherwise the session could never start.
SelectedExists ==
    /\ Row(templates[session.template])
    /\ \A t \in TemplateIds : Row(templates[t]) /\ templates[t].base # None => Row(templates[templates[t].base])

\* However a start crosses the edits of what it reads row by row, a run is put
\* together from nothing but what was configured while it started: the models
\* it binds to one provider are all of one moment, at which the provider was
\* usable, listed each of them and had the default the stages are bound to,
\* and its limit kept within the settings whose version it records
\* (services/runs.py:3008, domain/provider_snapshot.py:426,
\* domain/runtime_limit_snapshot.py:67).
FrozenAsConfigured ==
    [][run' # run =>
         \E t \in Threads :
           /\ \A p \in {b[1] : b \in run'.bindings} : \E then \in since[t] :
                 LET row == then.providers[p]
                     snapshots == {s \in run'.snapshots : s[1] = p}
                 IN  /\ UsableRow(row)
                     /\ {b \in run'.bindings : b[1] = p} \subseteq snapshots
                     /\ <<p, row.default>> \in snapshots
                     /\ \A s \in snapshots : s[2] \in row.models
           /\ \E then \in since[t] :
                 run'.version = then.settings.version /\ run'.limit <= then.settings.limit]_vars
=============================================================================
