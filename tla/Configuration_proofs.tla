------------------------ MODULE Configuration_proofs -------------------------
(***************************************************************************)
(* Theorems about Configuration, for any providers, templates, threads and  *)
(* whatever users submit:                                                   *)
(*   ConfigurationTyped   Spec => []ConfigurationTypeOK                     *)
(*   SelectedStays        Spec => []SelectedExists                          *)
(*   UpdatesKeep          Spec => UpdatesKeepOthers                         *)
(*   RunsAsConfigured     Spec => FrozenAsConfigured                        *)
(* SelectedExists is inductive with the types and the system template; the  *)
(* settings need to know what a waiting update had read, and the runs that  *)
(* all a start has read was configured since it began.                      *)
(***************************************************************************)
EXTENDS Configuration, TLAPS

Bodies == [stage : Providers, aux : ModelChoices, limit : Nat]
Submitted == [enabled : BOOLEAN, default : Models, models : SUBSET Models]
Values == [limit : Nat, internal : ModelChoices]
NoRow == {Unborn, Deleted}

Idles == [kind : {"idle"}]
Saves == [kind : {"save_as"}, id : UserTemplates, base : TemplateIds \cup {None}, body : Bodies]
Patches == [kind : {"patch_template"}, id : UserTemplates, was : TemplateRows, body : Bodies]
Deletions == [kind : {"delete_template"}, id : UserTemplates, moves : BOOLEAN]
Selections == [kind : {"select"}, id : TemplateIds, was : TemplateIds]
ProviderChanges == [kind : {"provider"}, id : Providers, was : ProviderRows,
                    new : ProviderRows \cup {Deleted}]
ProviderTables == [Providers -> ProviderRows \cup NoRow]
TemplateTables == [TemplateIds -> TemplateRows \cup NoRow]
SettingsRows == [version : Nat, limit : Nat, internal : ModelChoices]
Imports == [kind : {"import"}, package : {package \in Packages : System \notin DOMAIN package.templates},
            providers : ProviderTables, templates : TemplateTables]
SettingsUpdates == [kind : {"settings"}, expected : Nat, update : Updates, values : Values]
RunStarts == [kind : Starting, id : TemplateIds, template : TemplateRows,
              settings : SettingsRows \cup {Unborn}, rows : ProviderTables]

Requests == Idles \cup Saves \cup Patches \cup Deletions \cup Selections
              \cup ProviderChanges \cup Imports \cup SettingsUpdates \cup RunStarts

ConfigurationTypeOK ==
    /\ providers \in ProviderTables
    /\ templates \in TemplateTables
    /\ session \in [template : TemplateIds, started : BOOLEAN]
    /\ settings \in SettingsRows
    /\ run \in [template : TemplateIds \cup {None}, bindings : SUBSET ModelChoices,
                snapshots : SUBSET ModelChoices, limit : Nat, version : Nat]
    /\ requests \in [Threads -> Requests]
    /\ changes \in Nat
    /\ Row(templates[System])

\* A waiting update of the settings carries, over the settings it read, what its user sent.
UpdateRead(t) ==
    requests[t].kind = "settings" =>
      /\ requests[t].expected <= settings.version
      /\ requests[t].expected = settings.version =>
            \A f \in {"limit", "internal"} :
               requests[t].values[f] = IF f \in DOMAIN requests[t].update
                                       THEN requests[t].update[f] ELSE settings[f]

UpdatesRead == \A t \in Threads : UpdateRead(t)

-----------------------------------------------------------------------------
(* The operators the commands are built from                                *)

\* A record with the columns of a row is no missing row.
LEMMA RowsAreRows ==
  \A x : x \in ProviderRows \/ x \in TemplateRows => Row(x)
BY NoRowAssumption DEF Row

\* A row is one of its table's.
LEMMA RowTyped ==
  ASSUME ConfigurationTypeOK
  PROVE  /\ \A p \in Providers : Exists(p) => providers[p] \in ProviderRows
         /\ \A id \in TemplateIds : Row(templates[id]) => templates[id] \in TemplateRows
BY DEF ConfigurationTypeOK, Exists, Row, NoRow, ProviderTables, TemplateTables

\* A flush writes some columns of a row and leaves the row one.
LEMMA FlushTyped ==
  /\ \A row, was, new \in ProviderRows : Flush(row, was, new) \in ProviderRows
  /\ \A row, was, new \in TemplateRows : Flush(row, was, new) \in TemplateRows
<1>1. ASSUME NEW row \in ProviderRows, NEW was \in ProviderRows, NEW new \in ProviderRows
      PROVE  Flush(row, was, new) \in ProviderRows
  <2>1. DOMAIN row = {"configured", "enabled", "default", "models"}
    BY DEF ProviderRows
  <2>2. QED BY <2>1 DEF Flush, ProviderRows
<1>2. ASSUME NEW row \in TemplateRows, NEW was \in TemplateRows, NEW new \in TemplateRows
      PROVE  Flush(row, was, new) \in TemplateRows
  <2>1. DOMAIN row = {"stage", "aux", "limit", "base"}
    BY DEF TemplateRows
  <2>2. QED BY <2>1 DEF Flush, TemplateRows
<1>3. QED BY <1>1, <1>2

\* The system template's bindings name a provider and a model.
LEMMA SystemBindingsTyped ==
  ASSUME NEW rows \in ProviderTables
  PROVE  /\ SystemBindings(rows).stage \in Providers
         /\ SystemBindings(rows).aux \in ModelChoices
<1>1. CASE FirstUsable(rows) = {}
  <2>1. DefaultBinding[1] \in Providers
    BY InstallationAssumption DEF ModelChoices
  <2>2. SystemBindings(rows) = [stage |-> DefaultBinding[1], aux |-> DefaultBinding]
    BY <1>1 DEF SystemBindings
  <2>3. QED BY <2>1, <2>2, InstallationAssumption
<1>2. CASE FirstUsable(rows) # {}
  <2> DEFINE i == CHOOSE i \in FirstUsable(rows) : TRUE
             p == Order[i]
  <2>1. i \in FirstUsable(rows)
    BY <1>2
  <2>2. i \in DOMAIN Order /\ UsableRow(rows[p])
    BY <2>1 DEF FirstUsable
  <2>3. p \in Providers
    BY <2>2, InstallationAssumption
  <2>4. rows[p] \in ProviderRows
    BY <2>2, <2>3 DEF UsableRow, Row, NoRow, ProviderTables
  <2>5. rows[p].default \in Models
    BY <2>4 DEF ProviderRows
  <2>6. SystemBindings(rows) = [stage |-> p, aux |-> <<p, rows[p].default>>]
    BY <1>2 DEF SystemBindings
  <2>7. QED BY <2>3, <2>5, <2>6 DEF ModelChoices
<1>3. QED BY <1>1, <1>2

\* A refresh rewrites two columns of the system template and nothing else.
LEMMA RefreshTyped ==
  ASSUME ConfigurationTypeOK, NEW rows \in ProviderTables
  PROVE  /\ Refresh(templates, rows) \in TemplateTables
         /\ Row(Refresh(templates, rows)[System])
         /\ \A id \in TemplateIds :
              /\ Row(Refresh(templates, rows)[id]) <=> Row(templates[id])
              /\ Row(templates[id]) => Refresh(templates, rows)[id].base = templates[id].base
<1>1. System \in TemplateIds
  BY DEF TemplateIds
<1>2. templates[System] \in TemplateRows
  BY <1>1, RowTyped DEF ConfigurationTypeOK
<1> DEFINE new == [templates[System] EXCEPT !.stage = SystemBindings(rows).stage,
                                            !.aux = SystemBindings(rows).aux]
<1>3. new \in TemplateRows /\ new.base = templates[System].base
  BY <1>2, SystemBindingsTyped DEF TemplateRows
<1>4. Refresh(templates, rows) = [templates EXCEPT ![System] = new]
  BY <1>1, <1>2 DEF Refresh, ConfigurationTypeOK, TemplateRows
<1>5. Row(new)
  BY <1>3, RowsAreRows
<1> HIDE DEF new
<1>6. QED BY <1>1, <1>3, <1>4, <1>5 DEF ConfigurationTypeOK, TemplateTables

-----------------------------------------------------------------------------
(* Type correctness                                                         *)

\* A request that is begun with what it has read, or answered.
LEMMA RequestTyped ==
  ASSUME ConfigurationTypeOK, NEW t \in Threads, NEW request \in Requests,
         Begin(t, request) \/ (request = Idle /\ End(t))
  PROVE  /\ requests' \in [Threads -> Requests] /\ changes' \in Nat
         /\ requests'[t] = request
         /\ \A u \in Threads \ {t} : requests'[u] = requests[u]
BY DEF ConfigurationTypeOK, Begin, End

LEMMA EndTyped ==
  ASSUME ConfigurationTypeOK, NEW t \in Threads, End(t)
  PROVE  /\ requests' \in [Threads -> Requests] /\ changes' \in Nat
         /\ requests'[t] = Idle
         /\ \A u \in Threads \ {t} : requests'[u] = requests[u]
<1>1. Idle \in Requests
  BY DEF Idle, Requests, Idles
<1>2. QED BY <1>1, RequestTyped

\* The kind of a request says what it has read.
LEMMA Kinds ==
  ASSUME ConfigurationTypeOK, NEW t \in Threads
  PROVE  /\ requests[t].kind = "save_as" => requests[t] \in Saves
         /\ requests[t].kind = "patch_template" => requests[t] \in Patches
         /\ requests[t].kind = "delete_template" => requests[t] \in Deletions
         /\ requests[t].kind = "select" => requests[t] \in Selections
         /\ requests[t].kind = "provider" => requests[t] \in ProviderChanges
         /\ requests[t].kind = "import" => requests[t] \in Imports
         /\ requests[t].kind = "settings" => requests[t] \in SettingsUpdates
         /\ requests[t].kind \in Starting => requests[t] \in RunStarts
<1>1. requests[t] \in Requests
  BY DEF ConfigurationTypeOK
<1>2. QED
  BY <1>1
  DEF Requests, Idles, Saves, Patches, Deletions, Selections, ProviderChanges, Imports,
      SettingsUpdates, RunStarts, Starting

\* A refresh of the templates keeps them typed.
LEMMA RefreshedTyped ==
  ASSUME ConfigurationTypeOK, templates' = Refreshed
  PROVE  templates' \in TemplateTables /\ Row(templates'[System])
BY RefreshTyped DEF Refreshed, ConfigurationTypeOK

LEMMA RequestsTyped ==
  ASSUME ConfigurationTypeOK, NEW t \in Threads, Request(t)
  PROVE  ConfigurationTypeOK'
<1>t. ASSUME templates' = Refreshed \/ templates' = templates,
             UNCHANGED <<providers, session, settings, run>>,
             \E request \in Requests : Begin(t, request)
      PROVE  ConfigurationTypeOK'
  <2>1. requests' \in [Threads -> Requests] /\ changes' \in Nat
    BY <1>t, RequestTyped
  <2>2. templates' \in TemplateTables /\ Row(templates'[System])
    BY <1>t, RefreshedTyped DEF ConfigurationTypeOK
  <2>3. QED BY <1>t, <2>1, <2>2 DEF ConfigurationTypeOK
<1>1. CASE SaveAsTemplate(t)
  <2>1. PICK new \in UserTemplates, source \in TemplateIds \cup {None}, body \in TemplateBodies :
          Begin(t, [kind |-> "save_as", id |-> new, base |-> source, body |-> body])
    BY <1>1 DEF SaveAsTemplate
  <2>2. [kind |-> "save_as", id |-> new, base |-> source, body |-> body] \in Saves
    BY SubmittedAssumption DEF Saves, Bodies
  <2>3. QED BY <1>1, <1>t, <2>1, <2>2 DEF SaveAsTemplate, Requests
<1>2. CASE PatchTemplate(t)
  <2>1. PICK id \in UserTemplates, body \in TemplateBodies :
          /\ Row(templates[id])
          /\ Begin(t, [kind |-> "patch_template", id |-> id, was |-> templates[id],
                       body |-> body])
    BY <1>2 DEF PatchTemplate
  <2>2. templates[id] \in TemplateRows
    BY <2>1, RowTyped DEF TemplateIds
  <2>3. [kind |-> "patch_template", id |-> id, was |-> templates[id], body |-> body] \in Patches
    BY <2>2, SubmittedAssumption DEF Patches, Bodies
  <2>4. QED BY <1>2, <1>t, <2>1, <2>3 DEF PatchTemplate, Requests
<1>3. CASE DeleteTemplate(t)
  <2>1. PICK id \in UserTemplates :
          Begin(t, [kind |-> "delete_template", id |-> id, moves |-> session.template = id])
    BY <1>3 DEF DeleteTemplate
  <2>2. [kind |-> "delete_template", id |-> id, moves |-> session.template = id] \in Deletions
    BY DEF Deletions
  <2>3. QED BY <1>3, <1>t, <2>1, <2>2 DEF DeleteTemplate, Requests
<1>4. CASE SelectTemplate(t)
  <2>1. PICK id \in TemplateIds :
          Begin(t, [kind |-> "select", id |-> id, was |-> session.template])
    BY <1>4 DEF SelectTemplate
  <2>2. [kind |-> "select", id |-> id, was |-> session.template] \in Selections
    BY DEF Selections, ConfigurationTypeOK
  <2>3. QED BY <1>4, <1>t, <2>1, <2>2 DEF SelectTemplate, Requests
<1>5. CASE CreateProvider(t)
  <2>1. PICK p \in Custom, body \in ProviderBodies :
          providers' = [providers EXCEPT ![p] = ProviderRow(body)]
    BY <1>5 DEF CreateProvider
  <2>2. ProviderRow(body) \in ProviderRows
    BY SubmittedAssumption DEF ProviderRow, ProviderRows
  <2>3. providers' \in ProviderTables
    BY <2>1, <2>2 DEF ConfigurationTypeOK, Providers, ProviderTables
  <2>4. QED BY <1>5, <2>3 DEF CreateProvider, ConfigurationTypeOK
<1>6. CASE PatchProvider(t)
  <2>1. PICK p \in Providers, body \in ProviderBodies :
          /\ Exists(p)
          /\ Begin(t, [kind |-> "provider", id |-> p, was |-> providers[p],
                       new |-> ProviderRow(body)])
    BY <1>6 DEF PatchProvider
  <2>2. providers[p] \in ProviderRows /\ ProviderRow(body) \in ProviderRows
    BY <2>1, RowTyped, SubmittedAssumption DEF ProviderRow, ProviderRows
  <2>3. [kind |-> "provider", id |-> p, was |-> providers[p], new |-> ProviderRow(body)]
          \in ProviderChanges
    BY <2>2 DEF ProviderChanges
  <2>4. QED BY <1>6, <1>t, <2>1, <2>3 DEF PatchProvider, Requests
<1>7. CASE DeleteProvider(t)
  <2>1. PICK p \in Providers :
          /\ Exists(p)
          /\ Begin(t, [kind |-> "provider", id |-> p, was |-> providers[p],
                       new |-> IF p \in Custom THEN Deleted
                               ELSE [providers[p] EXCEPT !.configured = FALSE,
                                                         !.enabled = FALSE]])
    BY <1>7 DEF DeleteProvider
  <2> DEFINE new == IF p \in Custom THEN Deleted
                    ELSE [providers[p] EXCEPT !.configured = FALSE, !.enabled = FALSE]
  <2>2. providers[p] \in ProviderRows
    BY <2>1, RowTyped
  <2>3. new \in ProviderRows \cup {Deleted}
    BY <2>2 DEF ProviderRows
  <2> HIDE DEF new
  <2>4. [kind |-> "provider", id |-> p, was |-> providers[p], new |-> new] \in ProviderChanges
    BY <2>2, <2>3 DEF ProviderChanges
  <2>5. Begin(t, [kind |-> "provider", id |-> p, was |-> providers[p], new |-> new])
    BY <2>1 DEF new
  <2>6. QED BY <1>7, <1>t, <2>4, <2>5 DEF DeleteProvider, Requests
<1>8. CASE ImportPackage(t)
  <2>1. PICK package \in Packages :
          /\ System \notin DOMAIN package.templates
          /\ Begin(t, [kind |-> "import", package |-> package,
                       providers |-> providers, templates |-> templates])
    BY <1>8 DEF ImportPackage, ValidPackage
  <2>2. [kind |-> "import", package |-> package, providers |-> providers,
         templates |-> templates] \in Imports
    BY <2>1 DEF Imports, ConfigurationTypeOK
  <2>3. QED BY <1>8, <1>t, <2>1, <2>2 DEF ImportPackage, Requests
<1>9. CASE UpdateSettings(t)
  <2>1. PICK update \in Updates :
          Begin(t, [kind |-> "settings", expected |-> settings.version, update |-> update,
                    values |-> Merged(update)])
    BY <1>9 DEF UpdateSettings
  <2>2. Merged(update) \in Values
    BY SubmittedAssumption DEF Merged, Values, ConfigurationTypeOK, SettingsRows
  <2>3. settings.version \in Nat
    BY DEF ConfigurationTypeOK, SettingsRows
  <2>4. [kind |-> "settings", expected |-> settings.version, update |-> update,
         values |-> Merged(update)] \in SettingsUpdates
    BY <2>2, <2>3 DEF SettingsUpdates
  <2>5. QED BY <1>9, <1>t, <2>1, <2>4 DEF UpdateSettings, Requests
<1>10. CASE FirstStart(t) \/ Rerun(t)
  <2>1. PICK kind \in Starting : ReadTemplate(t, kind)
    BY <1>10 DEF FirstStart, Rerun, Starting
  <2>2. session.template \in TemplateIds
    BY DEF ConfigurationTypeOK
  <2>3. TemplateSnapshot \in TemplateRows
    BY <2>1, <2>2, RefreshTyped
    DEF ReadTemplate, TemplateSnapshot, Refreshed, ConfigurationTypeOK, TemplateTables, Row, NoRow
  <2>4. [p \in Providers |-> Unborn] \in ProviderTables
    BY DEF ProviderTables, NoRow
  <2>5. [kind |-> kind, id |-> session.template, template |-> TemplateSnapshot,
         settings |-> Unborn, rows |-> [p \in Providers |-> Unborn]] \in RunStarts
    BY <2>2, <2>3, <2>4 DEF RunStarts
  <2>6. QED BY <1>t, <2>1, <2>5 DEF ReadTemplate, Requests
<1>11. QED
  BY <1>1, <1>2, <1>3, <1>4, <1>5, <1>6, <1>7, <1>8, <1>9, <1>10 DEF Request

\* A start that has read one row more.
LEMMA ReadsTyped ==
  ASSUME ConfigurationTypeOK, NEW t \in Threads, Read(t)
  PROVE  /\ ConfigurationTypeOK'
         /\ UNCHANGED <<providers, templates, session, settings, run>>
         /\ requests[t].kind \in Starting /\ requests'[t].kind = requests[t].kind
         /\ \A u \in Threads \ {t} : requests'[u] = requests[u]
<1>1. requests[t] \in RunStarts /\ requests[t].kind \in Starting
  BY Kinds DEF Read, ReadSettings, ReadProvider
<1>2. PICK settingsRead \in SettingsRows \cup {Unborn}, rowsRead \in ProviderTables :
        requests' = [requests EXCEPT ![t] = [requests[t] EXCEPT !.settings = settingsRead,
                                                                !.rows = rowsRead]]
  <2>1. CASE ReadSettings(t)
    <3>1. requests' = [requests EXCEPT ![t] = [requests[t] EXCEPT !.settings = settings]]
      BY <2>1 DEF ReadSettings, ConfigurationTypeOK
    <3>2. [requests[t] EXCEPT !.settings = settings]
            = [requests[t] EXCEPT !.settings = settings, !.rows = requests[t].rows]
      BY <1>1 DEF RunStarts
    <3>3. settings \in SettingsRows /\ requests[t].rows \in ProviderTables
      BY <1>1 DEF RunStarts, ConfigurationTypeOK
    <3>4. QED BY <3>1, <3>2, <3>3
  <2>2. CASE ReadProvider(t)
    <3>1. PICK p \in RequiredProviders(requests[t].template) :
            /\ Usable(p)
            /\ requests' = [requests EXCEPT ![t].rows[p] = providers[p]]
      BY <2>2 DEF ReadProvider
    <3> DEFINE rowsRead == [requests[t].rows EXCEPT ![p] = providers[p]]
    <3>2. p \in Providers
      BY <1>1 DEF RunStarts, TemplateRows, RequiredProviders, ModelChoices
    <3>3. rowsRead \in ProviderTables
      BY <1>1, <3>2 DEF RunStarts, ProviderTables, ConfigurationTypeOK
    <3>4. requests' = [requests EXCEPT ![t] = [requests[t] EXCEPT !.rows = rowsRead]]
      BY <3>1 DEF ConfigurationTypeOK
    <3>5. requests[t].settings \in SettingsRows \cup {Unborn}
      BY <1>1 DEF RunStarts
    <3> HIDE DEF rowsRead
    <3>6. [requests[t] EXCEPT !.rows = rowsRead]
            = [requests[t] EXCEPT !.settings = requests[t].settings, !.rows = rowsRead]
      BY <1>1 DEF RunStarts
    <3>7. QED BY <3>3, <3>4, <3>5, <3>6
  <2>3. QED BY <2>1, <2>2 DEF Read
<1>3. /\ requests'[t] = [requests[t] EXCEPT !.settings = settingsRead, !.rows = rowsRead]
      /\ \A u \in Threads \ {t} : requests'[u] = requests[u]
      /\ requests' \in [Threads -> Requests]
  <2>1. [requests[t] EXCEPT !.settings = settingsRead, !.rows = rowsRead] \in RunStarts
    BY <1>1, <1>2 DEF RunStarts
  <2>2. QED BY <1>2, <2>1 DEF ConfigurationTypeOK, Requests
<1>4. requests'[t].kind = requests[t].kind
  BY <1>1, <1>3 DEF RunStarts
<1>5. UNCHANGED <<providers, templates, session, settings, run, changes>>
  BY DEF Read, ReadSettings, ReadProvider
<1>6. ConfigurationTypeOK'
  BY <1>3, <1>5 DEF ConfigurationTypeOK
<1>7. QED BY <1>1, <1>3, <1>4, <1>5, <1>6

\* What a template's commit may write over the row it names.
Written(r) ==
    CASE r.kind = "save_as" -> TemplateRow(r.body, r.base)
      [] r.kind = "patch_template" ->
           IF Row(templates[r.id])
           THEN Flush(templates[r.id], r.was, TemplateRow(r.body, r.was.base)) ELSE Deleted
      [] r.kind = "delete_template" -> Deleted

\* The template the session selects when that commit is through.
SelectedAfter(r) ==
    IF r.kind = "delete_template" /\ r.moves THEN System ELSE session.template

\* A template's commit: through the foreign keys, or not at all.
LEMMA TemplateCommit ==
  ASSUME NEW t \in Threads, CommitTemplate(t)
  PROVE  \/ /\ templates' = [templates EXCEPT ![requests[t].id] = Written(requests[t])]
            /\ session' = [session EXCEPT !.template = SelectedAfter(requests[t])]
            /\ ForeignKeys([templates EXCEPT ![requests[t].id] = Written(requests[t])],
                           SelectedAfter(requests[t]))
         \/ UNCHANGED <<templates, session>>
BY DEF CommitTemplate, Written, SelectedAfter

LEMMA WrittenTyped ==
  ASSUME ConfigurationTypeOK, NEW t \in Threads,
         requests[t].kind \in {"save_as", "patch_template", "delete_template"}
  PROVE  /\ requests[t].id \in UserTemplates
         /\ Written(requests[t]) \in TemplateRows \cup NoRow
<1>1. CASE requests[t].kind = "save_as"
  <2>1. requests[t] \in Saves
    BY <1>1, Kinds
  <2>2. TemplateRow(requests[t].body, requests[t].base) \in TemplateRows
    BY <2>1 DEF Saves, TemplateRow, Bodies, TemplateRows
  <2>3. Written(requests[t]) = TemplateRow(requests[t].body, requests[t].base)
    BY <1>1 DEF Written
  <2>4. QED BY <2>1, <2>2, <2>3 DEF Saves
<1>2. CASE requests[t].kind = "patch_template"
  <2>1. requests[t] \in Patches
    BY <1>2, Kinds
  <2>2. /\ TemplateRow(requests[t].body, requests[t].was.base) \in TemplateRows
        /\ requests[t].was \in TemplateRows /\ requests[t].id \in UserTemplates
    BY <2>1 DEF Patches, TemplateRow, Bodies, TemplateRows
  <2>3. Written(requests[t]) =
          IF Row(templates[requests[t].id])
          THEN Flush(templates[requests[t].id], requests[t].was,
                     TemplateRow(requests[t].body, requests[t].was.base))
          ELSE Deleted
    BY <1>2 DEF Written
  <2>4. Row(templates[requests[t].id]) => templates[requests[t].id] \in TemplateRows
    BY <2>2, RowTyped DEF TemplateIds
  <2>5. QED BY <2>2, <2>3, <2>4, FlushTyped DEF NoRow
<1>3. CASE requests[t].kind = "delete_template"
  <2>1. requests[t] \in Deletions
    BY <1>3, Kinds
  <2>2. Written(requests[t]) = Deleted
    BY <1>3 DEF Written
  <2>3. QED BY <2>1, <2>2 DEF Deletions, NoRow
<1>4. QED BY <1>1, <1>2, <1>3

\* What a run freezes.
LEMMA FrozenTyped ==
  ASSUME ConfigurationTypeOK, NEW t \in Threads, requests[t].kind \in Starting,
         Startable(requests[t])
  PROVE  Frozen(requests[t]) \in [template : TemplateIds \cup {None},
                                  bindings : SUBSET ModelChoices,
                                  snapshots : SUBSET ModelChoices, limit : Nat, version : Nat]
<1> DEFINE r == requests[t]
           template == r.template
<1>1. /\ r.id \in TemplateIds /\ r.rows \in ProviderTables
      /\ template.stage \in Providers /\ template.aux \in ModelChoices
      /\ template.limit \in Nat
  BY Kinds DEF RunStarts, TemplateRows
<1>2. template.aux[1] \in Providers
  BY <1>1 DEF ModelChoices
<1>3. \A p \in RequiredProviders(template) : p \in Providers /\ r.rows[p].default \in Models
  <2> TAKE p \in RequiredProviders(template)
  <2>1. p \in Providers /\ Row(r.rows[p])
    BY <1>1, <1>2 DEF Startable, RequiredProviders
  <2>2. r.rows[p] \in ProviderRows
    BY <1>1, <2>1 DEF ProviderTables, Row, NoRow
  <2>3. QED BY <2>1, <2>2 DEF ProviderRows
<1>4. ProviderSnapshots(r) \in SUBSET ModelChoices
  BY <1>1, <1>3 DEF ProviderSnapshots, ModelChoices
<1>5. ModelBindings(r) \in SUBSET ModelChoices
  BY <1>1, <1>3 DEF ModelBindings, ModelChoices, RequiredProviders
<1>6. r.settings.version \in Nat
  BY Kinds DEF RunStarts, Startable, SettingsRows
<1>7. QED BY <1>1, <1>4, <1>5, <1>6 DEF Frozen

\* What an import would write over the rows it had loaded.
LEMMA ImportedTyped ==
  ASSUME NEW r \in Imports
  PROVE  /\ \A p \in DOMAIN r.package.providers :
              p \in Providers /\ ImportedProvider(r, p) \in ProviderRows
         /\ \A id \in DOMAIN r.package.templates :
              /\ id \in TemplateIds /\ ImportedTemplate(r, id) \in TemplateRows
              /\ ImportedTemplate(r, id).base =
                   IF Row(r.templates[id]) THEN r.templates[id].base ELSE None
         /\ \A p \in Providers : Row(r.providers[p]) => r.providers[p] \in ProviderRows
         /\ \A id \in TemplateIds : Row(r.templates[id]) => r.templates[id] \in TemplateRows
<1>1. /\ r.package \in Packages
      /\ r.providers \in ProviderTables /\ r.templates \in TemplateTables
  BY DEF Imports
<1>2. \A p \in DOMAIN r.package.providers :
        p \in Providers /\ ImportedProvider(r, p) \in ProviderRows
  BY <1>1, SubmittedAssumption DEF ImportedProvider, ProviderRow, ProviderRows
<1>3. /\ \A p \in Providers : Row(r.providers[p]) => r.providers[p] \in ProviderRows
      /\ \A id \in TemplateIds : Row(r.templates[id]) => r.templates[id] \in TemplateRows
  BY <1>1 DEF ProviderTables, TemplateTables, Row, NoRow
<1> DEFINE base(id) == IF Row(r.templates[id]) THEN r.templates[id].base ELSE None
<1>4. \A id \in TemplateIds : base(id) \in TemplateIds \cup {None}
  BY <1>3 DEF TemplateRows
<1>5. \A id \in DOMAIN r.package.templates :
        /\ id \in TemplateIds
        /\ r.package.templates[id] \in [stage : Providers, aux : ModelChoices, limit : Nat]
  BY <1>1, SubmittedAssumption
<1>6. \A id : ImportedTemplate(r, id) = TemplateRow(r.package.templates[id], base(id))
  BY DEF ImportedTemplate
<1> HIDE DEF base
<1>7. \A id \in DOMAIN r.package.templates :
        /\ ImportedTemplate(r, id) \in TemplateRows /\ ImportedTemplate(r, id).base = base(id)
  BY <1>4, <1>5, <1>6 DEF TemplateRow, TemplateRows
<1>8. QED BY <1>2, <1>3, <1>5, <1>7 DEF base

\* A row that is saved over: its base is the one read, or the row's own.
LEMMA SavedTyped ==
  /\ \A row, was \in ProviderRows \cup NoRow, new \in ProviderRows :
       Savable(row, was, new) => Saved(row, was, new) \in ProviderRows \cup NoRow
  /\ \A row, was \in TemplateRows \cup NoRow, new \in TemplateRows :
       Savable(row, was, new) /\ new.base = (IF Row(was) THEN was.base ELSE None) =>
         /\ Saved(row, was, new) \in TemplateRows \cup NoRow
         /\ Row(row) => Row(Saved(row, was, new)) /\ Saved(row, was, new).base = row.base
         /\ Row(Saved(row, was, new)) /\ ~Row(row) => Saved(row, was, new).base = None
<1>1. ASSUME NEW row \in ProviderRows \cup NoRow, NEW was \in ProviderRows \cup NoRow,
             NEW new \in ProviderRows, Savable(row, was, new)
      PROVE  Saved(row, was, new) \in ProviderRows \cup NoRow
  <2>1. (Row(row) => row \in ProviderRows) /\ (Row(was) => was \in ProviderRows)
    BY DEF Row, NoRow
  <2>2. QED BY <1>1, <2>1, FlushTyped DEF Saved, Savable
<1>2. ASSUME NEW row \in TemplateRows \cup NoRow, NEW was \in TemplateRows \cup NoRow,
             NEW new \in TemplateRows, Savable(row, was, new),
             new.base = IF Row(was) THEN was.base ELSE None
      PROVE  /\ Saved(row, was, new) \in TemplateRows \cup NoRow
             /\ Row(row) => Row(Saved(row, was, new)) /\ Saved(row, was, new).base = row.base
             /\ Row(Saved(row, was, new)) /\ ~Row(row) => Saved(row, was, new).base = None
  <2>1. (Row(row) => row \in TemplateRows) /\ (Row(was) => was \in TemplateRows)
    BY DEF Row, NoRow
  <2>2. CASE new = was
    BY <2>2 DEF Saved
  <2>3. CASE new # was /\ Row(was)
    <3>1. Row(row) /\ row \in TemplateRows /\ was \in TemplateRows
      BY <1>2, <2>1, <2>3 DEF Savable
    <3>2. Saved(row, was, new) = Flush(row, was, new)
      BY <2>3 DEF Saved
    <3>3. Flush(row, was, new) \in TemplateRows
      BY <3>1, FlushTyped
    <3>4. Flush(row, was, new).base = row.base
      BY <1>2, <2>3, <3>1 DEF Flush, TemplateRows
    <3>5. QED BY <3>1, <3>2, <3>3, <3>4, RowsAreRows
  <2>4. CASE new # was /\ ~Row(was)
    <3>1. ~Row(row) /\ Saved(row, was, new) = new /\ new.base = None
      BY <1>2, <2>4 DEF Savable, Saved
    <3>2. QED BY <3>1
  <2>5. QED BY <2>2, <2>3, <2>4
<1>3. QED BY <1>1, <1>2

\* The templates before the import is applied to them.
ImportedOver(r) ==
    IF DOMAIN r.package.providers = {} THEN templates
    ELSE Refresh(templates, ApplyProviders(r))

\* What an import does to the rows, if none came or went that it means to write.
LEMMA ImportTyped ==
  ASSUME ConfigurationTypeOK, NEW r \in Imports,
         \A p \in DOMAIN r.package.providers :
            Savable(providers[p], r.providers[p], ImportedProvider(r, p)),
         \A id \in DOMAIN r.package.templates :
            Savable(templates[id], r.templates[id], ImportedTemplate(r, id))
  PROVE  /\ ApplyProviders(r) \in ProviderTables
         /\ ApplyTemplates(r, ImportedOver(r)) \in TemplateTables
         /\ Row(ApplyTemplates(r, ImportedOver(r))[System])
         /\ \A id \in TemplateIds :
              LET new == ApplyTemplates(r, ImportedOver(r))[id]
              IN  /\ Row(templates[id]) => Row(new) /\ new.base = templates[id].base
                  /\ Row(new) /\ ~Row(templates[id]) => new.base = None
<1>1. ApplyProviders(r) \in ProviderTables
  <2>1. \A p \in Providers : /\ providers[p] \in ProviderRows \cup NoRow
                             /\ r.providers[p] \in ProviderRows \cup NoRow
    BY DEF ConfigurationTypeOK, Imports, ProviderTables
  <2>2. \A p \in DOMAIN r.package.providers :
          Saved(providers[p], r.providers[p], ImportedProvider(r, p)) \in ProviderRows \cup NoRow
    BY <2>1, ImportedTyped, SavedTyped
  <2>3. QED BY <2>1, <2>2 DEF ApplyProviders, ProviderTables
<1>2. /\ ImportedOver(r) \in TemplateTables
      /\ \A id \in TemplateIds :
           /\ Row(ImportedOver(r)[id]) <=> Row(templates[id])
           /\ Row(templates[id]) => ImportedOver(r)[id].base = templates[id].base
  BY <1>1, RefreshTyped DEF ImportedOver, ConfigurationTypeOK
<1>0. System \notin DOMAIN r.package.templates
  BY DEF Imports
<1>3. \A id \in TemplateIds \ {System} : ImportedOver(r)[id] = templates[id]
  BY DEF ImportedOver, Refresh, ConfigurationTypeOK, TemplateTables
<1>4. System \in TemplateIds /\ Row(templates[System])
  BY DEF TemplateIds, ConfigurationTypeOK
<1> DEFINE over(id) == Saved(ImportedOver(r)[id], r.templates[id], ImportedTemplate(r, id))
<1>5. ASSUME NEW id \in DOMAIN r.package.templates
      PROVE  /\ over(id) \in TemplateRows \cup NoRow
             /\ Row(templates[id]) => Row(over(id)) /\ over(id).base = templates[id].base
             /\ Row(over(id)) /\ ~Row(templates[id]) => over(id).base = None
  <2>1. id \in TemplateIds /\ ImportedOver(r)[id] = templates[id]
    BY <1>0, <1>3, ImportedTyped
  <2>2. /\ templates[id] \in TemplateRows \cup NoRow
        /\ r.templates[id] \in TemplateRows \cup NoRow
    BY <2>1 DEF ConfigurationTypeOK, Imports, TemplateTables
  <2>3. /\ ImportedTemplate(r, id) \in TemplateRows
        /\ ImportedTemplate(r, id).base = IF Row(r.templates[id]) THEN r.templates[id].base ELSE None
        /\ Savable(templates[id], r.templates[id], ImportedTemplate(r, id))
    BY ImportedTyped
  <2>4. over(id) = Saved(templates[id], r.templates[id], ImportedTemplate(r, id))
    BY <2>1
  <2>5. QED BY <2>2, <2>3, <2>4, SavedTyped
<1>6. ApplyTemplates(r, ImportedOver(r)) =
        [id \in TemplateIds |-> IF id \in DOMAIN r.package.templates THEN over(id)
                                ELSE ImportedOver(r)[id]]
  BY DEF ApplyTemplates
<1> HIDE DEF over
<1>7. ApplyTemplates(r, ImportedOver(r)) \in TemplateTables
  BY <1>2, <1>5, <1>6 DEF TemplateTables
<1>8. QED BY <1>1, <1>2, <1>4, <1>5, <1>6, <1>7

LEMMA CommitsTyped ==
  ASSUME ConfigurationTypeOK, NEW t \in Threads, Commit(t)
  PROVE  ConfigurationTypeOK'
<1>1. CASE CommitTemplate(t)
  <2>1. requests[t].id \in UserTemplates /\ Written(requests[t]) \in TemplateRows \cup NoRow
    BY <1>1, WrittenTyped DEF CommitTemplate
  <2>2. /\ templates' \in TemplateTables
        /\ templates'[System] = templates[System]
    <3>1. \/ templates' = [templates EXCEPT ![requests[t].id] = Written(requests[t])]
          \/ templates' = templates
      BY <1>1, TemplateCommit
    <3>2. requests[t].id # System /\ System \in TemplateIds
      BY <2>1, InstallationAssumption DEF TemplateIds
    <3>3. QED BY <2>1, <3>1, <3>2 DEF ConfigurationTypeOK, TemplateTables
  <2>3. SelectedAfter(requests[t]) \in TemplateIds
    BY DEF SelectedAfter, ConfigurationTypeOK, TemplateIds
  <2>4. session' \in [template : TemplateIds, started : BOOLEAN]
    BY <1>1, <2>3, TemplateCommit DEF ConfigurationTypeOK
  <2>5. QED BY <1>1, <2>2, <2>4, EndTyped DEF CommitTemplate, ConfigurationTypeOK
<1>2. CASE CommitSelect(t)
  <2>1. requests[t].id \in TemplateIds
    BY <1>2, Kinds DEF CommitSelect, Selections
  <2>2. session' \in [template : TemplateIds, started : BOOLEAN]
    BY <1>2, <2>1 DEF CommitSelect, ConfigurationTypeOK
  <2>3. QED BY <1>2, <2>2, EndTyped DEF CommitSelect, ConfigurationTypeOK
<1>3. CASE CommitProvider(t)
  <2>1. requests[t] \in ProviderChanges
    BY <1>3, Kinds DEF CommitProvider
  <2>2. /\ requests[t].id \in Providers /\ requests[t].was \in ProviderRows
        /\ requests[t].new \in ProviderRows \cup {Deleted}
    BY <2>1 DEF ProviderChanges
  <2>3. Row(requests[t].new) => requests[t].new \in ProviderRows
    BY <2>2 DEF Row
  <2>4. Exists(requests[t].id) => providers[requests[t].id] \in ProviderRows
    BY <2>2, RowTyped
  <2>5. providers' \in ProviderTables
    BY <1>3, <2>2, <2>3, <2>4, FlushTyped DEF CommitProvider, ConfigurationTypeOK, NoRow, ProviderTables
  <2>6. QED BY <1>3, <2>5, EndTyped DEF CommitProvider, ConfigurationTypeOK
<1>4. CASE CommitImport(t)
  <2>1. requests[t] \in Imports
    BY <1>4, Kinds DEF CommitImport
  <2>2. QED BY <1>4, <2>1, ImportTyped, EndTyped
       DEF CommitImport, ImportedOver, ConfigurationTypeOK
<1>5. CASE CommitSettings(t)
  <2>1. requests[t] \in SettingsUpdates
    BY <1>5, Kinds DEF CommitSettings
  <2>2. [version |-> requests[t].expected + 1, limit |-> requests[t].values.limit,
         internal |-> requests[t].values.internal]
          \in SettingsRows
    BY <2>1 DEF SettingsUpdates, Values, SettingsRows
  <2>3. QED BY <1>5, <2>2, EndTyped DEF CommitSettings, ConfigurationTypeOK
<1>6. CASE StartFirstRun(t)
  <2>1. session' \in [template : TemplateIds, started : BOOLEAN]
    BY <1>6 DEF StartFirstRun, Refused, ConfigurationTypeOK
  <2>2. QED
    BY <1>6, <2>1, FrozenTyped, EndTyped DEF StartFirstRun, Refused, ConfigurationTypeOK, Starting
<1>7. CASE CreateRerun(t)
  BY <1>7, FrozenTyped, EndTyped DEF CreateRerun, Refused, ConfigurationTypeOK, Starting
<1>8. QED BY <1>1, <1>2, <1>3, <1>4, <1>5, <1>6, <1>7 DEF Commit

LEMMA ConfigurationTypeStep == ConfigurationTypeOK /\ [Next]_vars => ConfigurationTypeOK'
<1> SUFFICES ASSUME ConfigurationTypeOK, [Next]_vars PROVE ConfigurationTypeOK'
  OBVIOUS
<1>1. CASE UNCHANGED vars BY <1>1 DEF vars, ConfigurationTypeOK, Row
<1>2. CASE ListTemplates
  BY <1>2, RefreshedTyped DEF ListTemplates, ConfigurationTypeOK
<1>3. QED BY <1>1, <1>2, RequestsTyped, ReadsTyped, CommitsTyped DEF Next

LEMMA ConfigurationTypeInit == Init => ConfigurationTypeOK
<1> SUFFICES ASSUME Init PROVE ConfigurationTypeOK
  OBVIOUS
<1>1. providers \in ProviderTables
  BY SubmittedAssumption DEF Init, ProviderRow, ProviderRows, NoRow, ProviderTables
<1>2. PICK selected \in TemplateIds, body \in TemplateBodies :
        /\ templates = [i \in TemplateIds |->
             CASE i = System -> TemplateRow([stage |-> SystemBindings(providers).stage,
                                             aux |-> SystemBindings(providers).aux,
                                             limit |-> 1], None)
               [] i = selected /\ i # System -> TemplateRow(body, System)
               [] OTHER -> Unborn]
        /\ session = [template |-> selected, started |-> FALSE]
  BY DEF Init
<1> DEFINE first == TemplateRow([stage |-> SystemBindings(providers).stage,
                                 aux |-> SystemBindings(providers).aux, limit |-> 1], None)
<1>3. first \in TemplateRows
  BY <1>1, SystemBindingsTyped DEF TemplateRow, TemplateRows
<1>4. TemplateRow(body, System) \in TemplateRows
  BY SubmittedAssumption DEF TemplateRow, TemplateRows, TemplateIds
<1> HIDE DEF first
<1>5. templates = [i \in TemplateIds |->
                     IF i = System THEN first
                     ELSE IF i = selected THEN TemplateRow(body, System) ELSE Unborn]
  BY <1>2 DEF first
<1>6. templates \in TemplateTables
  BY <1>3, <1>4, <1>5 DEF NoRow, TemplateTables
<1>7. Row(templates[System])
  BY <1>3, <1>5, RowsAreRows DEF TemplateIds
<1>8. settings \in SettingsRows
  BY InstallationAssumption DEF Init, SettingsRows
<1>9. requests \in [Threads -> Requests]
  BY DEF Init, Idle, Requests, Idles
<1>10. session \in [template : TemplateIds, started : BOOLEAN]
  BY <1>2
<1>11. QED
  BY <1>1, <1>6, <1>7, <1>8, <1>9, <1>10 DEF Init, ConfigurationTypeOK

\* Every row, the session, the settings, what a run froze and what a request has read keep
\* their types, and the system template is always a row.
THEOREM ConfigurationTyped == Spec => []ConfigurationTypeOK
  BY ConfigurationTypeInit, ConfigurationTypeStep, PTL DEF Spec

-----------------------------------------------------------------------------
(* The selected template and the bases of templates                         *)

\* Rows keep what they are based on, and new ones are based on nothing.
LEMMA BasesKept ==
  ASSUME SelectedExists, session'.template = session.template,
         session.template \in TemplateIds,
         \A id \in TemplateIds :
           /\ Row(templates[id]) => Row(templates'[id]) /\ templates'[id].base = templates[id].base
           /\ Row(templates'[id]) /\ ~Row(templates[id]) => templates'[id].base = None,
         \A id \in TemplateIds : Row(templates[id]) =>
           templates[id].base \in TemplateIds \cup {None}
  PROVE  SelectedExists'
<1>1. Row(templates'[session'.template])
  BY DEF SelectedExists
<1>2. ASSUME NEW id \in TemplateIds, Row(templates'[id]), templates'[id].base # None
      PROVE  Row(templates'[templates'[id].base])
  <2>1. Row(templates[id]) /\ templates'[id].base = templates[id].base
    BY <1>2
  <2>2. Row(templates[templates[id].base]) /\ templates[id].base \in TemplateIds
    BY <1>2, <2>1 DEF SelectedExists
  <2>3. QED BY <2>1, <2>2
<1>3. QED BY <1>1, <1>2 DEF SelectedExists, Row

\* What the foreign keys let through exists.
LEMMA KeysHold ==
  ASSUME ForeignKeys(templates', session'.template)
  PROVE  SelectedExists'
BY DEF ForeignKeys, SelectedExists, Row

LEMMA SelectedStep ==
  ASSUME ConfigurationTypeOK, SelectedExists, [Next]_vars
  PROVE  SelectedExists'
<1>0. /\ session.template \in TemplateIds
      /\ \A id \in TemplateIds : Row(templates[id]) =>
           templates[id].base \in TemplateIds \cup {None}
  BY RowTyped DEF ConfigurationTypeOK, TemplateRows
<1>1. CASE UNCHANGED <<templates, session>>
  BY <1>1 DEF SelectedExists, Row
<1>2. CASE templates' = Refreshed /\ session' = session
  BY <1>0, <1>2, RefreshTyped, BasesKept DEF Refreshed, ConfigurationTypeOK
<1>3. ASSUME NEW t \in Threads, CommitTemplate(t)
      PROVE  SelectedExists'
  <2>1. CASE UNCHANGED <<templates, session>>
    BY <1>1, <2>1
  <2>2. CASE /\ templates' = [templates EXCEPT ![requests[t].id] = Written(requests[t])]
             /\ session' = [session EXCEPT !.template = SelectedAfter(requests[t])]
             /\ ForeignKeys([templates EXCEPT ![requests[t].id] = Written(requests[t])],
                            SelectedAfter(requests[t]))
    <3>1. session'.template = SelectedAfter(requests[t])
      BY <2>2 DEF ConfigurationTypeOK
    <3>2. ForeignKeys(templates', session'.template)
      BY <2>2, <3>1
    <3>3. QED BY <3>2, KeysHold
  <2>3. QED BY <1>3, <2>1, <2>2, TemplateCommit
<1>4. ASSUME NEW t \in Threads, CommitSelect(t)
      PROVE  SelectedExists'
  <2> DEFINE selected == IF requests[t].id # requests[t].was THEN requests[t].id
                         ELSE session.template
  <2>1. /\ templates' = templates
        /\ \/ ForeignKeys(templates, selected) /\ session' = [session EXCEPT !.template = selected]
           \/ UNCHANGED session
    BY <1>4 DEF CommitSelect
  <2>2. CASE UNCHANGED session
    BY <1>1, <2>1, <2>2
  <2>3. CASE ForeignKeys(templates, selected) /\ session' = [session EXCEPT !.template = selected]
    <3>1. session'.template = selected
      BY <2>3 DEF ConfigurationTypeOK
    <3>2. ForeignKeys(templates', session'.template)
      BY <2>1, <2>3, <3>1
    <3>3. QED BY <3>2, KeysHold
  <2>4. QED BY <2>1, <2>2, <2>3
<1>5. ASSUME NEW t \in Threads, CommitImport(t)
      PROVE  SelectedExists'
  <2>1. requests[t] \in Imports
    BY <1>5, Kinds DEF CommitImport
  <2>2. CASE UNCHANGED templates
    BY <1>1, <1>5, <2>2 DEF CommitImport
  <2>3. CASE templates' # templates
    <3>1. /\ session' = session
          /\ templates' = ApplyTemplates(requests[t], ImportedOver(requests[t]))
          /\ \A p \in DOMAIN requests[t].package.providers :
               Savable(providers[p], requests[t].providers[p], ImportedProvider(requests[t], p))
          /\ \A id \in DOMAIN requests[t].package.templates :
               Savable(templates[id], requests[t].templates[id], ImportedTemplate(requests[t], id))
      BY <1>5, <2>3 DEF CommitImport, ImportedOver
    <3>2. QED BY <1>0, <2>1, <3>1, ImportTyped, BasesKept
  <2>4. QED BY <2>2, <2>3
<1>6. ASSUME NEW t \in Threads, StartFirstRun(t)
      PROVE  SelectedExists'
  <2>1. session'.template = session.template /\ templates' = templates
    BY <1>6 DEF StartFirstRun, Refused, ConfigurationTypeOK
  <2>2. QED BY <2>1 DEF SelectedExists, Row
<1>7. ASSUME NEW t \in Threads, Request(t)
      PROVE  SelectedExists'
  <2>1. session' = session /\ templates' \in {templates, Refreshed}
    BY <1>7
    DEF Request, SaveAsTemplate, PatchTemplate, DeleteTemplate, SelectTemplate, CreateProvider,
        PatchProvider, DeleteProvider, ImportPackage, UpdateSettings, FirstStart, Rerun,
        ReadTemplate
  <2>2. QED BY <1>1, <1>2, <2>1
<1>8. ASSUME NEW t \in Threads, CommitProvider(t) \/ CommitSettings(t) \/ CreateRerun(t)
      PROVE  UNCHANGED <<templates, session>>
  BY <1>8 DEF CommitProvider, CommitSettings, CreateRerun, Refused
<1>9. CASE UNCHANGED vars
  BY <1>1, <1>9 DEF vars
<1>10. CASE ListTemplates
  BY <1>2, <1>10 DEF ListTemplates
<1>11. ASSUME NEW t \in Threads, Read(t)
       PROVE  SelectedExists'
  BY <1>1, <1>11, ReadsTyped
<1>12. QED
  BY <1>1, <1>3, <1>4, <1>5, <1>6, <1>7, <1>8, <1>9, <1>10, <1>11 DEF Next, Commit

\* The session's template and every template's base are rows, however requests cross.
THEOREM SelectedStays == Spec => []SelectedExists
<1>1. Init => SelectedExists
  <2> SUFFICES ASSUME Init PROVE SelectedExists
    OBVIOUS
  <2>1. PICK selected \in TemplateIds, body \in TemplateBodies :
          /\ templates = [i \in TemplateIds |->
               CASE i = System -> TemplateRow([stage |-> SystemBindings(providers).stage,
                                               aux |-> SystemBindings(providers).aux,
                                               limit |-> 1], None)
                 [] i = selected /\ i # System -> TemplateRow(body, System)
                 [] OTHER -> Unborn]
          /\ session = [template |-> selected, started |-> FALSE]
    BY DEF Init
  <2>2. ConfigurationTypeOK
    BY ConfigurationTypeInit
  <2>3. System \in TemplateIds /\ Row(templates[System])
    BY <2>2 DEF ConfigurationTypeOK, TemplateIds
  <2>4. templates[System].base = None
    BY <2>1, <2>3 DEF TemplateRow
  <2>5. ASSUME NEW i \in TemplateIds \ {System}
        PROVE  templates[i] = IF i = selected THEN TemplateRow(body, System) ELSE Unborn
    BY <2>1
  <2>6. TemplateRow(body, System) \in TemplateRows
    BY SubmittedAssumption DEF TemplateRow, TemplateRows, TemplateIds
  <2>7. \A i \in TemplateIds \ {System} : Row(templates[i]) => templates[i].base = System
    BY <2>5 DEF TemplateRow, Row
  <2>8. Row(templates[selected])
    BY <2>3, <2>5, <2>6, RowsAreRows
  <2>9. QED BY <2>1, <2>3, <2>4, <2>7, <2>8 DEF SelectedExists
<1>2. QED
  BY <1>1, ConfigurationTypeInit, ConfigurationTypeStep, SelectedStep, PTL DEF Spec

-----------------------------------------------------------------------------
(* The runtime settings                                                     *)

\* Only a save changes the settings, and it gives them a version of their own.
LEMMA SettingsMove ==
  ASSUME ConfigurationTypeOK, [Next]_vars
  PROVE  \/ settings' = settings
         \/ \E t \in Threads :
              /\ requests[t] \in SettingsUpdates /\ requests[t].kind = "settings"
              /\ settings.version = requests[t].expected
              /\ settings' = [version |-> settings.version + 1,
                              limit |-> requests[t].values.limit,
                              internal |-> requests[t].values.internal]
              /\ End(t)
<1>1. CASE UNCHANGED vars \/ ListTemplates
  BY <1>1 DEF vars, ListTemplates
<1>2. ASSUME NEW t \in Threads, Request(t)
      PROVE  settings' = settings
  BY <1>2
  DEF Request, SaveAsTemplate, PatchTemplate, DeleteTemplate, SelectTemplate, CreateProvider,
      PatchProvider, DeleteProvider, ImportPackage, UpdateSettings, FirstStart, Rerun,
      ReadTemplate
<1>3. ASSUME NEW t \in Threads, CommitSettings(t)
      PROVE  \/ settings' = settings
             \/ /\ requests[t] \in SettingsUpdates /\ requests[t].kind = "settings"
                /\ settings.version = requests[t].expected
                /\ settings' = [version |-> settings.version + 1,
                                limit |-> requests[t].values.limit,
                                internal |-> requests[t].values.internal]
                /\ End(t)
  BY <1>3, Kinds DEF CommitSettings, ConditionalUpdate
<1>4. ASSUME NEW t \in Threads, Commit(t), ~CommitSettings(t)
      PROVE  settings' = settings
  BY <1>4
  DEF Commit, CommitTemplate, CommitSelect, CommitProvider, CommitImport, StartFirstRun,
      CreateRerun
<1>5. ASSUME NEW t \in Threads, Read(t)
      PROVE  settings' = settings
  BY <1>5, ReadsTyped
<1>6. QED BY <1>1, <1>2, <1>3, <1>4, <1>5 DEF Next

\* A request that is not an update of the settings has read nothing of them.
LEMMA NoUpdate ==
  ASSUME NEW t \in Threads, requests'[t].kind # "settings"
  PROVE  UpdateRead(t)'
BY DEF UpdateRead

\* A save leaves every other waiting update behind its version.
LEMMA UpdatesOvertaken ==
  ASSUME ConfigurationTypeOK, NEW t \in Threads, UpdateRead(t), requests'[t] = requests[t],
         \/ settings' = settings
         \/ settings.version \in Nat /\ settings'.version = settings.version + 1
  PROVE  UpdateRead(t)'
<1>1. CASE settings' = settings
  BY <1>1 DEF UpdateRead
<1>2. CASE settings.version \in Nat /\ settings'.version = settings.version + 1
  <2>1. requests[t].kind = "settings" => requests[t].expected \in Nat
    BY Kinds DEF SettingsUpdates
  <2>2. QED BY <1>2, <2>1 DEF UpdateRead
<1>3. QED BY <1>1, <1>2

LEMMA UpdatesStep ==
  ASSUME ConfigurationTypeOK, UpdatesRead, [Next]_vars
  PROVE  UpdatesRead'
<1>0. settings.version \in Nat
  BY DEF ConfigurationTypeOK, SettingsRows
<1>1. \/ settings' = settings
      \/ settings'.version = settings.version + 1
  BY SettingsMove
<1>2. ASSUME NEW t \in Threads, requests'[t] = requests[t]
      PROVE  UpdateRead(t)'
  BY <1>0, <1>1, <1>2, UpdatesOvertaken DEF UpdatesRead
<1>3. ASSUME NEW t \in Threads, requests'[t].kind # "settings",
             \A u \in Threads \ {t} : requests'[u] = requests[u]
      PROVE  UpdatesRead'
  BY <1>2, <1>3, NoUpdate DEF UpdatesRead
<1>4. CASE UNCHANGED vars \/ ListTemplates
  BY <1>2, <1>4 DEF vars, ListTemplates, UpdatesRead
<1>5. ASSUME NEW t \in Threads, Commit(t)
      PROVE  UpdatesRead'
  <2>1. End(t)
    BY <1>5
    DEF Commit, CommitTemplate, CommitSelect, CommitProvider, CommitImport, CommitSettings,
        StartFirstRun, CreateRerun
  <2>2. Idle.kind # "settings"
    BY DEF Idle
  <2>3. QED BY <1>3, <2>1, <2>2, EndTyped
<1>6. ASSUME NEW t \in Threads, NEW request, Begin(t, request)
      PROVE  requests'[t] = request /\ \A u \in Threads \ {t} : requests'[u] = requests[u]
  BY <1>6 DEF Begin, ConfigurationTypeOK
<1>7. ASSUME NEW t \in Threads, UpdateSettings(t)
      PROVE  UpdatesRead'
  <2>1. PICK update \in Updates :
          Begin(t, [kind |-> "settings", expected |-> settings.version, update |-> update,
                    values |-> Merged(update)])
    BY <1>7 DEF UpdateSettings
  <2>2. requests'[t] = [kind |-> "settings", expected |-> settings.version, update |-> update,
                        values |-> Merged(update)]
    BY <1>6, <2>1
  <2>3. /\ requests'[t].expected = settings.version
        /\ requests'[t].update = update /\ requests'[t].values = Merged(update)
    BY <2>2
  <2>4. settings' = settings
    BY <1>7 DEF UpdateSettings
  <2>5. UpdateRead(t)'
    BY <1>0, <2>3, <2>4 DEF UpdateRead, Merged
  <2>6. QED BY <1>2, <1>6, <2>1, <2>5 DEF UpdatesRead
<1>8. ASSUME NEW t \in Threads, NEW request, Begin(t, request), request.kind # "settings"
      PROVE  UpdatesRead'
  BY <1>3, <1>6, <1>8
<1>9. ASSUME NEW t \in Threads,
             SaveAsTemplate(t) \/ PatchTemplate(t) \/ DeleteTemplate(t) \/ SelectTemplate(t)
      PROVE  UpdatesRead'
  <2>1. /\ \A id, base, body :
             [kind |-> "save_as", id |-> id, base |-> base, body |-> body].kind = "save_as"
        /\ \A id, was, body :
             [kind |-> "patch_template", id |-> id, was |-> was, body |-> body].kind
               = "patch_template"
        /\ \A id, moves :
             [kind |-> "delete_template", id |-> id, moves |-> moves].kind = "delete_template"
        /\ \A id, was : [kind |-> "select", id |-> id, was |-> was].kind = "select"
    OBVIOUS
  <2>2. CASE SaveAsTemplate(t) BY <1>8, <2>1, <2>2 DEF SaveAsTemplate
  <2>3. CASE PatchTemplate(t) BY <1>8, <2>1, <2>3 DEF PatchTemplate
  <2>4. CASE DeleteTemplate(t) BY <1>8, <2>1, <2>4 DEF DeleteTemplate
  <2>5. CASE SelectTemplate(t) BY <1>8, <2>1, <2>5 DEF SelectTemplate
  <2>6. QED BY <1>9, <2>2, <2>3, <2>4, <2>5
<1>10. ASSUME NEW t \in Threads,
              \/ PatchProvider(t) \/ DeleteProvider(t) \/ ImportPackage(t)
              \/ FirstStart(t) \/ Rerun(t)
       PROVE  UpdatesRead'
  <2>1. /\ \A id, was, new :
             [kind |-> "provider", id |-> id, was |-> was, new |-> new].kind = "provider"
        /\ \A package, ps, ts :
             [kind |-> "import", package |-> package, providers |-> ps, templates |-> ts].kind
               = "import"
        /\ \A kind, id, template, read, rows :
             [kind |-> kind, id |-> id, template |-> template, settings |-> read,
              rows |-> rows].kind = kind
    OBVIOUS
  <2>2. CASE PatchProvider(t) BY <1>8, <2>1, <2>2 DEF PatchProvider
  <2>3. CASE DeleteProvider(t) BY <1>8, <2>1, <2>3 DEF DeleteProvider
  <2>4. CASE ImportPackage(t) BY <1>8, <2>1, <2>4 DEF ImportPackage
  <2>5. CASE FirstStart(t) \/ Rerun(t)
    BY <1>8, <2>1, <2>5 DEF FirstStart, Rerun, ReadTemplate
  <2>6. QED BY <1>10, <2>2, <2>3, <2>4, <2>5
<1>11. ASSUME NEW t \in Threads, CreateProvider(t)
       PROVE  UpdatesRead'
  BY <1>2, <1>11 DEF CreateProvider, UpdatesRead
<1>12. ASSUME NEW t \in Threads, Read(t)
       PROVE  UpdatesRead'
  <2>1. requests'[t].kind # "settings" /\ \A u \in Threads \ {t} : requests'[u] = requests[u]
    BY <1>12, ReadsTyped DEF Starting
  <2>2. QED BY <1>3, <2>1
<1>13. QED BY <1>4, <1>5, <1>7, <1>9, <1>10, <1>11, <1>12 DEF Next, Request

LEMMA UpdatesAlways == Spec => [](ConfigurationTypeOK /\ UpdatesRead)
<1>1. Init => UpdatesRead
  <2>1. Idle.kind # "settings"
    BY DEF Idle
  <2>2. QED BY <2>1 DEF Init, UpdatesRead, UpdateRead
<1>2. QED
  BY <1>1, ConfigurationTypeInit, ConfigurationTypeStep, UpdatesStep, PTL DEF Spec

\* A save changes the fields its user sent and no other, under the next version.
THEOREM UpdatesKeep == Spec => UpdatesKeepOthers
<1> DEFINE Keeps == settings' # settings =>
              /\ settings'.version = settings.version + 1
              /\ \E t \in Threads :
                    /\ requests[t].kind = "settings"
                    /\ \A f \in {"limit", "internal"} :
                          settings'[f] = IF f \in DOMAIN requests[t].update
                                         THEN requests[t].update[f] ELSE settings[f]
<1>1. ConfigurationTypeOK /\ UpdatesRead /\ [Next]_vars => [Keeps]_vars
  <2> SUFFICES ASSUME ConfigurationTypeOK, UpdatesRead, [Next]_vars, settings' # settings
               PROVE  Keeps
    OBVIOUS
  <2>1. PICK t \in Threads :
          /\ requests[t] \in SettingsUpdates /\ requests[t].kind = "settings"
          /\ settings.version = requests[t].expected
          /\ settings' = [version |-> settings.version + 1,
                          limit |-> requests[t].values.limit,
                          internal |-> requests[t].values.internal]
    BY SettingsMove
  <2>2. \A f \in {"limit", "internal"} :
          requests[t].values[f] = IF f \in DOMAIN requests[t].update
                                  THEN requests[t].update[f] ELSE settings[f]
    BY <2>1 DEF UpdatesRead, UpdateRead
  <2>3. /\ settings'.version = settings.version + 1
        /\ settings'["limit"] = requests[t].values["limit"]
        /\ settings'["internal"] = requests[t].values["internal"]
    BY <2>1
  <2>4. QED BY <2>1, <2>2, <2>3
<1>2. QED BY <1>1, UpdatesAlways, PTL DEF Spec, UpdatesKeepOthers

-----------------------------------------------------------------------------
(* What a run freezes                                                       *)

\* What a start has read was configured since it began, and did for its template.
SettingsAttested(t) ==
    requests[t].settings # Unborn =>
      \E then \in since[t] :
         then.settings = requests[t].settings /\ requests[t].template.limit <= then.settings.limit

RowsAttested(t) ==
    \A p \in Providers : Row(requests[t].rows[p]) =>
      \E then \in since[t] :
         then.providers[p] = requests[t].rows[p] /\ UsableRow(requests[t].rows[p])

Attested(t) == requests[t].kind \in Starting => SettingsAttested(t) /\ RowsAttested(t)

StartsAttested == \A t \in Threads : Attested(t)

\* All that was configured stays so, and what is configured now comes to it.
LEMMA Watching ==
  ASSUME [Next]_vars, NEW t \in Threads, requests'[t].kind \in Starting,
         ~(UNCHANGED vars)
  PROVE  /\ since[t] \subseteq since'[t]
         /\ [providers |-> providers', settings |-> settings'] \in since'[t]
<1>1. since' = Watched
  BY DEF Next
<1>2. since'[t] = since[t] \cup {[providers |-> providers', settings |-> settings']}
  BY <1>1 DEF Watched
<1>3. QED BY <1>2

\* A start that waits is attested by what attested it.
LEMMA AttestedWaits ==
  ASSUME [Next]_vars, NEW t \in Threads, Attested(t), requests'[t] = requests[t]
  PROVE  Attested(t)'
<1>1. CASE UNCHANGED vars
  <2>1. since' = since BY <1>1 DEF vars
  <2>2. QED BY <2>1 DEF Attested, SettingsAttested, RowsAttested, UsableRow, Row
<1>2. CASE ~(UNCHANGED vars) /\ requests'[t].kind \in Starting
  <2>1. since[t] \subseteq since'[t]
    BY <1>2, Watching
  <2>2. QED BY <1>2, <2>1 DEF Attested, SettingsAttested, RowsAttested, UsableRow, Row
<1>3. CASE requests'[t].kind \notin Starting
  BY <1>3 DEF Attested
<1>4. QED BY <1>1, <1>2, <1>3

\* The row a start reads is attested by the moment it is read at.
LEMMA AttestedReads ==
  ASSUME ConfigurationTypeOK, [Next]_vars, NEW t \in Threads, Attested(t), Read(t)
  PROVE  Attested(t)'
<1>1. /\ requests[t] \in RunStarts /\ requests[t].kind \in Starting
      /\ providers' = providers /\ settings' = settings
      /\ requests'[t].kind \in Starting
  BY ReadsTyped, Kinds
<1>2. CASE UNCHANGED vars
  BY <1>2, AttestedWaits DEF vars
<1>3. CASE ~(UNCHANGED vars)
  <2>1. since[t] \subseteq since'[t]
    BY <1>1, <1>3, Watching
  <2>2. PICK now \in since'[t] : now.providers = providers /\ now.settings = settings
    BY <1>1, <1>3, Watching
  <2>3. CASE ReadSettings(t)
    <3>1. requests'[t] = [requests[t] EXCEPT !.settings = settings]
      BY <2>3 DEF ReadSettings, ConfigurationTypeOK
    <3>2. /\ requests'[t].settings = settings /\ requests'[t].rows = requests[t].rows
          /\ requests'[t].template = requests[t].template
      BY <1>1, <3>1 DEF RunStarts
    <3>3. requests[t].template.limit <= settings.limit
      BY <2>3 DEF ReadSettings, WithinLimits
    <3>4. SettingsAttested(t)'
      BY <2>2, <3>2, <3>3 DEF SettingsAttested
    <3>5. RowsAttested(t)'
      BY <1>1, <2>1, <3>2 DEF Attested, RowsAttested, UsableRow, Row
    <3>6. QED BY <3>4, <3>5 DEF Attested
  <2>4. CASE ReadProvider(t)
    <3>1. PICK p \in RequiredProviders(requests[t].template) :
            /\ Usable(p)
            /\ requests' = [requests EXCEPT ![t].rows[p] = providers[p]]
      BY <2>4 DEF ReadProvider
    <3>2. p \in Providers /\ requests[t].rows \in ProviderTables
      BY <1>1 DEF RunStarts, TemplateRows, RequiredProviders, ModelChoices
    <3>3. requests'[t] = [requests[t] EXCEPT !.rows = [requests[t].rows EXCEPT ![p] = providers[p]]]
      BY <3>1 DEF ConfigurationTypeOK
    <3>4. /\ requests'[t].settings = requests[t].settings
          /\ requests'[t].template = requests[t].template
          /\ requests'[t].rows = [requests[t].rows EXCEPT ![p] = providers[p]]
      BY <1>1, <3>3 DEF RunStarts
    <3>5. SettingsAttested(t)'
      BY <1>1, <2>1, <3>4 DEF Attested, SettingsAttested
    <3>6. ASSUME NEW q \in Providers, Row(requests'[t].rows[q])
          PROVE  \E then \in since'[t] : /\ then.providers[q] = requests'[t].rows[q]
                                        /\ UsableRow(requests'[t].rows[q])
      <4>1. requests'[t].rows[q] = IF q = p THEN providers[p] ELSE requests[t].rows[q]
        BY <3>2, <3>4 DEF ProviderTables
      <4>2. CASE q = p
        <5>1. UsableRow(requests'[t].rows[q])
          BY <3>1, <4>1, <4>2 DEF Usable
        <5>2. QED BY <2>2, <4>1, <4>2, <5>1
      <4>3. CASE q # p
        <5>1. Row(requests[t].rows[q]) /\ requests'[t].rows[q] = requests[t].rows[q]
          BY <3>6, <4>1, <4>3
        <5>2. QED BY <1>1, <2>1, <5>1 DEF Attested, RowsAttested
      <4>4. QED BY <4>2, <4>3
    <3>7. RowsAttested(t)'
      BY <3>6 DEF RowsAttested, UsableRow, Row
    <3>8. QED BY <3>5, <3>7 DEF Attested
  <2>5. QED BY <2>3, <2>4 DEF Read
<1>4. QED BY <1>2, <1>3

\* A request that begins has read nothing yet that needs a witness.
LEMMA AttestedBegins ==
  ASSUME ConfigurationTypeOK, NEW t \in Threads, Request(t)
  PROVE  /\ \/ requests'[t] = requests[t]
            \/ Attested(t)'
         /\ \A u \in Threads \ {t} : requests'[u] = requests[u]
<1>1. ASSUME NEW request, Begin(t, request)
      PROVE  requests'[t] = request /\ \A u \in Threads \ {t} : requests'[u] = requests[u]
  BY <1>1 DEF Begin, ConfigurationTypeOK
<1>2. ASSUME NEW request, Begin(t, request), request.kind \notin Starting
      PROVE  Attested(t)' /\ \A u \in Threads \ {t} : requests'[u] = requests[u]
  BY <1>1, <1>2 DEF Attested
<1>3. CASE FirstStart(t) \/ Rerun(t)
  <2>1. PICK kind \in Starting : ReadTemplate(t, kind)
    BY <1>3 DEF FirstStart, Rerun, Starting
  <2>2. requests'[t] = [kind |-> kind, id |-> session.template, template |-> TemplateSnapshot,
                        settings |-> Unborn, rows |-> [p \in Providers |-> Unborn]]
    BY <1>1, <2>1 DEF ReadTemplate
  <2>3. requests'[t].settings = Unborn /\ \A p \in Providers : requests'[t].rows[p] = Unborn
    BY <2>2
  <2>4. Attested(t)'
    BY <2>3 DEF Attested, SettingsAttested, RowsAttested, Row
  <2>5. QED BY <1>1, <2>1, <2>4 DEF ReadTemplate
<1>4. CASE CreateProvider(t)
  BY <1>4 DEF CreateProvider
<1>5. CASE \/ SaveAsTemplate(t) \/ PatchTemplate(t) \/ DeleteTemplate(t) \/ SelectTemplate(t)
           \/ PatchProvider(t) \/ DeleteProvider(t) \/ ImportPackage(t) \/ UpdateSettings(t)
  <2>1. /\ \A id, base, body :
             [kind |-> "save_as", id |-> id, base |-> base, body |-> body].kind = "save_as"
        /\ \A id, was, body :
             [kind |-> "patch_template", id |-> id, was |-> was, body |-> body].kind
               = "patch_template"
        /\ \A id, moves :
             [kind |-> "delete_template", id |-> id, moves |-> moves].kind = "delete_template"
        /\ \A id, was : [kind |-> "select", id |-> id, was |-> was].kind = "select"
    OBVIOUS
  <2>2. /\ \A id, was, new :
             [kind |-> "provider", id |-> id, was |-> was, new |-> new].kind = "provider"
        /\ \A package, ps, ts :
             [kind |-> "import", package |-> package, providers |-> ps, templates |-> ts].kind
               = "import"
        /\ \A expected, update, values :
             [kind |-> "settings", expected |-> expected, update |-> update,
              values |-> values].kind = "settings"
    OBVIOUS
  <2>3. {"save_as", "patch_template", "delete_template", "select", "provider", "import",
         "settings"} \cap Starting = {}
    BY DEF Starting
  <2>4. CASE SaveAsTemplate(t) BY <1>2, <2>1, <2>3, <2>4 DEF SaveAsTemplate
  <2>5. CASE PatchTemplate(t) BY <1>2, <2>1, <2>3, <2>5 DEF PatchTemplate
  <2>6. CASE DeleteTemplate(t) BY <1>2, <2>1, <2>3, <2>6 DEF DeleteTemplate
  <2>7. CASE SelectTemplate(t) BY <1>2, <2>1, <2>3, <2>7 DEF SelectTemplate
  <2>8. CASE PatchProvider(t) BY <1>2, <2>2, <2>3, <2>8 DEF PatchProvider
  <2>9. CASE DeleteProvider(t) BY <1>2, <2>2, <2>3, <2>9 DEF DeleteProvider
  <2>10. CASE ImportPackage(t) BY <1>2, <2>2, <2>3, <2>10 DEF ImportPackage
  <2>11. CASE UpdateSettings(t) BY <1>2, <2>2, <2>3, <2>11 DEF UpdateSettings
  <2>12. QED BY <1>5, <2>4, <2>5, <2>6, <2>7, <2>8, <2>9, <2>10, <2>11
<1>6. QED BY <1>3, <1>4, <1>5 DEF Request

LEMMA AttestedStep ==
  ASSUME ConfigurationTypeOK, StartsAttested, [Next]_vars
  PROVE  StartsAttested'
<1>1. ASSUME NEW t \in Threads, requests'[t] = requests[t]
      PROVE  Attested(t)'
  BY <1>1, AttestedWaits DEF StartsAttested
<1>2. CASE UNCHANGED vars \/ ListTemplates
  BY <1>1, <1>2 DEF vars, ListTemplates, StartsAttested
<1>3. ASSUME NEW t \in Threads, Request(t)
      PROVE  StartsAttested'
  BY <1>1, <1>3, AttestedBegins DEF StartsAttested
<1>4. ASSUME NEW t \in Threads, Read(t)
      PROVE  StartsAttested'
  BY <1>1, <1>4, AttestedReads, ReadsTyped DEF StartsAttested
<1>5. ASSUME NEW t \in Threads, Commit(t)
      PROVE  StartsAttested'
  <2>1. End(t)
    BY <1>5
    DEF Commit, CommitTemplate, CommitSelect, CommitProvider, CommitImport, CommitSettings,
        StartFirstRun, CreateRerun
  <2>2. requests'[t].kind \notin Starting /\ \A u \in Threads \ {t} : requests'[u] = requests[u]
    BY <2>1, EndTyped DEF Idle, Starting
  <2>3. Attested(t)'
    BY <2>2 DEF Attested
  <2>4. QED BY <1>1, <2>2, <2>3 DEF StartsAttested
<1>6. QED BY <1>2, <1>3, <1>4, <1>5 DEF Next

LEMMA AttestedAlways == Spec => [](ConfigurationTypeOK /\ StartsAttested)
<1>1. Init => StartsAttested
  BY DEF Init, Idle, StartsAttested, Attested, Starting
<1>2. QED
  BY <1>1, ConfigurationTypeInit, ConfigurationTypeStep, AttestedStep, PTL DEF Spec

\* A run that may be written is put together from rows that were configured.
LEMMA StartableAttested ==
  ASSUME ConfigurationTypeOK, NEW t \in Threads, Attested(t), requests[t].kind \in Starting,
         Startable(requests[t])
  PROVE  /\ \A p \in {b[1] : b \in ModelBindings(requests[t])} : \E then \in since[t] :
              LET row == then.providers[p]
                  snapshots == {s \in ProviderSnapshots(requests[t]) : s[1] = p}
              IN  /\ UsableRow(row)
                  /\ {b \in ModelBindings(requests[t]) : b[1] = p} \subseteq snapshots
                  /\ <<p, row.default>> \in snapshots
                  /\ \A s \in snapshots : s[2] \in row.models
         /\ \E then \in since[t] :
              /\ requests[t].settings.version = then.settings.version
              /\ requests[t].template.limit <= then.settings.limit
<1>1. requests[t] \in RunStarts
  BY Kinds
<1>2. PICK r : r = requests[t]
  OBVIOUS
<1>3. /\ r.template.stage \in Providers /\ r.template.aux \in ModelChoices
      /\ r.template.aux[1] \in Providers
  BY <1>1, <1>2 DEF RunStarts, TemplateRows, ModelChoices
<1>4. r.template.aux = <<r.template.aux[1], r.template.aux[2]>>
  BY <1>3 DEF ModelChoices
<1>5. \E then \in since[t] :
        r.settings.version = then.settings.version /\ r.template.limit <= then.settings.limit
  BY <1>2 DEF Attested, SettingsAttested, Startable
<1>6. ModelBindings(r) \subseteq ProviderSnapshots(r)
  BY DEF ModelBindings, ProviderSnapshots, RequiredProviders
<1>7. ASSUME NEW p \in RequiredProviders(r.template)
      PROVE  \E then \in since[t] :
               /\ UsableRow(then.providers[p])
               /\ <<p, then.providers[p].default>> \in ProviderSnapshots(r)
               /\ \A s \in ProviderSnapshots(r) : s[1] = p => s[2] \in then.providers[p].models
  <2>1. p \in Providers /\ Row(r.rows[p])
    BY <1>2, <1>3, <1>7 DEF RequiredProviders, Startable
  <2>2. PICK then \in since[t] : then.providers[p] = r.rows[p] /\ UsableRow(r.rows[p])
    BY <1>2, <2>1 DEF Attested, RowsAttested
  <2>3. <<p, r.rows[p].default>> \in ProviderSnapshots(r)
    BY <1>7 DEF ProviderSnapshots
  <2>4. \A s \in ProviderSnapshots(r) : s[1] = p => s[2] \in r.rows[p].models
    BY <1>2 DEF Startable, HaveCapabilities
  <2>5. QED BY <2>2, <2>3, <2>4
<1>8. \A p \in {b[1] : b \in ModelBindings(r)} : p \in RequiredProviders(r.template)
  BY DEF ModelBindings, RequiredProviders
<1>9. \A p : <<p, r.rows[p].default>>[1] = p
  OBVIOUS
<1>10. ASSUME NEW p \in {b[1] : b \in ModelBindings(r)}
       PROVE  \E then \in since[t] :
                LET row == then.providers[p]
                    snapshots == {s \in ProviderSnapshots(r) : s[1] = p}
                IN  /\ UsableRow(row)
                    /\ {b \in ModelBindings(r) : b[1] = p} \subseteq snapshots
                    /\ <<p, row.default>> \in snapshots
                    /\ \A s \in snapshots : s[2] \in row.models
  <2>1. PICK then \in since[t] :
          /\ UsableRow(then.providers[p])
          /\ <<p, then.providers[p].default>> \in ProviderSnapshots(r)
          /\ \A s \in ProviderSnapshots(r) : s[1] = p => s[2] \in then.providers[p].models
    BY <1>7, <1>8
  <2>2. QED BY <1>6, <2>1
<1>11. QED BY <1>2, <1>5, <1>10

\* A run is put together from nothing but what was configured while it started.
THEOREM RunsAsConfigured == Spec => FrozenAsConfigured
<1> DEFINE AsConfigured == run' # run =>
         \E t \in Threads :
           /\ \A p \in {b[1] : b \in run'.bindings} : \E then \in since[t] :
                 LET row == then.providers[p]
                     snapshots == {s \in run'.snapshots : s[1] = p}
                 IN  /\ UsableRow(row)
                     /\ {b \in run'.bindings : b[1] = p} \subseteq snapshots
                     /\ <<p, row.default>> \in snapshots
                     /\ \A s \in snapshots : s[2] \in row.models
           /\ \E then \in since[t] :
                 run'.version = then.settings.version /\ run'.limit <= then.settings.limit
<1>1. ConfigurationTypeOK /\ StartsAttested /\ [Next]_vars => [AsConfigured]_vars
  <2> SUFFICES ASSUME ConfigurationTypeOK, StartsAttested, [Next]_vars, run' # run
               PROVE  AsConfigured
    OBVIOUS
  <2>1. PICK t \in Threads : StartFirstRun(t) \/ CreateRerun(t)
    <3>1. ~(UNCHANGED vars) /\ ~ListTemplates
      BY DEF vars, ListTemplates
    <3>2. \A t \in Threads : ~Request(t)
      BY DEF Request, SaveAsTemplate, PatchTemplate, DeleteTemplate, SelectTemplate,
             CreateProvider, PatchProvider, DeleteProvider, ImportPackage, UpdateSettings,
             FirstStart, Rerun, ReadTemplate
    <3>3. \A t \in Threads : ~Read(t)
      BY ReadsTyped
    <3>4. QED
      BY <3>1, <3>2, <3>3
      DEF Next, Commit, CommitTemplate, CommitSelect, CommitProvider, CommitImport,
          CommitSettings
  <2>2. /\ requests[t].kind \in Starting
        /\ Startable(requests[t]) /\ run' = Frozen(requests[t])
    BY <2>1 DEF StartFirstRun, CreateRerun, Refused, Starting
  <2>3. /\ run'.bindings = ModelBindings(requests[t])
        /\ run'.snapshots = ProviderSnapshots(requests[t])
        /\ run'.limit = requests[t].template.limit
        /\ run'.version = requests[t].settings.version
    BY <2>2 DEF Frozen
  <2>4. Attested(t)
    BY DEF StartsAttested
  <2>5. QED BY <2>2, <2>3, <2>4, StartableAttested
<1>2. QED BY <1>1, AttestedAlways, PTL DEF Spec, FrozenAsConfigured
=============================================================================
