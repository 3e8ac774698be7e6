------------------------------ MODULE ToolRisk ------------------------------
(***************************************************************************)
(* What a tool call is judged to be before it runs: the risk classifier of  *)
(* the tool gate and the verification policy that says which bash commands  *)
(* count as reading the workspace.  Pure: no state.                         *)
(*                                                                         *)
(* A path is what the predicates of risk.py see of it (its traits) and a    *)
(* command is its program, its shape and what the patterns find in it.      *)
(*                                                                         *)
(* Sources: backend/app/tools/risk.py,                                      *)
(* backend/app/workspace/verification_policy.py                             *)
(***************************************************************************)
EXTENDS Naturals, Sequences, FiniteSets

\* What each tool declares of itself: its side effect, and whether it insists
\* on an audit record.
FileReadTool == [name |-> "read_file", effect |-> "none", audit |-> FALSE]
GlobTool == [name |-> "glob", effect |-> "none", audit |-> FALSE]
GrepTool == [name |-> "grep", effect |-> "workspace_read", audit |-> FALSE]
FileWriteTool == [name |-> "write_file", effect |-> "workspace_write", audit |-> TRUE]
FileEditTool == [name |-> "edit_file", effect |-> "workspace_write", audit |-> TRUE]
BashTool == [name |-> "bash", effect |-> "process_execution", audit |-> TRUE]

\* The registry of a stage run: name to tool, one tool per name.
Registry == {FileReadTool, GlobTool, GrepTool, FileWriteTool, FileEditTool, BashTool}

Tools == {t.name : t \in Registry}

ReadOnlyTools == {"read_file", "glob", "grep"}

WriteTools == {t.name : t \in {u \in Registry : u.effect = "workspace_write"}}

\* ToolAuditPolicy: a tool that declares any effect has its intent recorded, so
\* a search is audited and reading a file is not.
Audited(tool) == \E t \in Registry : t.name = tool /\ (t.audit \/ t.effect # "none")

\* What _is_platform_runtime_path, _is_path_escape, _is_credential_path,
\* _is_env_path, _is_migration_path and _is_broad_target can find in a path.
PathTraits == {"runtime", "escape", "credential", "env", "lockfile",
               "manifest", "migration", "root", "glob", "excluded"}

\* What the command patterns of risk.py can find in a command.
CommandTraits == {"dependency", "network", "delete_move", "migration",
                  "lockfile", "env_mutation", "reads_credential"}

\* The programs the verification policy tells apart.
Programs == {"list", "cat", "search", "git_read", "version", "pytest",
             "frontend_script", "local_install", "install", "rejected",
             "other"}

\* "one" argv; "cd" <safe directory> && one; "pipe" cat | filter; "chain" and
\* "meta" are every other use of shell syntax; "unparsed" does not lex.
Shapes == {"one", "cd", "pipe", "chain", "meta", "unparsed"}

\* A command: traits as above, targets as the path tokens in it, documented
\* when the line is fenced in the workspace's own README.
Commands == [program: Programs, shape: Shapes, traits: SUBSET CommandTraits,
             targets: Seq(SUBSET PathTraits), documented: BOOLEAN]

-----------------------------------------------------------------------------
(* The verification policy                                                  *)

\* _is_blocked_argument_path over every argument.  ".env.local" and the like
\* are credentials here too, and so is anything outside or under .runtime.
BlockedArgument(cmd) ==
  \E i \in DOMAIN cmd.targets :
    cmd.targets[i] \intersect {"runtime", "escape", "credential"} # {}

\* A directory listing or a search must name a path, and not the root.
SafeInspectionPaths(cmd) ==
  /\ cmd.targets # <<>>
  /\ \A i \in DOMAIN cmd.targets :
       cmd.targets[i] \intersect {"runtime", "escape", "credential", "root"} = {}

SafeInspection(cmd) ==
  CASE cmd.shape = "pipe" -> cmd.program = "cat" /\ SafeInspectionPaths(cmd)
    [] cmd.shape \in {"one", "cd"} -> /\ cmd.program \in {"list", "cat", "search"}
                                      /\ SafeInspectionPaths(cmd)
    [] OTHER -> FALSE

\* Only "cd <dir> && command" is folded into a working directory; every other
\* operator leaves the tokens, and the tokens are metacharacters.
ShellMeta(cmd) == cmd.shape \in {"pipe", "chain", "meta"}

Refused == [allowed |-> FALSE, readOnly |-> FALSE]
Reading == [allowed |-> TRUE, readOnly |-> TRUE]
Installing == [allowed |-> TRUE, readOnly |-> FALSE]

RefusedExecutable(cmd) == cmd.program \in {"list", "cat", "search", "rejected"}

\* pytest through uv, where the workspace configures pytest.
UvPytest(cmd) == cmd.program = "pytest"

\* npm run of a script that package.json declares, by a name that verifies.
FrontendScript(cmd) == cmd.program = "frontend_script"

\* git status and git diff with the options that only read.
GitReads(cmd) == cmd.program = "git_read"

\* npm install and the like where the workspace keeps its manifest.
LocalInstall(cmd) == cmd.program = "local_install"

\* A line in a code fence of the workspace's README, whatever it does.
Documented(cmd) == cmd.documented

KnownCheck(cmd) ==
  cmd.program = "version" \/ UvPytest(cmd) \/ FrontendScript(cmd) \/ GitReads(cmd)

\* classify_verification_command, in the order of its early returns.
Verification(cmd) ==
  IF cmd.shape = "unparsed" \/ BlockedArgument(cmd) THEN Refused
  ELSE IF SafeInspection(cmd) THEN Reading
  ELSE IF ShellMeta(cmd) \/ RefusedExecutable(cmd) THEN Refused
  ELSE IF KnownCheck(cmd) \/ Documented(cmd) THEN Reading
  ELSE IF LocalInstall(cmd) THEN Installing
  ELSE Refused

-----------------------------------------------------------------------------
(* The classifier                                                           *)

\* A payload: the tool's path targets, its command (a set of at most one),
\* whether it is a complete edit (non-empty old_text, some new_text) and
\* whether it gives its paths as a list.
Payload(tool, targets, cmds, edit, listed) ==
  [tool |-> tool, targets |-> targets, cmds |-> cmds, edit |-> edit,
   listed |-> listed]

Has(targets, trait) == \E i \in DOMAIN targets : trait \in targets[i]

BlockedCategories(p) ==
  LET all == {p.targets} \union {c.targets : c \in p.cmds}
      reads == IF p.tool \in ReadOnlyTools THEN p.targets ELSE <<>>
  IN  (IF \E ts \in all : Has(ts, "runtime")
         THEN {"platform_runtime_mutation"} ELSE {})
      \union (IF \E ts \in all : Has(ts, "escape") THEN {"path_escape"} ELSE {})
      \union (IF Has(reads, "credential")
                 \/ \E c \in p.cmds : "reads_credential" \in c.traits
                THEN {"credential_access"} ELSE {})

BroadPayload(p) == Len(p.targets) # 1 \/ Has(p.targets, "root") \/ p.listed

PathCategory == [env |-> "environment_config_change", lockfile |-> "lockfile_change",
                 manifest |-> "dependency_change", migration |-> "database_migration",
                 glob |-> "broad_write", root |-> "broad_write"]

CommandCategory ==
  [dependency |-> "dependency_change", network |-> "network_download",
   delete_move |-> "file_delete_or_move", migration |-> "database_migration",
   lockfile |-> "lockfile_change", env_mutation |-> "environment_config_change"]

HighRiskCategories(p) ==
  (IF p.tool \in WriteTools
     THEN {PathCategory[t] : t \in {u \in DOMAIN PathCategory : Has(p.targets, u)}}
          \union (IF BroadPayload(p) THEN {"broad_write"} ELSE {})
     ELSE {})
  \union UNION { {CommandCategory[t] : t \in c.traits \intersect DOMAIN CommandCategory}
                 : c \in p.cmds }

PreciseEdit(p) ==
  /\ p.tool = "edit_file" /\ p.edit /\ Len(p.targets) = 1
  /\ ~Has(p.targets, "root") /\ ~Has(p.targets, "glob")

\* A narrower edit is the only alternative the classifier ever proposes.
Alternative(categories) == categories = {"broad_write"}

Unknown(categories) == IF categories = {} THEN {"unknown_command"} ELSE categories

Assessment(level, categories) ==
  [level |-> level, categories |-> categories,
   alternative |-> level = "high_risk" /\ Alternative(categories)]

\* ToolRiskClassifier.classify.  What blocks comes first; a bash command that
\* only verifies is read-only whatever its words look like; a write that is
\* not one precise edit is high risk even on a plain path.
Classify(p) ==
  LET high == HighRiskCategories(p)
  IN  IF BlockedCategories(p) # {} THEN Assessment("blocked", BlockedCategories(p))
      ELSE IF p.tool = "bash" /\ \E c \in p.cmds : Verification(c).readOnly
        THEN Assessment("read_only", {})
      ELSE IF high # {} \/ p.tool = "bash" THEN Assessment("high_risk", Unknown(high))
      ELSE IF p.tool \in ReadOnlyTools THEN Assessment("read_only", {})
      ELSE IF PreciseEdit(p) THEN Assessment("low_risk_write", {})
      ELSE Assessment("high_risk", {"unknown_command"})

NeedsConfirmation(p) == Classify(p).level = "high_risk"

=============================================================================
