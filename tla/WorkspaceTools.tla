---------------------------- MODULE WorkspaceTools ----------------------------
(***************************************************************************)
(* The run workspace and the six tools that act on it: where a path leads,  *)
(* and every result a tool can hand back with what it did to the files.      *)
(* Pure: a tool is the set of its possible results, and what the files hold  *)
(* is the choice among them.                                                *)
(*                                                                         *)
(* Sources: backend/app/workspace/manager.py, workspace/tools.py,           *)
(* workspace/bash.py                                                        *)
(***************************************************************************)
EXTENDS ToolRisk

\* A tool result: status, error code, the reason that decides whether the
\* agent may go on, whether it carries the tool's evidence ref, and whether
\* the workspace may have changed.
Result(tool, status, code, reason, ref, effect) ==
  [tool |-> tool, status |-> status, code |-> code, reason |-> reason,
   ref |-> ref, effect |-> effect]

Succeeded(tool, ref, effect) == Result(tool, "succeeded", "none", "none", ref, effect)

\* _failed_result: the input was well formed and the file was not what it said.
NoSuchInput(tool, reason) ==
  Result(tool, "failed", "tool_input_schema_invalid", reason, FALSE, FALSE)

ToolFailure(tool, code) == Result(tool, "failed", code, "none", FALSE, FALSE)

BoundaryFailed(tool) == ToolFailure(tool, "tool_workspace_boundary_violation")

-----------------------------------------------------------------------------
(* Paths                                                                    *)

\* assert_inside_workspace: an absolute or drive-qualified path, one that
\* climbs out, or one under the excluded directories (logs, node_modules).
InsideWorkspace(target) == target \intersect {"escape", "excluded"} = {}

\* _is_excluded_path: the excluded directories again and .runtime, which the
\* manager lets through.
ExcludedPath(target) == target \intersect {"excluded", "runtime"} # {}

SafeGlob(target) == "escape" \notin target

\* A target nobody gave stands for a missing file.
Target(p) == IF p.targets = <<>> THEN {} ELSE p.targets[1]

-----------------------------------------------------------------------------
(* The tools                                                                *)

ReadFile(p) ==
  IF ~InsideWorkspace(Target(p)) THEN {BoundaryFailed("read_file")}
  ELSE IF ExcludedPath(Target(p)) THEN {NoSuchInput("read_file", "workspace_path_excluded")}
  ELSE {Succeeded("read_file", FALSE, FALSE)}
       \union {NoSuchInput("read_file", r) :
                 r \in {"unsupported_file_type", "file_not_found",
                        "file_unreadable", "not_utf8_text"}}

Glob(p) ==
  IF ~SafeGlob(Target(p)) THEN {NoSuchInput("glob", "invalid_glob_pattern")}
  ELSE IF ~InsideWorkspace(Target(p)) THEN {BoundaryFailed("glob")}
  ELSE {Succeeded("glob", FALSE, FALSE), BoundaryFailed("glob"),
        NoSuchInput("glob", "workspace_candidate_outside")}

\* The tree is searched by a subprocess, or here when there is none: candidates
\* that are excluded, too large or not text are passed over.
Searched == {Succeeded("grep", FALSE, FALSE), ToolFailure("grep", "tool_timeout"),
             ToolFailure("grep", "internal_error")}

\* A missing path is an empty answer; a match the redaction policy blocks is
\* an error of the whole search.
GrepTree(p) ==
  IF ~InsideWorkspace(Target(p))
    THEN {BoundaryFailed("grep")}
    ELSE Searched

\* A write that breaks off leaves the file truncated and says it failed.
Unwritable(tool) ==
  Result(tool, "failed", "tool_input_schema_invalid", "file_unwritable", FALSE, TRUE)

WriteFile(p) ==
  IF ~InsideWorkspace(Target(p)) THEN {BoundaryFailed("write_file")}
  ELSE IF ExcludedPath(Target(p)) THEN {NoSuchInput("write_file", "workspace_path_excluded")}
  ELSE {Succeeded("write_file", TRUE, TRUE), Unwritable("write_file")}

EditFile(p) ==
  IF ~InsideWorkspace(Target(p)) THEN {BoundaryFailed("edit_file")}
  ELSE IF ExcludedPath(Target(p)) THEN {NoSuchInput("edit_file", "workspace_path_excluded")}
  ELSE {Succeeded("edit_file", TRUE, TRUE), Unwritable("edit_file")}
       \union {NoSuchInput("edit_file", r) :
                 r \in {"file_not_found", "file_unreadable", "not_utf8_text",
                        "edit_target_missing", "edit_target_not_unique"}}

\* A command that was started: the files it changed and its trace are refs.
Ran(code) == Result("bash", "failed", code, "none", TRUE, TRUE)

NotStarted(code) == ToolFailure("bash", code)

\* run_bash_command asks the verification policy again, whatever the user
\* confirmed.  A command that ran leaves its trace ref even when it failed,
\* timed out or could not be audited; one that did not start leaves none.
RunBash(p) ==
  LET allowed == \E c \in p.cmds : Verification(c).allowed
  IN  IF ~allowed
        THEN {NotStarted("bash_command_not_allowed"), NotStarted("tool_audit_required_failed")}
        ELSE {Succeeded("bash", TRUE, TRUE), Ran("internal_error"),
              Ran("tool_timeout"), Ran("tool_audit_required_failed"),
              NotStarted("internal_error"), NotStarted("tool_audit_required_failed")}

Results(p) ==
  CASE p.tool = "read_file" -> ReadFile(p)
    [] p.tool = "glob" -> Glob(p)
    [] p.tool = "grep" -> GrepTree(p)
    [] p.tool = "write_file" -> WriteFile(p)
    [] p.tool = "edit_file" -> EditFile(p)
    [] OTHER -> RunBash(p)

=============================================================================
