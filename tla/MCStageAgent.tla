----------------------------- MODULE MCStageAgent -----------------------------
(***************************************************************************)
(* A code generation stage of three iterations, three tool calls and one      *)
(* repair: what the model can answer, and the payloads and commands the risk   *)
(* classifier is checked on.                                                 *)
(***************************************************************************)
EXTENDS StageAgent

MCTools == {"read_file", "edit_file", "write_file", "bash"}
MCEvidence == {"write_file", "edit_file"}
MCEvidenceStatuses == {"succeeded"}
MCModelFailures == {"timeout", "rate_limited", "auth_failed"}

Command(program, shape, traits, documented) ==
  [program |-> program, shape |-> shape, traits |-> traits, targets |-> <<>>,
   documented |-> documented]

\* The payloads: one per risk level, and two writes that need asking.
ReadPlain == Payload("read_file", <<{}>>, {}, FALSE, FALSE)
ReadKey == Payload("read_file", <<{"credential"}>>, {}, FALSE, FALSE)
ReadOutside == Payload("read_file", <<{"escape"}>>, {}, FALSE, FALSE)
EditPlain == Payload("edit_file", <<{}>>, {}, TRUE, FALSE)
EditLock == Payload("edit_file", <<{"lockfile"}>>, {}, TRUE, FALSE)
RunInstall == Payload("bash", <<>>, {Command("local_install", "one", {"dependency"}, FALSE)},
                      FALSE, FALSE)

MCProposed == EditLock

CallOf(p) == [tool |-> p.tool, payload |-> p, wellFormed |-> "yes"]
Misformed(p, how) == [tool |-> p.tool, payload |-> p, wellFormed |-> how]

Empty == [calls |-> <<>>, openai |-> <<>>, invalid |-> FALSE, parsed |-> <<>>,
          text |-> [form |-> "empty"]]

Calls(payloads) == [Empty EXCEPT !.calls = [i \in DOMAIN payloads |-> CallOf(payloads[i])]]

Output(type, form, artifact, fields, valid) ==
  [Empty EXCEPT !.parsed =
    <<[type |-> type, form |-> form, artifact |-> artifact, fields |-> fields,
       valid |-> valid, tool |-> "edit_file"]>>]

\* The same output as the text of a message, which the response schema did not parse.
Written(form, message) ==
  [message EXCEPT !.parsed = <<>>, !.text = [form |-> form, output |-> message.parsed[1]]]

Nameless == [tool |-> "", payload |-> ReadPlain, arguments |-> "object"]

MCMessages ==
  {Calls(<<p>>) : p \in {ReadKey, ReadOutside, EditPlain, EditLock, RunInstall}}
  \union {Calls(<<ReadPlain, EditLock>>), Calls(<<EditPlain, ReadPlain, EditPlain>>)}
  \union {[Empty EXCEPT !.calls = <<Misformed(ReadPlain, "schema")>>],
          [Empty EXCEPT !.openai = <<Nameless>>], Empty}
  \union {Output("submit_stage_artifact", "flat", "unnamed", TRUE, TRUE),
          Output("submit_stage_artifact", "wrapped", "match", TRUE, FALSE),
          Output("submit_stage_artifact", "wrapped", "other", TRUE, TRUE),
          Output("request_clarification", "flat", "unnamed", FALSE, TRUE),
          Output("request_tool_confirmation", "flat", "unnamed", FALSE, TRUE),
          Output("retry_with_revised_plan", "flat", "unnamed", FALSE, TRUE),
          Output("fail_stage", "flat", "unnamed", FALSE, TRUE),
          Written("fenced", Output("fail_stage", "flat", "unnamed", FALSE, FALSE))}

=============================================================================
