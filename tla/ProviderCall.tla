----------------------------- MODULE ProviderCall -----------------------------
(***************************************************************************)
(* One call of the model: which failures are tried again, how often and      *)
(* after how long, the circuit breaker in front of the call, and what is      *)
(* read out of a response.  Pure: the stage agent keeps the breaker and the   *)
(* attempt number.                                                          *)
(*                                                                         *)
(* Sources: backend/app/providers/retry_policy.py,                          *)
(* providers/langchain_adapter.py                                           *)
(***************************************************************************)
EXTENDS Naturals, Sequences

CONSTANTS NetworkRetries,    \* network_error_max_retries
          RateRetries,       \* rate_limit_max_retries
          FailureThreshold   \* circuit_breaker_failure_threshold

ASSUME PolicyAssumption ==
  /\ NetworkRetries \in Nat /\ RateRetries \in Nat
  /\ FailureThreshold \in Nat \ {0}

FailureKinds == {"timeout", "network_error", "rate_limited", "auth_failed",
                 "model_not_found", "capability_unsupported",
                 "snapshot_unavailable", "empty_response",
                 "structured_output_unparseable", "provider_error"}

Retryable(kind) == kind \in {"timeout", "network_error", "rate_limited"}

MaxRetries(kind) ==
  IF kind = "rate_limited" THEN RateRetries
  ELSE IF Retryable(kind) THEN NetworkRetries ELSE 0

\* decision_for_failure: the n-th attempt failed; one counter for all kinds.
ShouldRetry(kind, n) == Retryable(kind) /\ n <= MaxRetries(kind)

ClosedBreaker == [status |-> "closed", failures |-> 0]

\* record_failure; a non-retryable failure is not recorded at all.
AfterFailure(breaker) ==
  IF breaker.failures + 1 >= FailureThreshold \/ breaker.status = "half_open"
    THEN [status |-> "open", failures |-> breaker.failures + 1]
    ELSE [status |-> "closed", failures |-> breaker.failures + 1]

\* before_call: due is whether the recovery time of an open breaker is over.
\* A half-open breaker has its trial in progress and lets nothing else through.
Allowed(breaker, due) ==
  \/ breaker.status = "closed"
  \/ breaker.status = "open" /\ due

-----------------------------------------------------------------------------
(* The response                                                             *)

\* The text of a message: a JSON object as it stands, in a code fence, inside
\* other text; or nothing that can be read ("broken" is a fence around prose,
\* which hides an object elsewhere in the text).
TextForms == {"json", "fenced", "embedded", "prose", "broken", "empty"}

\* _content_candidate: at most one structured output.
ContentCandidate(text) ==
  IF text.form \in {"json", "fenced", "embedded"} THEN <<text.output>> ELSE <<>>

\* Calls in the form of the OpenAI API: arguments that are an object, none at
\* all, or not an object; and a function with no name.
ArgumentsRead(call) == call.arguments \in {"object", "empty"}

OpenAiRequests(calls) ==
  SelectSeq(calls, LAMBDA c : c.tool # "" /\ ArgumentsRead(c))

\* _invalid_openai_tool_call_candidate: what OpenAiRequests leaves out.
InvalidOpenAi(calls) ==
  SelectSeq(calls, LAMBDA c : c.tool = "" \/ ~ArgumentsRead(c))

\* _normalize_tool_calls: the library's calls, else the API's.
ToolRequests(message) ==
  IF message.calls # <<>> THEN message.calls ELSE OpenAiRequests(message.openai)

\* _normalize_invalid_tool_calls: both kinds, whichever were taken.
InvalidCalls(message) == message.invalid \/ InvalidOpenAi(message.openai) # <<>>

\* _normalize_response: the parsed output of a structured call, else what the
\* text holds.  message: [calls, openai, invalid, text, parsed].
ReadResponse(message) ==
  [error |-> FALSE, malformed |-> InvalidCalls(message),
   calls |-> ToolRequests(message),
   outputs |-> IF message.parsed # <<>> THEN message.parsed
                                       ELSE ContentCandidate(message.text)]

=============================================================================
