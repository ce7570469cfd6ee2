----------------------------- MODULE ModelReplies -----------------------------
(***************************************************************************)
(* The vocabulary shared by the Fireworks client and its callers           *)
(* (amd_track1/executor.py): what a completion request can come back with, *)
(* and how the code reads an error once only its text is left.             *)
(***************************************************************************)

ReplyKinds == {"answer", "empty",      \* HTTP 200, with or without content
               "transient",            \* HTTP 429, 500, 502, 503, 504
               "permanent",            \* any other status code
               "transport",            \* requests' Timeout, ConnectionError
               "exception"}            \* anything else, e.g. a body not JSON

(***************************************************************************)
(* An error travels as one string, so what its text mentions matters:      *)
(* "transport", "connection", "timeout" or a transient status ("network"); *)
(* "authentication" or "rate limit" ("refusal"); or none of them.          *)
(* A transport error always reads "Transport error: ...".                  *)
(***************************************************************************)
Texts == {"plain", "network", "refusal"}

Replies ==
    {r \in [kind : ReplyKinds, says : Texts] :
        /\ r.kind \in {"answer", "empty"} => r.says = "plain"
        /\ r.kind = "transport" => r.says = "network"}

IsAnswer(reply) == reply.kind \in {"answer", "empty"}

\* The client's own classification, made on the status code or exception.
Retryable(reply) == reply.kind \in {"transient", "transport"}

\* is_transient_error: the caller's classification, made on the text.
IsTransientError(error) == error.kind = "transient" \/ error.says = "network"

\* "Transport timeout: exceeded ...s model-call budget".
BudgetError == [kind |-> "transport", says |-> "network"]
=============================================================================
