-------------------------- MODULE FireworksTransport --------------------------
(***************************************************************************)
(* One call of FireworksClient.infer (amd_track1/executor.py): a chat      *)
(* completion is posted, transient failures are retried with exponential   *)
(* backoff, and everything happens against the call's deadline.            *)
(*                                                                         *)
(* Time is a counter of ticks; it passes while a post is in flight and     *)
(* while the client sleeps.  `requests` applies its timeout to each wait   *)
(* on the socket and not to the whole exchange, so a post may last longer  *)
(* than the budget it is given; MaxPost bounds how long.                   *)
(***************************************************************************)
EXTENDS Naturals, Sequences, ModelReplies

CONSTANTS
    MaxRetries,   \* max_transport_retries, at least 1
    Timeout,      \* the `timeout` argument of infer
    BaseDelay,    \* transport_retry_base_delay
    MaxDelay,     \* transport_retry_max_delay
    MaxPost       \* bound: the longest one post may last

ASSUME RetriesAssumption == MaxRetries \in Nat /\ MaxRetries >= 1
ASSUME TimeAssumption ==
    /\ Timeout \in Nat /\ BaseDelay \in Nat
    /\ MaxDelay \in Nat /\ MaxPost \in Nat /\ MaxPost >= 1

VARIABLES
    pc,          \* "check": top of the loop; "post": request in flight;
                 \* "backoff": about to sleep; "done": infer has returned
    attempt,     \* transport_attempt
    now,         \* time.time() - start_time
    last_error,  \* last_error, or NoError
    result,      \* what infer returned, or Pending before it returns
    replies      \* history: what every post so far came back with

vars == <<pc, attempt, now, last_error, result, replies>>

NoError == [kind |-> "none", says |-> "plain"]
Pending == [kind |-> "pending", says |-> "plain"]

Smaller(a, b) == IF a <= b THEN a ELSE b

\* _retry_delay(retry_index), for every value of the jitter.
RetryDelays(index) ==
    IF BaseDelay = 0
    THEN {0}
    ELSE {delay \in 0 .. MaxDelay :
            \E jitter \in 0 .. Smaller(1, BaseDelay) :
                delay = Smaller(MaxDelay, BaseDelay * 2^index + jitter)}

\* (mutant: a sleep is not cut at the deadline)
SleepUnclamped(delay) == delay

\* min(delay, max(0, deadline - time.time()))
SleepFor(delay) ==
    IF now >= Timeout THEN 0 ELSE Smaller(delay, Timeout - now)

\* (mutant: one attempt early)
LastAttemptEarly == attempt >= MaxRetries - 2

LastAttempt == attempt = MaxRetries - 1

-----------------------------------------------------------------------------
Init ==
    /\ pc = "check" /\ attempt = 0 /\ now = 0
    /\ last_error = NoError /\ result = Pending /\ replies = <<>>

Return(error) ==
    /\ pc' = "done" /\ result' = error

\* The loop ends because the budget is spent, or has run out of attempts.
GiveUp ==
    /\ pc = "check"
    /\ now >= Timeout \/ attempt >= MaxRetries
    /\ Return(IF last_error = NoError THEN BudgetError ELSE last_error)
    /\ UNCHANGED <<attempt, now, last_error, replies>>

SendPost ==
    /\ pc = "check"
    /\ now < Timeout /\ attempt < MaxRetries
    /\ pc' = "post"
    /\ UNCHANGED <<attempt, now, last_error, result, replies>>

\* The post ends after `elapsed` ticks with `reply`.
Record(reply, elapsed) ==
    /\ pc = "post"
    /\ now' = now + elapsed
    /\ replies' = Append(replies, reply)

PostAnswered(reply, elapsed) ==
    /\ IsAnswer(reply)
    /\ Record(reply, elapsed)
    /\ Return(reply)
    /\ UNCHANGED <<attempt, last_error>>

\* (mutant: the error of the previous post is returned)
PostFailedStale(reply, elapsed) ==
    /\ ~IsAnswer(reply) /\ ~Retryable(reply)
    /\ Record(reply, elapsed)
    /\ Return(last_error)
    /\ UNCHANGED <<attempt, last_error>>

\* (mutant: every failure is retried)
PostFailedRetry(reply, elapsed) ==
    /\ ~IsAnswer(reply) /\ ~Retryable(reply)
    /\ Record(reply, elapsed)
    /\ last_error' = reply
    /\ pc' = "backoff"
    /\ UNCHANGED <<attempt, result>>

PostFailed(reply, elapsed) ==
    /\ ~IsAnswer(reply) /\ ~Retryable(reply)
    /\ Record(reply, elapsed)
    /\ Return(reply)
    /\ last_error' = IF reply.kind = "permanent" THEN reply ELSE last_error
    /\ UNCHANGED attempt

PostTransient(reply, elapsed) ==
    /\ Retryable(reply)
    /\ Record(reply, elapsed)
    /\ last_error' = reply
    /\ IF LastAttempt
       THEN Return(reply)
       ELSE pc' = "backoff" /\ UNCHANGED result
    /\ UNCHANGED attempt

\* (mutant: the attempt is not counted)
BackoffUncounted ==
    /\ pc = "backoff"
    /\ \E delay \in RetryDelays(attempt) : now' = now + SleepFor(delay)
    /\ pc' = "check"
    /\ UNCHANGED <<attempt, last_error, result, replies>>

\* (mutant: the client sleeps until it is allowed another post)
BackoffUntilBudget ==
    /\ pc = "backoff" /\ now < Timeout
    /\ \E delay \in RetryDelays(attempt) : now' = now + SleepFor(delay)
    /\ attempt' = attempt + 1
    /\ pc' = "check"
    /\ UNCHANGED <<last_error, result, replies>>

\* time.sleep(sleep_for), then `continue`.
Backoff ==
    /\ pc = "backoff"
    /\ \E delay \in RetryDelays(attempt) : now' = now + SleepFor(delay)
    /\ attempt' = attempt + 1
    /\ pc' = "check"
    /\ UNCHANGED <<last_error, result, replies>>

PostReturns ==
    \E reply \in Replies, elapsed \in 0 .. MaxPost :
        \/ PostAnswered(reply, elapsed)
        \/ PostFailed(reply, elapsed)
        \/ PostTransient(reply, elapsed)

Next == GiveUp \/ SendPost \/ PostReturns \/ Backoff

(***************************************************************************)
(* The calling thread keeps running, and every post returns because it is  *)
(* given a timeout.                                                        *)
(***************************************************************************)
Fairness == WF_vars(Next)

Spec == Init /\ [][Next]_vars /\ Fairness

-----------------------------------------------------------------------------
(* Properties *)

TypeOK ==
    /\ pc \in {"check", "post", "backoff", "done"}
    /\ attempt \in 0 .. MaxRetries
    /\ now \in Nat
    /\ last_error \in Replies \cup {NoError}
    /\ result \in Replies \cup {Pending}
    /\ replies \in Seq(Replies)

(***************************************************************************)
(* A post is made again only after a failure the client classifies as      *)
(* transient: an answer, a permanent status or an unexpected exception is  *)
(* always the last reply of the call (infer's `continue` and `return`s).   *)
(***************************************************************************)
RetriesOnlyTransient ==
    \A i \in 1 .. Len(replies) :
        (i < Len(replies) \/ pc \in {"check", "post", "backoff"})
            => Retryable(replies[i])

(***************************************************************************)
(* The call never posts more than max_transport_retries times.             *)
(***************************************************************************)
BoundedPosts == Len(replies) <= MaxRetries

(***************************************************************************)
(* What infer returns is what the provider said last; only a call that     *)
(* never posted reports the spent budget instead.                          *)
(***************************************************************************)
ReportsLastReply ==
    pc = "done" =>
        result = IF replies = <<>> THEN BudgetError ELSE replies[Len(replies)]

(***************************************************************************)
(* The client gives up on a transient failure only with all its attempts   *)
(* used or its budget spent: no early surrender.                           *)
(***************************************************************************)
GivesUpOnlyWhenExhausted ==
    (pc = "done" /\ Retryable(result)) =>
        Len(replies) = MaxRetries \/ now >= Timeout

(***************************************************************************)
(* Backoff never makes a call overrun its budget: a sleep ends at the      *)
(* deadline at the latest and no post starts after it, so only the last    *)
(* post can carry the call past its deadline.                              *)
(***************************************************************************)
OverrunBounded == now < Timeout + MaxPost

(***************************************************************************)
(* Every call returns.                                                     *)
(***************************************************************************)
CallReturns == <>(pc = "done")

(***************************************************************************)
(* A call of the client is what its callers assume a model call to be: it  *)
(* returns one verdict, within its budget and one request (ModelCall).     *)
(***************************************************************************)
Call == INSTANCE ModelCall WITH pc <- IF pc = "done" THEN "done" ELSE "running"

ImplementsModelCall == Call!Spec
=============================================================================
