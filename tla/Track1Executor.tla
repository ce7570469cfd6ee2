---------------------------- MODULE Track1Executor ----------------------------
(***************************************************************************)
(* One run of Track 1 (amd_track1): TaskExecutor.process_input takes a     *)
(* batch of tasks, runs execute_task for each of them on a bounded pool of *)
(* threads, and writes the results only if every task has an answer.       *)
(*                                                                         *)
(* A task is routed to the deterministic evaluator or to a model, its      *)
(* answer is judged by the category validator, a failed attempt escalates  *)
(* to another model, and a high-risk answer is shown to the verifier.  The *)
(* tasks share the model registry, whose statistics drive the routing, and *)
(* the clock.  A model call is abstracted to what ModelCall promises.      *)
(***************************************************************************)
EXTENDS Naturals, Sequences, FiniteSets, ModelReplies

CONSTANTS
    NumTasks,      \* size of the batch
    Workers,       \* max_concurrency
    ModelOrder,    \* ALLOWED_MODELS, in order, without duplicates
    SolverEnvs,    \* values of SOLVER_MODEL; NoModel when it is not set
    VerifierEnv,   \* VERIFIER_MODEL, or NoModel when it is not set
    NoModel,       \* Python's None where a model is expected
    Prompts,       \* the kinds of prompts a batch may hold
    Categories,    \* task categories
    HighRisk,      \* HIGH_RISK_CATEGORIES
    Timeout,       \* --timeout, the budget of the whole batch
    CallLimit,     \* the 300 s limit of one model call
    MaxPost        \* the longest a single request may last

Tasks == 1 .. NumTasks
Models == {ModelOrder[i] : i \in 1 .. Len(ModelOrder)}

(***************************************************************************)
(* The data a prompt is reduced to: the route it takes ("arithmetic": the  *)
(* evaluator solves it; "hint": another tool claims it, so no model is     *)
(* selected; "model"), whether an arithmetic expression can be extracted   *)
(* from it, and its category.                                              *)
(***************************************************************************)
Profiles ==
    {p \in [path : {"arithmetic", "hint", "model"}, expr : BOOLEAN,
            category : Categories] :
        p.path = "arithmetic" => p.expr /\ p.category \notin HighRisk}

ASSUME BatchAssumption == NumTasks \in Nat /\ Workers \in Nat \ {0}
ASSUME ModelAssumption ==
    /\ ModelOrder \in Seq(Models) /\ Len(ModelOrder) >= 1
    /\ \A i, j \in 1 .. Len(ModelOrder) : ModelOrder[i] = ModelOrder[j] => i = j
    /\ NoModel \notin Models
    /\ HighRisk \subseteq Categories
    /\ Prompts \subseteq Profiles
ASSUME TimeAssumption ==
    /\ Timeout \in Nat /\ CallLimit \in Nat /\ MaxPost \in Nat \ {0}

MaxAttempts == 2    \* RetryManager.MAX_ATTEMPTS and execute_task's default
MaxJustified == 3   \* RetryManager.MAX_ATTEMPTS_WITH_JUSTIFICATION

VARIABLES
    solver_env, \* SOLVER_MODEL of this run
    profile,    \* what the classifier and the router make of each prompt
    initialised,\* the registry holds ALLOWED_MODELS and the client exists
    exit,       \* "starting", "running", "ok" or "failed"
    output,     \* the answers written to the results file
    history,    \* registry statistics per model and category
    now,        \* time since process_input began
    pc,         \* where each task is
    attempt,    \* loop index of execute_task
    recorded,   \* RetryState.attempt_count
    selected,   \* routing_decision.selected_model
    current,    \* the model being called
    since,      \* when that call began
    budget,     \* the timeout that call was given
    result,     \* the ExecutionResult of a finished task
    log         \* history: every model reply a task has had

batch == <<solver_env, profile, initialised, exit, output>>
call  == <<current, since, budget>>
tries == <<attempt, recorded, selected>>
vars  == <<batch, history, now, pc, tries, call, result, log>>

\* An answer, as the category validator would judge it.
Answers == {"valid", "invalid", "blank"}

Unfinished == [success |-> FALSE, answer |-> "unset"]
Failure    == [success |-> FALSE, answer |-> "none"]
Success(answer) == [success |-> TRUE, answer |-> answer]

\* "unjudged": the category validator raised over the answer.
SolverOutcomes == {"error", "empty", "unjudged", "invalid", "valid"}

\* What call_verifier_once makes of the verifier's reply: an error leaves the
\* candidate, a reply that does not parse or fails the schema yields the
\* candidate as a validated answer, and anything else is its final_answer.
Revisions == {"revised_valid", "revised_invalid", "revised_blank"}
VerifierOutcomes == {"failed", "garbled"} \cup Revisions

AnswerOf(outcome) ==
    CASE outcome = "revised_invalid" -> "invalid"
      [] outcome = "revised_blank"   -> "blank"
      [] OTHER                       -> "valid"

Entry(role, outcome, t) ==
    [role |-> role, model |-> current[t], outcome |-> outcome]

Smaller(a, b) == IF a <= b THEN a ELSE b

Active(t)   == pc[t] \in {"attempt", "calling", "verifying"}
InFlight(t) == pc[t] \in {"calling", "verifying"}
Ended(t)    == pc[t] \in {"done", "raised"}

Category(t) == profile[t].category

-----------------------------------------------------------------------------
(* Model roles and routing *)

\* get_solver_model raises when SOLVER_MODEL is not an allowed model.
SolverRaises == solver_env # NoModel /\ solver_env \notin Models
Solver == IF solver_env # NoModel THEN solver_env ELSE ModelOrder[1]

VerifierAvailable ==
    IF VerifierEnv # NoModel
    THEN VerifierEnv \in Models
    ELSE Len(ModelOrder) > 1
Verifier ==
    IF VerifierEnv # NoModel THEN VerifierEnv ELSE ModelOrder[Len(ModelOrder)]

\* The success rate of m in category c is below that of n.
WorseRate(m, n, c) ==
    history[m][c].successes * history[n][c].attempts
        < history[n][c].successes * history[m][c].attempts

\* select_model: models with a history in the category come first, by rate.
\* Ties are broken by token averages, which are not modelled.
RouteChoices(c) ==
    LET tried == {m \in Models : history[m][c].attempts > 0}
    IN  IF tried = {}
        THEN {ModelOrder[1]}
        ELSE {m \in tried : \A n \in tried : ~WorseRate(m, n, c)}

\* (mutant: every result is recorded as a success)
RecordResultAlwaysSuccess(m, c, success) ==
    history' = [history EXCEPT ![m][c] =
        [attempts |-> @.attempts + 1, successes |-> @.successes + 1]]

\* record_category_result: no function is called between its reads and its
\* writes, so the interpreter does not switch threads inside it.
RecordResult(m, c, success) ==
    history' = [history EXCEPT ![m][c] =
        [attempts  |-> @.attempts + 1,
         successes |-> IF success THEN @.successes + 1 ELSE @.successes]]

\* should_escalate: is another attempt allowed after `count` of them?
MayEscalate(count) ==
    /\ Cardinality(Models) > 1
    /\ \/ count < MaxAttempts
       \/ count < MaxJustified /\ Cardinality(Models) > 2

\* (mutant: the current model is not skipped)
FirstModel(m) == ModelOrder[1]

\* The first available model other than m.
OtherModel(m) == IF ModelOrder[1] # m THEN ModelOrder[1] ELSE ModelOrder[2]

\* The model of the attempt a task is about to make, or NoModel.
AttemptModel(t) ==
    LET previous == IF selected[t] # NoModel THEN selected[t]
                                             ELSE ModelOrder[1]
    IN  CASE attempt[t] = 0 /\ selected[t] # NoModel -> selected[t]
          [] attempt[t] = 0 /\ selected[t] = NoModel -> Solver
          [] attempt[t] > 0 /\ MayEscalate(recorded[t]) -> OtherModel(previous)
          [] OTHER -> NoModel

-----------------------------------------------------------------------------
Init ==
    /\ solver_env \in SolverEnvs
    /\ profile \in [Tasks -> Prompts]
    /\ initialised = FALSE /\ exit = "starting" /\ output = <<>>
    /\ history = [m \in Models |->
                    [c \in Categories |-> [attempts |-> 0, successes |-> 0]]]
    /\ now = 0
    /\ pc = [t \in Tasks |-> "queued"]
    /\ attempt = [t \in Tasks |-> 0]
    /\ recorded = [t \in Tasks |-> 0]
    /\ selected = [t \in Tasks |-> NoModel]
    /\ current = [t \in Tasks |-> NoModel]
    /\ since = [t \in Tasks |-> 0]
    /\ budget = [t \in Tasks |-> 0]
    /\ result = [t \in Tasks |-> Unfinished]
    /\ log = [t \in Tasks |-> <<>>]

(* process_input, before the batch *)

RemoteRequired == \E t \in Tasks : ~profile[t].expr

\* The models and the credentials are read from the environment, only if some
\* prompt has no arithmetic expression.
Initialise(configured) ==
    /\ exit = "starting"
    /\ IF RemoteRequired
       THEN /\ initialised' = configured
            /\ exit' = IF configured THEN "running" ELSE "failed"
       ELSE /\ exit' = "running"
            /\ UNCHANGED initialised
    /\ UNCHANGED <<solver_env, profile, output, history, now, pc, tries, call,
                   result, log>>

(* execute_task, run by a thread of the pool *)

End(t, outcome) ==
    /\ pc' = [pc EXCEPT ![t] = "done"]
    /\ result' = [result EXCEPT ![t] = outcome]

\* A free thread takes the next task of the queue.
Dequeue(t) ==
    /\ exit = "running" /\ pc[t] = "queued"
    /\ \A u \in Tasks : u < t => pc[u] # "queued"
    /\ Cardinality({u \in Tasks : Active(u)}) < Workers

\* The evaluator's value is the answer.  No validator sees it, and the one of
\* its category may disagree (PrecedenceIsIgnored in PhaseRules_proofs).
StartDeterministic(t) ==
    /\ Dequeue(t)
    /\ profile[t].path = "arithmetic"
    /\ \E answer \in {"valid", "invalid"} : End(t, Success(answer))
    /\ UNCHANGED <<batch, history, now, tries, call, log>>

StartWithoutModels(t) ==
    /\ Dequeue(t)
    /\ profile[t].path # "arithmetic" /\ ~initialised
    /\ End(t, Failure)
    /\ UNCHANGED <<batch, history, now, tries, call, log>>

StartRouted(t) ==
    /\ Dequeue(t)
    /\ profile[t].path # "arithmetic" /\ initialised
    /\ \E m \in IF profile[t].path = "hint" THEN {NoModel}
                                            ELSE RouteChoices(Category(t)) :
            selected' = [selected EXCEPT ![t] = m]
    /\ pc' = [pc EXCEPT ![t] = "attempt"]
    /\ UNCHANGED <<batch, history, now, attempt, recorded, call, result, log>>

\* get_solver_model raises: the exception leaves execute_task.
SolverMisconfigured(t) ==
    pc[t] = "attempt" /\ attempt[t] = 0 /\ selected[t] = NoModel /\ SolverRaises

RaiseMisconfigured(t) ==
    /\ SolverMisconfigured(t)
    /\ pc' = [pc EXCEPT ![t] = "raised"]
    /\ UNCHANGED <<batch, history, now, tries, call, result, log>>

\* (mutant: the deadline is not looked at before an attempt)
NoAttemptLeftUntimed(t) ==
    attempt[t] >= MaxAttempts \/ AttemptModel(t) = NoModel

\* No attempt left, no other model, or the batch has run out of time.
NoAttemptLeft(t) ==
    \/ attempt[t] >= MaxAttempts
    \/ AttemptModel(t) = NoModel
    \/ now >= Timeout

AbandonTask(t) ==
    /\ pc[t] = "attempt" /\ ~SolverMisconfigured(t)
    /\ NoAttemptLeft(t)
    /\ End(t, Failure)
    /\ UNCHANGED <<batch, history, now, tries, call, log>>

\* (mutant: a call gets the full limit whatever is left of the batch)
BeginCallUnclamped(t) ==
    /\ pc[t] = "attempt" /\ ~SolverMisconfigured(t)
    /\ ~NoAttemptLeft(t)
    /\ pc' = [pc EXCEPT ![t] = "calling"]
    /\ current' = [current EXCEPT ![t] = AttemptModel(t)]
    /\ since' = [since EXCEPT ![t] = now]
    /\ budget' = [budget EXCEPT ![t] = CallLimit]
    /\ UNCHANGED <<batch, history, now, tries, result, log>>

BeginCall(t) ==
    /\ pc[t] = "attempt" /\ ~SolverMisconfigured(t)
    /\ ~NoAttemptLeft(t)
    /\ pc' = [pc EXCEPT ![t] = "calling"]
    /\ current' = [current EXCEPT ![t] = AttemptModel(t)]
    /\ since' = [since EXCEPT ![t] = now]
    /\ budget' = [budget EXCEPT ![t] = Smaller(CallLimit, Timeout - now)]
    /\ UNCHANGED <<batch, history, now, tries, result, log>>

SolverReplied(t, outcome) ==
    /\ pc[t] = "calling"
    /\ log' = [log EXCEPT ![t] = Append(@, Entry("solver", outcome, t))]

CountAttempt(t) == recorded' = [recorded EXCEPT ![t] = @ + 1]

\* (mutant: out of attempts, the last answer is returned all the same)
RetryOrReturn(t, refused) ==
    IF recorded[t] + 1 < MaxAttempts /\ ~refused
    THEN /\ selected' = [selected EXCEPT ![t] = current[t]]
         /\ attempt' = [attempt EXCEPT ![t] = @ + 1]
         /\ pc' = [pc EXCEPT ![t] = "attempt"]
         /\ UNCHANGED result
    ELSE /\ End(t, Success("invalid"))
         /\ UNCHANGED <<selected, attempt>>

\* should_retry, after the attempt has been recorded: a refusal is final.
RetryOrFail(t, refused) ==
    IF recorded[t] + 1 < MaxAttempts /\ ~refused
    THEN /\ selected' = [selected EXCEPT ![t] = current[t]]
         /\ attempt' = [attempt EXCEPT ![t] = @ + 1]
         /\ pc' = [pc EXCEPT ![t] = "attempt"]
         /\ UNCHANGED result
    ELSE /\ End(t, Failure)
         /\ UNCHANGED <<selected, attempt>>

\* A failure the client already retried does not use up an attempt.
CallFailsTransient(t, error) ==
    /\ ~IsAnswer(error) /\ IsTransientError(error)
    /\ SolverReplied(t, "error")
    /\ End(t, Failure)
    /\ UNCHANGED <<batch, history, now, tries, call>>

\* (mutant: a failed call is not recorded as an attempt)
CallFailsUnrecorded(t, error) ==
    /\ ~IsAnswer(error) /\ ~IsTransientError(error)
    /\ SolverReplied(t, "error")
    /\ RetryOrFail(t, error.says = "refusal")
    /\ UNCHANGED <<batch, history, now, recorded, call>>

CallFails(t, error) ==
    /\ ~IsAnswer(error) /\ ~IsTransientError(error)
    /\ SolverReplied(t, "error")
    /\ CountAttempt(t)
    /\ RetryOrFail(t, error.says = "refusal")
    /\ UNCHANGED <<batch, history, now, call>>

CallEmpty(t, reply) ==
    /\ reply.kind = "empty"
    /\ SolverReplied(t, "empty")
    /\ End(t, Failure)
    /\ UNCHANGED <<batch, history, now, tries, call>>

\* The category validator may itself raise over a model's answer
\* (ValidatorRaises in AnswerRules).  Nothing up to the thread catches it: the
\* reply is neither recorded nor counted.
CallUnjudged(t, reply) ==
    /\ reply.kind = "answer"
    /\ SolverReplied(t, "unjudged")
    /\ pc' = [pc EXCEPT ![t] = "raised"]
    /\ UNCHANGED <<batch, history, now, tries, call, result>>

\* The verifier is wanted for an invalid answer, but its prompt cannot be
\* built: validation errors are strings and the prompt reads them as dicts.
\* The exception is swallowed before any request and the retry goes on
\* (VerifierSeesInvalidAnswers is what the policy asks for instead).
CallInvalid(t, reply) ==
    /\ reply.kind = "answer"
    /\ SolverReplied(t, "invalid")
    /\ CountAttempt(t)
    /\ RecordResult(current[t], Category(t), FALSE)
    /\ RetryOrFail(t, FALSE)
    /\ UNCHANGED <<batch, now, call>>

NeedsVerifier(t) == Category(t) \in HighRisk /\ VerifierAvailable

CallValid(t, reply) ==
    /\ reply.kind = "answer" /\ ~NeedsVerifier(t)
    /\ SolverReplied(t, "valid")
    /\ CountAttempt(t)
    /\ RecordResult(current[t], Category(t), TRUE)
    /\ End(t, Success("valid"))
    /\ UNCHANGED <<batch, now, attempt, selected, call>>

\* The verifier's call gets the full call limit, whatever is left of the batch.
BeginVerify(t, reply) ==
    /\ reply.kind = "answer" /\ NeedsVerifier(t)
    /\ SolverReplied(t, "valid")
    /\ CountAttempt(t)
    /\ RecordResult(current[t], Category(t), TRUE)
    /\ pc' = [pc EXCEPT ![t] = "verifying"]
    /\ current' = [current EXCEPT ![t] = Verifier]
    /\ since' = [since EXCEPT ![t] = now]
    /\ budget' = [budget EXCEPT ![t] = CallLimit]
    /\ UNCHANGED <<batch, now, attempt, selected, result>>

VerifierReplied(t, outcome) ==
    /\ pc[t] = "verifying"
    /\ log' = [log EXCEPT ![t] = Append(@, Entry("verifier", outcome, t))]
    /\ End(t, Success(AnswerOf(outcome)))
    /\ UNCHANGED <<batch, now, tries, call>>

\* (mutant: a failed verification sends the task back to the solver)
VerifierFailsRetry(t) ==
    /\ pc[t] = "verifying"
    /\ log' = [log EXCEPT ![t] = Append(@, Entry("verifier", "failed", t))]
    /\ pc' = [pc EXCEPT ![t] = "attempt"]
    /\ attempt' = [attempt EXCEPT ![t] = @ + 1]
    /\ UNCHANGED <<batch, history, now, recorded, selected, call, result>>

VerifierFails(t) ==
    /\ VerifierReplied(t, "failed")
    /\ UNCHANGED history

\* final_answer is accepted as it is: local_validate calls the validator with
\* an argument missing and takes the resulting exception for "valid".
VerifierDecides(t, outcome) ==
    /\ outcome # "failed"
    /\ VerifierReplied(t, outcome)
    /\ RecordResult(Verifier, Category(t), TRUE)

CallReturns(t) ==
    \E reply \in Replies :
        \/ CallFailsTransient(t, reply)
        \/ CallFails(t, reply)
        \/ CallEmpty(t, reply)
        \/ CallUnjudged(t, reply)
        \/ CallInvalid(t, reply)
        \/ CallValid(t, reply)
        \/ BeginVerify(t, reply)

TaskStep(t) ==
    \/ StartDeterministic(t)
    \/ StartWithoutModels(t)
    \/ StartRouted(t)
    \/ RaiseMisconfigured(t)
    \/ AbandonTask(t)
    \/ BeginCall(t)
    \/ CallReturns(t)
    \/ VerifierFails(t)
    \/ \E outcome \in VerifierOutcomes : VerifierDecides(t, outcome)

(* process_input, after the batch *)

Collected == {t \in Tasks : result[t].success /\ result[t].answer # "blank"}

\* (mutant: the answers at hand are written although some are missing)
FinishPartial(written) ==
    /\ exit = "running"
    /\ \A t \in Tasks : Ended(t)
    /\ IF Collected # {} /\ written
       THEN /\ exit' = "ok"
            /\ output' = [t \in Collected |-> result[t].answer]
       ELSE /\ exit' = "failed"
            /\ UNCHANGED output
    /\ UNCHANGED <<solver_env, profile, initialised, history, now, pc, tries, call,
                   result, log>>

\* (mutant: the run waits until every task has succeeded)
FinishOnSuccess(written) ==
    /\ exit = "running"
    /\ Collected = Tasks
    /\ exit' = "ok"
    /\ output' = [t \in Collected |-> result[t].answer]
    /\ UNCHANGED <<solver_env, profile, initialised, history, now, pc, tries, call,
                   result, log>>

\* An exception of any task, or any missing answer, fails the whole run;
\* `written` is the outcome of the atomic write.
Finish(written) ==
    /\ exit = "running"
    /\ \A t \in Tasks : Ended(t)
    /\ IF Collected = Tasks /\ written
       THEN /\ exit' = "ok"
            /\ output' = [t \in Collected |-> result[t].answer]
       ELSE /\ exit' = "failed"
            /\ UNCHANGED output
    /\ UNCHANGED <<solver_env, profile, initialised, history, now, pc, tries, call,
                   result, log>>

(* Time passes while calls are in flight, within what ModelCall promises. *)
Tick ==
    /\ \E t \in Tasks : InFlight(t)
    /\ \A t \in Tasks :
            InFlight(t) => now + 1 < since[t] + budget[t] + MaxPost
    /\ now' = now + 1
    /\ UNCHANGED <<batch, history, pc, tries, call, result, log>>

Next ==
    \/ \E configured \in BOOLEAN : Initialise(configured)
    \/ \E t \in Tasks : TaskStep(t)
    \/ \E written \in BOOLEAN : Finish(written)
    \/ Tick

(***************************************************************************)
(* The threads of the pool keep running and every model call returns       *)
(* (FireworksTransport: CallReturns).                                      *)
(***************************************************************************)
Fairness ==
    /\ WF_vars(\E configured \in BOOLEAN : Initialise(configured))
    /\ \A t \in Tasks : WF_vars(TaskStep(t))
    /\ WF_vars(\E written \in BOOLEAN : Finish(written))

Spec == Init /\ [][Next]_vars /\ Fairness

-----------------------------------------------------------------------------
(* Properties *)

LogEntries ==
    [role : {"solver", "verifier"}, model : Models \cup {NoModel},
     outcome : SolverOutcomes \cup VerifierOutcomes]

TypeOK ==
    /\ profile \in [Tasks -> Prompts]
    /\ initialised \in BOOLEAN
    /\ exit \in {"starting", "running", "ok", "failed"}
    /\ history \in [Models -> [Categories -> [attempts : Nat, successes : Nat]]]
    /\ now \in Nat
    /\ pc \in [Tasks -> {"queued", "attempt", "calling", "verifying", "done",
                         "raised"}]
    /\ attempt \in [Tasks -> Nat]
    /\ recorded \in [Tasks -> Nat]
    /\ selected \in [Tasks -> Models \cup {NoModel}]
    /\ current \in [Tasks -> Models \cup {NoModel}]
    /\ since \in [Tasks -> Nat]
    /\ budget \in [Tasks -> Nat]
    /\ result \in [Tasks -> [success : BOOLEAN,
                             answer : Answers \cup {"unset", "none"}]]
    /\ log \in [Tasks -> Seq(LogEntries)]

\* The number of solver replies a task has had: the verifier's reply, if there
\* is one, is the last of the log (VerifierOnceAndLast).
SolverReplies(t) ==
    IF log[t] # <<>> /\ log[t][Len(log[t])].role = "verifier"
    THEN Len(log[t]) - 1
    ELSE Len(log[t])

(***************************************************************************)
(* The run reports success exactly when the results file holds an answer   *)
(* for every task of the batch, none of them blank; a failed run leaves no *)
(* partial results (process_input steps 4 to 7).                           *)
(***************************************************************************)
AllOrNothing ==
    /\ exit = "ok" =>
        /\ DOMAIN output = Tasks
        /\ \A t \in Tasks : result[t].success /\ output[t] # "blank"
    /\ exit # "ok" => output = <<>>

(***************************************************************************)
(* A task that was given to the models succeeds only with an answer that   *)
(* the category validator accepted or that the verifier gave as its own;   *)
(* an answer known to be invalid, an empty one or an error never ends in   *)
(* success, however the attempts went (VERIFICATION_POLICY.md, "Never      *)
(* return an answer known to be invalid", rows D1 to D7 and I1 to E1).     *)
(* And an accepted answer is never lost to a failing verifier.             *)
(***************************************************************************)
AnswersAreAccepted ==
    \A t \in Tasks :
        LET accepted == /\ SolverReplies(t) > 0
                        /\ log[t][SolverReplies(t)].outcome = "valid"
            revised  == /\ Len(log[t]) > SolverReplies(t)
                        /\ log[t][Len(log[t])].outcome \in Revisions
        IN  /\ result[t].success /\ profile[t].path # "arithmetic" =>
                    accepted \/ revised
            /\ pc[t] = "done" /\ accepted => result[t].success

(***************************************************************************)
(* A task calls the solver at most twice, and its second attempt goes to   *)
(* another model than the first (should_retry and should_escalate).        *)
(***************************************************************************)
RetryEscalates ==
    \A t \in Tasks :
        /\ SolverReplies(t) <= MaxAttempts
        /\ \A i, j \in 1 .. SolverReplies(t) :
                i # j => log[t][i].model # log[t][j].model
        /\ pc[t] = "calling" =>
                \A i \in 1 .. Len(log[t]) : log[t][i].model # current[t]

(***************************************************************************)
(* The verifier is called at most once per task, its reply is the last one *)
(* the task waits for, and it is not called after a valid answer in a      *)
(* low-risk category (VERIFICATION_POLICY.md, "MUST NOT be called").       *)
(***************************************************************************)
VerifierOnceAndLast ==
    \A t \in Tasks : \A i \in 1 .. Len(log[t]) :
        log[t][i].role = "verifier" =>
            /\ i = Len(log[t]) /\ pc[t] = "done"
            /\ \/ Category(t) \in HighRisk
               \/ i > 1 /\ log[t][i - 1].outcome = "invalid"

(***************************************************************************)
(* The retry manager's count agrees with the calls a task made: every      *)
(* solver call is recorded, except a last one that failed in the           *)
(* transport, came back empty or made the validator raise.                 *)
(***************************************************************************)
AttemptsAccounted ==
    \A t \in Tasks :
        /\ recorded[t] <= SolverReplies(t)
        /\ SolverReplies(t) <= recorded[t] + 1
        /\ ~Ended(t) => recorded[t] = SolverReplies(t)
        /\ result[t].success => recorded[t] = SolverReplies(t)

(***************************************************************************)
(* The registry's statistics are exactly what the batch experienced: no    *)
(* result is lost or counted twice when threads record into the same model *)
(* and category.                                                           *)
(***************************************************************************)
Experienced(m, c, outcomes) ==
    {call_no \in Tasks \X (1 .. MaxAttempts + 1) :
        LET t == call_no[1]  i == call_no[2]
        IN  /\ Category(t) = c /\ i <= Len(log[t])
            /\ log[t][i].model = m /\ log[t][i].outcome \in outcomes}

RegistryMatchesReplies ==
    LET credited == {"valid", "garbled"} \cup Revisions
    IN  \A m \in Models, c \in Categories :
            /\ history[m][c].attempts =
                Cardinality(Experienced(m, c, credited \cup {"invalid"}))
            /\ history[m][c].successes = Cardinality(Experienced(m, c, credited))

(***************************************************************************)
(* The batch overruns its budget by at most the request in flight at the   *)
(* deadline and, where the verifier is in use, one full verifier call.     *)
(***************************************************************************)
VerifierTime == IF VerifierAvailable THEN CallLimit + MaxPost - 1 ELSE 0

OverrunBounded == now < Timeout + MaxPost + VerifierTime

(***************************************************************************)
(* Every run ends, whatever the models answer.                             *)
(***************************************************************************)
RunEnds == <>(exit \in {"ok", "failed"})

-----------------------------------------------------------------------------
(* What the documents say and the code does not do *)

(***************************************************************************)
(* VERIFICATION_POLICY.md, D5: a verifier answer that fails the local      *)
(* validation is rejected and the solver's valid answer is returned, so a  *)
(* task that a model answered has an answer the validator accepts.         *)
(***************************************************************************)
ReturnsOnlyValidAnswers ==
    \A t \in Tasks :
        result[t].success /\ log[t] # <<>> => result[t].answer = "valid"

(***************************************************************************)
(* VERIFICATION_POLICY.md, "Verifier MUST be called when: [...] 2. Local   *)
(* validation fails for the solver answer": where there is a verifier, no  *)
(* task ends that had an invalid answer and no reply of the verifier.      *)
(***************************************************************************)
VerifierSeesInvalidAnswers ==
    \A t \in Tasks :
        LET replies == {log[t][i] : i \in 1 .. Len(log[t])}
        IN  /\ pc[t] = "done" /\ VerifierAvailable
            /\ \E r \in replies : r.outcome = "invalid"
            => \E r \in replies : r.role = "verifier"
=============================================================================
