------------------------- MODULE Track1Executor_proofs ------------------------
(***************************************************************************)
(* Proofs about a run of Track 1, for every batch, every number of threads *)
(* and of models, every budget and every call limit.                       *)
(***************************************************************************)
EXTENDS Track1Executor, FiniteSetTheorems, SequenceTheorems, WellFoundedInduction, TLAPS

SolverOnly(t) == \A i \in 1 .. Len(log[t]) : log[t][i].role = "solver"

\* Where a call in flight stands against its budget.
ClockInv ==
    /\ now < Timeout + MaxPost + VerifierTime
    /\ \A t \in Tasks :
        /\ InFlight(t) => now < since[t] + budget[t] + MaxPost
        /\ pc[t] = "calling" => since[t] + budget[t] <= Timeout
        /\ pc[t] = "verifying" =>
            /\ VerifierAvailable
            /\ budget[t] = CallLimit /\ since[t] < Timeout + MaxPost

\* What the registry needs before a model can be asked.
ModelInv ==
    \A t \in Tasks :
        /\ InFlight(t) => current[t] \in Models
        /\ pc[t] = "verifying" => current[t] = Verifier

\* Position of a task between two calls.
Between(t) ==
    /\ attempt[t] = Len(log[t]) /\ recorded[t] = Len(log[t])
    /\ Len(log[t]) <= 1
    /\ SolverOnly(t)
    /\ Len(log[t]) = 1 => log[t][1].outcome # "valid"
    /\ result[t] = Unfinished

\* The calls a task has made, by where it is.
TriesInv(t) ==
    /\ pc[t] = "queued" =>
        /\ log[t] = <<>> /\ attempt[t] = 0 /\ recorded[t] = 0
        /\ result[t] = Unfinished
    /\ pc[t] = "raised" =>
        /\ SolverOnly(t) /\ result[t] = Unfinished
        /\ Len(log[t]) <= 2
        /\ Len(log[t]) = 2 => log[t][1].model # log[t][2].model
        /\ recorded[t] <= Len(log[t]) /\ Len(log[t]) <= recorded[t] + 1
    /\ pc[t] = "attempt" =>
        /\ Between(t)
        /\ Len(log[t]) = 1 => selected[t] = log[t][1].model
    /\ pc[t] = "calling" =>
        /\ Between(t)
        /\ Len(log[t]) = 1 => current[t] # log[t][1].model
    /\ pc[t] = "verifying" =>
        /\ recorded[t] = Len(log[t]) /\ Len(log[t]) \in 1 .. 2
        /\ Len(log[t]) = 2 => log[t][1].model # log[t][2].model
        /\ log[t][Len(log[t])].outcome = "valid"
        /\ SolverOnly(t)
        /\ Category(t) \in HighRisk
        /\ result[t] = Unfinished

\* A task that has ended: its solver replies and what became of them.
EndInv(t) ==
    LET n == SolverReplies(t)
    IN  pc[t] = "done" =>
        /\ n <= 2
        /\ n = 2 => log[t][1].model # log[t][2].model
        /\ recorded[t] <= n /\ n <= recorded[t] + 1
        /\ result[t].success => recorded[t] = n
        /\ result[t].success /\ profile[t].path # "arithmetic" =>
            n > 0 /\ log[t][n].outcome = "valid"
        /\ n > 0 /\ log[t][n].outcome = "valid" => result[t].success
        /\ \A i \in 1 .. Len(log[t]) : log[t][i].role = "verifier" =>
            /\ i = Len(log[t]) /\ Category(t) \in HighRisk
            /\ i > 1 /\ log[t][i - 1].outcome = "valid"

\* The batch as a whole.
BatchInv ==
    /\ exit = "ok" => \A t \in Tasks : Ended(t)
    /\ AllOrNothing

IInv ==
    /\ TypeOK
    /\ ClockInv
    /\ ModelInv
    /\ \A t \in Tasks : TriesInv(t) /\ EndInv(t)
    /\ BatchInv

-----------------------------------------------------------------------------
LEMMA ModelCount ==
    Len(ModelOrder) \in Nat /\ (Len(ModelOrder) = 1 \/ Len(ModelOrder) >= 2)
  <1>1. Len(ModelOrder) \in Nat /\ Len(ModelOrder) >= 1
    BY ModelAssumption, LenProperties
  <1>2. \A n \in Nat : n >= 1 => n = 1 \/ n >= 2
    OBVIOUS
  <1> QED BY <1>1, <1>2

LEMMA FirstModelListed == ModelOrder[1] \in Models
  BY ModelAssumption DEF Models

LEMMA VerifierListed == VerifierAvailable => Verifier \in Models
  BY ModelAssumption DEF VerifierAvailable, Verifier, Models

(***************************************************************************)
(* Where there is more than one model, OtherModel is one of them and is    *)
(* not the model it is asked to avoid.                                     *)
(***************************************************************************)
LEMMA OtherModelDiffers ==
    ASSUME Cardinality(Models) > 1, NEW m
    PROVE  OtherModel(m) \in Models /\ OtherModel(m) # m
  <1>1. CASE Len(ModelOrder) = 1
    <2>1. Models = {ModelOrder[1]}
      BY <1>1 DEF Models
    <2>2. Cardinality(Models) = 1
      BY <2>1, FS_Singleton
    <2> QED BY <2>2
  <1>2. CASE Len(ModelOrder) # 1
    <2>1. Len(ModelOrder) \in Nat /\ Len(ModelOrder) >= 2
      BY <1>2, ModelCount
    <2>2. ModelOrder[1] # ModelOrder[2]
      BY <2>1, ModelAssumption
    <2>3. ModelOrder[1] \in Models /\ ModelOrder[2] \in Models
      BY <2>1 DEF Models
    <2> QED BY <2>2, <2>3 DEF OtherModel
  <1> QED BY <1>1, <1>2

(***************************************************************************)
(* The model of an attempt is an allowed one; a second attempt goes to     *)
(* another model than the one selected before.                             *)
(***************************************************************************)
LEMMA AttemptModelListed ==
    ASSUME TypeOK, NEW t \in Tasks, AttemptModel(t) # NoModel,
           ~(attempt[t] = 0 /\ selected[t] = NoModel /\ SolverRaises)
    PROVE  /\ AttemptModel(t) \in Models
           /\ attempt[t] > 0 /\ selected[t] # NoModel =>
                AttemptModel(t) # selected[t]
  <1>1. attempt[t] \in Nat /\ selected[t] \in Models \cup {NoModel}
    BY DEF TypeOK
  <1>2. CASE attempt[t] = 0
    <2>1. CASE selected[t] # NoModel
      BY <1>1, <1>2, <2>1 DEF AttemptModel
    <2>2. CASE selected[t] = NoModel
      <3>1. AttemptModel(t) = Solver
        BY <1>2, <2>2 DEF AttemptModel
      <3> QED BY <1>2, <2>2, <3>1, FirstModelListed DEF Solver, SolverRaises
    <2> QED BY <2>1, <2>2
  <1>3. CASE attempt[t] > 0
    <2>1. MayEscalate(recorded[t])
      BY <1>1, <1>3 DEF AttemptModel
    <2>2. AttemptModel(t) = OtherModel(IF selected[t] # NoModel
                                       THEN selected[t] ELSE ModelOrder[1])
      BY <1>1, <1>3, <2>1 DEF AttemptModel
    <2>3. Cardinality(Models) > 1
      BY <2>1 DEF MayEscalate
    <2> QED BY <2>2, <2>3, OtherModelDiffers
  <1> QED BY <1>1, <1>2, <1>3

LEMMA CategoryListed ==
    ASSUME TypeOK, NEW t \in Tasks
    PROVE  Category(t) \in Categories
  BY ModelAssumption DEF TypeOK, Category, Profiles

-----------------------------------------------------------------------------
LEMMA InitIInv == Init => IInv
  <1> SUFFICES ASSUME Init PROVE IInv
    OBVIOUS
  <1> USE DEF Init
  <1>1. TypeOK
    <2>1. log \in [Tasks -> Seq(LogEntries)]
      OBVIOUS
    <2> QED BY <2>1 DEF TypeOK, Unfinished, Answers
  <1>2. ClockInv
    BY TimeAssumption DEF ClockInv, InFlight, VerifierTime
  <1>3. ModelInv
    BY DEF ModelInv, InFlight
  <1>4. \A t \in Tasks : TriesInv(t) /\ EndInv(t)
    BY DEF TriesInv, EndInv
  <1>5. BatchInv
    BY DEF BatchInv, AllOrNothing
  <1> QED BY <1>1, <1>2, <1>3, <1>4, <1>5 DEF IInv

(***************************************************************************)
(* What a step of one task leaves alone: the batch, the clock and the      *)
(* other tasks (execute_task shares nothing else than the registry).       *)
(***************************************************************************)
LEMMA TaskFrame ==
    ASSUME TypeOK, NEW t \in Tasks, TaskStep(t)
    PROVE  /\ UNCHANGED <<batch, now>>
           /\ \A u \in Tasks \ {t} :
                /\ pc'[u] = pc[u] /\ attempt'[u] = attempt[u]
                /\ recorded'[u] = recorded[u] /\ selected'[u] = selected[u]
                /\ current'[u] = current[u] /\ since'[u] = since[u]
                /\ budget'[u] = budget[u] /\ result'[u] = result[u]
                /\ log'[u] = log[u]
  <1> USE DEF TypeOK, batch, tries, call, End, SolverReplied, CountAttempt,
              RetryOrFail, VerifierReplied
  <1>1. CASE StartDeterministic(t)
    BY <1>1 DEF StartDeterministic
  <1>2. CASE StartWithoutModels(t)
    BY <1>2 DEF StartWithoutModels
  <1>3. CASE StartRouted(t)
    BY <1>3 DEF StartRouted
  <1>4. CASE RaiseMisconfigured(t)
    BY <1>4 DEF RaiseMisconfigured
  <1>5. CASE AbandonTask(t)
    BY <1>5 DEF AbandonTask
  <1>6. CASE BeginCall(t)
    BY <1>6 DEF BeginCall
  <1>8. CASE CallReturns(t)
    <2>1. PICK reply \in Replies :
            \/ CallFailsTransient(t, reply)
            \/ CallFails(t, reply)
            \/ CallEmpty(t, reply)
            \/ CallUnjudged(t, reply)
            \/ CallInvalid(t, reply)
            \/ CallValid(t, reply)
            \/ BeginVerify(t, reply)
      BY <1>8 DEF CallReturns
    <2>2. CASE CallFailsTransient(t, reply)
      BY <2>2 DEF CallFailsTransient
    <2>3. CASE CallFails(t, reply)
      BY <2>3 DEF CallFails
    <2>4. CASE CallEmpty(t, reply)
      BY <2>4 DEF CallEmpty
    <2>5. CASE CallInvalid(t, reply)
      BY <2>5 DEF CallInvalid
    <2>6. CASE CallValid(t, reply)
      BY <2>6 DEF CallValid
    <2>7. CASE BeginVerify(t, reply)
      BY <2>7 DEF BeginVerify
    <2>8. CASE CallUnjudged(t, reply)
      BY <2>8 DEF CallUnjudged
    <2> QED BY <2>1, <2>2, <2>3, <2>4, <2>5, <2>6, <2>7, <2>8
  <1>9. CASE VerifierFails(t)
    BY <1>9 DEF VerifierFails
  <1>10. ASSUME NEW outcome \in VerifierOutcomes, VerifierDecides(t, outcome)
         PROVE  /\ UNCHANGED <<batch, now>>
                /\ \A u \in Tasks \ {t} :
                     /\ pc'[u] = pc[u] /\ attempt'[u] = attempt[u]
                     /\ recorded'[u] = recorded[u] /\ selected'[u] = selected[u]
                     /\ current'[u] = current[u] /\ since'[u] = since[u]
                     /\ budget'[u] = budget[u] /\ result'[u] = result[u]
                     /\ log'[u] = log[u]
    BY <1>10 DEF VerifierDecides
  <1> QED BY <1>1, <1>2, <1>3, <1>4, <1>5, <1>6, <1>8, <1>9, <1>10
          DEF TaskStep
(***************************************************************************)
(* Every step preserves the types.                                         *)
(***************************************************************************)
LEMMA RecordTypes ==
    ASSUME TypeOK, NEW m \in Models, NEW c \in Categories, NEW success \in BOOLEAN,
           RecordResult(m, c, success)
    PROVE  history' \in [Models -> [Categories -> [attempts : Nat, successes : Nat]]]
  <1> DEFINE Statistics == [attempts : Nat, successes : Nat]
             old == history[m][c]
             new == [attempts |-> old.attempts + 1,
                     successes |-> IF success THEN old.successes + 1
                                              ELSE old.successes]
  <1>1. old \in Statistics
    BY DEF TypeOK
  <1>2. new \in Statistics
    BY <1>1
  <1>3. history \in [Models -> [Categories -> Statistics]]
    BY DEF TypeOK
  <1>4. history' = [history EXCEPT ![m] = [history[m] EXCEPT ![c] = new]]
    BY DEF RecordResult
  <1> HIDE DEF Statistics, new
  <1>5. [history[m] EXCEPT ![c] = new] \in [Categories -> Statistics]
    BY <1>2, <1>3
  <1>6. history' \in [Models -> [Categories -> Statistics]]
    BY <1>3, <1>4, <1>5
  <1> QED BY <1>6 DEF Statistics

\* The types of what a solver or a verifier reply changes.
LEMMA EntryType ==
    ASSUME TypeOK, NEW t \in Tasks, NEW role \in {"solver", "verifier"},
           NEW outcome \in SolverOutcomes \cup VerifierOutcomes
    PROVE  Append(log[t], Entry(role, outcome, t)) \in Seq(LogEntries)
  <1>1. Entry(role, outcome, t) \in LogEntries
    BY DEF TypeOK, Entry, LogEntries
  <1>2. log[t] \in Seq(LogEntries)
    BY DEF TypeOK
  <1> QED BY <1>1, <1>2, AppendProperties

LEMMA OutcomeTypes ==
    /\ \A answer \in Answers : Success(answer)
                \in [success : BOOLEAN, answer : Answers \cup {"unset", "none"}]
    /\ "valid" \in Answers /\ "invalid" \in Answers
    /\ Failure \in [success : BOOLEAN, answer : Answers \cup {"unset", "none"}]
    /\ \A outcome : Success(AnswerOf(outcome))
                \in [success : BOOLEAN, answer : Answers \cup {"unset", "none"}]
  BY DEF Success, Failure, Answers, AnswerOf

LEMMA RetryTypes ==
    ASSUME TypeOK, NEW t \in Tasks, NEW refused \in BOOLEAN, RetryOrFail(t, refused)
    PROVE  /\ selected' \in [Tasks -> Models \cup {NoModel}]
           /\ attempt' \in [Tasks -> Nat]
           /\ pc' \in [Tasks -> {"queued", "attempt", "calling", "verifying",
                                 "done", "raised"}]
           /\ result' \in [Tasks -> [success : BOOLEAN,
                                     answer : Answers \cup {"unset", "none"}]]
  <1>1. CASE recorded[t] + 1 < MaxAttempts /\ ~refused
    <2>1. current[t] \in Models \cup {NoModel} /\ attempt[t] + 1 \in Nat
      BY DEF TypeOK
    <2>2. /\ selected' = [selected EXCEPT ![t] = current[t]]
          /\ attempt' = [attempt EXCEPT ![t] = attempt[t] + 1]
          /\ pc' = [pc EXCEPT ![t] = "attempt"]
          /\ result' = result
      BY <1>1 DEF RetryOrFail
    <2> QED BY <2>1, <2>2 DEF TypeOK
  <1>2. CASE ~(recorded[t] + 1 < MaxAttempts /\ ~refused)
    <2>1. /\ pc' = [pc EXCEPT ![t] = "done"]
          /\ result' = [result EXCEPT ![t] = Failure]
          /\ selected' = selected /\ attempt' = attempt
      BY <1>2 DEF RetryOrFail, End
    <2> QED BY <2>1, OutcomeTypes DEF TypeOK
  <1> QED BY <1>1, <1>2

LEMMA CallReturnsType ==
    ASSUME IInv, NEW t \in Tasks, CallReturns(t)
    PROVE  TypeOK'
  <1>0. TypeOK /\ pc[t] = "calling" /\ current[t] \in Models
    BY DEF IInv, ModelInv, InFlight, CallReturns, CallFailsTransient, CallFails,
           CallEmpty, CallUnjudged, CallInvalid, CallValid, BeginVerify, SolverReplied
  <1>c. Category(t) \in Categories
    BY <1>0, CategoryListed
  <1>l. ASSUME NEW outcome \in SolverOutcomes, SolverReplied(t, outcome)
        PROVE  log' \in [Tasks -> Seq(LogEntries)]
    <2>1. Append(log[t], Entry("solver", outcome, t)) \in Seq(LogEntries)
      BY <1>0, EntryType
    <2> QED BY <1>0, <1>l, <2>1 DEF SolverReplied, TypeOK
  <1>s. {"error", "empty", "unjudged", "invalid", "valid"} = SolverOutcomes
    BY DEF SolverOutcomes
  <1>n. CountAttempt(t) => recorded' \in [Tasks -> Nat]
    BY <1>0 DEF CountAttempt, TypeOK
  <1>1. ASSUME NEW reply \in Replies, CallFailsTransient(t, reply)
        PROVE  TypeOK'
    <2>1. log' \in [Tasks -> Seq(LogEntries)]
      BY <1>1, <1>l, <1>s DEF CallFailsTransient
    <2> QED BY <1>0, <1>1, <2>1, OutcomeTypes
            DEF CallFailsTransient, End, TypeOK, batch, tries, call
  <1>2. ASSUME NEW reply \in Replies, CallFails(t, reply)
        PROVE  TypeOK'
    <2>1. log' \in [Tasks -> Seq(LogEntries)]
      BY <1>2, <1>l, <1>s DEF CallFails
    <2>2. RetryOrFail(t, reply.says = "refusal")
      BY <1>2 DEF CallFails
    <2> QED BY <1>0, <1>2, <1>n, <2>1, <2>2, RetryTypes
            DEF CallFails, TypeOK, batch, call
  <1>3. ASSUME NEW reply \in Replies, CallEmpty(t, reply)
        PROVE  TypeOK'
    <2>1. log' \in [Tasks -> Seq(LogEntries)]
      BY <1>3, <1>l, <1>s DEF CallEmpty
    <2> QED BY <1>0, <1>3, <2>1, OutcomeTypes
            DEF CallEmpty, End, TypeOK, batch, tries, call
  <1>4. ASSUME NEW reply \in Replies, CallInvalid(t, reply)
        PROVE  TypeOK'
    <2>1. log' \in [Tasks -> Seq(LogEntries)]
      BY <1>4, <1>l, <1>s DEF CallInvalid
    <2>2. history' \in [Models -> [Categories -> [attempts : Nat, successes : Nat]]]
      BY <1>0, <1>4, <1>c, RecordTypes DEF CallInvalid
    <2> QED BY <1>0, <1>4, <1>n, <2>1, <2>2, RetryTypes
            DEF CallInvalid, TypeOK, batch, call
  <1>5. ASSUME NEW reply \in Replies, CallValid(t, reply)
        PROVE  TypeOK'
    <2>1. log' \in [Tasks -> Seq(LogEntries)]
      BY <1>5, <1>l, <1>s DEF CallValid
    <2>2. history' \in [Models -> [Categories -> [attempts : Nat, successes : Nat]]]
      BY <1>0, <1>5, <1>c, RecordTypes DEF CallValid
    <2> QED BY <1>0, <1>5, <1>n, <2>1, <2>2, OutcomeTypes
            DEF CallValid, End, TypeOK, batch, call
  <1>6. ASSUME NEW reply \in Replies, BeginVerify(t, reply)
        PROVE  TypeOK'
    <2>1. log' \in [Tasks -> Seq(LogEntries)]
      BY <1>6, <1>l, <1>s DEF BeginVerify
    <2>2. history' \in [Models -> [Categories -> [attempts : Nat, successes : Nat]]]
      BY <1>0, <1>6, <1>c, RecordTypes DEF BeginVerify
    <2>3. Verifier \in Models
      BY <1>6, VerifierListed DEF BeginVerify, NeedsVerifier
    <2> QED BY <1>0, <1>6, <1>n, <2>1, <2>2, <2>3, TimeAssumption
            DEF BeginVerify, TypeOK, batch
  <1>7. ASSUME NEW reply \in Replies, CallUnjudged(t, reply)
        PROVE  TypeOK'
    <2>1. log' \in [Tasks -> Seq(LogEntries)]
      BY <1>7, <1>l, <1>s DEF CallUnjudged
    <2> QED BY <1>0, <1>7, <2>1 DEF CallUnjudged, TypeOK, batch, tries, call
  <1> QED BY <1>1, <1>2, <1>3, <1>4, <1>5, <1>6, <1>7 DEF CallReturns
LEMMA NextType == IInv /\ [Next]_vars => TypeOK'
  <1> SUFFICES ASSUME IInv, [Next]_vars
               PROVE  TypeOK'
    OBVIOUS
  <1>0. TypeOK
    BY DEF IInv
  <1>1. ASSUME NEW configured \in BOOLEAN, Initialise(configured)
        PROVE  TypeOK'
    BY <1>0, <1>1 DEF Initialise, TypeOK, tries, call
  <1>2. ASSUME NEW t \in Tasks, StartDeterministic(t)
        PROVE  TypeOK'
    BY <1>0, <1>2, OutcomeTypes
       DEF StartDeterministic, End, TypeOK, batch, tries, call
  <1>3. ASSUME NEW t \in Tasks, StartWithoutModels(t)
        PROVE  TypeOK'
    BY <1>0, <1>3, OutcomeTypes
       DEF StartWithoutModels, End, TypeOK, batch, tries, call
  <1>4. ASSUME NEW t \in Tasks, StartRouted(t)
        PROVE  TypeOK'
    <2>1. \A m \in RouteChoices(Category(t)) : m \in Models
      BY FirstModelListed DEF RouteChoices
    <2> QED BY <1>0, <1>4, <2>1 DEF StartRouted, TypeOK, batch, call
  <1>5. ASSUME NEW t \in Tasks, RaiseMisconfigured(t)
        PROVE  TypeOK'
    BY <1>0, <1>5 DEF RaiseMisconfigured, TypeOK, batch, tries, call
  <1>6. ASSUME NEW t \in Tasks, AbandonTask(t)
        PROVE  TypeOK'
    BY <1>0, <1>6, OutcomeTypes
       DEF AbandonTask, End, TypeOK, batch, tries, call
  <1>7. ASSUME NEW t \in Tasks, BeginCall(t)
        PROVE  TypeOK'
    <2>1. AttemptModel(t) \in Models
      BY <1>0, <1>7, AttemptModelListed
         DEF BeginCall, SolverMisconfigured, NoAttemptLeft
    <2>2. Smaller(CallLimit, Timeout - now) \in Nat
      BY <1>0, <1>7, TimeAssumption DEF BeginCall, NoAttemptLeft, Smaller, TypeOK
    <2> QED BY <1>0, <1>7, <2>1, <2>2 DEF BeginCall, TypeOK, batch, tries
  <1>8. ASSUME NEW t \in Tasks, CallReturns(t)
        PROVE  TypeOK'
    BY <1>8, CallReturnsType
  <1>9. ASSUME NEW t \in Tasks, NEW outcome \in VerifierOutcomes,
               VerifierReplied(t, outcome),
               history' \in [Models -> [Categories -> [attempts : Nat,
                                                       successes : Nat]]]
        PROVE  TypeOK'
    <2>1. Append(log[t], Entry("verifier", outcome, t)) \in Seq(LogEntries)
      BY <1>0, EntryType
    <2> QED BY <1>0, <1>9, <2>1, OutcomeTypes
            DEF VerifierReplied, End, TypeOK, batch, tries, call
  <1>10. ASSUME NEW t \in Tasks, VerifierFails(t)
         PROVE  TypeOK'
    BY <1>0, <1>9, <1>10 DEF VerifierFails, VerifierOutcomes, TypeOK
  <1>11. ASSUME NEW t \in Tasks, NEW outcome \in VerifierOutcomes,
                VerifierDecides(t, outcome)
         PROVE  TypeOK'
    <2>1. Verifier \in Models
      BY <1>11, VerifierListed
         DEF IInv, ClockInv, VerifierDecides, VerifierReplied
    <2>2. history' \in [Models -> [Categories -> [attempts : Nat, successes : Nat]]]
      BY <1>0, <1>11, <2>1, CategoryListed, RecordTypes DEF VerifierDecides
    <2> QED BY <1>9, <1>11, <2>2 DEF VerifierDecides
  <1>12. ASSUME NEW written \in BOOLEAN, Finish(written)
         PROVE  TypeOK'
    BY <1>0, <1>12 DEF Finish, TypeOK, tries, call
  <1>13. CASE Tick
    BY <1>0, <1>13 DEF Tick, TypeOK, batch, tries, call
  <1>14. CASE UNCHANGED vars
    BY <1>0, <1>14 DEF TypeOK, vars, batch, tries, call
  <1> QED BY <1>1, <1>2, <1>3, <1>4, <1>5, <1>6, <1>7, <1>8, <1>10, <1>11,
             <1>12, <1>13, <1>14 DEF Next, TaskStep
(***************************************************************************)
(* Steps that start no call and let no time pass keep the clock invariant: *)
(* a task that is in flight after them was so before, with the same call.  *)
(***************************************************************************)
LEMMA QuietClock ==
    ASSUME IInv, now' = now,
           \A u \in Tasks : InFlight(u)' =>
               /\ pc'[u] = pc[u] /\ current'[u] = current[u]
               /\ since'[u] = since[u] /\ budget'[u] = budget[u]
    PROVE  ClockInv' /\ ModelInv'
  BY DEF IInv, ClockInv, ModelInv, InFlight

(***************************************************************************)
(* A call starts with what is left of the batch, the verifier with a full  *)
(* limit; the clock stops at the end of the shortest call in flight.       *)
(***************************************************************************)
LEMMA NextClock == IInv /\ [Next]_vars => ClockInv' /\ ModelInv'
  <1> SUFFICES ASSUME IInv, [Next]_vars
               PROVE  ClockInv' /\ ModelInv'
    OBVIOUS
  <1>0. TypeOK /\ ClockInv /\ ModelInv
    BY DEF IInv
  <1>1. ASSUME NEW configured \in BOOLEAN, Initialise(configured)
        PROVE  ClockInv' /\ ModelInv'
    BY <1>1, QuietClock DEF Initialise, call
  <1>2. ASSUME NEW t \in Tasks, TaskStep(t), ~BeginCall(t),
               \A reply \in Replies : ~BeginVerify(t, reply)
        PROVE  ClockInv' /\ ModelInv'
    <2>1. pc'[t] \in {"attempt", "done", "raised"}
      BY <1>0, <1>2
         DEF TypeOK, TaskStep, StartDeterministic, StartWithoutModels, StartRouted,
             RaiseMisconfigured, AbandonTask, CallReturns, CallFailsTransient,
             CallFails, CallEmpty, CallUnjudged, CallInvalid, CallValid, RetryOrFail,
             VerifierFails, VerifierDecides, VerifierReplied, End
    <2> QED BY <1>0, <1>2, <2>1, TaskFrame, QuietClock DEF InFlight
  <1>3. ASSUME NEW t \in Tasks, BeginCall(t)
        PROVE  ClockInv' /\ ModelInv'
    <2>1. /\ now' = now /\ now < Timeout /\ now \in Nat
          /\ pc' = [pc EXCEPT ![t] = "calling"]
          /\ current' = [current EXCEPT ![t] = AttemptModel(t)]
          /\ since' = [since EXCEPT ![t] = now]
          /\ budget' = [budget EXCEPT ![t] = Smaller(CallLimit, Timeout - now)]
      BY <1>0, <1>3, TimeAssumption DEF BeginCall, NoAttemptLeft, TypeOK, batch, tries
    <2>2. AttemptModel(t) \in Models
      BY <1>0, <1>3, AttemptModelListed
         DEF BeginCall, SolverMisconfigured, NoAttemptLeft
    <2>3. /\ Smaller(CallLimit, Timeout - now) \in Nat
          /\ now + Smaller(CallLimit, Timeout - now) <= Timeout
      BY <2>1, TimeAssumption DEF Smaller
    <2>4. ClockInv'
      BY <1>0, <2>1, <2>3, TimeAssumption DEF ClockInv, InFlight, TypeOK
    <2>5. ModelInv'
      BY <1>0, <2>1, <2>2 DEF ModelInv, InFlight, TypeOK
    <2> QED BY <2>4, <2>5
  <1>4. ASSUME NEW t \in Tasks, NEW reply \in Replies, BeginVerify(t, reply)
        PROVE  ClockInv' /\ ModelInv'
    <2>1. /\ now' = now /\ now \in Nat /\ pc[t] = "calling" /\ VerifierAvailable
          /\ pc' = [pc EXCEPT ![t] = "verifying"]
          /\ current' = [current EXCEPT ![t] = Verifier]
          /\ since' = [since EXCEPT ![t] = now]
          /\ budget' = [budget EXCEPT ![t] = CallLimit]
      BY <1>0, <1>4 DEF BeginVerify, NeedsVerifier, SolverReplied, TypeOK, batch
    <2>2. now < Timeout + MaxPost
      BY <1>0, <2>1, TimeAssumption DEF ClockInv, InFlight, TypeOK
    <2>3. ClockInv'
      BY <1>0, <2>1, <2>2, TimeAssumption DEF ClockInv, InFlight, TypeOK
    <2>4. ModelInv'
      BY <1>0, <2>1, VerifierListed DEF ModelInv, InFlight, TypeOK
    <2> QED BY <2>3, <2>4
  <1>5. ASSUME NEW written \in BOOLEAN, Finish(written)
        PROVE  ClockInv' /\ ModelInv'
    BY <1>5, QuietClock DEF Finish, call
  <1>6. CASE Tick
    <2>1. /\ now' = now + 1 /\ now \in Nat
          /\ UNCHANGED <<pc, current, since, budget>>
          /\ \A t \in Tasks : InFlight(t) => now' < since[t] + budget[t] + MaxPost
      BY <1>0, <1>6 DEF Tick, call, TypeOK
    <2>2. PICK t \in Tasks : InFlight(t)
      BY <1>6 DEF Tick
    <2>3. now' < Timeout + MaxPost + VerifierTime
      <3>1. /\ since[t] \in Nat /\ budget[t] \in Nat
            /\ now + 1 < since[t] + budget[t] + MaxPost
        BY <1>0, <2>1, <2>2 DEF TypeOK
      <3>2. CASE pc[t] = "calling"
        BY <1>0, <2>1, <3>1, <3>2, TimeAssumption DEF ClockInv, VerifierTime
      <3>3. CASE pc[t] = "verifying"
        BY <1>0, <2>1, <3>1, <3>3, TimeAssumption DEF ClockInv, VerifierTime
      <3> QED BY <2>2, <3>2, <3>3 DEF InFlight
    <2>4. ClockInv'
      BY <1>0, <2>1, <2>3 DEF ClockInv, InFlight
    <2> QED BY <1>0, <2>1, <2>4 DEF ModelInv, InFlight
  <1>7. CASE UNCHANGED vars
    BY <1>7, QuietClock DEF vars, call
  <1> QED BY <1>1, <1>2, <1>3, <1>4, <1>5, <1>6, <1>7 DEF Next
(***************************************************************************)
(* The number of solver replies, for a log without and one with a reply of *)
(* the verifier.                                                           *)
(***************************************************************************)
LEMMA SolverRepliesOf ==
    ASSUME TypeOK, NEW t \in Tasks
    PROVE  /\ SolverOnly(t) => SolverReplies(t) = Len(log[t])
           /\ Len(log[t]) > 0 /\ log[t][Len(log[t])].role = "verifier" =>
                SolverReplies(t) = Len(log[t]) - 1
  <1>1. log[t] \in Seq(LogEntries) /\ Len(log[t]) \in Nat
    BY LenProperties DEF TypeOK
  <1>2. log[t] = <<>> <=> Len(log[t]) = 0
    BY <1>1, EmptySeq
  <1> QED BY <1>1, <1>2 DEF SolverOnly, SolverReplies

\* What appending an entry does to a log.
LEMMA AppendedEntry ==
    ASSUME TypeOK, NEW t \in Tasks, NEW e \in LogEntries,
           log' = [log EXCEPT ![t] = Append(log[t], e)]
    PROVE  /\ Len(log[t]) \in Nat /\ Len(log'[t]) = Len(log[t]) + 1
           /\ \A i \in 1 .. Len(log[t]) : log'[t][i] = log[t][i]
           /\ log'[t][Len(log[t]) + 1] = e
  <1>1. log[t] \in Seq(LogEntries) /\ log'[t] = Append(log[t], e)
    BY DEF TypeOK
  <1> QED BY <1>1, AppendProperties, LenProperties

LEMMA EntryListed ==
    ASSUME TypeOK, NEW t \in Tasks, NEW role \in {"solver", "verifier"},
           NEW outcome \in SolverOutcomes \cup VerifierOutcomes
    PROVE  Entry(role, outcome, t) \in LogEntries
  BY DEF TypeOK, Entry, LogEntries

(***************************************************************************)
(* What is known of the log once a solver reply has been added to it.      *)
(***************************************************************************)
LEMMA SolverReplyAdded ==
    ASSUME IInv, TypeOK', NEW t \in Tasks, pc[t] = "calling",
           NEW outcome \in SolverOutcomes, SolverReplied(t, outcome)
    PROVE  /\ Len(log[t]) \in Nat /\ Len(log[t]) <= 1
           /\ Len(log'[t]) = Len(log[t]) + 1
           /\ recorded[t] = Len(log[t]) /\ result[t] = Unfinished
           /\ log'[t][Len(log[t]) + 1].outcome = outcome
           /\ SolverOnly(t)' /\ SolverReplies(t)' = Len(log[t]) + 1
           /\ Len(log[t]) = 1 => log'[t][1].model # log'[t][2].model
  <1>0. TypeOK /\ Between(t) /\ (Len(log[t]) = 1 => current[t] # log[t][1].model)
    BY DEF IInv, TriesInv
  <1>1. Entry("solver", outcome, t) \in LogEntries
    BY <1>0, EntryListed
  <1>2. log' = [log EXCEPT ![t] = Append(log[t], Entry("solver", outcome, t))]
    BY DEF SolverReplied
  <1>3. /\ Len(log[t]) \in Nat /\ Len(log'[t]) = Len(log[t]) + 1
        /\ \A i \in 1 .. Len(log[t]) : log'[t][i] = log[t][i]
        /\ log'[t][Len(log[t]) + 1] = Entry("solver", outcome, t)
    BY <1>0, <1>1, <1>2, AppendedEntry
  <1>4. SolverOnly(t)'
    BY <1>0, <1>3 DEF Between, SolverOnly, Entry
  <1>5. SolverReplies(t)' = Len(log[t]) + 1
    <2>1. log'[t] \in Seq(LogEntries) /\ Len(log'[t]) \in Nat
      BY LenProperties DEF TypeOK
    <2>2. log'[t] = <<>> <=> Len(log'[t]) = 0
      BY <2>1, EmptySeq
    <2>3. SolverReplies(t)' = Len(log'[t])
      BY <1>4, <2>1, <2>2 DEF SolverOnly, SolverReplies
    <2> QED BY <1>3, <2>3
  <1>6. recorded[t] = Len(log[t]) /\ Len(log[t]) <= 1 /\ result[t] = Unfinished
    BY <1>0 DEF Between
  <1>7. Len(log[t]) = 1 => log'[t][1].model # log'[t][2].model
    BY <1>0, <1>3 DEF Entry
  <1>8. log'[t][Len(log[t]) + 1].outcome = outcome
    BY <1>3 DEF Entry
  <1> QED BY <1>3, <1>4, <1>5, <1>6, <1>7, <1>8

(***************************************************************************)
(* A task that fails or returns its model's answer after a solver reply,   *)
(* with `counted` telling whether the attempt was recorded.                *)
(***************************************************************************)
LEMMA EndsAfterReply ==
    ASSUME IInv, TypeOK', NEW t \in Tasks, pc[t] = "calling",
           NEW outcome \in SolverOutcomes, SolverReplied(t, outcome),
           current' = current, profile' = profile,
           pc' = [pc EXCEPT ![t] = "done"],
           \/ /\ result' = [result EXCEPT ![t] = Failure] /\ outcome # "valid"
              /\ recorded'[t] \in {recorded[t], recorded[t] + 1}
           \/ /\ result' = [result EXCEPT ![t] = Success("valid")]
              /\ outcome = "valid" /\ recorded'[t] = recorded[t] + 1
    PROVE  TriesInv(t)' /\ EndInv(t)'
  <1>0. TypeOK
    BY DEF IInv
  <1>1. /\ Len(log[t]) \in Nat /\ Len(log[t]) <= 1
        /\ Len(log'[t]) = Len(log[t]) + 1
        /\ recorded[t] = Len(log[t])
        /\ log'[t][Len(log[t]) + 1].outcome = outcome
        /\ SolverOnly(t)' /\ SolverReplies(t)' = Len(log[t]) + 1
        /\ Len(log[t]) = 1 => log'[t][1].model # log'[t][2].model
    BY SolverReplyAdded
  <1>2. pc'[t] = "done"
    BY <1>0 DEF TypeOK
  <1>3. TriesInv(t)'
    BY <1>2 DEF TriesInv
  <1>4. /\ result'[t].success <=> outcome = "valid"
        /\ result'[t].success => recorded'[t] = recorded[t] + 1
        /\ recorded'[t] \in {recorded[t], recorded[t] + 1}
    BY <1>0 DEF TypeOK, Success, Failure
  <1>5. EndInv(t)'
    <2> DEFINE n == SolverReplies(t)'
    <2>1. n \in 1 .. 2 /\ recorded'[t] <= n /\ n <= recorded'[t] + 1
      BY <1>1, <1>4
    <2>2. n = 2 => log'[t][1].model # log'[t][2].model
      <3>1. \A k \in Nat : k + 1 = 2 => k = 1
        OBVIOUS
      <3>2. n = 2 => Len(log[t]) = 1
        BY <1>1, <3>1
      <3> QED BY <1>1, <3>2
    <2>3. result'[t].success => recorded'[t] = n
      BY <1>1, <1>4
    <2>4. log'[t][n].outcome = "valid" <=> result'[t].success
      BY <1>1, <1>4
    <2>5. \A i \in 1 .. Len(log'[t]) : log'[t][i].role # "verifier"
      BY <1>1 DEF SolverOnly
    <2> HIDE DEF n
    <2> QED BY <2>1, <2>2, <2>3, <2>4, <2>5 DEF EndInv, n
  <1> QED BY <1>3, <1>5

(***************************************************************************)
(* A task whose validator raises keeps the replies it had, the last one    *)
(* not recorded.                                                           *)
(***************************************************************************)
LEMMA RaisesAfterReply ==
    ASSUME IInv, TypeOK', NEW t \in Tasks, NEW reply \in Replies,
           CallUnjudged(t, reply)
    PROVE  TriesInv(t)' /\ EndInv(t)'
  <1>0. /\ TypeOK /\ pc[t] = "calling" /\ SolverReplied(t, "unjudged")
        /\ UNCHANGED <<recorded, result>> /\ pc' = [pc EXCEPT ![t] = "raised"]
    BY DEF IInv, CallUnjudged, SolverReplied, tries
  <1>1. "unjudged" \in SolverOutcomes
    BY DEF SolverOutcomes
  <1>2. /\ Len(log[t]) \in Nat /\ Len(log[t]) <= 1
        /\ Len(log'[t]) = Len(log[t]) + 1
        /\ recorded[t] = Len(log[t]) /\ result[t] = Unfinished
        /\ SolverOnly(t)'
        /\ Len(log[t]) = 1 => log'[t][1].model # log'[t][2].model
    BY <1>0, <1>1, SolverReplyAdded
  <1>3. pc'[t] = "raised" /\ recorded'[t] = Len(log[t]) /\ result'[t] = Unfinished
    BY <1>0, <1>2 DEF TypeOK
  <1>4. Len(log'[t]) <= 2 /\ (Len(log'[t]) = 2 => Len(log[t]) = 1)
    <2>1. \A k \in Nat : k <= 1 => k + 1 <= 2 /\ (k + 1 = 2 => k = 1)
      OBVIOUS
    <2> QED BY <1>2, <2>1
  <1>5. recorded'[t] <= Len(log'[t]) /\ Len(log'[t]) <= recorded'[t] + 1
    BY <1>2, <1>3
  <1> QED BY <1>2, <1>3, <1>4, <1>5 DEF TriesInv, EndInv

(***************************************************************************)
(* A task that is sent back for another attempt after a solver reply, or   *)
(* fails because it has none left.                                         *)
(***************************************************************************)
LEMMA RetriesAfterReply ==
    ASSUME IInv, TypeOK', NEW t \in Tasks, pc[t] = "calling",
           NEW outcome \in {"error", "invalid"}, SolverReplied(t, outcome),
           CountAttempt(t), NEW refused \in BOOLEAN, RetryOrFail(t, refused),
           current' = current, profile' = profile
    PROVE  TriesInv(t)' /\ EndInv(t)'
  <1>0. TypeOK /\ Between(t)
    BY DEF IInv, TriesInv
  <1>1. outcome \in SolverOutcomes /\ recorded'[t] = recorded[t] + 1
    BY <1>0 DEF SolverOutcomes, CountAttempt, TypeOK
  <1>2. CASE recorded[t] + 1 < MaxAttempts /\ ~refused
    <2>1. Entry("solver", outcome, t) \in LogEntries
      BY <1>0, <1>1, EntryListed
    <2>2. /\ Len(log[t]) \in Nat /\ Len(log'[t]) = Len(log[t]) + 1
          /\ \A i \in 1 .. Len(log[t]) : log'[t][i] = log[t][i]
          /\ log'[t][Len(log[t]) + 1] = Entry("solver", outcome, t)
      BY <1>0, <2>1, AppendedEntry DEF SolverReplied
    <2>3. /\ pc'[t] = "attempt" /\ result'[t] = result[t]
          /\ selected'[t] = current[t] /\ attempt'[t] = attempt[t] + 1
      BY <1>0, <1>2 DEF RetryOrFail, TypeOK
    <2>4. recorded[t] = Len(log[t]) /\ attempt[t] = Len(log[t]) /\ Len(log[t]) = 0
      BY <1>0, <1>2, <2>2 DEF Between, MaxAttempts
    <2>5. SolverOnly(t)'
      BY <1>0, <2>2 DEF Between, SolverOnly, Entry
    <2>6. Between(t)'
      BY <1>0, <1>1, <2>2, <2>3, <2>4, <2>5 DEF Between, Entry
    <2>7. selected'[t] = log'[t][1].model
      BY <2>2, <2>3, <2>4 DEF Entry
    <2> QED BY <2>3, <2>6, <2>7 DEF TriesInv, EndInv
  <1>3. CASE ~(recorded[t] + 1 < MaxAttempts /\ ~refused)
    <2>1. pc' = [pc EXCEPT ![t] = "done"] /\ result' = [result EXCEPT ![t] = Failure]
      BY <1>3 DEF RetryOrFail, End
    <2> QED BY <1>1, <2>1, EndsAfterReply
  <1> QED BY <1>2, <1>3

(***************************************************************************)
(* A verifier's reply is appended to the replies of the solver, the last   *)
(* of which was valid, and always ends the task with an answer.            *)
(***************************************************************************)
LEMMA EndsAfterVerifier ==
    ASSUME IInv, TypeOK', NEW t \in Tasks, NEW outcome \in VerifierOutcomes,
           VerifierReplied(t, outcome)
    PROVE  TriesInv(t)' /\ EndInv(t)'
  <1>0. /\ TypeOK /\ pc[t] = "verifying"
        /\ recorded[t] = Len(log[t]) /\ Len(log[t]) \in 1 .. 2
        /\ Len(log[t]) = 2 => log[t][1].model # log[t][2].model
        /\ log[t][Len(log[t])].outcome = "valid"
        /\ SolverOnly(t)
        /\ Category(t) \in HighRisk
    BY DEF IInv, TriesInv, VerifierReplied
  <1>1. Entry("verifier", outcome, t) \in LogEntries
    BY <1>0, EntryListed
  <1>2. /\ Len(log[t]) \in Nat /\ Len(log'[t]) = Len(log[t]) + 1
        /\ \A i \in 1 .. Len(log[t]) : log'[t][i] = log[t][i]
        /\ log'[t][Len(log[t]) + 1] = Entry("verifier", outcome, t)
    BY <1>0, <1>1, AppendedEntry DEF VerifierReplied
  <1>3. SolverReplies(t)' = Len(log[t])
    <2>1. log'[t][Len(log'[t])].role = "verifier"
      BY <1>2 DEF Entry
    <2>2. log'[t] # <<>>
      BY <1>2
    <2> QED BY <1>2, <2>1, <2>2 DEF SolverReplies
  <1>4. /\ pc'[t] = "done" /\ result'[t].success
        /\ recorded'[t] = recorded[t] /\ Category(t)' = Category(t)
    BY <1>0 DEF VerifierReplied, End, Success, TypeOK, tries, batch, Category
  <1>5. TriesInv(t)'
    BY <1>4 DEF TriesInv
  <1>6. EndInv(t)'
    <2> DEFINE n == SolverReplies(t)'
    <2>1. n \in 1 .. 2 /\ recorded'[t] = n
      BY <1>0, <1>3, <1>4
    <2>2. n = 2 => log'[t][1].model # log'[t][2].model
      <3>1. n = 2 => Len(log[t]) = 2
        BY <1>3
      <3> QED BY <1>0, <1>2, <3>1
    <2>3. log'[t][n].outcome = "valid"
      <3>0. Len(log[t]) \in 1 .. Len(log[t])
        BY <1>0
      <3>1. log'[t][Len(log[t])] = log[t][Len(log[t])]
        <4> DEFINE k == Len(log[t])
        <4> SUFFICES log'[t][k] = log[t][k] OBVIOUS
        <4>1. k \in 1 .. Len(log[t]) BY <3>0
        <4> HIDE DEF k
        <4> QED BY <1>2, <4>1
      <3>2. n = Len(log[t])
        BY <1>3
      <3> HIDE DEF n
      <3> QED BY <1>0, <3>1, <3>2
    <2>4. \A i \in 1 .. Len(log'[t]) : log'[t][i].role = "verifier" =>
            i = Len(log'[t]) /\ i > 1 /\ log'[t][i - 1].outcome = "valid"
      <3>1. \A i \in 1 .. Len(log'[t]) :
              log'[t][i].role = "verifier" => i = Len(log[t]) + 1
        BY <1>0, <1>2 DEF SolverOnly
      <3>3. \A k \in 1 .. 2 : k + 1 - 1 = k /\ k + 1 > 1
        OBVIOUS
      <3>2. n = Len(log[t]) /\ n + 1 - 1 = n /\ n + 1 > 1
        BY <1>3, <2>1, <3>3
      <3> HIDE DEF n
      <3> QED BY <1>2, <2>3, <3>1, <3>2
    <2> HIDE DEF n
    <2> QED BY <1>0, <1>4, <2>1, <2>2, <2>3, <2>4 DEF EndInv, n
  <1> QED BY <1>5, <1>6
\* A task about which a step changes nothing keeps what is known of it.
LEMMA UntouchedTask ==
    ASSUME NEW u \in Tasks, TriesInv(u), EndInv(u), profile' = profile,
           pc'[u] = pc[u], attempt'[u] = attempt[u], recorded'[u] = recorded[u],
           selected'[u] = selected[u], current'[u] = current[u],
           result'[u] = result[u], log'[u] = log[u]
    PROVE  TriesInv(u)' /\ EndInv(u)'
  <1>1. TriesInv(u)'
    BY DEF TriesInv, Between, SolverOnly, Category
  <1>2. SolverReplies(u)' = SolverReplies(u)
    BY DEF SolverReplies
  <1>3. EndInv(u)'
    BY <1>2 DEF EndInv, Category
  <1> QED BY <1>1, <1>3

(***************************************************************************)
(* A task that ends without having called a model since it was queued, or  *)
(* after attempts that were all recorded.                                  *)
(***************************************************************************)
LEMMA EndsWithoutReply ==
    ASSUME IInv, NEW t \in Tasks, UNCHANGED <<log, recorded, profile>>,
           pc' = [pc EXCEPT ![t] = "done"],
           \/ /\ pc[t] = "queued" /\ profile[t].path = "arithmetic"
              /\ \E answer : result' = [result EXCEPT ![t] = Success(answer)]
           \/ /\ pc[t] = "queued" /\ result' = [result EXCEPT ![t] = Failure]
           \/ /\ pc[t] = "attempt" /\ result' = [result EXCEPT ![t] = Failure]
    PROVE  TriesInv(t)' /\ EndInv(t)'
  <1>0. TypeOK /\ TriesInv(t) /\ log[t] \in Seq(LogEntries) /\ Len(log[t]) \in Nat
    BY LenProperties DEF IInv, TypeOK
  <1>1. /\ SolverOnly(t) /\ Len(log[t]) <= 1 /\ recorded[t] = Len(log[t])
        /\ pc[t] = "queued" => Len(log[t]) = 0
    BY <1>0 DEF TriesInv, Between, SolverOnly
  <1>2. SolverReplies(t) = Len(log[t])
    BY <1>0, <1>1, SolverRepliesOf
  <1>3. SolverReplies(t)' = Len(log[t]) /\ SolverOnly(t)'
    BY <1>1, <1>2 DEF SolverReplies, SolverOnly
  <1>4. /\ pc'[t] = "done"
        /\ result'[t].success => pc[t] = "queued" /\ profile[t].path = "arithmetic"
    BY <1>0 DEF TypeOK, Success, Failure
  <1>5. Len(log[t]) > 0 => log[t][Len(log[t])].outcome # "valid"
    <2>1. \A k \in Nat : k <= 1 => k = 0 \/ k = 1
      OBVIOUS
    <2>2. Len(log[t]) = 0 \/ Len(log[t]) = 1
      BY <1>0, <1>1, <2>1
    <2>3. CASE pc[t] = "queued"
      BY <1>1, <2>3
    <2>4. CASE pc[t] = "attempt" /\ Len(log[t]) = 1
      BY <1>0, <2>4 DEF TriesInv, Between
    <2> QED BY <2>2, <2>3, <2>4
  <1>6. EndInv(t)'
    BY <1>0, <1>1, <1>3, <1>4, <1>5 DEF EndInv, SolverOnly
  <1> QED BY <1>4, <1>6 DEF TriesInv
(***************************************************************************)
(* One step of a task keeps what is known of its calls and of its end.     *)
(***************************************************************************)
LEMMA TaskTries ==
    ASSUME IInv, TypeOK', NEW t \in Tasks, TaskStep(t)
    PROVE  TriesInv(t)' /\ EndInv(t)'
  <1>0. TypeOK /\ TriesInv(t) /\ EndInv(t) /\ profile' = profile
    BY TaskFrame DEF IInv, batch
  <1>1. CASE StartDeterministic(t)
    BY <1>0, <1>1, EndsWithoutReply DEF StartDeterministic, Dequeue, End, tries
  <1>2. CASE StartWithoutModels(t)
    BY <1>0, <1>2, EndsWithoutReply DEF StartWithoutModels, Dequeue, End, tries
  <1>3. CASE StartRouted(t)
    <2>1. /\ pc[t] = "queued" /\ pc'[t] = "attempt"
          /\ UNCHANGED <<attempt, recorded, result, log>>
      BY <1>0, <1>3 DEF StartRouted, Dequeue, TypeOK
    <2>2. log[t] = <<>> /\ Len(log[t]) = 0
      BY <1>0, <2>1 DEF TriesInv
    <2> QED BY <1>0, <2>1, <2>2 DEF TriesInv, EndInv, Between, SolverOnly
  <1>4. CASE RaiseMisconfigured(t)
    <2>1. /\ pc[t] = "attempt" /\ pc'[t] = "raised" /\ attempt[t] = 0
          /\ UNCHANGED <<attempt, recorded, result, log>>
      BY <1>0, <1>4 DEF RaiseMisconfigured, SolverMisconfigured, TypeOK, tries
    <2>2. Between(t) /\ Len(log[t]) = 0 /\ recorded[t] = 0
      BY <1>0, <2>1 DEF TriesInv, Between
    <2>3. SolverOnly(t)' /\ Len(log'[t]) = 0 /\ recorded'[t] = 0
          /\ result'[t] = Unfinished
      BY <2>1, <2>2 DEF Between, SolverOnly
    <2> QED BY <2>1, <2>3 DEF TriesInv, EndInv
  <1>5. CASE AbandonTask(t)
    BY <1>0, <1>5, EndsWithoutReply DEF AbandonTask, End, tries
  <1>6. CASE BeginCall(t)
    <2>1. /\ pc[t] = "attempt" /\ pc'[t] = "calling"
          /\ current'[t] = AttemptModel(t)
          /\ UNCHANGED <<attempt, recorded, selected, result, log>>
      BY <1>0, <1>6 DEF BeginCall, TypeOK, tries
    <2>2. Between(t) /\ (Len(log[t]) = 1 => selected[t] = log[t][1].model)
      BY <1>0, <2>1 DEF TriesInv
    <2>3. Len(log[t]) = 1 => AttemptModel(t) # log[t][1].model
      <3>1. ASSUME Len(log[t]) = 1
            PROVE  AttemptModel(t) # selected[t]
        <4>1. attempt[t] > 0
          BY <2>2, <3>1 DEF Between
        <4>2. AttemptModel(t) # NoModel
          BY <1>6 DEF BeginCall, NoAttemptLeft
        <4>3. AttemptModel(t) \in Models /\
                (selected[t] # NoModel => AttemptModel(t) # selected[t])
          BY <1>0, <1>6, <4>1, <4>2, AttemptModelListed
             DEF BeginCall, SolverMisconfigured
        <4> QED BY <4>2, <4>3
      <3> QED BY <2>2, <3>1
    <2>4. Between(t)'
      BY <2>1, <2>2 DEF Between, SolverOnly
    <2> QED BY <2>1, <2>3, <2>4 DEF TriesInv, EndInv
  <1>7. CASE CallReturns(t)
    <2>1. ASSUME NEW reply \in Replies, CallFailsTransient(t, reply)
          PROVE  TriesInv(t)' /\ EndInv(t)'
      BY <1>0, <2>1, EndsAfterReply
         DEF CallFailsTransient, SolverReplied, SolverOutcomes, End, tries, call
    <2>2. ASSUME NEW reply \in Replies, CallFails(t, reply)
          PROVE  TriesInv(t)' /\ EndInv(t)'
      BY <1>0, <2>2, RetriesAfterReply DEF CallFails, SolverReplied, call
    <2>3. ASSUME NEW reply \in Replies, CallEmpty(t, reply)
          PROVE  TriesInv(t)' /\ EndInv(t)'
      BY <1>0, <2>3, EndsAfterReply
         DEF CallEmpty, SolverReplied, SolverOutcomes, End, tries, call
    <2>4. ASSUME NEW reply \in Replies, CallInvalid(t, reply)
          PROVE  TriesInv(t)' /\ EndInv(t)'
      BY <1>0, <2>4, RetriesAfterReply DEF CallInvalid, SolverReplied, call
    <2>5. ASSUME NEW reply \in Replies, CallValid(t, reply)
          PROVE  TriesInv(t)' /\ EndInv(t)'
      <3>1. recorded'[t] = recorded[t] + 1
        BY <1>0, <2>5 DEF CallValid, CountAttempt, TypeOK
      <3> QED BY <1>0, <2>5, <3>1, EndsAfterReply
              DEF CallValid, SolverReplied, SolverOutcomes, End, call
    <2>6. ASSUME NEW reply \in Replies, BeginVerify(t, reply)
          PROVE  TriesInv(t)' /\ EndInv(t)'
      <3>1. /\ pc[t] = "calling" /\ pc'[t] = "verifying"
            /\ recorded'[t] = recorded[t] + 1 /\ result' = result
            /\ Category(t)' = Category(t) /\ Category(t) \in HighRisk
            /\ log' = [log EXCEPT ![t] = Append(log[t], Entry("solver", "valid", t))]
        BY <1>0, <2>6 DEF BeginVerify, CountAttempt, SolverReplied, NeedsVerifier,
                          Category, TypeOK
      <3>2. Between(t) /\ (Len(log[t]) = 1 => current[t] # log[t][1].model)
        BY <1>0, <3>1 DEF TriesInv
      <3>3. Entry("solver", "valid", t) \in LogEntries
        BY <1>0, EntryListed DEF SolverOutcomes
      <3>4. /\ Len(log[t]) \in Nat /\ Len(log'[t]) = Len(log[t]) + 1
            /\ \A i \in 1 .. Len(log[t]) : log'[t][i] = log[t][i]
            /\ log'[t][Len(log[t]) + 1] = Entry("solver", "valid", t)
        BY <1>0, <3>1, <3>3, AppendedEntry
      <3>5. SolverOnly(t)'
        BY <3>2, <3>4 DEF Between, SolverOnly, Entry
      <3>6. recorded'[t] = Len(log'[t]) /\ Len(log'[t]) \in 1 .. 2
        BY <3>1, <3>2, <3>4 DEF Between
      <3>7. Len(log'[t]) = 2 => log'[t][1].model # log'[t][2].model
        <4>1. \A k \in Nat : k + 1 = 2 => k = 1
          OBVIOUS
        <4>2. Len(log'[t]) = 2 => Len(log[t]) = 1
          BY <3>4, <4>1
        <4> QED BY <3>2, <3>4, <4>2 DEF Entry
      <3>8. log'[t][Len(log'[t])].outcome = "valid" /\ result'[t] = Unfinished
        BY <3>1, <3>2, <3>4 DEF Entry, Between
      <3> QED BY <3>1, <3>5, <3>6, <3>7, <3>8 DEF TriesInv, EndInv
    <2>7. ASSUME NEW reply \in Replies, CallUnjudged(t, reply)
          PROVE  TriesInv(t)' /\ EndInv(t)'
      BY <2>7, RaisesAfterReply
    <2> QED BY <1>7, <2>1, <2>2, <2>3, <2>4, <2>5, <2>6, <2>7 DEF CallReturns
  <1>8. CASE VerifierFails(t)
    BY <1>8, EndsAfterVerifier DEF VerifierFails, VerifierOutcomes
  <1>9. ASSUME NEW outcome \in VerifierOutcomes, VerifierDecides(t, outcome)
        PROVE  TriesInv(t)' /\ EndInv(t)'
    BY <1>9, EndsAfterVerifier DEF VerifierDecides
  <1> QED BY <1>1, <1>2, <1>3, <1>4, <1>5, <1>6, <1>7, <1>8, <1>9 DEF TaskStep

(***************************************************************************)
(* The run reports success only once every task has ended, and no step of  *)
(* a task is possible from then on.                                        *)
(***************************************************************************)
LEMMA TaskNotEnded ==
    ASSUME TypeOK, NEW t \in Tasks, TaskStep(t)
    PROVE  ~Ended(t)
  BY DEF TaskStep, StartDeterministic, StartWithoutModels, StartRouted, Dequeue,
         RaiseMisconfigured, SolverMisconfigured, AbandonTask, BeginCall,
         CallReturns, CallFailsTransient, CallFails, CallEmpty, CallUnjudged,
         CallInvalid, CallValid, BeginVerify, SolverReplied, VerifierFails, VerifierDecides,
         VerifierReplied, Ended

LEMMA NextBatch == IInv /\ [Next]_vars => BatchInv'
  <1> SUFFICES ASSUME IInv, [Next]_vars
               PROVE  BatchInv'
    OBVIOUS
  <1>0. TypeOK /\ BatchInv
    BY DEF IInv
  <1>1. ASSUME NEW configured \in BOOLEAN, Initialise(configured)
        PROVE  BatchInv'
    BY <1>0, <1>1 DEF Initialise, BatchInv, AllOrNothing
  <1>2. ASSUME NEW t \in Tasks, TaskStep(t)
        PROVE  BatchInv'
    <2>1. exit # "ok" /\ UNCHANGED <<exit, output>>
      BY <1>0, <1>2, TaskFrame, TaskNotEnded DEF BatchInv, batch
    <2> QED BY <1>0, <2>1 DEF BatchInv, AllOrNothing
  <1>3. ASSUME NEW written \in BOOLEAN, Finish(written)
        PROVE  BatchInv'
    <2>1. /\ exit = "running" /\ output = <<>>
          /\ UNCHANGED <<pc, result>> /\ \A t \in Tasks : Ended(t)
      BY <1>0, <1>3 DEF Finish, BatchInv, AllOrNothing
    <2>2. CASE Collected = Tasks /\ written
      <3>1. exit' = "ok" /\ output' = [t \in Tasks |-> result[t].answer]
        BY <1>3, <2>2 DEF Finish
      <3>2. \A t \in Tasks : result[t].success /\ result[t].answer # "blank"
        BY <2>2 DEF Collected
      <3> QED BY <2>1, <3>1, <3>2 DEF BatchInv, AllOrNothing, Ended
    <2>3. CASE ~(Collected = Tasks /\ written)
      BY <1>3, <2>1, <2>3 DEF Finish, BatchInv, AllOrNothing
    <2> QED BY <2>2, <2>3
  <1>4. CASE Tick
    BY <1>0, <1>4 DEF Tick, BatchInv, AllOrNothing, Ended, batch
  <1>5. CASE UNCHANGED vars
    BY <1>0, <1>5 DEF vars, batch, BatchInv, AllOrNothing, Ended
  <1> QED BY <1>1, <1>2, <1>3, <1>4, <1>5 DEF Next
-----------------------------------------------------------------------------
LEMMA NextTries ==
    IInv /\ TypeOK' /\ [Next]_vars => \A t \in Tasks : TriesInv(t)' /\ EndInv(t)'
  <1> SUFFICES ASSUME IInv, TypeOK', [Next]_vars, NEW u \in Tasks
               PROVE  TriesInv(u)' /\ EndInv(u)'
    OBVIOUS
  <1>0. TypeOK /\ TriesInv(u) /\ EndInv(u)
    BY DEF IInv
  <1>1. ASSUME UNCHANGED <<profile, pc, tries, current, result, log>>
        PROVE  TriesInv(u)' /\ EndInv(u)'
    BY <1>0, <1>1, UntouchedTask DEF tries
  <1>2. ASSUME NEW configured \in BOOLEAN, Initialise(configured)
        PROVE  TriesInv(u)' /\ EndInv(u)'
    BY <1>1, <1>2 DEF Initialise, call
  <1>3. ASSUME NEW t \in Tasks, TaskStep(t)
        PROVE  TriesInv(u)' /\ EndInv(u)'
    <2>1. CASE u = t
      BY <1>3, <2>1, TaskTries
    <2>2. CASE u # t
      <3>1. profile' = profile
        BY <1>0, <1>3, TaskFrame DEF batch
      <3> QED BY <1>0, <1>3, <2>2, <3>1, TaskFrame, UntouchedTask
    <2> QED BY <2>1, <2>2
  <1>4. ASSUME NEW written \in BOOLEAN, Finish(written)
        PROVE  TriesInv(u)' /\ EndInv(u)'
    BY <1>1, <1>4 DEF Finish, call
  <1>5. CASE Tick
    BY <1>1, <1>5 DEF Tick, batch, call
  <1>6. CASE UNCHANGED vars
    BY <1>1, <1>6 DEF vars, batch, call
  <1> QED BY <1>2, <1>3, <1>4, <1>5, <1>6 DEF Next

LEMMA NextIInv == IInv /\ [Next]_vars => IInv'
  BY NextType, NextClock, NextTries, NextBatch DEF IInv

LEMMA Invariance == Spec => []IInv
  <1>1. Init => IInv
    BY InitIInv
  <1>2. IInv /\ [Next]_vars => IInv'
    BY NextIInv
  <1> QED BY <1>1, <1>2, PTL DEF Spec

(***************************************************************************)
(* Type correctness of a run.                                              *)
(***************************************************************************)
THEOREM TypeCorrect == Spec => []TypeOK
  <1>1. IInv => TypeOK
    BY DEF IInv
  <1> QED BY <1>1, Invariance, PTL

(***************************************************************************)
(* A batch overruns --timeout by at most the request in flight at the      *)
(* deadline and one verifier call, for every batch and every call limit.   *)
(***************************************************************************)
THEOREM OverrunTheorem == Spec => []OverrunBounded
  <1>1. IInv => OverrunBounded
    BY DEF IInv, ClockInv, OverrunBounded
  <1> QED BY <1>1, Invariance, PTL

(***************************************************************************)
(* The results file of a successful run answers every task of the batch,   *)
(* and a failed run leaves none.                                           *)
(***************************************************************************)
THEOREM AllOrNothingTheorem == Spec => []AllOrNothing
  <1>1. IInv => AllOrNothing
    BY DEF IInv, BatchInv
  <1> QED BY <1>1, Invariance, PTL

(***************************************************************************)
(* A task that models answer has an answer that the category validator     *)
(* accepted or that is the verifier's own.                                 *)
(***************************************************************************)
THEOREM AcceptedAnswerTheorem == Spec => []AnswersAreAccepted
  <1>1. ASSUME IInv, NEW t \in Tasks
        PROVE  /\ pc[t] # "done" => ~result[t].success
               /\ EndInv(t)
    BY <1>1 DEF IInv, TypeOK, TriesInv, Between, Unfinished
  <1>2. IInv => AnswersAreAccepted
    BY <1>1 DEF AnswersAreAccepted, EndInv
  <1> QED BY <1>2, Invariance, PTL

(***************************************************************************)
(* No task calls the solver a third time or the same model twice, however  *)
(* many models are configured.                                             *)
(***************************************************************************)
THEOREM EscalationTheorem == Spec => []RetryEscalates
  <1>1. ASSUME IInv, NEW t \in Tasks
        PROVE  /\ SolverReplies(t) <= MaxAttempts
               /\ \A i, j \in 1 .. SolverReplies(t) :
                    i # j => log[t][i].model # log[t][j].model
               /\ pc[t] = "calling" =>
                    \A i \in 1 .. Len(log[t]) : log[t][i].model # current[t]
    <2>0. /\ TypeOK /\ TriesInv(t) /\ EndInv(t)
          /\ log[t] \in Seq(LogEntries) /\ Len(log[t]) \in Nat
      BY <1>1, LenProperties DEF IInv, TypeOK
    <2>1. SolverReplies(t) \in Nat
      BY <2>0, EmptySeq DEF SolverReplies
    <2>2. SolverReplies(t) <= 2
          /\ (SolverReplies(t) = 2 => log[t][1].model # log[t][2].model)
      <3>1. CASE pc[t] = "done"
        BY <2>0, <3>1 DEF EndInv
      <3>2. CASE pc[t] = "queued"
        BY <2>0, <3>2 DEF TriesInv, SolverReplies
      <3>5. CASE pc[t] = "raised"
        BY <2>0, <3>5, SolverRepliesOf DEF TriesInv
      <3>3. CASE pc[t] \in {"attempt", "calling"}
        BY <2>0, <3>3, SolverRepliesOf DEF TriesInv, Between
      <3>4. CASE pc[t] = "verifying"
        BY <2>0, <3>4, SolverRepliesOf DEF TriesInv
      <3> QED BY <2>0, <3>1, <3>2, <3>3, <3>4, <3>5 DEF TypeOK
    <2>3. \A i, j \in 1 .. SolverReplies(t) :
            i # j => log[t][i].model # log[t][j].model
      <3>1. \A n \in Nat : n <= 2 => \A i, j \in 1 .. n :
                i # j => n = 2 /\ ((i = 1 /\ j = 2) \/ (i = 2 /\ j = 1))
        OBVIOUS
      <3> QED BY <2>1, <2>2, <3>1
    <2>4. pc[t] = "calling" =>
            \A i \in 1 .. Len(log[t]) : log[t][i].model # current[t]
      <3>1. \A n \in Nat : n <= 1 => \A i \in 1 .. n : i = 1 /\ n = 1
        OBVIOUS
      <3> QED BY <2>0, <3>1 DEF TriesInv, Between
    <2> QED BY <2>2, <2>3, <2>4 DEF MaxAttempts
  <1>2. IInv => RetryEscalates
    BY <1>1 DEF RetryEscalates
  <1> QED BY <1>2, Invariance, PTL

\* A reply of the verifier, where there is one.
LEMMA VerifierReplyFacts ==
    ASSUME IInv, NEW t \in Tasks, NEW i \in 1 .. Len(log[t]),
           log[t][i].role = "verifier"
    PROVE  /\ i = Len(log[t]) /\ pc[t] = "done" /\ Category(t) \in HighRisk
           /\ i > 1 /\ log[t][i - 1].outcome = "valid"
  <1>0. TypeOK /\ TriesInv(t) /\ EndInv(t)
    BY DEF IInv
  <1>1. ~SolverOnly(t)
    BY DEF SolverOnly
  <1>2. log[t] # <<>>
    OBVIOUS
  <1>3. pc[t] = "done"
    BY <1>0, <1>1, <1>2 DEF TypeOK, TriesInv, Between
  <1> QED BY <1>0, <1>3 DEF EndInv

(***************************************************************************)
(* The verifier is the last to be called for a task, once, and never after *)
(* a valid answer in a low-risk category.                                  *)
(***************************************************************************)
THEOREM VerifierTheorem == Spec => []VerifierOnceAndLast
  <1>1. IInv => VerifierOnceAndLast
    BY VerifierReplyFacts DEF VerifierOnceAndLast
  <1> QED BY <1>1, Invariance, PTL

VerifierSeesOnlyValid ==
    \A t \in Tasks : \A i \in 1 .. Len(log[t]) :
        log[t][i].role = "verifier" =>
            /\ Category(t) \in HighRisk
            /\ i > 1 /\ log[t][i - 1].outcome = "valid"

(***************************************************************************)
(* The verifier is only ever called for a valid answer in a high-risk      *)
(* category: no invalid answer reaches it, in no category and whatever it  *)
(* would say, which is what the run verifier_not_asked shows of one batch. *)
(***************************************************************************)
THEOREM InvalidNeverVerified == Spec => []VerifierSeesOnlyValid
  <1>1. IInv => VerifierSeesOnlyValid
    BY VerifierReplyFacts DEF VerifierSeesOnlyValid
  <1> QED BY <1>1, Invariance, PTL

(***************************************************************************)
(* The retry manager's count agrees with the calls a task has made.        *)
(***************************************************************************)
THEOREM AttemptsTheorem == Spec => []AttemptsAccounted
  <1>1. ASSUME IInv, NEW t \in Tasks
        PROVE  /\ recorded[t] <= SolverReplies(t)
               /\ SolverReplies(t) <= recorded[t] + 1
               /\ ~Ended(t) => recorded[t] = SolverReplies(t)
               /\ result[t].success => recorded[t] = SolverReplies(t)
    <2>0. TypeOK /\ TriesInv(t) /\ EndInv(t)
      BY <1>1 DEF IInv
    <2>1. ~Ended(t) => recorded[t] = SolverReplies(t)
      <3>1. CASE pc[t] = "queued"
        BY <2>0, <3>1 DEF TriesInv, SolverReplies
      <3>2. CASE pc[t] \in {"attempt", "calling"}
        BY <2>0, <3>2, SolverRepliesOf DEF TriesInv, Between
      <3>3. CASE pc[t] = "verifying"
        BY <2>0, <3>3, SolverRepliesOf DEF TriesInv
      <3> QED BY <2>0, <3>1, <3>2, <3>3 DEF TypeOK, Ended
    <2>2. CASE ~Ended(t)
      BY <2>0, <2>1, <2>2 DEF TypeOK
    <2>3. CASE pc[t] = "done"
      BY <2>0, <2>3 DEF EndInv, Ended
    <2>4. CASE pc[t] = "raised"
      BY <2>0, <2>4, SolverRepliesOf DEF TriesInv, Ended, Unfinished
    <2> QED BY <2>2, <2>3, <2>4 DEF Ended
  <1>2. IInv => AttemptsAccounted
    BY <1>1 DEF AttemptsAccounted
  <1> QED BY <1>2, Invariance, PTL

-----------------------------------------------------------------------------
(* The registry *)

Credited == {"valid", "garbled"} \cup Revisions
Counted  == Credited \cup {"invalid"}

\* Experienced, for any logs and profiles.
ExperiencedIn(logs, profiles, m, c, outcomes) ==
    {call_no \in Tasks \X (1 .. MaxAttempts + 1) :
        LET t == call_no[1]  i == call_no[2]
        IN  /\ profiles[t].category = c /\ i <= Len(logs[t])
            /\ logs[t][i].model = m /\ logs[t][i].outcome \in outcomes}

Matches(statistics, logs, profiles) ==
    \A m \in Models, c \in Categories :
        /\ statistics[m][c].attempts =
             Cardinality(ExperiencedIn(logs, profiles, m, c, Counted))
        /\ statistics[m][c].successes =
             Cardinality(ExperiencedIn(logs, profiles, m, c, Credited))

LEMMA MatchesBefore == RegistryMatchesReplies <=> Matches(history, log, profile)
  BY DEF RegistryMatchesReplies, Matches, Experienced, ExperiencedIn, Category, Counted,
         Credited

LEMMA MatchesAfter == RegistryMatchesReplies' <=> Matches(history', log', profile')
  BY DEF RegistryMatchesReplies, Matches, Experienced, ExperiencedIn, Category, Counted,
         Credited

\* The replies that count for a model and category are finitely many.
LEMMA ExperiencedFinite ==
    ASSUME NEW logs, NEW profiles, NEW m, NEW c, NEW outcomes
    PROVE  /\ IsFiniteSet(ExperiencedIn(logs, profiles, m, c, outcomes))
           /\ Cardinality(ExperiencedIn(logs, profiles, m, c, outcomes)) \in Nat
  <1>1. NumTasks \in Int /\ MaxAttempts + 1 \in Int
    BY BatchAssumption DEF MaxAttempts
  <1>2. IsFiniteSet(Tasks) /\ IsFiniteSet(1 .. MaxAttempts + 1)
    BY <1>1, FS_Interval DEF Tasks
  <1>3. IsFiniteSet(Tasks \X (1 .. MaxAttempts + 1))
    BY <1>2, FS_Product
  <1>4. ExperiencedIn(logs, profiles, m, c, outcomes)
            \in SUBSET (Tasks \X (1 .. MaxAttempts + 1))
    BY DEF ExperiencedIn
  <1> QED BY <1>3, <1>4, FS_Subset, FS_CardinalityType

\* A reply is added to the log of a task.
Logged(t, e) ==
    /\ log' = [log EXCEPT ![t] = Append(log[t], e)]
    /\ profile' = profile

(***************************************************************************)
(* A reply that is added to the log of a task is one more experience for   *)
(* its model and category, if its outcome counts, and none for any other.  *)
(***************************************************************************)
LEMMA ReplyCounts ==
    ASSUME TypeOK, NEW t \in Tasks, NEW e \in LogEntries, Len(log[t]) <= MaxAttempts,
           Logged(t, e), NEW m, NEW c, NEW outcomes
    PROVE  Cardinality(ExperiencedIn(log', profile', m, c, outcomes)) =
             IF Category(t) = c /\ e.model = m /\ e.outcome \in outcomes
             THEN Cardinality(ExperiencedIn(log, profile, m, c, outcomes)) + 1
             ELSE Cardinality(ExperiencedIn(log, profile, m, c, outcomes))
  <1> DEFINE latest == <<t, Len(log[t]) + 1>>
             old    == ExperiencedIn(log, profile, m, c, outcomes)
             new    == ExperiencedIn(log', profile', m, c, outcomes)
             counts == Category(t) = c /\ e.model = m /\ e.outcome \in outcomes
  <1>1. /\ Len(log[t]) \in Nat /\ Len(log'[t]) = Len(log[t]) + 1
        /\ \A i \in 1 .. Len(log[t]) : log'[t][i] = log[t][i]
        /\ log'[t][Len(log[t]) + 1] = e
    BY AppendedEntry DEF Logged
  <1>2. profile' = profile /\ \A u \in Tasks \ {t} : log'[u] = log[u]
    BY DEF TypeOK, Logged
  <1>3. latest \in Tasks \X (1 .. MaxAttempts + 1) /\ latest \notin old
    BY <1>1 DEF ExperiencedIn, MaxAttempts
  <1>4. ASSUME NEW x \in Tasks \X (1 .. MaxAttempts + 1)
        PROVE  x \in new <=> x \in old \/ (x = latest /\ counts)
    <2>1. PICK u \in Tasks, i \in 1 .. MaxAttempts + 1 : x = <<u, i>>
      OBVIOUS
    <2>2. /\ x \in old <=> /\ Category(u) = c /\ i <= Len(log[u])
                           /\ log[u][i].model = m /\ log[u][i].outcome \in outcomes
          /\ x \in new <=> /\ Category(u) = c /\ i <= Len(log'[u])
                            /\ log'[u][i].model = m /\ log'[u][i].outcome \in outcomes
      BY <1>2, <2>1 DEF ExperiencedIn, Category
    <2>3. CASE u # t
      BY <1>2, <2>1, <2>2, <2>3
    <2>4. CASE u = t
      <3>1. CASE i <= Len(log[t])
        BY <1>1, <2>1, <2>2, <2>4, <3>1
      <3>2. CASE i = Len(log[t]) + 1
        BY <1>1, <2>1, <2>2, <2>4, <3>2
      <3>3. CASE i > Len(log[t]) + 1
        BY <1>1, <2>1, <2>2, <2>4, <3>3
      <3> QED BY <1>1, <3>1, <3>2, <3>3
    <2> QED BY <2>3, <2>4
  <1>5. new = IF counts THEN old \cup {latest} ELSE old
    <2>1. old \subseteq Tasks \X (1 .. MaxAttempts + 1)
          /\ new \subseteq Tasks \X (1 .. MaxAttempts + 1)
      BY DEF ExperiencedIn
    <2> HIDE DEF old, new, latest, counts
    <2> QED BY <1>3, <1>4, <2>1
  <1>6. IsFiniteSet(old)
    BY ExperiencedFinite
  <1> HIDE DEF old, new, latest, counts
  <1>7. Cardinality(old \cup {latest}) = Cardinality(old) + 1
    BY <1>3, <1>6, FS_AddElement
  <1>8. Cardinality(new) = IF counts THEN Cardinality(old) + 1 ELSE Cardinality(old)
    BY <1>5, <1>7
  <1> QED BY <1>8 DEF old, new, counts

(***************************************************************************)
(* The registry still matches after a reply that is recorded in the step   *)
(* that logs it, or after one that neither counts nor is recorded.         *)
(***************************************************************************)
LEMMA RecordMatches ==
    ASSUME TypeOK, RegistryMatchesReplies, NEW t \in Tasks, NEW e \in LogEntries,
           Len(log[t]) <= MaxAttempts, e.model \in Models,
           Logged(t, e),
           \/ e.outcome \in Counted /\ RecordResult(e.model, Category(t), e.outcome \in Credited)
           \/ e.outcome \notin Counted /\ history' = history
    PROVE  RegistryMatchesReplies'
  <1> SUFFICES ASSUME NEW m \in Models, NEW c \in Categories
               PROVE  /\ history'[m][c].attempts = Cardinality(ExperiencedIn(log', profile', m, c, Counted))
                      /\ history'[m][c].successes = Cardinality(ExperiencedIn(log', profile', m, c, Credited))
    BY MatchesAfter DEF Matches
  <1>1. /\ history[m][c].attempts = Cardinality(ExperiencedIn(log, profile, m, c, Counted))
        /\ history[m][c].successes = Cardinality(ExperiencedIn(log, profile, m, c, Credited))
    BY MatchesBefore DEF Matches
  <1>2. ASSUME NEW outcomes
        PROVE  Cardinality(ExperiencedIn(log', profile', m, c, outcomes)) =
                 IF Category(t) = c /\ e.model = m /\ e.outcome \in outcomes
                 THEN Cardinality(ExperiencedIn(log, profile, m, c, outcomes)) + 1
                 ELSE Cardinality(ExperiencedIn(log, profile, m, c, outcomes))
    BY ReplyCounts
  <1>3. e.outcome \in Credited => e.outcome \in Counted
    BY DEF Counted
  <1>4. CASE e.outcome \in Counted
    <2>1. RecordResult(e.model, Category(t), e.outcome \in Credited)
      BY <1>4
    <2>2. /\ history'[m][c].attempts =
                IF m = e.model /\ c = Category(t)
                THEN history[m][c].attempts + 1 ELSE history[m][c].attempts
          /\ history'[m][c].successes =
                IF m = e.model /\ c = Category(t) /\ e.outcome \in Credited
                THEN history[m][c].successes + 1 ELSE history[m][c].successes
      BY <2>1 DEF RecordResult, TypeOK
    <2>3. history'[m][c].attempts = Cardinality(ExperiencedIn(log', profile', m, c, Counted))
      BY <1>1, <1>2, <1>4, <2>2
    <2>4. history'[m][c].successes = Cardinality(ExperiencedIn(log', profile', m, c, Credited))
      BY <1>1, <1>2, <2>2
    <2> QED BY <2>3, <2>4
  <1>5. CASE e.outcome \notin Counted
    BY <1>1, <1>2, <1>3, <1>5
  <1> QED BY <1>4, <1>5

LEMMA QuietMatches ==
    ASSUME RegistryMatchesReplies, UNCHANGED <<history, log, profile>>
    PROVE  RegistryMatchesReplies'
  BY MatchesBefore, MatchesAfter

LEMMA TaskMatches ==
    ASSUME IInv, RegistryMatchesReplies, NEW t \in Tasks, TaskStep(t)
    PROVE  RegistryMatchesReplies'
  <1>0. TypeOK /\ TriesInv(t) /\ Len(log[t]) \in Nat
    BY LenProperties DEF IInv, TypeOK
  <1>r. /\ \A outcome \in {"valid", "garbled"} \cup Revisions :
              outcome \in Credited /\ outcome \in Counted
        /\ "invalid" \in Counted /\ "invalid" \notin Credited
        /\ \A outcome \in {"error", "empty", "unjudged", "failed"} :
              outcome \notin Counted
    BY DEF Credited, Counted, Revisions
  <1>1. CASE \/ StartDeterministic(t) \/ StartWithoutModels(t) \/ StartRouted(t)
             \/ RaiseMisconfigured(t) \/ AbandonTask(t) \/ BeginCall(t)
    <2>1. UNCHANGED <<history, log, profile>>
      BY <1>1 DEF StartDeterministic, StartWithoutModels, StartRouted, RaiseMisconfigured,
                  AbandonTask, BeginCall, batch
    <2> QED BY <2>1, QuietMatches
  <1>2. ASSUME NEW outcome \in SolverOutcomes, SolverReplied(t, outcome)
        PROVE  /\ Entry("solver", outcome, t) \in LogEntries
               /\ Entry("solver", outcome, t).model = current[t] /\ current[t] \in Models
               /\ Entry("solver", outcome, t).outcome = outcome
               /\ Len(log[t]) <= MaxAttempts
               /\ profile' = profile => Logged(t, Entry("solver", outcome, t))
    <2>1. pc[t] = "calling" /\ current[t] \in Models
      BY <1>2 DEF SolverReplied, IInv, ModelInv, InFlight
    <2>2. Len(log[t]) <= MaxAttempts
      BY <1>0, <2>1 DEF TriesInv, Between, MaxAttempts
    <2>3. Entry("solver", outcome, t) \in LogEntries
      BY <1>0, EntryListed
    <2> QED BY <1>2, <2>1, <2>2, <2>3 DEF SolverReplied, Entry, Logged
  <1>3. CASE CallReturns(t)
    <2>0. PICK reply \in Replies :
            \/ CallFailsTransient(t, reply)
            \/ CallFails(t, reply)
            \/ CallEmpty(t, reply)
            \/ CallUnjudged(t, reply)
            \/ CallInvalid(t, reply)
            \/ CallValid(t, reply)
            \/ BeginVerify(t, reply)
      BY <1>3 DEF CallReturns
    <2>1. CASE CallFailsTransient(t, reply) \/ CallFails(t, reply)
      <3>1. SolverReplied(t, "error") /\ history' = history /\ profile' = profile
        BY <2>1 DEF CallFailsTransient, CallFails, batch
      <3>2. "error" \in SolverOutcomes
        BY DEF SolverOutcomes
      <3> QED BY <1>0, <1>2, <1>r, <3>1, <3>2, RecordMatches
    <2>2. CASE CallEmpty(t, reply)
      <3>1. SolverReplied(t, "empty") /\ history' = history /\ profile' = profile
        BY <2>2 DEF CallEmpty, batch
      <3>2. "empty" \in SolverOutcomes
        BY DEF SolverOutcomes
      <3> QED BY <1>0, <1>2, <1>r, <3>1, <3>2, RecordMatches
    <2>3. CASE CallInvalid(t, reply)
      <3>1. /\ SolverReplied(t, "invalid") /\ profile' = profile
            /\ RecordResult(current[t], Category(t), FALSE)
        BY <2>3 DEF CallInvalid, batch
      <3>2. "invalid" \in SolverOutcomes
        BY DEF SolverOutcomes
      <3>3. ("invalid" \in Credited) = FALSE
        BY <1>r
      <3>4. Entry("solver", "invalid", t).outcome = "invalid"
        BY <1>2, <3>1, <3>2
      <3>5. RecordResult(Entry("solver", "invalid", t).model, Category(t),
                         Entry("solver", "invalid", t).outcome \in Credited)
        BY <1>2, <3>1, <3>2, <3>3, <3>4
      <3> QED BY <1>0, <1>2, <1>r, <3>1, <3>2, <3>4, <3>5, RecordMatches
    <2>4. CASE CallValid(t, reply) \/ BeginVerify(t, reply)
      <3>1. /\ SolverReplied(t, "valid") /\ profile' = profile
            /\ RecordResult(current[t], Category(t), TRUE)
        BY <2>4 DEF CallValid, BeginVerify, batch
      <3>2. "valid" \in SolverOutcomes
        BY DEF SolverOutcomes
      <3>3. ("valid" \in Credited) = TRUE
        BY <1>r
      <3> QED BY <1>0, <1>2, <1>r, <3>1, <3>2, <3>3, RecordMatches
    <2>5. CASE CallUnjudged(t, reply)
      <3>1. SolverReplied(t, "unjudged") /\ history' = history /\ profile' = profile
        BY <2>5 DEF CallUnjudged, batch
      <3>2. "unjudged" \in SolverOutcomes
        BY DEF SolverOutcomes
      <3> QED BY <1>0, <1>2, <1>r, <3>1, <3>2, RecordMatches
    <2> QED BY <2>0, <2>1, <2>2, <2>3, <2>4, <2>5
  <1>4. ASSUME NEW outcome \in VerifierOutcomes, VerifierReplied(t, outcome)
        PROVE  /\ Entry("verifier", outcome, t) \in LogEntries
               /\ Entry("verifier", outcome, t).model = Verifier /\ Verifier \in Models
               /\ Entry("verifier", outcome, t).outcome = outcome
               /\ Len(log[t]) <= MaxAttempts
               /\ Logged(t, Entry("verifier", outcome, t))
    <2>1. pc[t] = "verifying" /\ current[t] = Verifier /\ current[t] \in Models
      BY <1>4 DEF VerifierReplied, IInv, ModelInv, InFlight
    <2>2. Len(log[t]) <= MaxAttempts
      BY <1>0, <2>1 DEF TriesInv, MaxAttempts
    <2>3. Entry("verifier", outcome, t) \in LogEntries
      BY <1>0, EntryListed
    <2> QED BY <1>4, <2>1, <2>2, <2>3 DEF VerifierReplied, Entry, Logged, batch
  <1>5. CASE VerifierFails(t)
    <2>1. VerifierReplied(t, "failed") /\ history' = history
      BY <1>5 DEF VerifierFails
    <2>2. "failed" \in VerifierOutcomes
      BY DEF VerifierOutcomes
    <2> QED BY <1>0, <1>4, <1>r, <2>1, <2>2, RecordMatches
  <1>6. ASSUME NEW outcome \in VerifierOutcomes, VerifierDecides(t, outcome)
        PROVE  RegistryMatchesReplies'
    <2>1. VerifierReplied(t, outcome) /\ RecordResult(Verifier, Category(t), TRUE)
      BY <1>6 DEF VerifierDecides
    <2>2. outcome \in Counted /\ (outcome \in Credited) = TRUE
      BY <1>6, <1>r DEF VerifierDecides, VerifierOutcomes
    <2>3. RecordResult(Entry("verifier", outcome, t).model, Category(t),
                       Entry("verifier", outcome, t).outcome \in Credited)
      BY <1>4, <2>1, <2>2
    <2> QED BY <1>0, <1>4, <2>1, <2>2, <2>3, RecordMatches
  <1> QED BY <1>1, <1>3, <1>5, <1>6 DEF TaskStep

(***************************************************************************)
(* The registry counts every reply that a task had exactly once, for every *)
(* number of tasks, threads and models.                                    *)
(***************************************************************************)
THEOREM RegistryTheorem == Spec => []RegistryMatchesReplies
  <1>1. Init => RegistryMatchesReplies
    <2> SUFFICES ASSUME Init, NEW m \in Models, NEW c \in Categories
                 PROVE  /\ history[m][c].attempts =
                             Cardinality(ExperiencedIn(log, profile, m, c, Counted))
                        /\ history[m][c].successes =
                             Cardinality(ExperiencedIn(log, profile, m, c, Credited))
      BY MatchesBefore DEF Matches
    <2>1. /\ ExperiencedIn(log, profile, m, c, Counted) = {}
          /\ ExperiencedIn(log, profile, m, c, Credited) = {}
      BY DEF Init, ExperiencedIn
    <2>2. history[m][c].attempts = 0 /\ history[m][c].successes = 0
      BY DEF Init
    <2> QED BY <2>1, <2>2, FS_EmptySet
  <1>2. IInv /\ RegistryMatchesReplies /\ [Next]_vars => RegistryMatchesReplies'
    <2> SUFFICES ASSUME IInv, RegistryMatchesReplies, [Next]_vars
                 PROVE  RegistryMatchesReplies'
      OBVIOUS
    <2>1. CASE \E t \in Tasks : TaskStep(t)
      BY <2>1, TaskMatches
    <2>2. CASE ~\E t \in Tasks : TaskStep(t)
      <3>1. UNCHANGED <<history, log, profile>>
        BY <2>2 DEF Next, Initialise, Finish, Tick, vars, batch
      <3> QED BY <3>1, QuietMatches
    <2> QED BY <2>1, <2>2
  <1> QED BY <1>1, <1>2, Invariance, PTL DEF Spec

-----------------------------------------------------------------------------
(* How long a run can last *)

\* The steps a task has still to make: two for each attempt that is left and
\* one for the verifier.
Rank(t) ==
    CASE pc[t] = "queued"    -> 6
      [] pc[t] = "attempt"   -> 5 - 2 * attempt[t]
      [] pc[t] = "calling"   -> 4 - 2 * attempt[t]
      [] pc[t] = "verifying" -> 1
      [] OTHER               -> 0

StepsAhead == {step \in Tasks \X (1 .. 6) : step[2] <= Rank(step[1])}

RunSteps == CASE exit = "starting" -> 2
              [] exit = "running"  -> 1
              [] OTHER             -> 0

\* No clock of a run ever shows more than this (OverrunBounded).
Horizon == Timeout + MaxPost + VerifierTime

StepsLeft == Cardinality(StepsAhead) + (Horizon - now) + RunSteps

LEMMA RankBounded ==
    ASSUME IInv, NEW t \in Tasks
    PROVE  Rank(t) \in 0 .. 6
  <1>1. /\ pc[t] \in {"queued", "attempt", "calling", "verifying", "done", "raised"}
        /\ pc[t] \in {"attempt", "calling"} => attempt[t] \in 0 .. 1
    BY LenProperties DEF IInv, TypeOK, TriesInv, Between
  <1> QED BY <1>1 DEF Rank

LEMMA RankStaysBounded ==
    ASSUME IInv', NEW t \in Tasks
    PROVE  Rank(t)' \in 0 .. 6
  <1>1. /\ pc'[t] \in {"queued", "attempt", "calling", "verifying", "done", "raised"}
        /\ pc'[t] \in {"attempt", "calling"} => attempt'[t] \in 0 .. 1
    BY LenProperties DEF IInv, TypeOK, TriesInv, Between
  <1> QED BY <1>1 DEF Rank

\* A step of a task brings it nearer to its end, an escalation too: it leaves
\* one attempt less.
LEMMA TaskAdvances ==
    ASSUME IInv, IInv', NEW t \in Tasks, TaskStep(t)
    PROVE  Rank(t)' < Rank(t)
  <1>1. /\ TypeOK /\ TypeOK'
        /\ pc[t] \in {"attempt", "calling"} =>
             attempt[t] \in 0 .. 1 /\ recorded[t] = attempt[t]
    BY LenProperties DEF IInv, TypeOK, TriesInv, Between
  <1>2. CASE /\ pc[t] = "queued"
             /\ pc'[t] \in {"attempt", "done"} /\ attempt'[t] = attempt[t]
    <2>1. attempt[t] = 0
      BY <1>2 DEF IInv, TriesInv
    <2> QED BY <1>2, <2>1 DEF Rank
  <1>3. CASE /\ pc[t] = "attempt"
             /\ pc'[t] \in {"calling", "done", "raised"} /\ attempt'[t] = attempt[t]
    BY <1>1, <1>3 DEF Rank
  <1>4. CASE pc[t] = "calling" /\ pc'[t] \in {"done", "raised", "verifying"}
    BY <1>1, <1>4 DEF Rank
  <1>5. CASE /\ pc[t] = "calling" /\ pc'[t] = "attempt" /\ attempt[t] = 0
             /\ attempt'[t] = 1
    BY <1>5 DEF Rank
  <1>6. CASE pc[t] = "verifying" /\ pc'[t] = "done"
    BY <1>6 DEF Rank
  <1>7. CASE \/ StartDeterministic(t) \/ StartWithoutModels(t) \/ StartRouted(t)
    BY <1>1, <1>2, <1>7 DEF StartDeterministic, StartWithoutModels, StartRouted,
                            Dequeue, End, TypeOK, tries
  <1>8. CASE \/ RaiseMisconfigured(t) \/ AbandonTask(t) \/ BeginCall(t)
    BY <1>1, <1>3, <1>8 DEF RaiseMisconfigured, SolverMisconfigured, AbandonTask,
                            BeginCall, End, TypeOK, tries
  <1>9. ASSUME NEW refused \in BOOLEAN, pc[t] = "calling", RetryOrFail(t, refused)
        PROVE  Rank(t)' < Rank(t)
    <2>1. \/ pc'[t] = "done"
          \/ pc'[t] = "attempt" /\ recorded[t] = 0 /\ attempt'[t] = attempt[t] + 1
      BY <1>1, <1>9 DEF RetryOrFail, End, MaxAttempts, TypeOK
    <2> QED BY <1>1, <1>4, <1>5, <1>9, <2>1
  <1>10. CASE CallReturns(t)
    <2>1. PICK reply \in Replies :
            \/ CallFailsTransient(t, reply)
            \/ CallFails(t, reply)
            \/ CallEmpty(t, reply)
            \/ CallUnjudged(t, reply)
            \/ CallInvalid(t, reply)
            \/ CallValid(t, reply)
            \/ BeginVerify(t, reply)
      BY <1>10 DEF CallReturns
    <2>2. CASE CallFails(t, reply)
      BY <1>9, <2>2 DEF CallFails, SolverReplied
    <2>3. CASE CallInvalid(t, reply)
      BY <1>9, <2>3 DEF CallInvalid, SolverReplied
    <2>4. CASE \/ CallFailsTransient(t, reply) \/ CallEmpty(t, reply)
               \/ CallUnjudged(t, reply) \/ CallValid(t, reply)
               \/ BeginVerify(t, reply)
      BY <1>1, <1>4, <2>4 DEF CallFailsTransient, CallEmpty, CallUnjudged, CallValid,
                              BeginVerify, SolverReplied, End, TypeOK
    <2> QED BY <2>1, <2>2, <2>3, <2>4
  <1>11. ASSUME NEW outcome \in VerifierOutcomes, VerifierReplied(t, outcome)
         PROVE  Rank(t)' < Rank(t)
    BY <1>1, <1>6, <1>11 DEF VerifierReplied, End, TypeOK
  <1>12. CASE VerifierFails(t)
    BY <1>11, <1>12 DEF VerifierFails, VerifierOutcomes
  <1> QED BY <1>7, <1>8, <1>10, <1>11, <1>12 DEF TaskStep, VerifierDecides

LEMMA StepsAheadFinite ==
    /\ IsFiniteSet(Tasks) /\ IsFiniteSet(1 .. 6)
    /\ IsFiniteSet(StepsAhead) /\ Cardinality(StepsAhead) \in Nat
    /\ Cardinality(StepsAhead) <= 6 * NumTasks
  <1>1. /\ IsFiniteSet(Tasks) /\ Cardinality(Tasks) = NumTasks
        /\ IsFiniteSet(1 .. 6) /\ Cardinality(1 .. 6) = 6
    <2>1. /\ NumTasks \in Int /\ 1 \in Int /\ 6 \in Int
          /\ (IF 1 > NumTasks THEN 0 ELSE NumTasks - 1 + 1) = NumTasks
          /\ (IF 1 > 6 THEN 0 ELSE 6 - 1 + 1) = 6
      BY BatchAssumption
    <2>2. IsFiniteSet(1 .. NumTasks) /\ Cardinality(1 .. NumTasks) = NumTasks
      BY <2>1, FS_Interval
    <2>3. IsFiniteSet(1 .. 6) /\ Cardinality(1 .. 6) = 6
      BY <2>1, FS_Interval
    <2> QED BY <2>2, <2>3 DEF Tasks
  <1>2. /\ IsFiniteSet(Tasks \X (1 .. 6))
        /\ Cardinality(Tasks \X (1 .. 6)) = NumTasks * 6
    BY <1>1, FS_Product
  <1>3. StepsAhead \in SUBSET (Tasks \X (1 .. 6))
    BY DEF StepsAhead
  <1> QED BY <1>1, <1>2, <1>3, BatchAssumption, FS_Subset, FS_CardinalityType

\* The steps ahead of the batch become fewer with every step of a task.
LEMMA FewerAhead ==
    ASSUME IInv, IInv', NEW t \in Tasks, TaskStep(t)
    PROVE  Cardinality(StepsAhead)' < Cardinality(StepsAhead)
  <1> DEFINE head == <<t, Rank(t)>>
  <1>1. /\ Rank(t) \in 0 .. 6 /\ Rank(t)' \in 0 .. 6 /\ Rank(t)' < Rank(t)
    BY RankBounded, RankStaysBounded, TaskAdvances
  <1>2. \A u \in Tasks \ {t} : Rank(u)' = Rank(u)
    BY TaskFrame DEF IInv, Rank
  <1>3. head \in StepsAhead /\ head \notin StepsAhead'
    BY <1>1 DEF StepsAhead
  <1>4. ASSUME NEW step \in StepsAhead'
        PROVE  step \in StepsAhead
    <2>1. PICK u \in Tasks, k \in 1 .. 6 : step = <<u, k>> /\ k <= Rank(u)'
      BY <1>4 DEF StepsAhead
    <2>2. Rank(u) \in 0 .. 6 /\ Rank(u)' \in 0 .. 6 /\ Rank(u)' <= Rank(u)
      BY <1>1, <1>2, RankBounded, RankStaysBounded
    <2> QED BY <2>1, <2>2 DEF StepsAhead
  <1>5. IsFiniteSet(StepsAhead) /\ StepsAhead' \in SUBSET StepsAhead
    BY <1>4, StepsAheadFinite
  <1>6. /\ Cardinality(StepsAhead') <= Cardinality(StepsAhead)
        /\ Cardinality(StepsAhead) # Cardinality(StepsAhead')
        /\ IsFiniteSet(StepsAhead')
    BY <1>3, <1>5, FS_Subset
  <1>7. Cardinality(StepsAhead) \in Nat /\ Cardinality(StepsAhead') \in Nat
    BY <1>5, <1>6, FS_CardinalityType
  <1> QED BY <1>6, <1>7

LEMMA HorizonAhead ==
    IInv => Horizon \in Nat /\ now \in Nat /\ now < Horizon
  BY TimeAssumption DEF IInv, TypeOK, ClockInv, Horizon, VerifierTime

LEMMA SameStepsAhead ==
    ASSUME UNCHANGED <<pc, attempt>>
    PROVE  StepsAhead' = StepsAhead
  BY DEF StepsAhead, Rank

LEMMA EveryStepCounts == IInv /\ IInv' /\ Next => StepsLeft' < StepsLeft
  <1> SUFFICES ASSUME IInv, IInv', Next PROVE StepsLeft' < StepsLeft
    OBVIOUS
  <1> DEFINE ahead == Cardinality(StepsAhead)
             aheadNext == Cardinality(StepsAhead')
  <1>1. /\ ahead \in Nat /\ now \in Nat /\ now' \in Nat /\ Horizon \in Nat
        /\ Horizon' = Horizon
        /\ RunSteps \in 0 .. 2 /\ RunSteps' \in 0 .. 2
        /\ StepsLeft = ahead + (Horizon - now) + RunSteps
        /\ StepsLeft' = aheadNext + (Horizon - now') + RunSteps'
    <2>1. now \in Nat /\ now' \in Nat /\ Horizon \in Nat
      BY HorizonAhead DEF IInv, TypeOK
    <2>2. Horizon' = Horizon
      BY DEF Horizon, VerifierTime, VerifierAvailable
    <2> QED BY <2>1, <2>2, StepsAheadFinite DEF StepsLeft, RunSteps
  <1> HIDE DEF ahead, aheadNext
  <1>2. UNCHANGED <<pc, attempt>> => aheadNext = ahead
    BY SameStepsAhead DEF ahead, aheadNext
  <1>3. ASSUME NEW configured \in BOOLEAN, Initialise(configured)
        PROVE  StepsLeft' < StepsLeft
    <2>1. /\ RunSteps = 2 /\ (RunSteps' = 0 \/ RunSteps' = 1)
          /\ now' = now /\ UNCHANGED <<pc, attempt>>
      BY <1>3 DEF Initialise, RunSteps, tries
    <2>2. CASE RunSteps' = 0
      BY <1>1, <1>2, <2>1, <2>2
    <2>3. CASE RunSteps' = 1
      BY <1>1, <1>2, <2>1, <2>3
    <2> QED BY <2>1, <2>2, <2>3
  <1>4. ASSUME NEW t \in Tasks, TaskStep(t)
        PROVE  StepsLeft' < StepsLeft
    <2>1. aheadNext < ahead /\ aheadNext \in Nat
      <3>1. Cardinality(StepsAhead)' < Cardinality(StepsAhead)
        BY <1>4, FewerAhead
      <3>2. StepsAhead' \in SUBSET (Tasks \X (1 .. 6))
        BY DEF StepsAhead
      <3>3. IsFiniteSet(Tasks) /\ IsFiniteSet(1 .. 6)
        BY StepsAheadFinite
      <3>4. IsFiniteSet(Tasks \X (1 .. 6))
        BY <3>3, FS_Product
      <3>5. IsFiniteSet(StepsAhead')
        BY <3>2, <3>4, FS_Subset
      <3> QED BY <3>1, <3>5, FS_CardinalityType DEF ahead, aheadNext
    <2>2. now' = now /\ RunSteps' = RunSteps
      BY <1>4, TaskFrame DEF IInv, batch, RunSteps
    <2> QED BY <1>1, <2>1, <2>2
  <1>5. ASSUME NEW written \in BOOLEAN, Finish(written)
        PROVE  StepsLeft' < StepsLeft
    <2>1. RunSteps = 1 /\ RunSteps' = 0 /\ now' = now /\ UNCHANGED <<pc, attempt>>
      BY <1>5 DEF Finish, RunSteps, tries
    <2> QED BY <1>1, <1>2, <2>1
  <1>6. CASE Tick
    <2>1. RunSteps' = RunSteps /\ now' = now + 1 /\ UNCHANGED <<pc, attempt>>
      BY <1>6 DEF Tick, RunSteps, tries, batch
    <2> QED BY <1>1, <1>2, <2>1
  <1> QED BY <1>3, <1>4, <1>5, <1>6 DEF Next

(***************************************************************************)
(* A run makes at most six steps per task and two of its own, while the    *)
(* clock moves within its horizon: every step uses up a part of that, so   *)
(* no escalation, no verification and no answer of a model can keep a      *)
(* batch going, whatever its size and the number of threads.               *)
(***************************************************************************)
THEOREM BatchIsFinite ==
    Spec => /\ [](StepsLeft \in 0 .. 6 * NumTasks + Horizon + 2)
            /\ [][StepsLeft' < StepsLeft]_vars
  <1>1. IInv => StepsLeft \in 0 .. 6 * NumTasks + Horizon + 2
    <2> SUFFICES ASSUME IInv PROVE StepsLeft \in 0 .. 6 * NumTasks + Horizon + 2
      OBVIOUS
    <2>1. RunSteps \in 0 .. 2
      BY DEF RunSteps
    <2> QED BY <2>1, StepsAheadFinite, HorizonAhead, BatchAssumption DEF StepsLeft
  <1>2. IInv /\ IInv' /\ [Next]_vars => [StepsLeft' < StepsLeft]_vars
    BY EveryStepCounts
  <1> QED BY InitIInv, NextIInv, <1>1, <1>2, PTL DEF Spec

-----------------------------------------------------------------------------
(* The pool never starves a queued task *)

NatOrder == {pair \in Nat \X Nat : pair[1] < pair[2]}

LEMMA NatOrderWF == IsWellFoundedOn(NatOrder, Nat)
  BY NatLessThanWellFounded DEF OpToRel, NatOrder

LEMMA Least ==
    ASSUME NEW S, S \subseteq Nat, S # {}
    PROVE  \E n \in S : \A m \in S : n <= m
  <1>1. PICK n \in S : \A m \in S : <<m, n>> \notin NatOrder
    BY NatOrderWF, WFMin
  <1>2. ASSUME NEW m \in S
        PROVE  n <= m
    <2>1. m \in Nat /\ n \in Nat
      OBVIOUS
    <2>2. ~(m < n)
      BY <1>1, <2>1 DEF NatOrder
    <2> QED BY <2>1, <2>2
  <1> QED BY <1>2

NeverIdle ==
    exit = "running" =>
        \/ \A t \in Tasks : Ended(t)
        \/ \E t \in Tasks : Active(t) \/ Dequeue(t)

(***************************************************************************)
(* A batch that runs never waits for nothing: unless all its tasks have    *)
(* ended, a thread is at work on one of them or can take the first of the  *)
(* queue.                                                                  *)
(***************************************************************************)
THEOREM PoolNeverIdles == Spec => []NeverIdle
  <1>1. ASSUME IInv, exit = "running", ~(\A t \in Tasks : Ended(t)),
               ~(\E t \in Tasks : Active(t))
        PROVE  \E t \in Tasks : Dequeue(t)
    <2> DEFINE queue == {t \in Tasks : pc[t] = "queued"}
    <2>1. queue # {}
      BY <1>1 DEF IInv, TypeOK, Active, Ended
    <2>2. queue \subseteq Nat
      BY BatchAssumption DEF Tasks
    <2>3. PICK t \in queue : \A u \in queue : t <= u
      BY <2>1, <2>2, Least
    <2>4. \A u \in Tasks : u < t => pc[u] # "queued"
      BY <2>3, BatchAssumption DEF Tasks
    <2>5. {u \in Tasks : Active(u)} = {}
      BY <1>1
    <2>6. Cardinality({u \in Tasks : Active(u)}) < Workers
      BY <2>5, BatchAssumption, FS_EmptySet
    <2>7. t \in Tasks /\ pc[t] = "queued"
      BY <2>3
    <2>8. Dequeue(t)
      BY <1>1, <2>4, <2>6, <2>7 DEF Dequeue
    <2> QED BY <2>7, <2>8
  <1>2. IInv => NeverIdle
    BY <1>1 DEF NeverIdle
  <1> QED BY <1>2, Invariance, PTL
-----------------------------------------------------------------------------
(* How far the disagreements with the documents go *)

\* An answer that is not valid was never validated: it is the evaluator's, or
\* the verifier's in a category that it judges.
InvalidIsUnchecked(t) ==
    result[t].success /\ result[t].answer # "valid" =>
        \/ /\ profile[t].path = "arithmetic" /\ log[t] = <<>>
           /\ result[t].answer = "invalid"
        \/ /\ NeedsVerifier(t) /\ Len(log[t]) > 0
           /\ LET last == log[t][Len(log[t])]
              IN  /\ last.role = "verifier" /\ last.model = Verifier
                  /\ last.outcome \in {"revised_invalid", "revised_blank"}

OnlyUncheckedMisanswers == \A t \in Tasks : InvalidIsUnchecked(t)

LEMMA TaskAnswers ==
    ASSUME IInv, NEW t \in Tasks, TaskStep(t)
    PROVE  InvalidIsUnchecked(t)'
  <1>0. TypeOK /\ (pc[t] # "done" => ~result[t].success) /\ profile' = profile
    BY TaskFrame DEF IInv, TypeOK, TriesInv, Between, Unfinished, batch
  <1>1. ASSUME pc[t] # "done", UNCHANGED result PROVE InvalidIsUnchecked(t)'
    BY <1>0, <1>1 DEF InvalidIsUnchecked
  <1>2. ASSUME End(t, Failure) \/ End(t, Success("valid")) PROVE InvalidIsUnchecked(t)'
    BY <1>0, <1>2 DEF InvalidIsUnchecked, End, Failure, Success, TypeOK
  <1>3. CASE \/ StartWithoutModels(t) \/ StartRouted(t)
             \/ RaiseMisconfigured(t) \/ AbandonTask(t) \/ BeginCall(t)
    BY <1>1, <1>2, <1>3 DEF StartWithoutModels, StartRouted, Dequeue,
                            RaiseMisconfigured, SolverMisconfigured, AbandonTask, BeginCall
  <1>8. CASE StartDeterministic(t)
    <2>1. /\ pc[t] = "queued" /\ profile[t].path = "arithmetic" /\ log' = log
          /\ \E answer \in {"valid", "invalid"} :
                result' = [result EXCEPT ![t] = Success(answer)]
      BY <1>8 DEF StartDeterministic, Dequeue, End
    <2>2. log[t] = <<>>
      BY <2>1 DEF IInv, TriesInv
    <2>3. result'[t].answer \in {"valid", "invalid"}
      BY <1>0, <2>1 DEF Success, TypeOK
    <2> QED BY <1>0, <2>1, <2>2, <2>3 DEF InvalidIsUnchecked
  <1>4. CASE CallReturns(t)
    <2>1. ASSUME NEW refused, pc[t] = "calling", RetryOrFail(t, refused)
          PROVE  InvalidIsUnchecked(t)'
      BY <1>1, <1>2, <2>1 DEF RetryOrFail
    <2> QED BY <1>1, <1>2, <1>4, <2>1
            DEF CallReturns, CallFailsTransient, CallFails, CallEmpty, CallUnjudged,
                CallInvalid, CallValid, BeginVerify, SolverReplied
  <1>5. ASSUME NEW outcome \in VerifierOutcomes, VerifierReplied(t, outcome)
        PROVE  InvalidIsUnchecked(t)'
    <2>1. pc[t] = "verifying" /\ Category(t) \in HighRisk /\ VerifierAvailable
          /\ current[t] = Verifier
      BY <1>5 DEF VerifierReplied, IInv, TriesInv, ClockInv, ModelInv
    <2>2. Entry("verifier", outcome, t) \in LogEntries
      BY <1>0, EntryListed
    <2>3. /\ Len(log[t]) \in Nat /\ Len(log'[t]) = Len(log[t]) + 1
          /\ log'[t][Len(log[t]) + 1] = Entry("verifier", outcome, t)
      BY <1>0, <1>5, <2>2, AppendedEntry DEF VerifierReplied
    <2>4. result'[t].answer = AnswerOf(outcome)
      BY <1>0, <1>5 DEF VerifierReplied, End, Success, TypeOK
    <2>5. AnswerOf(outcome) # "valid" => outcome \in {"revised_invalid", "revised_blank"}
      BY DEF AnswerOf
    <2> QED BY <1>0, <2>1, <2>3, <2>4, <2>5
            DEF InvalidIsUnchecked, Entry, NeedsVerifier, Category, Verifier,
                VerifierAvailable
  <1>6. CASE VerifierFails(t)
    BY <1>5, <1>6 DEF VerifierFails, VerifierOutcomes
  <1>7. ASSUME NEW outcome \in VerifierOutcomes, VerifierDecides(t, outcome)
        PROVE  InvalidIsUnchecked(t)'
    BY <1>5, <1>7 DEF VerifierDecides
  <1> QED BY <1>3, <1>4, <1>6, <1>7, <1>8 DEF TaskStep

LEMMA AnswersStep ==
    ASSUME IInv, OnlyUncheckedMisanswers, [Next]_vars
    PROVE  OnlyUncheckedMisanswers'
  <1>1. ASSUME NEW t \in Tasks, UNCHANGED profile,
               result'[t] = result[t], log'[t] = log[t]
        PROVE  InvalidIsUnchecked(t)'
    BY <1>1 DEF OnlyUncheckedMisanswers, InvalidIsUnchecked, NeedsVerifier, Category,
                VerifierAvailable, Verifier
  <1>2. ASSUME NEW t \in Tasks, TaskStep(t), NEW u \in Tasks
        PROVE  InvalidIsUnchecked(u)'
    <2>1. CASE u = t
      BY <1>2, <2>1, TaskAnswers
    <2>2. CASE u # t
      BY <1>1, <1>2, <2>2, TaskFrame DEF IInv, batch
    <2> QED BY <2>1, <2>2
  <1>3. CASE \/ UNCHANGED vars \/ Tick
             \/ \E configured \in BOOLEAN : Initialise(configured)
             \/ \E written \in BOOLEAN : Finish(written)
    BY <1>1, <1>3 DEF OnlyUncheckedMisanswers, vars, batch, Tick, Initialise, Finish
  <1>4. CASE \E t \in Tasks : TaskStep(t)
    BY <1>2, <1>4 DEF OnlyUncheckedMisanswers
  <1> QED BY <1>3, <1>4 DEF Next

(***************************************************************************)
(* A task is answered with something the validator would refuse only when  *)
(* the answer never passed the validator: it is the evaluator's, without a *)
(* model having been called, or the verifier's, in a high-risk category,   *)
(* which is the extent of the disagreement the run verifier_answer shows.  *)
(***************************************************************************)
THEOREM InvalidAnswersAreUnchecked ==
    Spec => []OnlyUncheckedMisanswers
  <1>1. Init => OnlyUncheckedMisanswers
    BY DEF Init, OnlyUncheckedMisanswers, InvalidIsUnchecked, Unfinished
  <1> QED BY <1>1, AnswersStep, Invariance, PTL DEF Spec

(***************************************************************************)
(* Without a verifier, or without a high-risk category, no answer of a     *)
(* model is ever returned that the validator would refuse.                 *)
(***************************************************************************)
THEOREM ValidWithoutVerifier ==
    (~VerifierAvailable \/ HighRisk = {}) /\ Spec => []ReturnsOnlyValidAnswers
  <1> DEFINE Unverified == ~VerifierAvailable \/ HighRisk = {}
  <1>1. Unverified /\ OnlyUncheckedMisanswers => ReturnsOnlyValidAnswers
    BY DEF OnlyUncheckedMisanswers, InvalidIsUnchecked, NeedsVerifier, ReturnsOnlyValidAnswers
  <1>2. Unverified => Unverified'
    BY DEF VerifierAvailable
  <1> HIDE DEF Unverified
  <1>3. Unverified => []Unverified
    BY <1>2, PTL
  <1>4. Unverified /\ Spec => []ReturnsOnlyValidAnswers
    BY <1>1, <1>3, InvalidAnswersAreUnchecked, PTL
  <1> QED BY <1>4 DEF Unverified

\* What a batch without models has come to.
Unassisted ==
    /\ exit = "starting" => ~initialised /\ \A t \in Tasks : pc[t] = "queued"
    /\ ~initialised =>
        /\ exit = "running" => \A t \in Tasks : profile[t].expr
        /\ \A t \in Tasks :
              /\ pc[t] \in {"queued", "done"}
              /\ pc[t] = "done" => (result[t].success <=> profile[t].path = "arithmetic")

LEMMA UnassistedTask ==
    ASSUME IInv, Unassisted, NEW t \in Tasks, TaskStep(t)
    PROVE  Unassisted'
  <1>1. TypeOK /\ UNCHANGED batch
    BY TaskFrame DEF IInv
  <1>2. CASE initialised
    BY <1>1, <1>2 DEF Unassisted, batch
  <1>3. CASE ~initialised
    <2>1. pc[t] \in {"queued", "done"}
      BY <1>3 DEF Unassisted
    <2>2. StartDeterministic(t) \/ StartWithoutModels(t)
      BY <1>3, <2>1 DEF TaskStep, StartRouted, RaiseMisconfigured, SolverMisconfigured,
                        AbandonTask, BeginCall, CallReturns, CallFailsTransient, CallFails,
                        CallEmpty, CallUnjudged, CallInvalid, CallValid, BeginVerify, SolverReplied,
                        VerifierFails, VerifierDecides, VerifierReplied
    <2>3. /\ exit = "running" /\ pc'[t] = "done"
          /\ result'[t].success <=> profile[t].path = "arithmetic"
      BY <1>1, <2>2 DEF StartDeterministic, StartWithoutModels, Dequeue, End, Success,
                        Failure, TypeOK
    <2>4. \A u \in Tasks \ {t} : pc'[u] = pc[u] /\ result'[u] = result[u]
      BY TaskFrame DEF IInv
    <2> QED BY <1>1, <2>3, <2>4 DEF Unassisted, batch
  <1> QED BY <1>2, <1>3

LEMMA UnassistedStep ==
    ASSUME IInv, Unassisted, [Next]_vars
    PROVE  Unassisted'
  <1>1. CASE \E configured \in BOOLEAN : Initialise(configured)
    <2>1. PICK configured \in BOOLEAN : Initialise(configured)
      BY <1>1
    <2>2. \A t \in Tasks : pc[t] = "queued"
      BY <2>1 DEF Unassisted, Initialise
    <2>3. /\ UNCHANGED <<profile, pc, result>>
          /\ exit' # "starting"
          /\ ~initialised' /\ exit' = "running" => \A t \in Tasks : profile[t].expr
      BY <2>1, Zenon DEF Initialise, RemoteRequired
    <2> QED BY <2>2, <2>3 DEF Unassisted
  <1>2. CASE \/ UNCHANGED vars \/ Tick
             \/ \E written \in BOOLEAN : Finish(written)
    BY <1>2 DEF Unassisted, vars, batch, Tick, Finish
  <1> QED BY <1>1, <1>2, UnassistedTask DEF Next

(***************************************************************************)
(* Without models a task succeeds exactly when execute_task itself takes   *)
(* its prompt for arithmetic; and process_input goes on without models     *)
(* only if it finds an expression in every prompt.  The two do not look at *)
(* the prompt the same way: a prompt whose expression the evaluator        *)
(* declines ("Calculate 10 / 0") is left without the models it needs.      *)
(***************************************************************************)
THEOREM UnassistedTasksAreArithmetic == Spec => []Unassisted
  <1>1. Init => Unassisted
    BY DEF Init, Unassisted
  <1> QED BY <1>1, UnassistedStep, Invariance, PTL DEF Spec

\* Every prompt with an expression is one that execute_task computes.
ExpressionsAreComputed == \A p \in Prompts : p.expr => p.path = "arithmetic"

(***************************************************************************)
(* process_input: "Initialize remote components only when at least one     *)
(* task is not provably solvable by the deterministic arithmetic path", so *)
(* no task of a run should want for models that were never initialised.    *)
(***************************************************************************)
UninitialisedNeedsNoModel ==
    \A t \in Tasks :
        exit = "running" /\ ~initialised /\ pc[t] = "done" => result[t].success

(***************************************************************************)
(* If every prompt with an expression is one that execute_task computes, a *)
(* batch that runs without models needs none.                              *)
(***************************************************************************)
THEOREM ComputedExpressionsNeedNoModel ==
    ExpressionsAreComputed /\ Spec => []UninitialisedNeedsNoModel
  <1>1. ExpressionsAreComputed /\ IInv /\ Unassisted => UninitialisedNeedsNoModel
    BY ModelAssumption DEF ExpressionsAreComputed, IInv, TypeOK, Unassisted,
                           UninitialisedNeedsNoModel
  <1>2. ExpressionsAreComputed => ExpressionsAreComputed'
    BY DEF ExpressionsAreComputed
  <1> HIDE DEF ExpressionsAreComputed
  <1> QED BY <1>1, <1>2, UnassistedTasksAreArithmetic, Invariance, PTL
=============================================================================
