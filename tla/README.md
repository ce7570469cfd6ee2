# A verification project for amd

This directory holds TLA+ models of the programs in this repository, the TLC
configurations that check them on small instances, and proofs about them that
TLAPS checks for every value of the constants.

Layout: `X.tla` models a component, `MCX.tla` gives it small instances,
`*.cfg` are TLC runs, `X_proofs.tla` holds the theorems about `X`.
`PROJECT.json` lists components, runs, the lines each definition models, the
hazards of the code, and the theorems. `tlc -config Batch.cfg
MCTrack1Executor` runs one; `tlapm Track1Executor_proofs.tla` checks one set
of proofs.

## 1. Inventory

The repository holds three programs that share no state.

### Track 1 (`amd_track1/`): answering batches of text tasks

`entrypoint.py` starts one `TaskExecutor.process_input` in a container. The
batch runs on a thread pool and ends in `results.json`.

| component | state | operations | talks to |
|---|---|---|---|
| task executor (`executor.py`, `retry_policy.py`) | per task: attempt, retry count, selected model, result | `process_input`, `execute_batch`, `execute_task` | routing, client, validator, verifier, writer |
| Fireworks client (`FireworksClient`) | attempt, deadline, `last_error` | `infer` | the provider, by HTTP |
| routing and model registry (`router.py`, `model_registry.py`, `model_roles.py`) | statistics per model and category, shared by all threads | `select_model`, `record_category_result`, role look-up | read and written by every task |
| verifier (`verifier.py`) | none | `call_verifier_once` | client |
| results writer (`tools/submission_validator.py`) | `results.json` and its `.tmp` | `atomic_write` | the volume, which outlives the container |
| input validation, classification, prompts (`input_validation.py`, `classifier.py`, `prompt_builder.py`) | skill definitions, read once | pure functions of text | executor |
| category checks and tools (`category_validator.py`, `tools/`) | none | pure functions of text; the arithmetic evaluator answers some tasks without a model | executor |

Hard behaviours: threads share the registry and the clock; every wait is
against a deadline shared by the batch; failures are retried at two levels (by
the client on status codes, by the executor on the text of an error); the
container may be killed while it writes. Correctness: all answers or none; no
answer known to be invalid; bounded attempts and a bounded overrun; statistics
that match what happened; a results file that is whole at every moment.

### The backend pipeline (`src/backend/`): inspecting a folder

`cli.py` runs nine phases one after the other in one process: snapshot, scan,
analysis and classification, statement output, gap evaluation, simulation
environment, inspection, final result, cleanup, with one artifact file per
phase. The operator may give a package (a plan, evidence, metadata) that gap
evaluation judges; without what it asks for, or when the simulation fails, the
run ends early with a handoff file for the operator.

| component | state | operations | talks to |
|---|---|---|---|
| pipeline (`cli.py`, `pipeline/`) | run directory, artifacts, phase status | `run_pipeline`, transitions, handoffs | every phase |
| snapshot and scan | copied tree, scope | `run_snapshot`, `run_scan` | the folder, which may change |
| inspection | checks and decision | `run_inspection` | pipeline |
| analysis, classification, statement output | records | pure transformations | gap evaluation |
| gap evaluation | patches, attempts, conflicts | `run_gap_evaluation` | simulation |
| simulation environment | sandbox copy, mutation boundary | apply, verify | gap evaluation, final result |
| final result and its lock | lock file, temporary file, artifact | `run_final_result`, `acquire_lock` | other processes on the same lock directory |
| cleanup | plan, fingerprints, deleted files | plan, re-validate, delete | files that change in between |

Hard behaviours: processes that share a lock directory; artifacts written in
place; a kill between two phases; files that change between a check and its
use; a correction loop with two attempts. Correctness: a locked result never
changes; a mutation never leaves the sandbox; a phase runs only on what its
predecessor produced; cleanup deletes nothing that it has to keep.

### Track 2 (`amd_track2/`): captions for videos

`main` of `entrypoint.py` takes the tasks one after the other, in one thread:
the video is downloaded, probed and cut into frames, one call of a vision
model gives a context, a second one the captions, and these are checked
against the context. Whatever fails leaves canned captions.

| component | state | operations | talks to |
|---|---|---|---|
| `entrypoint.py` | results so far, captions of the task | `main`, `self_gap_check` | every stage |
| fetcher, probe, frames (`video_fetcher.py`, `video_probe.py`, `frame_extractor.py`, `evidence_packet.py`) | a temporary file per attempt | download with retries, `ffprobe`, `ffmpeg` | the network, the temporary directory |
| context, captions (`context_extractor.py`, `caption_writer.py`, `vision_client.py`) | attempt | a call with retries, normalisation of the reply | the provider |
| checks and results (`caption_gap_checker.py`, `output_validator.py`) | `results.json` and its temporary file | check, repair, publish | the volume |

Hard behaviours: every stage may fail, some by raising outside the `try`; what
a model replies has any shape; a container may be killed. Correctness:
whatever happens, the published file has one complete entry per task, in
order; a generated caption has passed the checks against the video it is
published for; the batch ends.

### The rest

Benchmarks, scripts and demos drive the programs above and carry no logic of
their own; the capability registry of Track 1 is not used by it.

## 2. What is modelled

| module | code | role |
|---|---|---|
| `ModelReplies` | `executor.py` | replies of the provider and the two ways of classifying them |
| `ModelCall` | abstract | what a caller of `infer` may rely on |
| `FireworksTransport` | `FireworksClient.infer` | one call, implements `ModelCall` |
| `Track1Executor` | `process_input` to `call_verifier_once` | one run of a batch |
| `PublishedFile` | abstract | an atomically published file |
| `ResultsWriter` | `atomic_write` | the results file, implements `PublishedFile` |
| `LockRegister` | abstract | a register that is written once |
| `FinalResultLock` | `run_final_result`, `locking.py` | the lock, implements `LockRegister` |
| `GapEvaluation` | `gap_evaluation/runner.py`, `patch_policy.py` | gaps, readiness and repairs of a plan, as operators |
| `SandboxFiles` | `simulation_environment/` | what corrections do to files, and the verification, as operators |
| `PhaseOrder` | abstract, after `phase_order.py` | the order in which a run publishes its artifacts |
| `Pipeline` | `cli.py`, `run_gap_evaluation`, `run_simulation_environment` | pipeline runs in one output directory, implements `PhaseOrder` |
| `CleanupRules` | `cleanup/classifier.py`, `policy.py`, `validators.py` | what cleanup decides on an entry, as operators |
| `ArtifactCleanup` | `cleanup/artifact_cleanup.py`, `cleanup/runner.py` | the two cleanup commands on a tree that others change |
| `CaptionRules` | contexts, captions, `caption_gap_checker.py`, `output_validator.py` | what Track 2 makes of replies and how it checks and repairs results, as operators |
| `CaptionBatch` | `amd_track2/entrypoint.py` and its stages | one run of Track 2 |
| `EvidenceRules` | `snapshot/`, `scan/`, `analysis_classification/`, `statement_output/`, `hashes.py` | from the files of the target to statements, as operators |
| `SimulationRules` | `simulation_environment/`, `transitions.py` | admission, boundary, protection, verdict and route of a simulation, as operators |
| `InspectionRules` | `inspection/`, `final_result/validator.py` | admission, the twenty checks and the decision, as operators |
| `ArithmeticRules` | `tools/arithmetic_evaluator.py`, `arithmetic_detection.py` | tokenizer, shunting yard and answers, over short alphabets |
| `AnswerRules` | `category_validator.py` and its tools | the checks of an answer |
| `TaskRules` | `input_validation.py`, `classifier.py`, `prompt_builder.py` | which tasks, which category, which template |
| `PipelineLaws`, `TaskLaws` | | what these rules come to, as `ASSUME`s over bounded inputs |

**FireworksTransport.** The loop of `infer` is four actions: the loop ends
(`GiveUp`), a post starts (`SendPost`), it comes back (`PostReturns`, one
disjunct per way the code reacts), and the client sleeps (`Backoff`). Time is
a counter. `requests` applies its timeout to each wait on the socket, so a
post may outlast the budget; `MaxPost` says by how much and is an assumption
on the network. Text is reduced to the words the code looks for (`Texts`).

**Track1Executor.** One action per step at which threads interleave: a task is
dequeued, an attempt starts, a call returns (one disjunct per outcome), the
verifier returns, the batch is collected. What lies between a reply and the
next call is one step: it touches shared state only in
`record_category_result`, whose reads and writes have no call between them. A
model call is reduced to what `ModelCall` promises: one reply, within its
budget and one request (`Tick`). Both levels of retry are thus modelled once
each and joined by the abstract specification. The evaluator's answer may be
one that the validator of its category would refuse (it is never asked), and
the validator may raise over a model's answer (`CallUnjudged`), which ends the
task and the batch with a reply that nothing has recorded.

**ResultsWriter.** `parts` counts the flushes of a write buffer, so a kill may
leave any prefix; `Restart` is a kill (or the end of a run) followed by a run
on the same volume; any step that touches the disk may raise.

**FinalResultLock.** Files are inodes, because a rename moves an open file.
`Overlap` tells whether calls of different processes may overlap, `ReadErrors`
whether a present lock file may fail to be read (which the code takes for no
lock).

**Pipeline.** A phase computes its artifact (stage `work`; a draft results),
then writes it (`publish`). Seven of the nine phases, and the two handoffs, do
not influence the course of a run otherwise than by raising, and share the
action `Prepare`. Gap evaluation has its two attempts; the simulation has the
stages of its sandbox: files are copied one by one (`CopyFile`), each hashed
in a step of its own after its copy (`RecordHash`), then corrected (`Mutate`),
the demo runs (`Execute`: the target's own code, which may create or remove
any file of its sandbox), the result is verified (`Verify`) and the sandbox
removed (`CleanSandbox`). `Break` is an `OSError` in a phase, `Kill` the end
of the process; what a write may leave is `Interrupted`: the old artifact, the
new one (most phases write it themselves before `run_pipeline` writes it
again), or a truncated one. `run` numbers the runs: artifacts record which run
wrote them and from which run's artifact they were computed, so that a run
that reads a leftover can be told from one that does not. `EditTarget` is the
target changing under the run, by its owner or by the demo. `GapEvaluation`
and `SandboxFiles` have no state; `Pipeline` composes them, with the code's
order of calls. A package is a record of what these rules read of the
operator's JSON: which fields the plan sets, whether there is evidence,
whether it is blank, and the files it names.

`PhaseOrder` is what all this amounts to for somebody who watches the output
directory: the complete artifacts of the current run appear one at a time, in
the order of `Phase_order`, with a handoff in the place of the phase it stops
short of; none disappears while the run lasts; the run says 0 with the report
of cleanup or a handoff and with nothing else. The mapping
(`ImplementsPhaseOrder`) takes for written the artifacts that are complete and
of the current run, and forgets what computes them.

**ArtifactCleanup.** The tree is a function from entries to contents, `Above`
gives the directories around an entry. `run_cleanup` lists the tree,
classifies each entry and notes its fingerprint (`Classify`, one step per
entry), then for each entry to delete compares the fingerprint (`Recheck`) and
removes it in a step of its own (`Remove`: a directory goes with what is below
it, and may go half-way). `run_cleanup_retention`, the last phase of a
pipeline run, lists what looks transient and removes it (`Retain`). `Write`
and `Delete` are other processes. Names are sets given as constants: which
entries are run artifacts, temporary, preserved or transient. The first block
of a file is what its fingerprint sees.

**CaptionBatch.** One action per stage of a task; a stage that raises leaves
the captions the task has at that moment (`Degrade`). A context is reduced to
which captions it allows or denies, a caption to whether it is canned, plain
or the model's, and in which words. `BeginTask` is outside the `try`, so that
an entry that is no object ends the process. Ids are compared as the code does
it, by what is printed in some places and as they are in others.

**The rules of the phases and of Track 1.** Pure code, as operators on records
of what the code reads. They have no state; their laws are evaluated by TLC at
the start of the runs `pipeline` and `batch`, whose modules extend
`PipelineLaws` and `TaskLaws`. `ArithmeticRules` was also compared with the
Python code on some fifty thousand texts.

## 3. Runs

| run | result | what it shows |
|---|---|---|
| `transport` | holds | retries only transient failures, at most `MaxRetries` posts, reports the last reply, never gives up early, always ends, implements `ModelCall` (and so ends within its budget and one request) |
| `batch` | holds | all or nothing; a model's task succeeds only with an answer the validator accepted or the verifier gave; escalation to another model; one verifier call, the last, and none after a valid answer in a low-risk category; exact attempt counts and statistics; bounded overrun; termination |
| `results_writer` | holds | a reader finds nothing or a whole file; success means published; implements `PublishedFile` |
| `final_lock` | holds | with calls one after the other, the lock implements `LockRegister` in spite of crashes and failed writes |
| `pipeline` | holds | a phase starts after all phases before it in its own run and on their artifacts; exit code 0 comes with the report or the right handoff; nothing is executed that the operator left undecided; the sandbox is removed; a file in it that is not required was left by an earlier simulation; inspection raises for changed files and nothing else; every run ends; implements `PhaseOrder` |
| `cleanup` | holds | whatever other processes change meanwhile: a run in progress keeps its artifacts; every removal is listed; a file changed after it was classified is not unlinked |
| `captions` | holds | the published file of Track 2 has a complete entry for each task, in order; its captions are canned or have passed the checks together, against the video of the task or of one whose id is printed alike; the batch ends |
| `verifier_answer` | violated | see finding 1 |
| `verifier_not_asked` | violated | see finding 2 |
| `lock_race` | violated | see finding 3 |
| `preserved` | violated | see finding 6 |
| `printed_ids` | violated | see finding 7 |

Bounds. `transport`: three attempts are the smallest number with a first, a
middle and a last one; a budget of 6 with posts of up to 3 ticks and delays of
1 to 3 puts the deadline into a post, into a sleep and after the last attempt.
`batch`: two tasks on two threads are enough for two threads to update one
statistic; two models for one escalation; the prompts cover each route, each
risk and the evaluator that declines; `SOLVER_MODEL` unset or not an allowed
model; a budget of 2 lets a deadline fall before, in and after a call. A third
model makes `MAX_ATTEMPTS_WITH_JUSTIFICATION` reachable in `should_escalate`
but not in `execute_task`, whose loop has two iterations; the theorems cover
it. `results_writer`: three runs allow a kill, a run that finds its remains,
and one after that; two flushes give a proper prefix. `final_lock`: two
processes, two contents, four calls and two crashes; three inodes suffice for
a lock, a temporary file and one still open. `pipeline`: two runs are a run
that leaves something and one that finds it; the fourteen packages take every
branch of gap evaluation and of the simulation (`MCPipeline`); three files are
the entrypoint, another one, and one in a directory of its own, of which a
package requires, corrects or forgets some; one change of the target is enough
for each place at which it may fall in a copy. The properties compare a run
with what earlier ones left, never more than two of them, and the theorems
hold for any number. `cleanup`: one command, because a command keeps nothing
from the one before it but the tree, and the trees to start from have what an
earlier one may leave; one change by another process, at any step, is enough
for each place at which it may fall between a classification, a comparison and
a removal; the tree has a finished run with temporary entries and something
preserved inside, a run in progress, and the pointer to the latest run.
`captions`: two attempts are a first and a last one; up to three tasks, of
which one has a number, another's, or nothing for its id, no styles, no URL,
or is no object, and two tasks whose ids are "7" and 7; two styles, one of them with a rule of its own; three
contexts, of which one denies a caption and one is empty.

Fairness. A client is weakly fair: its thread runs, and a request ends because
it has a timeout. In `Track1Executor` each task is weakly fair (threads of the
pool are scheduled and calls return, which `transport` shows as
`CallReturns`), as are the main thread's steps; `Tick` has none. In
`FinalResultLock` a call that is not killed goes on. In `Pipeline` the steps
of `run_pipeline` are weakly fair: it is one thread that waits for nothing but
the demo and the verification commands, which have timeouts of 60 and 30
seconds (`execution.py:157`, `:472`). In `CaptionBatch` the steps of `main`
are weakly fair: it is one thread whose waits have timeouts. `Begin`, `Break`,
`Kill`, `EditTarget`, `Crash`, `Restart` and the `Start` of `Pipeline` have no
fairness anywhere, and `ArtifactCleanup`, of which only safety is stated, has none.

`CHECK_DEADLOCK FALSE` is set because calls and runs end.

### Laws

A law is a statement about a pure rule that TLC evaluates for all inputs of a
bounded set. Those that say what the code does where a reader would expect
something else are worth a look:

- Inspection (`InspectionLaws`): admission settles seven of the twenty checks
  before they run; the command line of the phase always reports a failure;
  inspection of a pipeline run raises, or passes, or has no reference or no
  boundary root left.
- Evidence (`EvidenceLaws`): every file the walk keeps ends as an item.
  `compute_sha256` swallows read errors, so that an unreadable file has an
  empty hash and is seen by the analysis only; the identifier of an analysis
  does not change with the contents; a request with "report" or "support" in
  it counts as a migration, for the "port".
- Simulation (`SimulationLaws`): the output of gap evaluation has neither the
  fingerprint of the plan nor the required files, so that plans are not
  compared (`validator.py:74`) and no file of the target is protected
  (`runner.py:144`); the verdict replaces the results of the checks by one
  existing correction; fingerprints contain times. The routes are those of
  `transitions.py`.
- Arithmetic (`ArithmeticLaws`): every sentence of up to four operands is read
  as it was written, but powers associate to the left; `%` is a remainder only
  after a space; `min` and `max` take two arguments; with a word in the
  question the longest fragment without words is answered ("7 and 7 - 3" as
  "7 - 3", "20% of 50 + 7" as 20% of 50).
- Answers (`AnswerLaws`): only the first operation of a calculation is
  recomputed, so that 14 is refused for "2 + 3 * 4" and 5 accepted; a
  sentiment label with its justification is refused; a verbatim copy of the
  text is no copy; the entity checks after the tool's never fail; a class in
  another language is a syntax error; a short question is its own only option.
- Tasks (`TaskRuleLaws`): an item is dropped without a trace exactly when an
  earlier one has its id; the rule for a chain of premises is unreachable; the
  order in which the directory lists the skills decides ties; the templates
  that ship state no limit and no signature.

Where such a law disagrees with a comment it is not listed as a finding: a
finding needs a run with a counterexample, and these are values of functions.

Of the state machines, what is modelled but not stated as a property, because
no document promises the contrary: with nothing in the index of runs cleanup
keeps none of the latest runs; a dry run reports the entries it would delete
as deleted; Track 2 exits with 0 when its results could not be written, never
removes a downloaded video nor, when `unlink` fails, what there is of one
(`video_fetcher.py:137`), and loses the batch for one malformed entry. A task
with a numeric id and no styles is published with captions `{}`, although the
four defaults were generated for it, where the example in
`Source_Of_Truth.md:87-93` shows four: the printed id finds the result but not
the styles. The contract of the run `captions` asks for the styles that the
entry names and so does not see it.

### Findings

1. `local_validate` (`verifier.py:217`) calls the validator without its
   `prompt` argument and takes the `TypeError` for "valid". The verifier's
   answer replaces a valid solver answer unseen; `VERIFICATION_POLICY.md:18`
   (D5) says the solver's answer is returned. Run `verifier_answer`, which
   leaves aside the evaluator's answers, which `execute_task` returns without
   asking a validator (`executor.py:357-375`).
2. `_build_verifier_prompt` (`verifier.py:42`) takes validation errors for
   dictionaries; they are strings. The `AttributeError` is swallowed, so that
   an invalid answer never reaches the verifier and rows I1 to I4 of the
   policy never apply, against `VERIFICATION_POLICY.md:96-98`, "Verifier MUST
   be called when: [...] 2. Local validation fails for the solver answer", and
   the comment at `executor.py:547`. Run `verifier_not_asked`. The properties of
   the run `batch` allow for what the policy asks: a success by the verifier
   after an invalid answer, in any category.
3. `acquire_lock` (`locking.py:153`) checks, then writes. Two overlapping
   calls with different contents are both told `locked`, against
   `runner.py:35`, "reject modification after locking". Run `lock_race`.
4. `create_isolated_environment` (`isolation.py:110`) copies into the
   directory as it finds it. What a killed run left is in the sandbox of the
   next one, whose verification then fails on an "Unexpected file"; the
   docstring (`isolation.py:83`) says the sandbox "contains only required
   simulation files". Run `pipeline` shows that it does so unless an earlier
   simulation left its own (`OnlyLeftoversSpoil`).
5. `run_pipeline` passes the simulation's `changed_files`, a list of records,
   to inspection, whose checks (`checks.py:297`) make a path of each. A
   package that corrects a file completes its simulation and then ends with
   exit code 1 and no inspection artifact, against "Route only to
   final_result, whether success or failure" (`inspection/runner.py:57`). Run
   `pipeline` shows that this is so for every simulation that changed a file,
   and for no other (`InspectionStopsAtChanges`).
6. `run_cleanup_retention` removes a transient directory with everything in it
   (`cleanup/runner.py:144`), preserved artifacts included, against
   "Artifacts that must NEVER be deleted" (`validators.py:8`) and "Preserve
   ALL proof artifacts" (`runner.py:35`, with the list at `:40-43`). Run
   `preserved`.
7. `main` prints ids (`entrypoint.py:96`), and `_repair`
   (`output_validator.py:183`) looks results up by them. Of two tasks with the
   ids "7" and 7 the first is published with the captions of the second's
   video and the second with plain ones, and validation passes; the docstring
   speaks of filling *missing* results. Run `printed_ids`.
8. `process_input` (`executor.py:685`) asks whether an expression can be
   *extracted*, where the comment above it speaks of tasks *provably solvable*
   by the evaluator. "Calculate 10 / 0" runs without models and fails. No run
   of its own: the theorems `UnassistedTasksAreArithmetic` and
   `ComputedExpressionsNeedNoModel` say exactly when it happens.

## 4. Proofs

| module | theorems |
|---|---|
| `FireworksTransport_proofs` | `TypeCorrect`, `OverrunTheorem`, `PostsTheorem`, `RetryTheorem`, `ReportTheorem`, `ExhaustionTheorem`, `CallIsFinite`, `RefinesModelCall` |
| `Track1Executor_proofs` | `TypeCorrect`, `OverrunTheorem`, `AllOrNothingTheorem`, `AcceptedAnswerTheorem`, `EscalationTheorem`, `VerifierTheorem`, `AttemptsTheorem`, `RegistryTheorem`, `BatchIsFinite`, `PoolNeverIdles`, `InvalidAnswersAreUnchecked`, `InvalidNeverVerified`, `ValidWithoutVerifier`, `UnassistedTasksAreArithmetic`, `ComputedExpressionsNeedNoModel` |
| `ResultsWriter_proofs` | `TypeCorrect`, `ReadersTheorem`, `SuccessTheorem`, `RefinesPublishedFile` |
| `FinalResultLock_proofs`, calls one after the other | `AgreeTheorem`, `StaysLockedTheorem`, `ArtifactTheorem`, `RejectionTheorem`, `RefinesRegister` |
| `FinalResultLock_proofs`, overlapping calls | `TypeCorrect`, `SettledLockHolds`, `CallIsFinite` |
| `Pipeline_proofs` | `TypeCorrect`, `RunReadsItselfCorrect`, `ExitZeroIsExplainedCorrect`, `RefinesPhaseOrder`, `OperatorGateCorrect`, `OneRepairDecides`, `GateIsExact`, `SandboxRemovedCorrect`, `RunIsFinite`, `ChangesStopThere`, `UncorrectedRunsAreRouted`, `LeftoversTheorem` |
| `ArtifactCleanup_proofs` | `TypeCorrect`, `OnlyChosenRemoved`, `PreservedTheorem`, `UnfinishedRunsSurvive`, `NothingVanishesSilently`, `ChangesAreSeen`, `CommandIsFinite` |
| `CaptionBatch_proofs` | `TypeCorrect`, `ContractKept`, `NothingUnchecked`, `PrintedIdsTheorem`, `ContextIsWellFormed`, `FramesInVideo`, `RunIsFinite` |
| `PhaseRules_proofs`, inspection | `AdmissionSettlesAll`, `PassedIsVerified`, `PipelineInspection`, `FinalResultAccepts` |
| `PhaseRules_proofs`, evidence | `NothingIsLost`, `DoubtsOnly`, `ContentKeepsId`, `ChoiceForReviews`, `ReportsMigrate` |
| `PhaseRules_proofs`, simulation | `PlanIsNotCompared`, `TargetIsNotProtected`, `DefaultsForbid`, `FinalVerdict`, `ClockInFingerprint`, `SimulationRoutes` |
| `PhaseRules_proofs`, Track 1 | `PremiseChainUnreachable`, `TasksAreDistinct`, `NoJustifiedLabel`, `VerbatimIsNoCopy`, `TemplatesAreBare`, `ConfidenceIsFraction`, `OrderDecidesTies`, `RepeatedChecksAreIdle`, `PrecedenceIsIgnored` |

`PROJECT.json` lists those of them that say most.

The assumptions are the `ASSUME`s of the modelled modules: types of the
constants, at least one allowed model and no duplicates among them (the
registry is a dictionary), a request that takes at most `MaxPost`, finitely
many files in the target and entries in the tree of cleanup. The theorems
about calls of the lock that follow each other also assume `Orderly`: calls do
not overlap (`lock_race` shows that without it they are false) and the lock
file can be read.

*Transport.* The properties are not inductive: that no post is made too often
needs the number of posts at each position of the loop (`Position`), the
overrun needs that a post starts within the budget (`Budget`), and that the
last reply is reported needs that `last_error` is the failure of the latest
post (`LastError`). `SleepFits` carries the clamp of `time.sleep`. That the
client gives up only when exhausted rests on the head of the loop: attempts are
never used up there, so it was the budget that ended the loop. `CallIsFinite`
counts three steps for each attempt that is left.

*Track 1.* `TriesInv` says, for each place a task can be in, how its log, its
loop index and the retry manager's count are related, and `EndInv` what is
left of that when it has ended. `ClockInv` relates the clock to every call in
flight: solver calls end within the budget of the batch plus one request, a
verifier call starts before that and takes a full limit. `TaskFrame` shows
that a task's step leaves all other tasks alone, so that each invariant is
proved for the task that moves. That a second attempt goes elsewhere rests on
`OtherModelDiffers`. `RegistryTheorem` needs no sum over tasks: the replies a
model has had form a finite set (`Experienced`), and each reply adds one element
to it (`ReplyCounts`) in the step that records it (`RecordMatches`).
`PoolNeverIdles` is what `RunEnds` needs besides fairness: the tasks that wait
are a set of numbers, of which one is the least (`Least`), and it can be
dequeued whenever no thread works. `BatchIsFinite` counts the steps ahead of
all tasks as a set of pairs (`StepsAhead`), which a step of one task makes
smaller, and adds the moments left to the clock before its horizon.

*Results writer.* A temporary file is always of the present run from the
moment it is opened, so only a complete file of this run is renamed.

*Lock.* `CallInv` says what a call has established at each step and `LockInv`
that the file at the lock path is complete and nobody holds it open. They are
inductive because of `Solo`, one call at a time, which is exactly what the
code does not enforce. What is left without it: `SettledLockHolds` says that
the race is over once a content is locked and no call is between its check and
its replacement, so that a deployment which lets its first calls end before it
starts others is safe whatever overlaps afterwards; it needs that every call
in flight has a content (`Called`). The theorem is a property of steps and not
an invariant, because a locked content is not settled while a call that
checked earlier may still replace it. `CallIsFinite` counts down the steps of
a call; that it is never blocked is left to `CallsEnd`.

*Pipeline.* The assumptions are the shape of packages and files. `Progress`
says that the artifacts of the present run are exactly those of the phases
behind it (`Past`) and complete, `DraftOfThisRun` that what is about to be
written is computed from them, `OnRoute` that a handoff is where its verdict
led: `RunReadsItself` alone is not inductive because a draft outlives the
artifact it was computed from, and `ExitZeroIsExplained` needs the absence of
later artifacts as much as the presence of earlier ones. `Gate` carries the
operator's decisions from the package through the repaired plan: it rests on
`PatchedAdds`, that a repair sets name and version only, and `ReadyPlan`, that
a plan without gaps sets everything. `GateIsExact` is the converse as well, so
that the gate is neither open nor stuck: `Judged` follows the plan through
both attempts, and `OneRepairDecides` computes the gaps of a repaired plan for
every plan. The score of readiness turns out to decide nothing
(`ThresholdNeverDecides`): a plan has to be free of gaps in any case, and is
then above the threshold. `Sandboxed` extends the property to the
stages before the copy. The proofs avoid intersections of two enumerated sets,
which the translation to SMT of this version of tlapm does not treat soundly,
and each was seen to fail on the mutants of its property.
`RefinesPhaseOrder` maps each step of `Next` to one of `PhaseOrder` or to a
stutter: most change neither the artifacts nor whether a run is under way;
`Publish` appends the artifact whose turn it is, because `Progress` says that
the ones before it are there; `Break` and `Kill` end the run with at most one
more, since an interrupted write may be complete; and `Start` empties the view,
because the artifacts of earlier runs carry another number. `RunIsFinite`
weighs a run by the phases ahead of it and the files still to copy and to
hash, counted with the cardinality of a set.

*Cleanup.* That only condemned entries go needs that what is left to do is
always in the plan (`WorkInv`) and that nothing is removed while the plan is
made (`NothingYet`). `PlanInv` carries, from the classification to the
removal, that a run without a finished report is not condemned by its own
name; `ListedInv` and `StatusInv` tie the manifest and the verdict to what was
removed, `ComparedInv` the entry under removal to its fingerprint. A command
handles each entry at most three times (`CommandIsFinite`); what other
processes do in between costs it nothing.

*Track 2.* `TaskInv` gives for each stage what the captions of the task may
be: the canned ones until the model has replied, judged ones before they are
appended. `ResultsInv` says the same of the results so far, and `PublishInv`
that what has passed validation is `Deliverable`: the contract is not
inductive without the temporary file and the results that validation has
repaired. Each result is `Attributed` to a task whose context it was checked
against (`CheckedFor`), its own until the repair: `_repair` keeps the last
result of an id, found as a least counterexample (`LastOf`), which need not be
that of the task it is given to. There is no assumption on the ids. `RunIsFinite` bounds a task by `PerTask`, two steps for each
attempt of the fetcher and of the client and four more; `AttemptInv` keeps the
attempts within their limits at the stages that make them.

*Phase rules.* These are not about behaviours: they state the laws of section
3 for every input of the rules' types, with no assumption but the form of the
records. The weight of a category in the classifier is a recursive function
over its triggers. What is proved of it goes by the least counterexample
(`Least`), which needs no induction rule: that the function exists at all
(`TotalsExist`), that it is bounded by its sum (`TotalsBound`), and hence
`ConfidenceIsFraction` and `OrderDecidesTies` for any number of skills.
`ArithmeticRules` has no theorem: what its recursive functions compute for
every text needs an induction that the prover cannot instantiate.

*Termination.* Five of the theorems (`CallIsFinite` of the client,
`BatchIsFinite`, the two `RunIsFinite`, `CommandIsFinite`) give a number that
is bounded and that every step of the component lowers, and `CallIsFinite` of
the lock does so for one call. They hold without fairness and say that no
retry, repair or interference keeps a component going. They do not say that it
is never stuck: that a step is possible needs `ENABLED`, and that a possible
step is taken needs fairness.

*Extent of the findings.* A counterexample shows that a promise fails, a
theorem how far. (1) An answer that the validator would refuse is one it never
saw: the evaluator's, without any call, or the verifier's, in a high-risk
category, as the last reply of its task (`InvalidAnswersAreUnchecked`);
without a verifier or without such categories every answer of a model is valid
(`ValidWithoutVerifier`). (2) The verifier sees valid answers in high-risk
categories and nothing else (`InvalidNeverVerified`). (3) See
`SettledLockHolds`. (4) A sandbox with a foreign file follows a simulation
that died, or whose copies or removal failed (`LeftoversTheorem`). (5) Changed
files are the only reason for which inspection raises, and always one
(`ChangesStopThere`); packages without corrections are routed as documented
(`UncorrectedRunsAreRouted`), because the simulation changes nothing else. (6)
Nothing preserved is removed by its own name, only with a transient directory
above it (`PreservedTheorem`). (7) Unless its id is printed like another
task's, a task is published with fallbacks or with what was checked against
its own video (`PrintedIdsTheorem`). (8) Without models a task succeeds
exactly when `execute_task` computes it, and a batch goes on without models
only if every prompt has an expression (`UnassistedTasksAreArithmetic`): where
expressions are always computed the promise holds
(`ComputedExpressionsNeedNoModel`).

Only model-checked: liveness (`CallReturns`, `RunEnds`, `CallsEnd`,
`EveryRunEnds`, `BatchEnds`) and the fairness part of `ImplementsModelCall`,
out of the prover's reach, and what the recursive operators of
`ArithmeticRules` compute.

## 5. Not modelled, and why

Track 1: the wording of prompts, token averages (they break ties in routing;
the model takes any of the tied models), probes, local models (dead in
production, `executor.py:248`), a second `process_input` in one interpreter;
`difficulty_gate.py`, which a benchmark alone uses; `json_validator` and
`solve_for_variable`; the capability registry, which the executor does not
use. Floating-point arithmetic: `ArithmeticRules` yields the postfix form of
an expression, not its value. Lock: the command line entry point. Pipeline:
one run at a time in an output directory, which lies outside the target and
whose path contains none of cleanup's transient patterns: `is_transient_path`
(`cleanup/validators.py:96`) looks at the whole path, so that cleanup would
remove the run's own artifacts. Patches of metadata and more than one kind of
default entrypoint. A lock conflict in final_result cannot arise in it: the
lock's id is derived from the inspection's fingerprint, which covers the
content. What the phases compute is in the rule modules and not in `Pipeline`,
whose course it does not change. A target that changes while the snapshot
walks it is modelled in the simulation's copy only. Cleanup: two commands at
once, a kill in the middle of a command (the next one starts from a tree like
any other), the wording of evidence. Track 2: `router.py`,
`difficulty_gate.py`, `classifier.py`, `category_validator.py` and
`caption_styles.py`, near copies of Track 1 that `main` does not use; an
explicit empty list of styles; the pixels.
Benchmarks, scripts and demos have no state of their own.

## 6. Plan

Done: Track 1 from its client to its results file, the lock, the pipeline with
gap evaluation and simulation, cleanup, Track 2, and the rules of the phases
and of Track 1. What is left, in order of importance:

1. Joining `ArtifactCleanup` to `Pipeline`: a cleanup that runs while a run
   writes, with the real names of artifacts instead of arbitrary writers.
2. `CaptionBatch` as an implementation of `PublishedFile`, as `ResultsWriter`
   is.
3. A snapshot of a target that changes during the walk.
4. The capability registry and the difficulty gate, should the executor come
   to use them.
