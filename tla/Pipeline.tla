------------------------------- MODULE Pipeline -------------------------------
(***************************************************************************)
(* run_pipeline (src/backend/cli.py) in one output directory: nine phases, *)
(* each working from the artifact of the one before, two early endings     *)
(* that hand over to the operator, and the simulation's sandbox.  A run may*)
(* be killed, a write may fail, and the directory is used again by later   *)
(* runs; nothing in it is removed first.  The target's files may change at *)
(* any time: its owner edits them, and so may the target code that the     *)
(* simulation executes.                                                    *)
(*                                                                         *)
(* A phase is at "work" until it has computed its artifact (draft), then at*)
(* "publish" until the artifact is written.  Gap evaluation has a second   *)
(* attempt in between, the simulation the stages of its sandbox.           *)
(***************************************************************************)
EXTENDS SandboxFiles

CONSTANTS
    Packages,    \* packages the operator may give, see GapEvaluation
    MaxRuns,     \* bound: runs started in the output directory
    MaxEdits     \* bound: changes to the target

ASSUME BoundAssumption == MaxRuns \in Nat /\ MaxEdits \in Nat
ASSUME PackageAssumption ==
    \A p \in Packages :
        /\ p.fields \subseteq PlanFields
        /\ p.evidence \in {"none", "refs", "blank", "empty"}
        /\ p.mismatch \in BOOLEAN
        /\ p.required \subseteq Files
        /\ DOMAIN p.corrections \subseteq Files
        /\ p.patches \in Seq([file : Files, type : {"replace", "delete"}])
        /\ p.entry \in Files \cup {NoFile}
        /\ p.max_files \in Nat

Handoffs  == {"gap_handoff", "simulation_handoff"}
Phases    == {"snapshot", "scan", "analysis_classification", "statement_output",
              "gap_evaluation", "simulation_environment", "inspection",
              "final_result", "cleanup"}
Stages    == {"work", "second", "copy", "execute", "verify", "clean", "publish"}

\* The artifact a phase reads.
Source ==
    [scan |-> "snapshot", analysis_classification |-> "scan",
     statement_output |-> "analysis_classification",
     gap_evaluation |-> "statement_output",
     simulation_environment |-> "gap_evaluation",
     inspection |-> "simulation_environment", final_result |-> "inspection"]

\* Mutant: run_pipeline goes on after the handoff of gap evaluation.
FollowerWithoutStop(phase, verdict) ==
    CASE phase = "snapshot" -> "scan"
      [] phase = "scan" -> "analysis_classification"
      [] phase = "analysis_classification" -> "statement_output"
      [] phase = "statement_output" -> "gap_evaluation"
      [] phase = "gap_evaluation" ->
            IF verdict = "ready" THEN "simulation_environment" ELSE "gap_handoff"
      [] phase = "gap_handoff" -> "simulation_environment"
      [] phase = "simulation_environment" ->
            IF verdict = "completed" THEN "inspection" ELSE "simulation_handoff"
      [] phase = "inspection" -> "final_result"
      [] phase = "final_result" -> "cleanup"
      [] OTHER -> "idle"

\* Mutant: a simulation that failed is inspected too.
FollowerAlwaysInspects(phase, verdict) ==
    IF phase = "simulation_environment" THEN "inspection"
    ELSE FollowerWithoutStop(phase, verdict)

\* Phase_order, and where run_pipeline stops.
Follower(phase, verdict) ==
    CASE phase = "snapshot" -> "scan"
      [] phase = "scan" -> "analysis_classification"
      [] phase = "analysis_classification" -> "statement_output"
      [] phase = "statement_output" -> "gap_evaluation"
      [] phase = "gap_evaluation" ->
            IF verdict = "ready" THEN "simulation_environment" ELSE "gap_handoff"
      [] phase = "simulation_environment" ->
            IF verdict = "completed" THEN "inspection" ELSE "simulation_handoff"
      [] phase = "inspection" -> "final_result"
      [] phase = "final_result" -> "cleanup"
      [] OTHER -> "idle"

VARIABLES
    target,      \* content of the target's files
    artifact,    \* the artifacts in the output directory
    sandbox,     \* output_root/06_simulation_environment
    run,         \* runs started so far; the number of the current one
    phase,       \* phase under way, or "idle"
    stage,       \* how far it is
    package,     \* the run's package
    plan,        \* plan fields, repaired or not
    demo,        \* files the simulation requires
    copying,     \* the file being copied into the sandbox
    hashes,      \* hash recorded for each copied file, after copying it
    changed,     \* files the corrections changed
    executed,    \* how the demo ended
    draft,       \* the artifact about to be written
    exit,        \* how the last run ended
    last,        \* and in which phase
    abandoned,   \* history: the sandbox could not be, or was not, removed
    edits

local == <<package, plan, demo, copying, hashes, changed, executed, draft>>
ended == <<exit, last>>
vars  == <<target, artifact, sandbox, run, phase, stage, local, ended, abandoned, edits>>

Record(verdict, files) ==
    [run |-> run, whole |-> TRUE, verdict |-> verdict, changed |-> files,
     source |-> IF phase \in DOMAIN Source THEN artifact[Source[phase]].run ELSE run]

NoArtifact ==
    [run |-> 0, whole |-> FALSE, verdict |-> "none", changed |-> {}, source |-> 0]

NoPackage ==
    [fields |-> {}, evidence |-> "none", mismatch |-> FALSE, required |-> {},
     corrections |-> [f \in {} |-> "keep"], patches |-> <<>>, entry |-> NoFile,
     max_files |-> 0]

NoHashes == [f \in Files |-> "absent"]

Init ==
    /\ target = [f \in Files |-> "original"]
    /\ artifact = [a \in Phases \cup Handoffs |-> NoArtifact]
    /\ sandbox = EmptySandbox
    /\ run = 0 /\ phase = "idle" /\ stage = "work"
    /\ package = NoPackage /\ plan = {} /\ demo = {} /\ copying = NoFile
    /\ hashes = NoHashes /\ changed = {} /\ executed = "none" /\ draft = NoArtifact
    /\ exit = "none" /\ last = "idle" /\ abandoned = FALSE /\ edits = 0

At(p, s) == phase = p /\ stage = s

\* The process is gone, and what it had in memory with it.
End(how) ==
    /\ exit' = how /\ last' = phase /\ phase' = "idle" /\ stage' = "work"
    /\ package' = NoPackage /\ plan' = {} /\ demo' = {} /\ copying' = NoFile
    /\ hashes' = NoHashes /\ changed' = {} /\ executed' = "none" /\ draft' = NoArtifact
    /\ UNCHANGED <<target, run, edits>>

\* A step of a phase that touches neither the disk nor the outcome of the run.
Computes == UNCHANGED <<target, artifact, sandbox, run, phase, ended, abandoned, edits>>

Drafts(verdict, files) == draft' = Record(verdict, files) /\ stage' = "publish"
-------------------------------------------------------------------------------
\* _load_agent_package raises before any phase has started.
LoadFails ==
    /\ phase = "idle" /\ run < MaxRuns
    /\ exit' = "rejected" /\ last' = "idle"
    /\ UNCHANGED <<target, artifact, sandbox, run, phase, stage, local, abandoned, edits>>

Start ==
    /\ phase = "idle" /\ run < MaxRuns
    /\ \E p \in Packages : package' = p /\ plan' = p.fields
    /\ run' = run + 1 /\ phase' = "snapshot" /\ stage' = "work"
    /\ exit' = "none" /\ last' = "idle"
    /\ UNCHANGED <<target, artifact, sandbox, demo, copying, hashes, changed,
                   executed, draft, abandoned, edits>>

\* What the phase raises on, given its input; the caller prints it, returns 1.
Raises ==
    \/ phase \in DOMAIN Source /\ ~artifact[Source[phase]].whole
    \/ phase = "analysis_classification" /\ package.evidence = "empty"
    \/ phase = "gap_evaluation" /\ EvaluationRaises(package)
    \/ /\ phase = "inspection"
       /\ artifact["simulation_environment"].verdict # "completed"
          \/ artifact["simulation_environment"].changed # {}
    \/ phase = "final_result" /\ package.evidence = "blank"

Reject ==
    /\ phase # "idle" /\ stage = "work" /\ Raises
    /\ End("rejected")
    /\ UNCHANGED <<artifact, sandbox, abandoned>>

\* A phase whose result does not affect the course of the run.
Prepare ==
    /\ phase \in (Phases \cup Handoffs) \ {"gap_evaluation", "simulation_environment"}
    /\ stage = "work" /\ ~Raises
    /\ Drafts("done", {})
    /\ UNCHANGED <<package, plan, demo, copying, hashes, changed, executed>>
    /\ Computes

\* run_gap_evaluation: judge the plan as given; if it has gaps, repair it.
FirstAttempt ==
    /\ At("gap_evaluation", "work") /\ ~Raises
    /\ LET gaps == Gaps(package, plan)
       IN  IF Ready(gaps)
           THEN Drafts("ready", {}) /\ plan' = plan
           ELSE /\ plan' = Patched(plan, gaps)
                /\ stage' = "second" /\ draft' = draft
    /\ UNCHANGED <<package, demo, copying, hashes, changed, executed>>
    /\ Computes

\* Mutant: repair and judge until the plan is ready.
AttemptUntilReady ==
    /\ At("gap_evaluation", "second")
    /\ LET gaps == Gaps(package, plan)
       IN  IF Ready(gaps)
           THEN Drafts("ready", {}) /\ plan' = plan
           ELSE plan' = Patched(plan, gaps) /\ UNCHANGED <<draft, stage>>
    /\ UNCHANGED <<package, demo, copying, hashes, changed, executed>>
    /\ Computes

\* ... and judge it once more, for good.
SecondAttempt ==
    /\ At("gap_evaluation", "second")
    /\ Drafts(IF Ready(Gaps(package, plan)) THEN "ready" ELSE "handoff", {})
    /\ UNCHANGED <<package, plan, demo, copying, hashes, changed, executed>>
    /\ Computes

\* validate_admission and build_demo, for the plan the package gave.
BuildDemo ==
    /\ At("simulation_environment", "work") /\ ~Raises
    /\ LET files == DemoFiles(package, target)
       IN  IF artifact["gap_evaluation"].verdict = "ready" /\ DemoBuilds(package, files)
           THEN demo' = files /\ stage' = "copy" /\ draft' = draft
           ELSE demo' = demo /\ Drafts("failed", {})
    /\ UNCHANGED <<package, plan, copying, hashes, changed, executed>>
    /\ Computes

\* Mutant: the files to be corrected are copied as well.
CopyFileToCorrect(f) ==
    /\ At("simulation_environment", "copy") /\ copying = NoFile
    /\ f \in demo \cup DOMAIN package.corrections
    /\ hashes[f] = "absent" /\ target[f] # "absent"
    /\ sandbox' = CopiedInto(sandbox, f, target[f])
    /\ copying' = f
    /\ UNCHANGED <<target, artifact, run, phase, stage, package, plan, demo, hashes,
                   changed, executed, draft, ended, abandoned, edits>>

\* create_isolated_environment, one file: the sandbox is not emptied first.
CopyFile(f) ==
    /\ At("simulation_environment", "copy") /\ copying = NoFile
    /\ f \in demo /\ hashes[f] = "absent" /\ target[f] # "absent"
    /\ sandbox' = CopiedInto(sandbox, f, target[f])
    /\ copying' = f
    /\ UNCHANGED <<target, artifact, run, phase, stage, package, plan, demo, hashes,
                   changed, executed, draft, ended, abandoned, edits>>

\* The hash of the source is taken from the target, after the copy.
RecordHash ==
    /\ copying # NoFile /\ target[copying] # "absent"
    /\ hashes' = [hashes EXCEPT ![copying] = target[copying]]
    /\ copying' = NoFile
    /\ UNCHANGED <<package, plan, demo, changed, executed, draft, stage>>
    /\ Computes

\* If it has vanished by then, the OSError ends the run.
HashFails ==
    /\ copying # NoFile /\ target[copying] = "absent"
    /\ End("broken")
    /\ abandoned' = TRUE
    /\ UNCHANGED <<artifact, sandbox>>

\* A file that has vanished before: the simulation fails and leaves its sandbox.
MissingFile(f) ==
    /\ At("simulation_environment", "copy") /\ copying = NoFile
    /\ f \in demo /\ hashes[f] = "absent" /\ target[f] = "absent"
    /\ Drafts("failed", {})
    /\ sandbox' = [sandbox EXCEPT !.dirs = @ \cup ({f} \cap Nested)]
    /\ abandoned' = TRUE
    /\ UNCHANGED <<target, artifact, run, phase, package, plan, demo, copying, hashes,
                   changed, executed, ended, edits>>

AllCopied ==
    /\ At("simulation_environment", "copy") /\ copying = NoFile
    /\ \A f \in demo : hashes[f] # "absent"

\* Mutant: an exception leaves the simulation without its cleanup.
MutateWithoutCleanup ==
    /\ AllCopied
    /\ sandbox' = Mutated(package, sandbox)
    /\ IF WithinLimit(package, sandbox)
       THEN /\ changed' = ChangedFiles(package, sandbox)
            /\ stage' = "execute" /\ draft' = draft
       ELSE Drafts("failed", {}) /\ changed' = changed
    /\ UNCHANGED <<target, artifact, run, phase, package, plan, demo, copying, hashes,
                   executed, ended, abandoned, edits>>

\* apply_package_plan_corrections; beyond the limit it raises, having written.
Mutate ==
    /\ AllCopied
    /\ sandbox' = Mutated(package, sandbox)
    /\ IF WithinLimit(package, sandbox)
       THEN /\ changed' = ChangedFiles(package, sandbox)
            /\ stage' = "execute" /\ draft' = draft
       ELSE /\ draft' = Record("failed", {}) /\ stage' = "clean" /\ changed' = changed
    /\ UNCHANGED <<target, artifact, run, phase, package, plan, demo, copying, hashes,
                   executed, ended, abandoned, edits>>

\* execute_demo: the target's own code runs in the sandbox, for at most 60 s,
\* and may do anything to one of its files.
Execute ==
    /\ At("simulation_environment", "execute")
    /\ IF EntryPoint(package, demo) \in Present(sandbox.files)
       THEN /\ executed' \in {"completed", "failed"}
            /\ \/ sandbox' = sandbox
               \/ \E f \in Files :
                     \/ sandbox' = [sandbox EXCEPT !.files[f] = "absent"]
                     \/ sandbox' = CopiedInto(sandbox, f, "other")
       ELSE executed' = "failed" /\ sandbox' = sandbox
    /\ stage' = "verify"
    /\ UNCHANGED <<target, artifact, run, phase, package, plan, demo, copying, hashes,
                   changed, draft, ended, abandoned, edits>>

\* run_verification_commands, complete_verification, and the route.
Verify ==
    /\ At("simulation_environment", "verify")
    /\ \E commands_pass \in BOOLEAN :
         draft' = Record(
            IF /\ executed = "completed" /\ commands_pass
               /\ Verified(package, demo, hashes, sandbox.files, changed)
            THEN "completed" ELSE "failed", changed)
    /\ stage' = "clean"
    /\ UNCHANGED <<package, plan, demo, copying, hashes, changed, executed>>
    /\ Computes

\* cleanup_isolated_environment: a failing rmtree is ignored.
CleanSandbox ==
    /\ At("simulation_environment", "clean")
    /\ \/ sandbox' = EmptySandbox /\ abandoned' = FALSE
       \/ sandbox' = sandbox /\ abandoned' = TRUE
    /\ stage' = "publish"
    /\ UNCHANGED <<target, artifact, run, phase, local, ended, edits>>

\* The artifact is written; then the next phase, or return 0.
Publish ==
    /\ phase # "idle" /\ stage = "publish"
    /\ artifact' = [artifact EXCEPT ![phase] = draft]
    /\ UNCHANGED <<sandbox, abandoned>>
    /\ LET next == Follower(phase, draft.verdict)
       IN  IF next = "idle" THEN End("ok")
           ELSE /\ phase' = next /\ stage' = "work"
                /\ UNCHANGED <<target, run, local, ended, edits>>

\* What an interrupted write may leave: the phase writes the file, and
\* run_pipeline then opens it again, which truncates it.
Interrupted ==
    artifact' \in {artifact, [artifact EXCEPT ![phase] = draft],
                   [artifact EXCEPT ![phase] = [draft EXCEPT !.whole = FALSE]]}

\* Mutant: a failed write is ignored, as the phases themselves ignore it.
BreakIgnored ==
    /\ phase # "idle" /\ stage = "publish" /\ Interrupted
    /\ phase' = Follower(phase, draft.verdict) /\ stage' = "work"
    /\ UNCHANGED <<target, sandbox, run, local, ended, abandoned, edits>>

\* An OSError that nobody handles: the run prints it and returns 1.
Break ==
    /\ phase # "idle" /\ stage \in {"work", "copy", "publish"}
    /\ IF stage = "publish" THEN Interrupted ELSE artifact' = artifact
    /\ abandoned' = (abandoned \/ stage = "copy")
    /\ End("broken")
    /\ UNCHANGED sandbox

\* The process is killed.
Kill ==
    /\ phase # "idle"
    /\ IF stage \in {"clean", "publish"} THEN Interrupted ELSE artifact' = artifact
    /\ abandoned' = (abandoned \/ phase = "simulation_environment")
    /\ End("killed")
    /\ UNCHANGED sandbox

EditTarget ==
    /\ edits < MaxEdits
    /\ \E f \in Files, c \in {"edited", "absent"} : target' = [target EXCEPT ![f] = c]
    /\ edits' = edits + 1
    /\ UNCHANGED <<artifact, sandbox, run, phase, stage, local, ended, abandoned>>
-------------------------------------------------------------------------------
\* The steps run_pipeline takes by itself.
Step ==
    \/ Reject \/ Prepare \/ FirstAttempt \/ SecondAttempt
    \/ BuildDemo \/ (\E f \in Files : CopyFile(f) \/ MissingFile(f))
    \/ RecordHash \/ HashFails
    \/ Mutate \/ Execute \/ Verify \/ CleanSandbox \/ Publish

Next == LoadFails \/ Start \/ Step \/ Break \/ Kill \/ EditTarget

Spec == Init /\ [][Next]_vars /\ WF_vars(Step)
-------------------------------------------------------------------------------
ArtifactType ==
    [run : 0..MaxRuns, whole : BOOLEAN, changed : SUBSET Files, source : 0..MaxRuns,
     verdict : {"none", "done", "ready", "handoff", "completed", "failed"}]

\* The variables of cli.py and its phases hold values of their types.
TypeOK ==
    /\ target \in [Files -> TargetContents]
    /\ artifact \in [Phases \cup Handoffs -> ArtifactType]
    /\ sandbox \in [files : [Files -> Contents], dirs : SUBSET Nested]
    /\ run \in 0..MaxRuns
    /\ phase \in Phases \cup Handoffs \cup {"idle"} /\ stage \in Stages
    /\ package \in Packages \cup {NoPackage}
    /\ plan \subseteq PlanFields \cup {Fixes}
    /\ demo \subseteq Files /\ copying \in Files \cup {NoFile}
    /\ hashes \in [Files -> TargetContents]
    /\ changed \subseteq Files
    /\ executed \in {"none", "completed", "failed"}
    /\ draft \in ArtifactType
    /\ exit \in {"none", "ok", "rejected", "broken", "killed"}
    /\ last \in Phases \cup Handoffs \cup {"idle"}
    /\ abandoned \in BOOLEAN
    /\ edits \in 0..MaxEdits
-------------------------------------------------------------------------------
\* Phase_order: the artifacts a run has written when it is at a phase.
Past ==
    LET gathered == {"snapshot", "scan", "analysis_classification", "statement_output"}
        judged   == gathered \cup {"gap_evaluation"}
        tried    == judged \cup {"simulation_environment"}
        settled  == tried \cup {"inspection", "final_result"}
    IN  [snapshot |-> {}, scan |-> {"snapshot"},
         analysis_classification |-> {"snapshot", "scan"},
         statement_output |-> {"snapshot", "scan", "analysis_classification"},
         gap_evaluation |-> gathered, gap_handoff |-> judged,
         simulation_environment |-> judged, simulation_handoff |-> tried,
         inspection |-> tried, final_result |-> tried \cup {"inspection"},
         cleanup |-> settled]

\* This run has written the artifact completely.
Written(a) == artifact[a].whole /\ artifact[a].run = run

(***************************************************************************)
(* run_pipeline: a phase starts only when this run has completely written  *)
(* the artifacts of all phases before it, and what an artifact of this run *)
(* was computed from is an artifact of this run, although the directory    *)
(* holds artifacts of earlier runs, some of them truncated.                *)
(***************************************************************************)
RunReadsItself ==
    /\ phase # "idle" => \A a \in Past[phase] : Written(a)
    /\ \A a \in Phases \cup Handoffs : artifact[a].run = run => artifact[a].source = run

(***************************************************************************)
(* An exit code of 0 (run_pipeline) is explained by what the run left: the *)
(* handoff that gap evaluation or the simulation called for, or the report *)
(* of the last phase, and exactly one of the three.                        *)
(***************************************************************************)
ExitZeroIsExplained ==
    exit = "ok" =>
        \/ /\ Written("gap_handoff") /\ artifact["gap_evaluation"].verdict = "handoff"
           /\ Written("gap_evaluation") /\ ~Written("simulation_environment")
        \/ /\ Written("simulation_handoff") /\ ~Written("gap_handoff")
           /\ Written("simulation_environment") /\ ~Written("inspection")
           /\ artifact["simulation_environment"].verdict = "failed"
        \/ /\ \A p \in Phases : Written(p)
           /\ \A h \in Handoffs : ~Written(h)

(***************************************************************************)
(* run_pipeline keeps the order of Phase_order at every step, whatever is  *)
(* left of earlier runs: it implements PhaseOrder.                         *)
(***************************************************************************)
Order == INSTANCE PhaseOrder
    WITH written <- {a \in Phases \cup Handoffs : Written(a)}, running <- phase # "idle"

ImplementsPhaseOrder == Order!Spec

(***************************************************************************)
(* Nothing of the target is copied or executed (run_simulation_environment)*)
(* unless the package itself, not a repair of gap evaluation, names the    *)
(* success criteria, the mutation boundary, the action and some evidence.  *)
(***************************************************************************)
OperatorGate ==
    phase = "simulation_environment" /\ stage \in {"copy", "execute", "verify", "clean"} =>
        OperatorFields \subseteq package.fields /\ package.evidence # "none"

(***************************************************************************)
(* Once the simulation is over, whichever way, its sandbox is gone         *)
(* (cleanup_isolated_environment), unless the process died in the          *)
(* simulation, a file could not be copied, or rmtree failed.               *)
(***************************************************************************)
SandboxRemoved ==
    phase # "simulation_environment" \/ stage = "publish" =>
        sandbox = EmptySandbox \/ abandoned

(***************************************************************************)
(* Every run comes to its end: gap evaluation judges a plan twice at most, *)
(* and each command of the simulation has a timeout (execution.py).        *)
(***************************************************************************)
EveryRunEnds == phase # "idle" ~> phase = "idle"

(***************************************************************************)
(* create_isolated_environment says of the sandbox that it "contains only  *)
(* required simulation files" (isolation.py:83).  It does not empty the    *)
(* directory, so this is so unless a simulation before has left its own    *)
(* sandbox there: by dying in it, by failing to copy a file or to remove   *)
(* the directory.                                                          *)
(***************************************************************************)
SandboxHoldsOnlyRequired == AllCopied => Present(sandbox.files) \subseteq demo

\* A sandbox with other files is one that an earlier simulation left behind.
OnlyLeftoversSpoil == abandoned \/ SandboxHoldsOnlyRequired

(***************************************************************************)
(* Inspection is to lead "only to final_result, whether success or failure"*)
(* (inspection/runner.py:57).  It raises for every simulation that changed *)
(* a file, as changed_files holds records where the checks expect paths,   *)
(* and for no other.                                                       *)
(***************************************************************************)
SimulationChanged == artifact["simulation_environment"].changed # {}

\* A run rejected in its inspection had completed a simulation that changed a file.
RejectedForChanges ==
    exit = "rejected" /\ last = "inspection" =>
        /\ Written("simulation_environment") /\ SimulationChanged
        /\ artifact["simulation_environment"].verdict = "completed"

\* And the inspection of such a simulation never leaves an artifact.
InspectionStopsAtChanges ==
    RejectedForChanges /\ (Written("inspection") => ~SimulationChanged)
=============================================================================
