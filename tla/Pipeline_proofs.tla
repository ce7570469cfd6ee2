---------------------------- MODULE Pipeline_proofs ---------------------------
(***************************************************************************)
(* The safety properties of Pipeline, for every set of files and packages  *)
(* and any number of runs and edits.                                       *)
(***************************************************************************)
EXTENDS Pipeline, FiniteSetTheorems, SequenceTheorems, TLAPS

Sandboxes == [files : [Files -> Contents], dirs : SUBSET Nested]
Verdicts  == {"none", "done", "ready", "handoff", "completed", "failed"}
-------------------------------------------------------------------------------
\* What every package, and the absence of one, brings.
LEMMA PackageType ==
    ASSUME TypeOK
    PROVE  /\ package.fields \subseteq PlanFields
           /\ package.required \subseteq Files
           /\ DOMAIN package.corrections \subseteq Files
           /\ package.patches \in Seq([file : Files, type : {"replace", "delete"}])
<1>1. CASE package \in Packages
    BY <1>1, PackageAssumption
<1>2. CASE package = NoPackage
    BY <1>2 DEF NoPackage
<1> QED BY <1>1, <1>2 DEF TypeOK

\* Every artifact is of a run that was started.
LEMMA RecordType ==
    ASSUME TypeOK, phase # "idle", NEW v \in Verdicts, NEW files \in SUBSET Files
    PROVE  Record(v, files) \in ArtifactType
<1>1. CASE phase \in DOMAIN Source
    <2>1. Source[phase] \in Phases \cup Handoffs
        BY <1>1 DEF Source, Phases, Handoffs
    <2>2. artifact[Source[phase]].run \in 0..MaxRuns
        BY <2>1 DEF TypeOK, ArtifactType
    <2> QED BY <1>1, <2>2 DEF Record, ArtifactType, Verdicts, TypeOK
<1>2. CASE phase \notin DOMAIN Source
    BY <1>2 DEF Record, ArtifactType, Verdicts, TypeOK
<1> QED BY <1>1, <1>2

\* Copying a file into a sandbox makes a sandbox.
LEMMA CopiedType ==
    ASSUME NEW box \in Sandboxes, NEW f \in Files, NEW c \in Contents
    PROVE  CopiedInto(box, f, c) \in Sandboxes
BY FileAssumption DEF CopiedInto, Sandboxes

\* The patch that applies is one of a file of the target.
LEMMA PatchType ==
    ASSUME TypeOK, PatchApplies(package, sandbox)
    PROVE  Head(package.patches) \in [file : Files, type : {"replace", "delete"}]
BY PackageType, HeadTailProperties DEF PatchApplies

\* So does a patch of the plan, when it applies and when it does not.
LEMMA WithPatchType ==
    ASSUME TypeOK
    PROVE  WithPatch(package, sandbox) \in Sandboxes
<1> DEFINE patch == Head(package.patches)
<1>1. CASE ~PatchApplies(package, sandbox)
    BY <1>1 DEF WithPatch, TypeOK, Sandboxes
<1>2. CASE PatchApplies(package, sandbox)
    <2>1. patch \in [file : Files, type : {"replace", "delete"}]
        BY <1>2, PatchType
    <2>2. sandbox \in Sandboxes
        BY DEF TypeOK, Sandboxes
    <2>3. CASE patch.type = "delete"
        <3>1. WithPatch(package, sandbox) = [sandbox EXCEPT !.files[patch.file] = "absent"]
            BY <1>2, <2>3 DEF WithPatch
        <3> QED BY <2>1, <2>2, <3>1 DEF Sandboxes, Contents, TargetContents
    <2>4. CASE patch.type # "delete"
        <3>1. WithPatch(package, sandbox) = CopiedInto(sandbox, patch.file, "patched")
            BY <1>2, <2>4 DEF WithPatch
        <3> QED BY <2>1, <2>2, <3>1, CopiedType DEF Contents
    <2> QED BY <2>3, <2>4
<1> QED BY <1>1, <1>2

\* And the corrections, whose kinds need not be known for it.
LEMMA MutatedType ==
    ASSUME TypeOK
    PROVE  /\ Mutated(package, sandbox) \in Sandboxes
           /\ ChangedFiles(package, sandbox) \subseteq Files
<1> DEFINE b == WithPatch(package, sandbox)
<1>1. b \in Sandboxes
    BY WithPatchType
<1>2. Applied(package, sandbox) \subseteq Files
    BY PackageType DEF Applied
<1>3. ASSUME NEW kind, NEW old \in Contents
      PROVE  Corrected(kind, old) \in Contents
    BY DEF Corrected, Contents
<1>4. Mutated(package, sandbox).files \in [Files -> Contents]
    <2>1. \A f \in Files : b.files[f] \in Contents
        BY <1>1 DEF Sandboxes
    <2> HIDE DEF b
    <2> QED BY <1>1, <1>3, <2>1 DEF Mutated, Sandboxes, b
<1>5. Mutated(package, sandbox) \in Sandboxes
    <2> HIDE DEF b
    <2> QED BY <1>1, <1>4 DEF Mutated, Sandboxes, b
<1>6. PatchedFiles(package, sandbox) \subseteq Files
    BY PatchType DEF PatchedFiles
<1> QED BY <1>2, <1>5, <1>6 DEF ChangedFiles

LEMMA DraftsType ==
    ASSUME TypeOK, phase # "idle", NEW v \in Verdicts, NEW files \in SUBSET Files,
           Drafts(v, files)
    PROVE  draft' \in ArtifactType /\ stage' \in Stages
BY RecordType DEF Drafts, Stages

\* Judging and repairing a plan sets known fields only.
LEMMA PatchedType ==
    ASSUME TypeOK
    PROVE  Patched(plan, Gaps(package, plan)) \subseteq PlanFields \cup {Fixes}
<1>1. ASSUME NEW g \in Gaps(package, plan), Patchable(g)
      PROVE  Repair(g) \subseteq PlanFields \cup {Fixes}
    <2>1. CASE g.code = "PP-002"
        <3>1. PICK f \in PlanFields : g = Gap(MissingCode[f], f)
            BY <1>1, <2>1 DEF Gaps, Gap
        <3> QED BY <2>1, <3>1 DEF Repair, Gap
    <2>2. CASE g.code # "PP-002"
        BY <2>2 DEF Repair
    <2> QED BY <2>1, <2>2
<1>2. plan \subseteq PlanFields \cup {Fixes}
    BY DEF TypeOK
<1> QED BY <1>1, <1>2 DEF Patched

LEMMA InterruptedType ==
    ASSUME TypeOK, phase # "idle", Interrupted
    PROVE  artifact' \in [Phases \cup Handoffs -> ArtifactType]
<1>1. [draft EXCEPT !.whole = FALSE] \in ArtifactType
    BY DEF TypeOK, ArtifactType
<1> QED BY <1>1 DEF Interrupted, TypeOK

LEMMA FollowerType ==
    ASSUME NEW p, NEW v
    PROVE  Follower(p, v) \in Phases \cup Handoffs \cup {"idle"}
BY DEF Follower, Phases, Handoffs

\* What the end of a run leaves has its type.
LEMMA EndType ==
    ASSUME TypeOK, NEW how \in {"ok", "rejected", "broken", "killed"}, End(how),
           artifact' \in [Phases \cup Handoffs -> ArtifactType],
           sandbox' \in Sandboxes, abandoned' \in BOOLEAN
    PROVE  TypeOK'
<1>1. NoHashes \in [Files -> TargetContents]
    BY DEF NoHashes, TargetContents
<1>2. NoArtifact \in ArtifactType
    BY BoundAssumption DEF NoArtifact, ArtifactType
<1> QED BY <1>1, <1>2 DEF TypeOK, End, Sandboxes, Stages

LEMMA InitType == Init => TypeOK
<1> SUFFICES ASSUME Init PROVE TypeOK
    OBVIOUS
<1>1. NoArtifact \in ArtifactType
    BY BoundAssumption DEF NoArtifact, ArtifactType
<1>2. NoHashes \in [Files -> TargetContents]
    BY DEF NoHashes, TargetContents
<1>3. EmptySandbox \in Sandboxes
    BY DEF EmptySandbox, Sandboxes, Contents, TargetContents
<1>4. target \in [Files -> TargetContents]
    BY DEF Init, TargetContents
<1>5. artifact \in [Phases \cup Handoffs -> ArtifactType]
    BY <1>1 DEF Init
<1>6. run \in 0..MaxRuns /\ edits \in 0..MaxEdits
    BY BoundAssumption DEF Init
<1>7. sandbox \in [files : [Files -> Contents], dirs : SUBSET Nested]
    BY <1>3 DEF Init, Sandboxes
<1> QED BY <1>1, <1>2, <1>4, <1>5, <1>6, <1>7 DEF Init, TypeOK, Stages

LEMMA TypeStep == TypeOK /\ [Next]_vars => TypeOK'
<1> SUFFICES ASSUME TypeOK, [Next]_vars PROVE TypeOK'
    OBVIOUS
<1> USE DEF TypeOK, Computes, local, ended
<1>1. CASE UNCHANGED vars
    BY <1>1 DEF vars
<1>2. CASE LoadFails
    BY <1>2 DEF LoadFails
<1>3. CASE Start
    <2>1. PICK p \in Packages : package' = p /\ plan' = p.fields
        BY <1>3 DEF Start
    <2>2. plan' \subseteq PlanFields
        BY <2>1, PackageAssumption
    <2>3. run' \in 0..MaxRuns
        BY <1>3, BoundAssumption DEF Start
    <2>4. phase' \in Phases /\ stage' \in Stages
        BY <1>3 DEF Start, Phases, Stages
    <2> QED BY <1>3, <2>1, <2>2, <2>3, <2>4 DEF Start
<1>4. CASE Reject
    BY <1>4, EndType DEF Reject, Sandboxes
<1>5. CASE Prepare
    BY <1>5, DraftsType, FileAssumption DEF Prepare, Verdicts, Phases, Handoffs
<1>6. CASE FirstAttempt
    <2>1. CASE Ready(Gaps(package, plan))
        BY <1>6, <2>1, DraftsType DEF FirstAttempt, At, Verdicts
    <2>2. CASE ~Ready(Gaps(package, plan))
        BY <1>6, <2>2, PatchedType DEF FirstAttempt, At, Stages
    <2> QED BY <2>1, <2>2
<1>7. CASE SecondAttempt
    BY <1>7, DraftsType DEF SecondAttempt, At, Verdicts
<1>8. CASE BuildDemo
    <2> DEFINE files == DemoFiles(package, target)
    <2>1. files \subseteq Files
        BY DEF DemoFiles, Present
    <2> HIDE DEF files
    <2>2. CASE artifact["gap_evaluation"].verdict = "ready" /\ DemoBuilds(package, files)
        BY <1>8, <2>1, <2>2 DEF BuildDemo, At, Stages, files
    <2>3. CASE ~(artifact["gap_evaluation"].verdict = "ready" /\ DemoBuilds(package, files))
        BY <1>8, <2>3, DraftsType DEF BuildDemo, At, Verdicts, files
    <2> QED BY <2>2, <2>3
<1>9. ASSUME NEW f \in Files, CopyFile(f) PROVE TypeOK'
    BY <1>9, CopiedType DEF CopyFile, Sandboxes, Contents
<1>10. ASSUME NEW f \in Files, MissingFile(f) PROVE TypeOK'
    BY <1>10, DraftsType DEF MissingFile, At, Verdicts
<1>11. CASE RecordHash
    BY <1>11 DEF RecordHash
<1>12. CASE HashFails
    BY <1>12, EndType DEF HashFails, Sandboxes
<1>13. CASE Mutate
    <2>1. phase # "idle"
        BY <1>13 DEF Mutate, AllCopied, At
    <2>2. draft' \in ArtifactType /\ changed' \subseteq Files /\ stage' \in Stages
        BY <1>13, <2>1, RecordType, MutatedType DEF Mutate, Verdicts, Stages
    <2>3. sandbox' \in Sandboxes
        BY <1>13, MutatedType DEF Mutate
    <2> QED BY <1>13, <2>2, <2>3 DEF Mutate, Sandboxes
<1>14. CASE Execute
    <2>1. sandbox' \in Sandboxes
        <3> sandbox \in Sandboxes
            BY DEF Sandboxes
        <3>1. ASSUME NEW f \in Files PROVE CopiedInto(sandbox, f, "other") \in Sandboxes
            BY CopiedType DEF Contents
        <3>2. ASSUME NEW f \in Files
              PROVE  [sandbox EXCEPT !.files[f] = "absent"] \in Sandboxes
            BY DEF Sandboxes, Contents, TargetContents
        <3> HIDE DEF TypeOK
        <3> QED BY <1>14, <3>1, <3>2 DEF Execute
    <2>2. executed' \in {"none", "completed", "failed"} /\ stage' \in Stages
        BY <1>14 DEF Execute, Stages
    <2> QED BY <1>14, <2>1, <2>2 DEF Execute, Sandboxes
<1>15. CASE Verify
    <2>1. draft' \in ArtifactType
        BY <1>15, RecordType DEF Verify, At, Verdicts
    <2> QED BY <1>15, <2>1 DEF Verify, Stages
<1>16. CASE CleanSandbox
    <2>1. sandbox' \in Sandboxes
        BY <1>16 DEF CleanSandbox, EmptySandbox, Sandboxes, Contents, TargetContents
    <2> QED BY <1>16, <2>1 DEF CleanSandbox, Sandboxes, Stages
<1>17. CASE Publish
    <2> DEFINE next == Follower(phase, draft.verdict)
    <2>1. artifact' \in [Phases \cup Handoffs -> ArtifactType]
        BY <1>17 DEF Publish
    <2>2. CASE next = "idle"
        BY <1>17, <2>1, <2>2, EndType DEF Publish, Sandboxes
    <2>3. CASE next # "idle"
        BY <1>17, <2>1, <2>3, FollowerType DEF Publish, Stages
    <2> QED BY <2>2, <2>3
<1>18. CASE Break
    BY <1>18, InterruptedType, EndType DEF Break, Sandboxes
<1>19. CASE Kill
    BY <1>19, InterruptedType, EndType DEF Kill, Sandboxes
<1>20. CASE EditTarget
    BY <1>20, BoundAssumption DEF EditTarget, TargetContents
<1> QED
    BY <1>1, <1>2, <1>3, <1>4, <1>5, <1>6, <1>7, <1>8, <1>9, <1>10, <1>11, <1>12,
       <1>13, <1>14, <1>15, <1>16, <1>17, <1>18, <1>19, <1>20 DEF Next, Step

(***************************************************************************)
(* The variables of cli.py and its phases hold values of their types, in   *)
(* every reachable state.                                                  *)
(***************************************************************************)
THEOREM TypeCorrect == Spec => []TypeOK
BY InitType, TypeStep, PTL DEF Spec
-------------------------------------------------------------------------------

(***************************************************************************)
(* Where a run is.  The artifacts of this run are exactly those of the     *)
(* phases behind it, all of them complete and computed from its own; when  *)
(* it is over, exit tells which ones there are.                            *)
(***************************************************************************)
Progress ==
    /\ \A a \in Phases \cup Handoffs : artifact[a].run <= run
    /\ \A a \in Phases \cup Handoffs : artifact[a].run = run => artifact[a].source = run
    /\ phase # "idle" =>
         /\ exit = "none"
         /\ \A a \in Past[phase] : Written(a)
         /\ \A a \in Phases \cup Handoffs : artifact[a].run = run => a \in Past[phase]

\* A draft is of this run, computed from this run's artifacts.
DraftOfThisRun ==
    phase # "idle" /\ stage \in {"clean", "publish"} =>
        /\ draft.run = run /\ draft.whole /\ draft.source = run
        /\ phase = "gap_evaluation" => draft.verdict \in {"ready", "handoff"}
        /\ phase = "simulation_environment" => draft.verdict \in {"completed", "failed"}

\* A handoff is where the verdict of its artifact led.
OnRoute ==
    /\ phase = "gap_handoff" => artifact["gap_evaluation"].verdict = "handoff"
    /\ phase = "simulation_handoff" => artifact["simulation_environment"].verdict = "failed"

Control == Progress /\ DraftOfThisRun /\ OnRoute /\ ExitZeroIsExplained

\* A phase reads the artifact of one behind it.
LEMMA SourceIsPast ==
    ASSUME NEW p \in DOMAIN Source
    PROVE  Source[p] \in Past[p] /\ Source[p] \in Phases \cup Handoffs
BY DEF Source, Past, Phases, Handoffs

\* Going on, a run has one phase more behind it.
LEMMA FollowerPast ==
    ASSUME NEW p \in Phases \cup Handoffs, NEW v, Follower(p, v) # "idle"
    PROVE  Past[Follower(p, v)] = Past[p] \cup {p}
BY DEF Follower, Past, Phases, Handoffs

\* What a phase is about to write is of this run.
LEMMA RecordOfThisRun ==
    ASSUME TypeOK, Progress, phase # "idle", NEW v, NEW files
    PROVE  LET r == Record(v, files)
           IN  r.run = run /\ r.whole /\ r.source = run /\ r.verdict = v
<1>1. CASE phase \in DOMAIN Source
    <2>1. artifact[Source[phase]].run = run
        BY <1>1, SourceIsPast DEF Progress, Written
    <2> QED BY <1>1, <2>1 DEF Record
<1>2. CASE phase \notin DOMAIN Source
    BY <1>2 DEF Record
<1> QED BY <1>1, <1>2

\* A write of this run, whole or torn, keeps what is said of all artifacts.
LEMMA WriteKeepsSources ==
    ASSUME TypeOK, Progress, phase # "idle",
           NEW d \in ArtifactType, d.run = run, d.source = run,
           artifact' = [artifact EXCEPT ![phase] = d], run' = run
    PROVE  \A a \in Phases \cup Handoffs :
               artifact[a]'.run <= run' /\ (artifact[a]'.run = run' => artifact[a]'.source = run')
BY DEF TypeOK, Progress

\* A run that ends otherwise than well leaves its artifacts as they must be.
LEMMA EndKeepsControl ==
    ASSUME TypeOK, Progress, DraftOfThisRun,
           NEW how \in {"rejected", "broken", "killed"}, End(how),
           \/ artifact' = artifact
           \/ phase # "idle" /\ stage \in {"clean", "publish"} /\ Interrupted
    PROVE  Control'
<1>1. \A a \in Phases \cup Handoffs :
          artifact[a]'.run <= run' /\ (artifact[a]'.run = run' => artifact[a]'.source = run')
    <2>1. CASE artifact' = artifact
        BY <2>1 DEF End, Progress
    <2>2. CASE phase # "idle" /\ stage \in {"clean", "publish"} /\ Interrupted
        <3>1. draft.run = run /\ draft.source = run
            BY <2>2 DEF DraftOfThisRun
        <3>2. CASE artifact' = [artifact EXCEPT ![phase] = draft]
            BY <3>1, <2>2, <3>2, WriteKeepsSources DEF End, TypeOK
        <3> DEFINE torn == [draft EXCEPT !.whole = FALSE]
        <3>3. CASE artifact' = [artifact EXCEPT ![phase] = torn]
            <4>1. torn \in ArtifactType /\ torn.run = run /\ torn.source = run
                BY <3>1 DEF TypeOK, ArtifactType
            <4> HIDE DEF torn
            <4> QED BY <2>2, <3>3, <4>1, WriteKeepsSources DEF End
        <3> QED BY <2>1, <2>2, <3>2, <3>3 DEF Interrupted
    <2> QED BY <2>1, <2>2
<1>2. phase' = "idle" /\ exit' # "ok"
    BY DEF End
<1> QED BY <1>1, <1>2 DEF Control, Progress, DraftOfThisRun, OnRoute, ExitZeroIsExplained

\* A step within a phase disturbs nothing but the draft.
LEMMA WithinPhase ==
    ASSUME Control, phase # "idle", DraftOfThisRun',
           UNCHANGED <<artifact, run, phase, exit>>
    PROVE  Control'
BY DEF Control, Progress, OnRoute, ExitZeroIsExplained, Written

\* Publishing takes the run to the next phase, or to its end.
LEMMA PublishKeepsControl ==
    ASSUME TypeOK, Control, Publish
    PROVE  Control'
<1> DEFINE next == Follower(phase, draft.verdict)
<1>1. /\ phase \in Phases \cup Handoffs
      /\ artifact' = [artifact EXCEPT ![phase] = draft] /\ run' = run
    BY DEF Publish, TypeOK, End
<1>2. /\ draft \in ArtifactType
      /\ draft.run = run /\ draft.whole /\ draft.source = run
    BY DEF TypeOK, Control, DraftOfThisRun, Publish
<1>3. \A a \in Phases \cup Handoffs :
          artifact[a]'.run <= run' /\ (artifact[a]'.run = run' => artifact[a]'.source = run')
    BY <1>1, <1>2, WriteKeepsSources DEF Publish, Control
<1>4. \A a \in Phases \cup Handoffs :
          artifact[a]' = IF a = phase THEN draft ELSE artifact[a]
    BY <1>1 DEF TypeOK
<1>5. /\ \A a \in Past[phase] \cup {phase} : a \in Phases \cup Handoffs /\ Written(a)'
      /\ \A a \in Phases \cup Handoffs :
             artifact[a]'.run = run' => a \in Past[phase] \cup {phase}
    <2>1. Past[phase] \subseteq Phases \cup Handoffs
        BY <1>1 DEF Past, Phases, Handoffs
    <2> QED BY <1>1, <1>2, <1>4, <2>1 DEF Control, Progress, Publish, Written
<1>6. CASE next # "idle"
    <2>1. phase' = next /\ stage' = "work" /\ exit' = "none"
        BY <1>6 DEF Publish, ended, Control, Progress
    <2>2. Past[phase'] = Past[phase] \cup {phase}
        BY <1>1, <1>6, <2>1, FollowerPast
    <2>3. Progress'
        BY <1>3, <1>5, <2>1, <2>2 DEF Progress
    <2>4. OnRoute'
        <3>1. CASE phase' = "gap_handoff"
            <4>1. phase = "gap_evaluation" /\ draft.verdict # "ready"
                BY <1>1, <2>1, <3>1 DEF Follower, Phases, Handoffs
            <4> QED BY <1>1, <1>4, <3>1, <4>1
                    DEF OnRoute, Control, DraftOfThisRun, Publish
        <3>2. CASE phase' = "simulation_handoff"
            <4>1. phase = "simulation_environment" /\ draft.verdict # "completed"
                BY <1>1, <2>1, <3>2 DEF Follower, Phases, Handoffs
            <4> QED BY <1>1, <1>4, <3>2, <4>1
                    DEF OnRoute, Control, DraftOfThisRun, Publish
        <3> QED BY <3>1, <3>2 DEF OnRoute
    <2> QED BY <2>1, <2>3, <2>4 DEF Control, DraftOfThisRun, ExitZeroIsExplained
<1>7. CASE next = "idle"
    <2>1. phase' = "idle" /\ exit' = "ok"
        BY <1>7 DEF Publish, End
    <2>2. phase \in Handoffs \cup {"cleanup"}
        BY <1>1, <1>7 DEF Follower, Phases, Handoffs
    <2>3. ASSUME NEW a \in Phases \cup Handoffs
          PROVE  artifact[a]'.whole /\ artifact[a]'.run = run'
                     <=> a \in Past[phase] \cup {phase}
        BY <1>5, <2>3 DEF Written
    <2>4. ASSUME phase = "gap_handoff" PROVE ExitZeroIsExplained'
        <3>1. Past[phase] = {"snapshot", "scan", "analysis_classification",
                             "statement_output", "gap_evaluation"}
            BY <2>4 DEF Past
        <3>2. artifact["gap_evaluation"]'.verdict = "handoff"
            BY <1>4, <2>4 DEF Control, OnRoute, Phases
        <3> QED BY <2>3, <2>4, <3>1, <3>2 DEF ExitZeroIsExplained, Written, Phases, Handoffs
    <2>5. ASSUME phase = "simulation_handoff" PROVE ExitZeroIsExplained'
        <3>1. Past[phase] = {"snapshot", "scan", "analysis_classification",
                  "statement_output", "gap_evaluation", "simulation_environment"}
            BY <2>5 DEF Past
        <3>2. artifact["simulation_environment"]'.verdict = "failed"
            BY <1>4, <2>5 DEF Control, OnRoute, Phases
        <3> QED BY <2>3, <2>5, <3>1, <3>2 DEF ExitZeroIsExplained, Written, Phases, Handoffs
    <2>6. ASSUME phase = "cleanup" PROVE ExitZeroIsExplained'
        <3>1. Past[phase] = Phases \ {"cleanup"}
            BY <2>6 DEF Past, Phases
        <3> QED BY <2>3, <2>6, <3>1 DEF ExitZeroIsExplained, Written, Phases, Handoffs
    <2>7. ExitZeroIsExplained'
        BY <2>2, <2>4, <2>5, <2>6 DEF Handoffs
    <2> QED BY <1>3, <2>1, <2>7 DEF Control, Progress, DraftOfThisRun, OnRoute
<1> QED BY <1>6, <1>7

LEMMA ControlStep == TypeOK /\ Control /\ [Next]_vars => Control'
<1> SUFFICES ASSUME TypeOK, Control, [Next]_vars PROVE Control'
    OBVIOUS
<1> DEFINE OfThisRun(d) == d.run = run /\ d.whole /\ d.source = run
<1>0. ASSUME phase # "idle", NEW v, NEW files
      PROVE  OfThisRun(Record(v, files)) /\ Record(v, files).verdict = v
    BY <1>0, RecordOfThisRun DEF Control
<1>1. CASE UNCHANGED vars
    BY <1>1 DEF vars, local, ended, Control, Progress, DraftOfThisRun, OnRoute,
                ExitZeroIsExplained, Written
<1>2. CASE LoadFails
    BY <1>2 DEF LoadFails, local, Control, Progress, DraftOfThisRun, OnRoute,
                ExitZeroIsExplained
<1>3. CASE Start
    <2>1. \A a \in Phases \cup Handoffs : artifact[a]'.run <= run /\ run < run'
        BY <1>3 DEF Start, Control, Progress, TypeOK
    <2>2. \A a \in Phases \cup Handoffs : artifact[a]'.run < run'
        BY <1>3, <2>1 DEF Start, TypeOK, ArtifactType
    <2>3. \A a \in Phases \cup Handoffs : artifact[a]'.run <= run' /\ artifact[a]'.run # run'
        BY <1>3, <2>2 DEF Start, TypeOK, ArtifactType
    <2>4. phase' = "snapshot" /\ stage' = "work" /\ exit' = "none" /\ Past["snapshot"] = {}
        BY <1>3 DEF Start, Past
    <2> QED BY <2>3, <2>4 DEF Control, Progress, DraftOfThisRun, OnRoute, ExitZeroIsExplained
<1>4. CASE Reject
    BY <1>4, EndKeepsControl DEF Reject, Control
<1>5. CASE Prepare
    <2>1. phase # "idle" /\ phase \notin {"gap_evaluation", "simulation_environment"}
        BY <1>5 DEF Prepare, Phases, Handoffs
    <2>2. DraftOfThisRun'
        BY <1>0, <1>5, <2>1 DEF Prepare, Drafts, Computes, DraftOfThisRun
    <2> QED BY <1>5, <2>1, <2>2, WithinPhase DEF Prepare, Computes, ended
<1>6. CASE FirstAttempt
    <2>1. phase = "gap_evaluation" /\ phase' = phase /\ run' = run
        BY <1>6 DEF FirstAttempt, At, Computes
    <2>2. stage' = "second" \/ (stage' = "publish" /\ draft' = Record("ready", {}))
        BY <1>6 DEF FirstAttempt, Drafts
    <2>3. DraftOfThisRun'
        BY <1>0, <2>1, <2>2 DEF DraftOfThisRun
    <2> QED BY <1>6, <2>1, <2>3, WithinPhase DEF FirstAttempt, Computes, ended
<1>7. CASE SecondAttempt
    <2>1. phase = "gap_evaluation" /\ phase' = phase /\ run' = run
        BY <1>7 DEF SecondAttempt, At, Computes
    <2>2. \E v \in {"ready", "handoff"} : draft' = Record(v, {})
        BY <1>7 DEF SecondAttempt, Drafts
    <2>3. DraftOfThisRun'
        BY <1>0, <2>1, <2>2 DEF DraftOfThisRun
    <2> QED BY <1>7, <2>1, <2>3, WithinPhase DEF SecondAttempt, Computes, ended
<1>8. CASE BuildDemo
    <2>1. phase = "simulation_environment" /\ phase' = phase /\ run' = run
        BY <1>8 DEF BuildDemo, At, Computes
    <2>2. stage' = "copy" \/ (stage' = "publish" /\ draft' = Record("failed", {}))
        BY <1>8 DEF BuildDemo, Drafts
    <2>3. DraftOfThisRun'
        BY <1>0, <2>1, <2>2 DEF DraftOfThisRun
    <2> QED BY <1>8, <2>1, <2>3, WithinPhase DEF BuildDemo, Computes, ended
<1>9. ASSUME NEW f \in Files, CopyFile(f) PROVE Control'
    <2>1. phase # "idle" /\ DraftOfThisRun'
        BY <1>9 DEF CopyFile, At, DraftOfThisRun
    <2> QED BY <1>9, <2>1, WithinPhase DEF CopyFile, ended
<1>10. ASSUME NEW f \in Files, MissingFile(f) PROVE Control'
    <2>1. phase # "idle" /\ DraftOfThisRun'
        BY <1>0, <1>10 DEF MissingFile, At, Drafts, DraftOfThisRun
    <2> QED BY <1>10, <2>1, WithinPhase DEF MissingFile, ended
<1>11. CASE RecordHash
    BY <1>11 DEF RecordHash, Computes, ended, Control, Progress, DraftOfThisRun, OnRoute,
                 ExitZeroIsExplained, Written
<1>12. CASE HashFails
    BY <1>12, EndKeepsControl DEF HashFails, Control
<1>13. CASE Mutate
    <2>1. phase = "simulation_environment" /\ phase' = phase /\ run' = run
        BY <1>13 DEF Mutate, AllCopied, At
    <2>2. stage' = "execute" \/ (stage' = "clean" /\ draft' = Record("failed", {}))
        BY <1>13 DEF Mutate
    <2>3. DraftOfThisRun'
        BY <1>0, <2>1, <2>2 DEF DraftOfThisRun
    <2> QED BY <1>13, <2>1, <2>3, WithinPhase DEF Mutate, ended
<1>14. CASE Execute
    <2>1. phase # "idle" /\ DraftOfThisRun'
        BY <1>14 DEF Execute, At, DraftOfThisRun
    <2> QED BY <1>14, <2>1, WithinPhase DEF Execute, ended
<1>15. CASE Verify
    <2>1. phase = "simulation_environment" /\ phase' = phase /\ run' = run
        BY <1>15 DEF Verify, At, Computes
    <2>2. \E v \in {"completed", "failed"} : draft' = Record(v, changed)
        BY <1>15 DEF Verify
    <2>3. DraftOfThisRun'
        BY <1>0, <2>1, <2>2 DEF DraftOfThisRun
    <2> QED BY <1>15, <2>1, <2>3, WithinPhase DEF Verify, Computes, ended
<1>16. CASE CleanSandbox
    <2>1. phase # "idle" /\ DraftOfThisRun'
        BY <1>16 DEF CleanSandbox, At, local, Control, DraftOfThisRun
    <2> QED BY <1>16, <2>1, WithinPhase DEF CleanSandbox, ended
<1>17. CASE Publish
    BY <1>17, PublishKeepsControl
<1>18. CASE Break
    BY <1>18, EndKeepsControl DEF Break, Control
<1>19. CASE Kill
    BY <1>19, EndKeepsControl DEF Kill, Control
<1>20. CASE EditTarget
    BY <1>20 DEF EditTarget, local, ended, Control, Progress, DraftOfThisRun, OnRoute,
                 ExitZeroIsExplained, Written
<1> QED
    BY <1>1, <1>2, <1>3, <1>4, <1>5, <1>6, <1>7, <1>8, <1>9, <1>10, <1>11, <1>12,
       <1>13, <1>14, <1>15, <1>16, <1>17, <1>18, <1>19, <1>20 DEF Next, Step

LEMMA ControlInit == Init => Control
<1> SUFFICES ASSUME Init PROVE Control
    OBVIOUS
<1>1. \A a \in Phases \cup Handoffs : artifact[a].run = 0 /\ artifact[a].source = 0
    BY DEF Init, NoArtifact
<1> QED BY <1>1 DEF Init, Control, Progress, DraftOfThisRun, OnRoute, ExitZeroIsExplained

LEMMA ControlCorrect == Spec => []Control
BY TypeCorrect, ControlInit, ControlStep, PTL DEF Spec

(***************************************************************************)
(* A phase of run_pipeline starts only after all phases before it in this  *)
(* run, and no artifact of this run was computed from one of another run.  *)
(***************************************************************************)
THEOREM RunReadsItselfCorrect == Spec => []RunReadsItself
<1>1. Control => RunReadsItself
    BY DEF Control, Progress, RunReadsItself
<1> QED BY <1>1, ControlCorrect, PTL

(***************************************************************************)
(* run_pipeline returns 0 only for a complete report, or for the handoff   *)
(* that gap evaluation or the simulation of this run called for.           *)
(***************************************************************************)
THEOREM ExitZeroIsExplainedCorrect == Spec => []ExitZeroIsExplained
<1>1. Control => ExitZeroIsExplained
    BY DEF Control
<1> QED BY <1>1, ControlCorrect, PTL
-------------------------------------------------------------------------------
(* The order of the phases *)

OfThisRun == {a \in Phases \cup Handoffs : Written(a)}

\* The phases behind a run are those its next artifact needs.
LEMMA PastIsNeeded ==
    ASSUME NEW p \in Phases \cup Handoffs
    PROVE  Order!Needed(p) = Past[p]
<1> USE DEF Order!Needed, Order!Artifacts, Order!Handoffs, Order!Position, Past
<1>1. CASE p \in {"snapshot", "scan", "analysis_classification", "statement_output"}
    BY <1>1
<1>2. CASE p \in {"gap_evaluation", "gap_handoff", "simulation_environment"}
    BY <1>2
<1>3. CASE p \in {"inspection", "simulation_handoff", "final_result", "cleanup"}
    BY <1>3
<1> QED BY <1>1, <1>2, <1>3 DEF Phases, Handoffs

\* In a run, the artifacts there are those of the phases behind it.
LEMMA WrittenIsPast ==
    ASSUME TypeOK, Progress, phase # "idle"
    PROVE  OfThisRun = Past[phase] /\ phase \notin OfThisRun
<1>1. phase \in Phases \cup Handoffs
    BY DEF TypeOK
<1>2. Past[phase] \subseteq Phases \cup Handoffs /\ phase \notin Past[phase]
    BY <1>1 DEF Past, Phases, Handoffs
<1> QED BY <1>2 DEF Progress, Written, OfThisRun

\* A run that ends early has either written nothing more, or its next artifact.
LEMMA EndStops ==
    ASSUME TypeOK, Control, phase # "idle",
           NEW how \in {"rejected", "broken", "killed"}, End(how),
           \/ artifact' = artifact
           \/ stage \in {"clean", "publish"} /\ Interrupted
    PROVE  Order!Stop
<1>1. /\ phase \in Phases \cup Handoffs /\ run' = run /\ phase' = "idle" /\ exit' = how
      /\ OfThisRun = Past[phase] /\ phase \notin OfThisRun
    BY WrittenIsPast DEF TypeOK, End, Control
<1>2. CASE artifact' = artifact
    BY <1>1, <1>2 DEF Order!Stop, Written
<1>3. CASE stage \in {"clean", "publish"} /\ Interrupted
    <2>1. draft.run = run /\ draft.whole
        BY <1>3 DEF Control, DraftOfThisRun
    <2>2. CASE artifact' = [artifact EXCEPT ![phase] = draft]
        <3>1. OfThisRun' = OfThisRun \cup {phase}
            BY <1>1, <2>1, <2>2 DEF OfThisRun, Written, TypeOK
        <3>2. OfThisRun = Order!Needed(phase)
            BY <1>1, PastIsNeeded
        <3> QED BY <1>1, <3>1, <3>2 DEF Order!Stop, Order!Appears, OfThisRun
    <2>3. CASE artifact' = [artifact EXCEPT ![phase] = [draft EXCEPT !.whole = FALSE]]
        <3>1. \A a \in Phases \cup Handoffs : Written(a)' <=> Written(a)
            BY <1>1, <2>1, <2>3 DEF OfThisRun, Written, TypeOK, ArtifactType
        <3> QED BY <1>1, <3>1 DEF Order!Stop
    <2> QED BY <1>2, <1>3, <2>2, <2>3 DEF Interrupted
<1> QED BY <1>2, <1>3

\* Publishing makes exactly the next artifact complete.
LEMMA PublishAppears ==
    ASSUME TypeOK, Control, Publish
    PROVE  \E a \in OfThisRun' \ OfThisRun : Order!Publish(a)
<1>1. /\ phase \in Phases \cup Handoffs /\ run' = run
      /\ artifact' = [artifact EXCEPT ![phase] = draft]
      /\ draft.run = run /\ draft.whole
      /\ exit = "none"
      /\ OfThisRun = Past[phase] /\ phase \notin OfThisRun
    BY WrittenIsPast DEF TypeOK, Publish, End, Control, DraftOfThisRun, Progress
<1>2. OfThisRun' = OfThisRun \cup {phase}
    BY <1>1 DEF OfThisRun, Written, TypeOK
<1>3. OfThisRun = Order!Needed(phase)
    BY <1>1, PastIsNeeded
<1>4. Follower(phase, draft.verdict) = "idle" <=> phase \in Order!Endings
    BY <1>1 DEF Follower, Order!Endings, Order!Handoffs, Phases, Handoffs
<1>5. /\ (phase' # "idle") = (phase \notin Order!Endings)
      /\ exit' = IF phase \in Order!Endings THEN "ok" ELSE "none"
    BY <1>1, <1>4 DEF Publish, End, ended
<1>6. Order!Publish(phase)
    BY <1>1, <1>2, <1>3, <1>5 DEF Order!Publish, Order!Appears, OfThisRun, Publish
<1> QED BY <1>1, <1>2, <1>6

\* A file is being copied only while the simulation copies files.
CopyingHere == copying # NoFile => At("simulation_environment", "copy")

LEMMA CopyingStep == TypeOK /\ CopyingHere /\ [Next]_vars => CopyingHere'
<1> SUFFICES ASSUME TypeOK, CopyingHere, [Next]_vars PROVE CopyingHere'
    OBVIOUS
<1> USE DEF CopyingHere, At, Computes, local, ended
<1>0. ASSUME NEW how, End(how) PROVE CopyingHere'
    BY <1>0 DEF End
<1>1. CASE UNCHANGED vars \/ LoadFails \/ Start \/ EditTarget
    BY <1>1 DEF vars, LoadFails, Start, EditTarget
<1>2. CASE Reject \/ HashFails \/ Break \/ Kill
    BY <1>0, <1>2 DEF Reject, HashFails, Break, Kill
<1>3. CASE Prepare \/ FirstAttempt \/ SecondAttempt \/ BuildDemo
    BY <1>3 DEF Prepare, FirstAttempt, SecondAttempt, BuildDemo
<1>4. CASE (\E f \in Files : CopyFile(f) \/ MissingFile(f)) \/ RecordHash
    BY <1>4 DEF CopyFile, MissingFile, RecordHash
<1>5. CASE Mutate \/ Execute \/ Verify \/ CleanSandbox
    BY <1>5 DEF Mutate, AllCopied, Execute, Verify, CleanSandbox
<1>6. CASE Publish
    BY <1>0, <1>6 DEF Publish
<1> QED BY <1>1, <1>2, <1>3, <1>4, <1>5, <1>6 DEF Next, Step

LEMMA CopyingCorrect == Spec => []CopyingHere
<1>1. Init => CopyingHere
    BY DEF Init, CopyingHere
<1> QED BY <1>1, TypeCorrect, CopyingStep, PTL DEF Spec

LEMMA OrderInit == Init => Order!Init
<1> SUFFICES ASSUME Init PROVE Order!Init
    OBVIOUS
<1>1. \A a \in Phases \cup Handoffs : ~artifact[a].whole
    BY DEF Init, NoArtifact
<1> QED BY <1>1 DEF Init, Order!Init, Written

LEMMA OrderStep ==
    TypeOK /\ Control /\ CopyingHere /\ [Next]_vars => [Order!Next]_Order!vars
<1> SUFFICES ASSUME TypeOK, Control, CopyingHere, [Next]_vars PROVE [Order!Next]_Order!vars
    OBVIOUS
<1>0. ASSUME UNCHANGED <<artifact, run, phase, exit>> PROVE [Order!Next]_Order!vars
    BY <1>0 DEF Order!vars, Written
<1>1. CASE UNCHANGED vars
    BY <1>0, <1>1 DEF vars, ended
<1>2. CASE LoadFails
    <2>1. Order!Refuse
        BY <1>2 DEF LoadFails, Order!Refuse, Written
    <2> QED BY <2>1 DEF Order!Next
<1>3. CASE Start
    <2>1. \A a \in Phases \cup Handoffs : ~Written(a)'
        BY <1>3 DEF Start, Control, Progress, TypeOK, ArtifactType, Written
    <2>2. Order!Begin
        BY <1>3, <2>1 DEF Start, Order!Begin
    <2> QED BY <2>2 DEF Order!Next
<1>4. CASE Reject \/ Break \/ Kill \/ HashFails
    <2>1. phase # "idle"
        BY <1>4 DEF Reject, Break, Kill, HashFails, CopyingHere, At
    <2>2. PICK how \in {"rejected", "broken", "killed"} : End(how)
        BY <1>4 DEF Reject, Break, Kill, HashFails
    <2>3. artifact' = artifact \/ (stage \in {"clean", "publish"} /\ Interrupted)
        BY <1>4 DEF Reject, Break, Kill, HashFails
    <2>4. Order!Stop
        BY <2>1, <2>2, <2>3, EndStops
    <2> QED BY <2>4 DEF Order!Next
<1>5. CASE Publish
    <2>1. \E a \in OfThisRun' \ OfThisRun : Order!Publish(a)
        BY <1>5, PublishAppears
    <2> QED BY <2>1 DEF Order!Next, OfThisRun
<1>6. CASE EditTarget
    BY <1>0, <1>6 DEF EditTarget, ended
<1>7. CASE \/ Prepare \/ FirstAttempt \/ SecondAttempt \/ BuildDemo
           \/ RecordHash \/ Verify
    BY <1>0, <1>7 DEF Prepare, FirstAttempt, SecondAttempt, BuildDemo, RecordHash, Verify,
                      Computes, ended
<1>8. CASE (\E f \in Files : CopyFile(f) \/ MissingFile(f)) \/ Mutate \/ Execute
           \/ CleanSandbox
    BY <1>0, <1>8 DEF CopyFile, MissingFile, Mutate, Execute, CleanSandbox, ended
<1> QED BY <1>1, <1>2, <1>3, <1>4, <1>5, <1>6, <1>7, <1>8 DEF Next, Step

(***************************************************************************)
(* run_pipeline publishes the artifacts of a run one by one in the order of*)
(* Phase_order and returns 0 with the last of them only, whatever earlier  *)
(* runs left and wherever a run is killed.                                 *)
(***************************************************************************)
THEOREM RefinesPhaseOrder == Spec => ImplementsPhaseOrder
BY TypeCorrect, ControlCorrect, CopyingCorrect, OrderInit, OrderStep, PTL
   DEF Spec, ImplementsPhaseOrder, Order!Spec
-------------------------------------------------------------------------------

\* The agent decided itself what gap evaluation must not decide.
Supplied == OperatorFields \subseteq package.fields /\ package.evidence # "none"

(***************************************************************************)
(* A repair decides nothing for the agent, so that a plan that is ready has*)
(* these decisions from the package; nothing else leads to the simulation. *)
(***************************************************************************)
Gate ==
    /\ phase # "idle" => \A f \in OperatorFields : f \in plan => f \in package.fields
    /\ phase = "gap_evaluation" /\ stage = "publish" /\ draft.verdict = "ready" => Supplied
    /\ phase = "simulation_environment" => Supplied

\* A plan without gaps sets all fields, and there is evidence for it.
LEMMA ReadyPlan ==
    ASSUME NEW p, NEW fields, Ready(Gaps(p, fields))
    PROVE  PlanFields \subseteq fields /\ p.evidence # "none"
<1>1. Gaps(p, fields) = {}
    BY DEF Ready
<1>2. ~EmptyPlan(p, fields)
    BY <1>1 DEF Gaps
<1>3. ASSUME NEW f \in PlanFields \ fields PROVE FALSE
    <2>1. Gap(MissingCode[f], f) \in Gaps(p, fields)
        BY <1>2, <1>3 DEF Gaps
    <2> QED BY <1>1, <2>1
<1>4. p.evidence # "none"
    BY <1>1 DEF Gaps
<1> QED BY <1>3, <1>4

\* A repair defaults name and version only.
LEMMA PatchedAdds ==
    ASSUME NEW p, NEW fields, NEW o \in OperatorFields,
           o \in Patched(fields, Gaps(p, fields))
    PROVE  o \in fields
<1>1. ASSUME NEW g \in Gaps(p, fields)
      PROVE  o \notin Repair(g)
    <2>1. CASE g.code = "PP-002"
        <3>1. PICK f \in PlanFields : g = Gap(MissingCode[f], f)
            BY <1>1, <2>1 DEF Gaps, Gap
        <3>2. MissingCode[f] = "PP-002"
            BY <2>1, <3>1 DEF Gap
        <3>3. f \in {"name", "version"}
            BY <3>2 DEF MissingCode, PlanFields, OperatorFields
        <3> QED BY <2>1, <3>1, <3>3 DEF Repair, Gap, OperatorFields
    <2>2. CASE g.code # "PP-002"
        BY <2>2 DEF Repair, Fixes, OperatorFields
    <2> QED BY <2>1, <2>2
<1> QED BY <1>1 DEF Patched

LEMMA GateStep == TypeOK /\ Gate /\ [Next]_vars => Gate'
<1> SUFFICES ASSUME TypeOK, Gate, [Next]_vars PROVE Gate'
    OBVIOUS
<1> USE DEF Gate, Supplied, At, Computes, local, ended
<1>0. ASSUME NEW how, End(how) PROVE Gate'
    BY <1>0 DEF End
<1>1. CASE UNCHANGED vars
    BY <1>1 DEF vars
<1>2. CASE LoadFails
    BY <1>2 DEF LoadFails
<1>3. CASE Start
    BY <1>3 DEF Start
<1>4. CASE Reject
    BY <1>0, <1>4 DEF Reject
<1>5. CASE Prepare
    BY <1>5 DEF Prepare
<1>6. CASE FirstAttempt
    <2>1. CASE Ready(Gaps(package, plan))
        <3>1. OperatorFields \subseteq plan /\ package.evidence # "none"
            BY <2>1, ReadyPlan DEF PlanFields
        <3> QED BY <1>6, <2>1, <3>1 DEF FirstAttempt
    <2>2. CASE ~Ready(Gaps(package, plan))
        BY <1>6, <2>2, PatchedAdds DEF FirstAttempt
    <2> QED BY <2>1, <2>2
<1>7. CASE SecondAttempt
    <2>1. CASE Ready(Gaps(package, plan))
        <3>1. OperatorFields \subseteq plan /\ package.evidence # "none"
            BY <2>1, ReadyPlan DEF PlanFields
        <3> QED BY <1>7, <3>1 DEF SecondAttempt
    <2>2. CASE ~Ready(Gaps(package, plan))
        <3>1. draft'.verdict = "handoff"
            BY <1>7, <2>2 DEF SecondAttempt, Drafts, Record
        <3> QED BY <1>7, <3>1 DEF SecondAttempt
    <2> QED BY <2>1, <2>2
<1>8. CASE BuildDemo
    BY <1>8 DEF BuildDemo
<1>9. ASSUME NEW f \in Files, CopyFile(f) PROVE Gate'
    BY <1>9 DEF CopyFile
<1>10. ASSUME NEW f \in Files, MissingFile(f) PROVE Gate'
    BY <1>10 DEF MissingFile
<1>11. CASE RecordHash
    BY <1>11 DEF RecordHash
<1>12. CASE HashFails
    BY <1>0, <1>12 DEF HashFails
<1>13. CASE Mutate
    BY <1>13 DEF Mutate, AllCopied
<1>14. CASE Execute
    BY <1>14 DEF Execute
<1>15. CASE Verify
    BY <1>15 DEF Verify
<1>16. CASE CleanSandbox
    BY <1>16 DEF CleanSandbox
<1>17. CASE Publish
    <2>1. CASE Follower(phase, draft.verdict) = "idle"
        BY <1>0, <1>17, <2>1 DEF Publish
    <2>2. CASE Follower(phase, draft.verdict) # "idle"
        <3>1. /\ phase' = Follower(phase, draft.verdict) /\ stage' = "work"
              /\ UNCHANGED <<package, plan>>
            BY <1>17, <2>2 DEF Publish
        <3>2. phase' = "simulation_environment"
                  => phase = "gap_evaluation" /\ draft.verdict = "ready"
            BY <3>1 DEF TypeOK, Follower, Phases, Handoffs
        <3> QED BY <1>17, <3>1, <3>2 DEF Publish
    <2> QED BY <2>1, <2>2
<1>18. CASE Break
    BY <1>0, <1>18 DEF Break
<1>19. CASE Kill
    BY <1>0, <1>19 DEF Kill
<1>20. CASE EditTarget
    BY <1>20 DEF EditTarget
<1> QED
    BY <1>1, <1>2, <1>3, <1>4, <1>5, <1>6, <1>7, <1>8, <1>9, <1>10, <1>11, <1>12,
       <1>13, <1>14, <1>15, <1>16, <1>17, <1>18, <1>19, <1>20 DEF Next, Step

(***************************************************************************)
(* The simulation copies and executes nothing of the target for a package  *)
(* that leaves its success criteria, boundary, action or evidence open     *)
(* (gap_evaluation/runner.py, simulation_environment/runner.py).           *)
(***************************************************************************)
THEOREM OperatorGateCorrect == Spec => []OperatorGate
<1>1. Init => Gate
    BY DEF Init, Gate
<1>2. Gate => OperatorGate
    BY DEF Gate, Supplied, OperatorGate
<1> QED BY <1>1, <1>2, TypeCorrect, GateStep, PTL DEF Spec
-------------------------------------------------------------------------------
(* The verdict of gap evaluation, for plans of any content *)

\* A plan must be free of gaps anyway, and then its readiness is complete.
LEMMA ThresholdNeverDecides == \A gaps : Ready(gaps) <=> gaps = {}
<1>1. \A codes : {g \in {} : g.code \in codes} = {}
    OBVIOUS
<1>2. Penalty({}) = 0
    BY <1>1, FS_EmptySet DEF Penalty
<1> QED BY <1>2 DEF Ready, Readiness, Threshold

\* With the operator's decisions made, a repair leaves no gap.
LEMMA RepairCompletes ==
    ASSUME NEW p, ~p.mismatch, NEW fields, OperatorFields \subseteq fields, p.evidence # "none"
    PROVE  Gaps(p, Patched(fields, Gaps(p, fields))) = {}
<1> DEFINE once == Patched(fields, Gaps(p, fields))
<1>1. "selected_action" \in fields
    BY DEF OperatorFields
<1>2. ~EmptyPlan(p, fields)
    BY <1>1 DEF EmptyPlan
<1>3. fields \subseteq once
    BY DEF Patched
<1>4. ~EmptyPlan(p, once)
    BY <1>1, <1>3 DEF EmptyPlan
<1>5. ASSUME NEW f \in PlanFields \ fields PROVE f \in once
    <2>1. f \in {"name", "version"}
        BY <1>5 DEF PlanFields
    <2>2. Gap("PP-002", f) \in Gaps(p, fields)
        BY <1>2, <1>5, <2>1 DEF Gaps, MissingCode
    <2>3. Patchable(Gap("PP-002", f)) /\ f \in Repair(Gap("PP-002", f))
        BY DEF Patchable, Unpatchable, Gap, Repair
    <2> QED BY <2>2, <2>3 DEF Patched
<1>6. PlanFields \ once = {}
    BY <1>3, <1>5
<1> HIDE DEF once
<1>7. Gaps(p, once) = {}
    BY <1>4, <1>6 DEF Gaps
<1> QED BY <1>7 DEF once

(***************************************************************************)
(* A repaired plan passes if and only if the operator has made the three   *)
(* decisions and there is evidence; the defaults that _generate_patches    *)
(* sets cannot stand in for these, the threshold of readiness decides      *)
(* nothing, and to repair it again would not change the verdict.           *)
(***************************************************************************)
THEOREM OneRepairDecides ==
    ASSUME NEW p, ~EvaluationRaises(p), NEW fields
    PROVE  LET once  == Patched(fields, Gaps(p, fields))
               twice == Patched(once, Gaps(p, once))
           IN  /\ Ready(Gaps(p, once)) <=> OperatorFields \subseteq fields /\ p.evidence # "none"
               /\ Ready(Gaps(p, twice)) <=> Ready(Gaps(p, once))
<1>1. ~p.mismatch
    BY DEF EvaluationRaises
<1>2. ASSUME NEW given
      PROVE  LET once == Patched(given, Gaps(p, given))
             IN  /\ OperatorFields \subseteq once <=> OperatorFields \subseteq given
                 /\ Ready(Gaps(p, once)) <=> OperatorFields \subseteq given /\ p.evidence # "none"
    <2> DEFINE once == Patched(given, Gaps(p, given))
    <2>1. given \subseteq once
        BY DEF Patched
    <2>2. \A o \in OperatorFields : o \in once => o \in given
        BY PatchedAdds
    <2>3. Ready(Gaps(p, once)) => PlanFields \subseteq once /\ p.evidence # "none"
        BY ReadyPlan
    <2>4. OperatorFields \subseteq given /\ p.evidence # "none" => Gaps(p, once) = {}
        BY <1>1, RepairCompletes
    <2>5. OperatorFields \subseteq PlanFields
        BY DEF PlanFields
    <2> HIDE DEF once
    <2>6. Gaps(p, once) = {} => Ready(Gaps(p, once))
        BY ThresholdNeverDecides
    <2>7. /\ OperatorFields \subseteq once <=> OperatorFields \subseteq given
          /\ Ready(Gaps(p, once)) <=> OperatorFields \subseteq given /\ p.evidence # "none"
        BY <2>1, <2>2, <2>3, <2>4, <2>5, <2>6
    <2> QED BY <2>7 DEF once
<1> QED BY <1>2

\* What the plan under judgement has to do with the package.
Judged ==
    /\ phase \in {"snapshot", "scan", "analysis_classification", "statement_output"}
           => plan = package.fields
    /\ phase = "gap_evaluation" =>
        /\ stage = "work" => plan = package.fields
        /\ stage = "second" => /\ ~EvaluationRaises(package)
                               /\ plan = Patched(package.fields, Gaps(package, package.fields))
        /\ stage = "publish" => (draft.verdict = "ready" <=> Supplied)

LEMMA JudgedStep == TypeOK /\ Judged /\ [Next]_vars => Judged'
<1> SUFFICES ASSUME TypeOK, Judged, [Next]_vars PROVE Judged'
    OBVIOUS
<1> USE DEF Judged, Supplied, At, Computes, local, ended
<1>0. ASSUME NEW how, End(how) PROVE Judged'
    BY <1>0 DEF End
<1>1. CASE UNCHANGED vars
    BY <1>1 DEF vars
<1>2. CASE LoadFails
    BY <1>2 DEF LoadFails
<1>3. CASE Start
    BY <1>3 DEF Start
<1>4. CASE Reject
    BY <1>0, <1>4 DEF Reject
<1>5. CASE Prepare
    BY <1>5 DEF Prepare
<1>6. CASE FirstAttempt
    <2>1. ~EvaluationRaises(package) /\ plan = package.fields
        BY <1>6 DEF FirstAttempt, Raises
    <2>2. CASE Ready(Gaps(package, plan))
        <3>1. OperatorFields \subseteq plan /\ package.evidence # "none"
            BY <2>2, ReadyPlan DEF PlanFields
        <3>2. draft'.verdict = "ready" /\ stage' = "publish"
            BY <1>6, <2>2 DEF FirstAttempt, Drafts, Record
        <3> QED BY <1>6, <2>1, <3>1, <3>2 DEF FirstAttempt
    <2>3. CASE ~Ready(Gaps(package, plan))
        BY <1>6, <2>1, <2>3 DEF FirstAttempt
    <2> QED BY <2>2, <2>3
<1>7. CASE SecondAttempt
    <2>1. Ready(Gaps(package, plan)) <=> Supplied
        BY <1>7, OneRepairDecides DEF SecondAttempt
    <2>2. draft'.verdict = (IF Ready(Gaps(package, plan)) THEN "ready" ELSE "handoff")
        BY <1>7 DEF SecondAttempt, Drafts, Record
    <2> QED BY <1>7, <2>1, <2>2 DEF SecondAttempt, Drafts
<1>8. CASE BuildDemo
    BY <1>8 DEF BuildDemo
<1>9. ASSUME NEW f \in Files, CopyFile(f) PROVE Judged'
    BY <1>9 DEF CopyFile
<1>10. ASSUME NEW f \in Files, MissingFile(f) PROVE Judged'
    BY <1>10 DEF MissingFile
<1>11. CASE RecordHash
    BY <1>11 DEF RecordHash
<1>12. CASE HashFails
    BY <1>0, <1>12 DEF HashFails
<1>13. CASE Mutate
    BY <1>13 DEF Mutate, AllCopied
<1>14. CASE Execute
    BY <1>14 DEF Execute
<1>15. CASE Verify
    BY <1>15 DEF Verify
<1>16. CASE CleanSandbox
    BY <1>16 DEF CleanSandbox
<1>17. CASE Publish
    <2>1. CASE Follower(phase, draft.verdict) = "idle"
        BY <1>0, <1>17, <2>1 DEF Publish
    <2>2. CASE Follower(phase, draft.verdict) # "idle"
        <3>1. /\ phase' = Follower(phase, draft.verdict) /\ stage' = "work"
              /\ UNCHANGED <<package, plan>>
            BY <1>17, <2>2 DEF Publish
        <3>2. phase' \in {"snapshot", "scan", "analysis_classification", "statement_output",
                          "gap_evaluation"}
                  => phase \in {"snapshot", "scan", "analysis_classification",
                                "statement_output"}
            BY <3>1 DEF TypeOK, Follower, Phases, Handoffs
        <3> QED BY <1>17, <3>1, <3>2 DEF Publish
    <2> QED BY <2>1, <2>2
<1>18. CASE Break
    BY <1>0, <1>18 DEF Break
<1>19. CASE Kill
    BY <1>0, <1>19 DEF Kill
<1>20. CASE EditTarget
    BY <1>20 DEF EditTarget
<1> QED
    BY <1>1, <1>2, <1>3, <1>4, <1>5, <1>6, <1>7, <1>8, <1>9, <1>10, <1>11, <1>12,
       <1>13, <1>14, <1>15, <1>16, <1>17, <1>18, <1>19, <1>20 DEF Next, Step

(***************************************************************************)
(* Gap evaluation lets a package through exactly when it brings its success*)
(* criteria, boundary, action and evidence: it neither lets one of them    *)
(* pass as a default, nor sends back a plan for anything else.             *)
(***************************************************************************)
THEOREM GateIsExact ==
    Spec => [](phase = "gap_evaluation" /\ stage = "publish"
                  => (draft.verdict = "ready" <=> Supplied))
<1>1. Init => Judged
    BY DEF Init, Judged
<1>2. Judged => (phase = "gap_evaluation" /\ stage = "publish"
                    => (draft.verdict = "ready" <=> Supplied))
    BY DEF Judged
<1> QED BY <1>1, <1>2, TypeCorrect, JudgedStep, PTL DEF Spec

-------------------------------------------------------------------------------

\* Before and after the stages that use it, the sandbox is empty or abandoned.
Sandboxed ==
    phase # "simulation_environment" \/ stage \in {"work", "publish"} =>
        sandbox = EmptySandbox \/ abandoned

LEMMA SandboxedStep == TypeOK /\ Sandboxed /\ [Next]_vars => Sandboxed'
<1> SUFFICES ASSUME TypeOK, Sandboxed, [Next]_vars PROVE Sandboxed'
    OBVIOUS
<1> USE DEF Sandboxed, At, Computes, local, ended
<1>1. CASE UNCHANGED vars
    BY <1>1 DEF vars
<1>2. CASE LoadFails
    BY <1>2 DEF LoadFails
<1>3. CASE Start
    <2>1. sandbox = EmptySandbox \/ abandoned
        BY <1>3 DEF Start
    <2> QED BY <1>3, <2>1 DEF Start
<1>4. CASE Reject
    BY <1>4 DEF Reject
<1>5. CASE Prepare
    BY <1>5 DEF Prepare, Phases, Handoffs
<1>6. CASE FirstAttempt
    BY <1>6 DEF FirstAttempt
<1>7. CASE SecondAttempt
    BY <1>7 DEF SecondAttempt
<1>8. CASE BuildDemo
    BY <1>8 DEF BuildDemo
<1>9. ASSUME NEW f \in Files, CopyFile(f) PROVE Sandboxed'
    BY <1>9 DEF CopyFile
<1>10. ASSUME NEW f \in Files, MissingFile(f) PROVE Sandboxed'
    BY <1>10 DEF MissingFile
<1>11. CASE RecordHash
    BY <1>11 DEF RecordHash
<1>12. CASE HashFails
    BY <1>12 DEF HashFails
<1>13. CASE Mutate
    BY <1>13 DEF Mutate, AllCopied
<1>14. CASE Execute
    BY <1>14 DEF Execute
<1>15. CASE Verify
    BY <1>15 DEF Verify
<1>16. CASE CleanSandbox
    BY <1>16 DEF CleanSandbox
<1>17. CASE Publish
    BY <1>17 DEF Publish, End
<1>18. CASE Break
    <2>1. sandbox = EmptySandbox \/ abandoned \/ stage = "copy"
        BY <1>18 DEF Break
    <2> QED BY <1>18, <2>1 DEF Break
<1>19. CASE Kill
    BY <1>19 DEF Kill
<1>20. CASE EditTarget
    BY <1>20 DEF EditTarget
<1> QED
    BY <1>1, <1>2, <1>3, <1>4, <1>5, <1>6, <1>7, <1>8, <1>9, <1>10, <1>11, <1>12,
       <1>13, <1>14, <1>15, <1>16, <1>17, <1>18, <1>19, <1>20 DEF Next, Step

(***************************************************************************)
(* Whatever ends the simulation, its sandbox is removed, except where the  *)
(* process died, a copy failed or the removal itself did                   *)
(* (cleanup_isolated_environment).                                         *)
(***************************************************************************)
THEOREM SandboxRemovedCorrect == Spec => []SandboxRemoved
<1>1. Init => Sandboxed
    BY DEF Init, Sandboxed
<1>2. Sandboxed => SandboxRemoved
    BY DEF Sandboxed, SandboxRemoved
<1> QED BY <1>1, <1>2, TypeCorrect, SandboxedStep, PTL DEF Spec
-------------------------------------------------------------------------------
(* How far the run reaches whose simulation changed a file *)

\* What inspection reads, and what it lets through.
Inspected ==
    /\ phase = "inspection" => /\ artifact["simulation_environment"].verdict = "completed"
                               /\ stage \in {"work", "publish"}
    /\ \/ phase = "inspection" /\ stage = "publish"
       \/ phase \in {"final_result", "cleanup"}
       \/ Written("inspection")
       => ~SimulationChanged
    /\ RejectedForChanges

\* A write before inspection leaves no inspection of this run, a later one the
\* simulation as it is.
LEMMA WriteKeepsInspected ==
    ASSUME TypeOK, Control, Inspected, phase # "idle", run' = run,
           \/ artifact' = artifact
           \/ stage \in {"clean", "publish"} /\ Interrupted
    PROVE  /\ Written("inspection")' => ~SimulationChanged'
           /\ phase # "simulation_environment" =>
                  artifact'["simulation_environment"] = artifact["simulation_environment"]
<1>1. CASE artifact' = artifact
    BY <1>1 DEF Inspected, Written, SimulationChanged
<1>2. ASSUME stage \in {"clean", "publish"}, NEW d, artifact' = [artifact EXCEPT ![phase] = d]
      PROVE  /\ Written("inspection")' => ~SimulationChanged'
             /\ phase # "simulation_environment" =>
                    artifact'["simulation_environment"] = artifact["simulation_environment"]
    <2>1. \A a \in Phases \cup Handoffs : a # phase => artifact'[a] = artifact[a]
        BY <1>2 DEF TypeOK
    <2>2. {"inspection", "simulation_environment"} \subseteq Phases \cup Handoffs
        BY DEF Phases
    <2>3. CASE phase = "simulation_environment"
        <3>1. artifact["inspection"].run # run
            BY <2>2, <2>3 DEF Control, Progress, Past
        <3> QED BY <2>1, <2>2, <2>3, <3>1 DEF Written
    <2>4. CASE phase = "inspection"
        BY <1>2, <2>1, <2>2, <2>4 DEF Inspected, SimulationChanged
    <2>5. CASE phase \notin {"simulation_environment", "inspection"}
        BY <2>1, <2>2, <2>5 DEF Inspected, Written, SimulationChanged
    <2> QED BY <2>3, <2>4, <2>5
<1> QED BY <1>1, <1>2 DEF Interrupted

LEMMA InspectedStep ==
    TypeOK /\ Control /\ CopyingHere /\ Inspected /\ [Next]_vars => Inspected'
<1> SUFFICES ASSUME TypeOK, Control, CopyingHere, Inspected, [Next]_vars PROVE Inspected'
    OBVIOUS
<1>0. phase # "idle" => exit = "none"
    BY DEF Control, Progress
<1>1. CASE UNCHANGED vars \/ LoadFails \/ EditTarget
    BY <1>1 DEF vars, local, ended, LoadFails, EditTarget, Inspected, RejectedForChanges,
                SimulationChanged, Written
<1>2. CASE Start
    <2>1. /\ phase' = "snapshot" /\ exit' = "none" /\ artifact' = artifact /\ run' = run + 1
        BY <1>2 DEF Start
    <2>2. artifact["inspection"].run <= run /\ run \in Nat
        BY DEF Control, Progress, Phases, TypeOK
    <2>3. artifact["inspection"].run \in Nat
        BY DEF TypeOK, ArtifactType, Phases
    <2> QED BY <2>1, <2>2, <2>3 DEF Inspected, RejectedForChanges, Written
<1>3. ASSUME phase # "idle", NEW how, End(how),
             \/ artifact' = artifact
             \/ stage \in {"clean", "publish"} /\ Interrupted,
             how = "rejected" /\ phase = "inspection" =>
                 artifact' = artifact /\ SimulationChanged
      PROVE  Inspected'
    <2>1. phase' = "idle" /\ exit' = how /\ last' = phase /\ run' = run
        BY <1>3 DEF End
    <2>2. Written("inspection")' => ~SimulationChanged'
        BY <1>3, <2>1, WriteKeepsInspected
    <2>3. RejectedForChanges'
        <3> SUFFICES ASSUME how = "rejected", phase = "inspection"
                     PROVE  RejectedForChanges'
            BY <2>1 DEF RejectedForChanges
        <3>1. Written("simulation_environment")
            BY DEF Control, Progress, Past
        <3> QED BY <1>3, <2>1, <3>1 DEF RejectedForChanges, Inspected, SimulationChanged, Written
    <2> QED BY <2>1, <2>2, <2>3 DEF Inspected
<1>4. CASE Reject
    <2>1. ASSUME phase = "inspection" PROVE SimulationChanged
        <3>1. artifact["simulation_environment"].verdict = "completed"
            BY <2>1 DEF Inspected
        <3>2. phase \in DOMAIN Source => artifact[Source[phase]].whole
            BY <1>4, SourceIsPast DEF Control, Progress, Written, Reject
        <3> QED BY <1>4, <2>1, <3>1, <3>2 DEF Reject, Raises, SimulationChanged
    <2> QED BY <1>3, <1>4, <2>1 DEF Reject
<1>5. CASE HashFails
    <2>1. phase = "simulation_environment"
        BY <1>5 DEF HashFails, CopyingHere, At
    <2> QED BY <1>3, <1>5, <2>1 DEF HashFails
<1>6. CASE Break \/ Kill
    BY <1>3, <1>6 DEF Break, Kill
<1>7. CASE Prepare
    <2>1. phase = "inspection" => ~SimulationChanged
        BY <1>7 DEF Prepare, Raises, SimulationChanged
    <2> QED BY <1>7, <2>1, <1>0 DEF Prepare, Drafts, Computes, ended, Inspected,
                                    RejectedForChanges, SimulationChanged, Written
<1>8. ASSUME phase # "inspection", UNCHANGED <<phase, artifact, run, exit, last>>
      PROVE  Inspected'
    BY <1>8 DEF Inspected, RejectedForChanges, SimulationChanged, Written
<1>9. CASE FirstAttempt \/ SecondAttempt \/ BuildDemo \/ Verify
    BY <1>8, <1>9 DEF FirstAttempt, SecondAttempt, BuildDemo, Verify, Computes, ended, At
<1>10. CASE (\E f \in Files : CopyFile(f) \/ MissingFile(f)) \/ RecordHash
    BY <1>8, <1>10 DEF CopyFile, MissingFile, RecordHash, Computes, ended, At, CopyingHere
<1>11. CASE Mutate \/ Execute \/ CleanSandbox
    BY <1>8, <1>11 DEF Mutate, AllCopied, Execute, CleanSandbox, ended, At
<1>12. CASE Publish
    <2> DEFINE next == Follower(phase, draft.verdict)
    <2>1. /\ phase # "idle" /\ stage = "publish" /\ run' = run
          /\ artifact' = [artifact EXCEPT ![phase] = draft]
        BY <1>12 DEF Publish, End
    <2>2. CASE next = "idle"
        <3>1. End("ok")
            BY <1>12, <2>2 DEF Publish
        <3> QED BY <1>3, <2>1, <3>1 DEF Interrupted
    <2>3. CASE next # "idle"
        <3>1. phase' = next /\ stage' = "work" /\ exit' = "none"
            BY <1>0, <1>12, <2>1, <2>3 DEF Publish, ended
        <3>2. /\ Written("inspection")' => ~SimulationChanged'
              /\ phase # "simulation_environment" =>
                     artifact'["simulation_environment"] = artifact["simulation_environment"]
            BY <2>1, WriteKeepsInspected DEF Interrupted
        <3>3. next = "inspection" => phase = "simulation_environment" /\ draft.verdict = "completed"
            BY DEF Follower
        <3>4. phase = "simulation_environment" => artifact'["simulation_environment"] = draft
            BY <2>1 DEF TypeOK, Phases
        <3>5. next \in {"final_result", "cleanup"} => phase \in {"inspection", "final_result"}
            BY DEF Follower
        <3> HIDE DEF next
        <3> QED BY <2>1, <3>1, <3>2, <3>3, <3>4, <3>5
                DEF Inspected, RejectedForChanges, SimulationChanged
    <2> QED BY <2>2, <2>3
<1> QED
    BY <1>1, <1>2, <1>4, <1>5, <1>6, <1>7, <1>9, <1>10, <1>11, <1>12 DEF Next, Step

LEMMA InspectedCorrect == Spec => []Inspected
<1>1. Init => Inspected
    BY DEF Init, Inspected, RejectedForChanges, NoArtifact, SimulationChanged, Written, Phases
<1> QED BY <1>1, TypeCorrect, ControlCorrect, CopyingCorrect, InspectedStep, PTL DEF Spec

(***************************************************************************)
(* Inspection raises for a simulation that changed a file, and for no other*)
(* (run_inspection): a run rejected there had completed such a simulation, *)
(* and a run that has one never writes an inspection, hence never returns 0*)
(* with a report.                                                          *)
(***************************************************************************)
THEOREM ChangesStopThere == Spec => []InspectionStopsAtChanges
<1>1. Inspected => InspectionStopsAtChanges
    BY DEF Inspected, InspectionStopsAtChanges
<1> QED BY <1>1, InspectedCorrect, PTL

\* Without corrections, a completed simulation has changed nothing.
NothingChanged ==
    /\ draft.verdict = "completed" => draft.changed = {}
    /\ artifact["simulation_environment"].verdict = "completed" => ~SimulationChanged

LEMMA NothingChangedStep ==
    ASSUME \A p \in Packages : DOMAIN p.corrections = {},
           TypeOK, NothingChanged, [Next]_vars
    PROVE  NothingChanged'
<1> USE DEF NothingChanged, SimulationChanged, Computes, local, ended, At
<1>1. ASSUME UNCHANGED artifact \/ Interrupted, phase # "idle"
      PROVE  artifact'["simulation_environment"].verdict = "completed" => ~SimulationChanged'
    <2>1. ASSUME NEW d \in {draft, [draft EXCEPT !.whole = FALSE]},
                 artifact' = [artifact EXCEPT ![phase] = d]
          PROVE  artifact'["simulation_environment"].verdict = "completed" => ~SimulationChanged'
        <3>1. d.verdict = draft.verdict /\ d.changed = draft.changed
            BY <2>1 DEF TypeOK, ArtifactType
        <3>2. artifact'["simulation_environment"] \in {artifact["simulation_environment"], d}
            BY <2>1 DEF TypeOK, Phases
        <3> QED BY <3>1, <3>2
    <2> QED BY <1>1, <2>1 DEF Interrupted
<1>2. ASSUME NEW how, End(how) PROVE draft'.verdict = "none"
    BY <1>2 DEF End, NoArtifact
<1>3. CASE UNCHANGED vars \/ LoadFails \/ Start \/ EditTarget
    BY <1>3 DEF vars, LoadFails, Start, EditTarget
<1>4. CASE Reject \/ HashFails
    BY <1>2, <1>4 DEF Reject, HashFails
<1>5. CASE Break \/ Kill
    BY <1>1, <1>2, <1>5 DEF Break, Kill
<1>6. CASE Prepare \/ FirstAttempt \/ SecondAttempt \/ BuildDemo
    BY <1>6 DEF Prepare, FirstAttempt, SecondAttempt, BuildDemo, Drafts, Record
<1>7. CASE (\E f \in Files : CopyFile(f) \/ MissingFile(f)) \/ RecordHash
    BY <1>7 DEF CopyFile, MissingFile, RecordHash, Drafts, Record
<1>8. CASE Mutate \/ Execute \/ CleanSandbox
    BY <1>8 DEF Mutate, Execute, CleanSandbox, Record
<1>9. CASE Verify
    <2>1. DOMAIN package.corrections = {}
        BY DEF TypeOK, NoPackage
    <2>2. Verified(package, demo, hashes, sandbox.files, changed) => changed = {}
        BY <2>1 DEF Verified
    <2> QED BY <1>9, <2>2 DEF Verify, Record
<1>10. CASE Publish
    <2>1. Interrupted /\ phase # "idle"
        BY <1>10 DEF Publish, Interrupted
    <2>2. draft' = draft \/ draft'.verdict = "none"
        BY <1>2, <1>10 DEF Publish
    <2> QED BY <1>1, <2>1, <2>2
<1> QED
    BY <1>3, <1>4, <1>5, <1>6, <1>7, <1>8, <1>9, <1>10 DEF Next, Step

\* Inspection leads "only to final_result, whether success or failure".
InspectionRoutes == ~(exit = "rejected" /\ last = "inspection")

(***************************************************************************)
(* With packages that correct nothing, inspection routes as its docstring  *)
(* says (inspection/runner.py:57): only a package that corrects a file can *)
(* end a run there.                                                        *)
(***************************************************************************)
THEOREM UncorrectedRunsAreRouted ==
    (\A p \in Packages : DOMAIN p.corrections = {}) /\ Spec => []InspectionRoutes
<1> DEFINE Uncorrected == \A p \in Packages : DOMAIN p.corrections = {}
<1>1. Init => NothingChanged
    BY DEF Init, NothingChanged, NoArtifact, SimulationChanged, Phases
<1>2. Uncorrected /\ TypeOK /\ NothingChanged /\ [Next]_vars => NothingChanged'
    BY NothingChangedStep
<1>3. NothingChanged /\ InspectionStopsAtChanges => InspectionRoutes
    BY DEF NothingChanged, InspectionStopsAtChanges, RejectedForChanges, InspectionRoutes
<1>4. Uncorrected => Uncorrected'
    OBVIOUS
<1> HIDE DEF Uncorrected
<1>5. Uncorrected /\ Spec => []NothingChanged
    BY <1>1, <1>2, <1>4, TypeCorrect, PTL DEF Spec
<1>6. Uncorrected /\ Spec => []InspectionRoutes
    BY <1>3, <1>5, ChangesStopThere, PTL
<1> QED BY <1>6 DEF Uncorrected
-------------------------------------------------------------------------------
(* Sandboxes that hold what they should *)

\* Unless a sandbox was left behind, only required files are copied into it.
CopiesOnlyRequired ==
    phase = "simulation_environment" /\ stage = "copy" =>
        abandoned \/ Present(sandbox.files) \subseteq demo

LEMMA CopiesStep ==
    ASSUME TypeOK, CopyingHere, Sandboxed, CopiesOnlyRequired, [Next]_vars
    PROVE  CopiesOnlyRequired'
<1> USE DEF CopiesOnlyRequired, Computes, local, ended, At
<1>1. CASE UNCHANGED vars \/ LoadFails \/ Start \/ EditTarget
    BY <1>1 DEF vars, LoadFails, Start, EditTarget
<1>2. CASE Reject \/ HashFails \/ Break \/ Kill \/ Publish
    BY <1>2 DEF Reject, HashFails, Break, Kill, Publish, End
<1>3. CASE Prepare \/ FirstAttempt \/ SecondAttempt \/ Verify
    BY <1>3 DEF Prepare, FirstAttempt, SecondAttempt, Verify, Drafts
<1>4. CASE BuildDemo
    <2>1. abandoned \/ Present(sandbox.files) = {}
        BY <1>4 DEF BuildDemo, Sandboxed, EmptySandbox, Present
    <2> QED BY <1>4, <2>1 DEF BuildDemo, Drafts
<1>5. ASSUME NEW f \in Files, CopyFile(f) PROVE CopiesOnlyRequired'
    <2>1. Present(sandbox'.files) \subseteq Present(sandbox.files) \cup {f}
        BY <1>5 DEF CopyFile, CopiedInto, Present, TypeOK
    <2> QED BY <1>5, <2>1 DEF CopyFile
<1>6. CASE (\E f \in Files : MissingFile(f)) \/ RecordHash
    BY <1>6 DEF MissingFile, RecordHash, Drafts, CopyingHere
<1>7. CASE Mutate \/ Execute \/ CleanSandbox
    BY <1>7 DEF Mutate, Execute, CleanSandbox
<1> QED
    BY <1>1, <1>2, <1>3, <1>4, <1>5, <1>6, <1>7 DEF Next, Step

(***************************************************************************)
(* A sandbox holds only required files, as create_isolated_environment     *)
(* says (isolation.py:83), unless an earlier simulation left its own behind*)
(* by dying, by failing to copy a file or to remove the directory.         *)
(***************************************************************************)
THEOREM LeftoversTheorem == Spec => []OnlyLeftoversSpoil
<1>1. Init => Sandboxed /\ CopiesOnlyRequired
    BY DEF Init, Sandboxed, CopiesOnlyRequired
<1>2. CopiesOnlyRequired => OnlyLeftoversSpoil
    BY DEF CopiesOnlyRequired, OnlyLeftoversSpoil, SandboxHoldsOnlyRequired, AllCopied, At
<1> QED BY <1>1, <1>2, TypeCorrect, CopyingCorrect, SandboxedStep, CopiesStep, PTL DEF Spec
-------------------------------------------------------------------------------
(* How long a run can last *)

\* The phases that may follow the present one, at most.
PhasesAhead ==
    [snapshot |-> 8, scan |-> 7, analysis_classification |-> 6, statement_output |-> 5,
     gap_evaluation |-> 4, simulation_environment |-> 3, inspection |-> 2,
     final_result |-> 1, cleanup |-> 0, gap_handoff |-> 0, simulation_handoff |-> 0]

Uncopied == {f \in demo : hashes[f] = "absent"}

\* The steps of the longest phase: the simulation copies and hashes every file.
PhaseSteps == 2 * Cardinality(Files) + 6

StageSteps ==
    CASE stage = "work"    -> PhaseSteps
      [] stage = "copy"    -> 2 * Cardinality(Uncopied) + (IF copying = NoFile THEN 5 ELSE 4)
      [] stage = "execute" -> 4
      [] stage = "verify"  -> 3
      [] stage \in {"clean", "second"} -> 2
      [] stage = "publish" -> 1

StepsLeft == IF phase = "idle" THEN 0 ELSE PhasesAhead[phase] * PhaseSteps + StageSteps

\* What the loop over the files of the demo has left to do.
CopyLoop == copying # NoFile => copying \in Uncopied

LEMMA CopyLoopStep == TypeOK /\ CopyingHere /\ CopyLoop /\ [Next]_vars => CopyLoop'
<1> SUFFICES ASSUME TypeOK, CopyingHere, CopyLoop, [Next]_vars PROVE CopyLoop'
    OBVIOUS
<1> USE DEF CopyLoop, Uncopied, CopyingHere, At, Computes, local, ended
<1>0. ASSUME NEW how, End(how) PROVE CopyLoop'
    BY <1>0 DEF End
<1>1. CASE UNCHANGED vars \/ LoadFails \/ EditTarget
    BY <1>1 DEF vars, LoadFails, EditTarget
<1>2. CASE Reject \/ HashFails \/ Break \/ Kill
    BY <1>0, <1>2 DEF Reject, HashFails, Break, Kill
<1>3. CASE Start \/ Prepare \/ FirstAttempt \/ SecondAttempt \/ BuildDemo
    BY <1>3 DEF Start, Prepare, FirstAttempt, SecondAttempt, BuildDemo
<1>4. CASE (\E f \in Files : CopyFile(f) \/ MissingFile(f)) \/ RecordHash
    BY <1>4 DEF CopyFile, MissingFile, RecordHash
<1>5. CASE Mutate \/ Execute \/ Verify \/ CleanSandbox
    BY <1>5 DEF Mutate, AllCopied, Execute, Verify, CleanSandbox
<1>6. CASE Publish
    BY <1>0, <1>6 DEF Publish
<1> QED BY <1>1, <1>2, <1>3, <1>4, <1>5, <1>6 DEF Next, Step

LEMMA UncopiedFinite ==
    ASSUME TypeOK
    PROVE  /\ IsFiniteSet(Uncopied)
           /\ Cardinality(Uncopied) \in 0..Cardinality(Files)
           /\ Cardinality(Files) \in Nat
<1>1. Uncopied \in SUBSET Files
    BY DEF TypeOK, Uncopied
<1>2. IsFiniteSet(Files)
    BY FileAssumption
<1>3. /\ IsFiniteSet(Uncopied) /\ Cardinality(Uncopied) <= Cardinality(Files)
      /\ Cardinality(Files) \in Nat
    BY <1>1, <1>2, FS_Subset, FS_CardinalityType
<1>4. Cardinality(Uncopied) \in Nat
    BY <1>3, FS_CardinalityType
<1> QED BY <1>3, <1>4

LEMMA StageStepsBounded ==
    ASSUME TypeOK
    PROVE  PhaseSteps \in Nat /\ StageSteps \in 1..PhaseSteps
<1> DEFINE n == Cardinality(Files)
           k == Cardinality(Uncopied)
<1>1. n \in Nat /\ k \in 0..n
    BY UncopiedFinite
<1>2. PhaseSteps = 2 * n + 6
    BY DEF PhaseSteps
<1>3. stage \in Stages
    BY DEF TypeOK
<1>4. CASE stage = "copy"
    <2>1. StageSteps = 2 * k + (IF copying = NoFile THEN 5 ELSE 4)
        BY <1>4 DEF StageSteps
    <2> HIDE DEF n, k
    <2> QED BY <1>1, <1>2, <2>1
<1>5. CASE stage # "copy"
    <2>1. StageSteps \in {PhaseSteps, 4, 3, 2, 1}
        BY <1>3, <1>5 DEF StageSteps, Stages
    <2> HIDE DEF n, k
    <2> QED BY <1>1, <1>2, <2>1
<1> QED BY <1>4, <1>5

\* A phase less is worth more than the steps of any phase.
LEMMA PhaseCounts ==
    ASSUME NEW i \in 0..8, NEW j \in 0..8, i < j, NEW w \in Nat
    PROVE  i * w + w <= j * w
<1>1. PICK k \in 0..7 : j = i + 1 + k
    <2>1. j - i - 1 \in 0..7 /\ j = i + 1 + (j - i - 1)
        OBVIOUS
    <2> QED BY <2>1
<1>2. j * w = i * w + w + k * w
    BY <1>1
<1>3. k * w >= 0 /\ k * w \in Int /\ i * w \in Int
    OBVIOUS
<1> QED BY <1>2, <1>3

LEMMA StepsLeftBounded ==
    ASSUME TypeOK
    PROVE  /\ StepsLeft \in 0..(9 * PhaseSteps)
           /\ phase # "idle" =>
                PhasesAhead[phase] \in 0..8 /\ PhasesAhead[phase] * PhaseSteps \in Nat
<1>1. PhaseSteps \in Nat /\ StageSteps \in 1..PhaseSteps
    BY StageStepsBounded
<1>2. CASE phase = "idle"
    BY <1>1, <1>2 DEF StepsLeft
<1>3. CASE phase # "idle"
    <2>1. PhasesAhead[phase] \in 0..8
        BY <1>3 DEF TypeOK, Phases, Handoffs, PhasesAhead
    <2> DEFINE p == PhasesAhead[phase]
    <2>2. StepsLeft = p * PhaseSteps + StageSteps
        BY <1>3 DEF StepsLeft
    <2> HIDE DEF p
    <2>3. p * PhaseSteps <= 8 * PhaseSteps /\ p * PhaseSteps \in Nat
        <3>1. p \in 0..8
            BY <2>1 DEF p
        <3>2. CASE p = 8
            BY <1>1, <3>2
        <3>3. CASE p < 8
            <4>1. p * PhaseSteps + PhaseSteps <= 8 * PhaseSteps /\ p * PhaseSteps \in Nat
                BY <1>1, <3>1, <3>3, PhaseCounts
            <4> QED BY <1>1, <4>1
        <3> QED BY <3>1, <3>2, <3>3
    <2>4. StepsLeft \in 0..(9 * PhaseSteps)
        BY <1>1, <2>2, <2>3
    <2> QED BY <1>3, <2>1, <2>3, <2>4 DEF p
<1> QED BY <1>2, <1>3

\* Within a phase, the next stage is nearer to its end.
LEMMA StageAdvances ==
    ASSUME TypeOK, phase # "idle", phase' = phase,
           StageSteps' \in Nat, StageSteps' < StageSteps
    PROVE  StepsLeft' < StepsLeft
<1> DEFINE ahead == PhasesAhead[phase] * PhaseSteps
<1>1. ahead \in Nat /\ PhaseSteps \in Nat /\ StageSteps \in 1..PhaseSteps
    BY StepsLeftBounded, StageStepsBounded
<1>2. StepsLeft = ahead + StageSteps /\ StepsLeft' = ahead + StageSteps'
    BY DEF StepsLeft, PhaseSteps
<1>3. ASSUME NEW i \in Nat, NEW j \in Nat, NEW k \in Nat, j < k PROVE i + j < i + k
    BY <1>3
<1> HIDE DEF ahead
<1>4. StageSteps \in Nat
    BY <1>1
<1>5. ahead + StageSteps' < ahead + StageSteps
    BY <1>1, <1>3, <1>4
<1> QED BY <1>2, <1>5

\* The steps of the simulation bring it nearer to its end, file by file.
LEMMA CopyAdvances ==
    ASSUME TypeOK, CopyingHere, CopyLoop,
           \/ BuildDemo \/ (\E f \in Files : CopyFile(f) \/ MissingFile(f))
           \/ RecordHash \/ Mutate
    PROVE  phase # "idle" /\ phase' = phase /\ StageSteps' \in Nat /\ StageSteps' < StageSteps
<1> DEFINE n == Cardinality(Files)
           k == Cardinality(Uncopied)
           m == Cardinality(Uncopied')
<1> USE DEF CopyingHere, At, Computes
<1>1. n \in Nat /\ k \in 0..n /\ IsFiniteSet(Uncopied) /\ IsFiniteSet(Files)
    BY UncopiedFinite, FileAssumption
<1>2. /\ PhaseSteps = 2 * n + 6
      /\ stage = "work" => StageSteps = 2 * n + 6
      /\ stage = "copy" => StageSteps = 2 * k + (IF copying = NoFile THEN 5 ELSE 4)
      /\ stage' = "copy" => StageSteps' = 2 * m + (IF copying' = NoFile THEN 5 ELSE 4)
      /\ stage' \in {"publish", "clean", "execute"} => StageSteps' \in 1..4
    BY DEF StageSteps, PhaseSteps
<1>3. CASE BuildDemo
    <2>1. phase' = phase /\ phase # "idle" /\ stage = "work" /\ copying = NoFile /\ copying' = NoFile
        BY <1>3 DEF BuildDemo
    <2>2. stage' = "publish" \/ (stage' = "copy" /\ Uncopied' \in SUBSET Files)
        BY <1>3 DEF BuildDemo, Drafts, Uncopied, DemoFiles, Present
    <2>3. Uncopied' \in SUBSET Files => m \in 0..n
        <3>1. Uncopied' \in SUBSET Files => m <= n /\ IsFiniteSet(Uncopied')
            BY <1>1, FS_Subset
        <3>2. IsFiniteSet(Uncopied') => m \in Nat
            BY FS_CardinalityType
        <3> HIDE DEF n, m
        <3> QED BY <1>1, <3>1, <3>2
    <2> HIDE DEF n, k, m
    <2> QED BY <1>1, <1>2, <2>1, <2>2, <2>3
<1>4. ASSUME NEW f \in Files, CopyFile(f)
      PROVE  phase # "idle" /\ phase' = phase /\ StageSteps' \in Nat /\ StageSteps' < StageSteps
    <2>1. /\ phase' = phase /\ phase # "idle" /\ stage = "copy" /\ stage' = "copy"
          /\ copying = NoFile /\ copying' # NoFile
        BY <1>4, FileAssumption DEF CopyFile
    <2>2. m = k
        BY <1>4 DEF CopyFile, Uncopied
    <2> HIDE DEF n, k, m
    <2> QED BY <1>1, <1>2, <2>1, <2>2
<1>5. ASSUME NEW f \in Files, MissingFile(f)
      PROVE  phase # "idle" /\ phase' = phase /\ StageSteps' \in Nat /\ StageSteps' < StageSteps
    <2>1. /\ phase' = phase /\ phase # "idle" /\ stage = "copy" /\ stage' = "publish"
          /\ copying = NoFile
        BY <1>5 DEF MissingFile, Drafts
    <2> HIDE DEF n, k, m
    <2> QED BY <1>1, <1>2, <2>1
<1>6. CASE RecordHash
    <2>1. /\ phase' = phase /\ phase # "idle" /\ stage = "copy" /\ stage' = "copy"
          /\ copying # NoFile /\ copying' = NoFile /\ copying \in Uncopied
        BY <1>6 DEF RecordHash, CopyLoop
    <2>2. Uncopied' = Uncopied \ {copying}
        BY <1>6, <2>1 DEF RecordHash, Uncopied, TypeOK
    <2>3. m = k - 1 /\ m \in Nat
        <3>1. m = k - 1 /\ IsFiniteSet(Uncopied')
            BY <1>1, <2>1, <2>2, FS_RemoveElement
        <3> QED BY <3>1, FS_CardinalityType
    <2> HIDE DEF n, k, m
    <2> QED BY <1>1, <1>2, <2>1, <2>3
<1>7. CASE Mutate
    <2>1. /\ phase' = phase /\ phase # "idle" /\ stage = "copy"
          /\ stage' \in {"execute", "clean"} /\ copying = NoFile
        BY <1>7 DEF Mutate, AllCopied
    <2> HIDE DEF n, k, m
    <2> QED BY <1>1, <1>2, <2>1
<1> QED BY <1>3, <1>4, <1>5, <1>6, <1>7

\* Publishing costs a phase, and gains at most the steps of one.
LEMMA PublishAdvances ==
    ASSUME TypeOK, Publish
    PROVE  StepsLeft' < StepsLeft
<1> DEFINE next == Follower(phase, draft.verdict)
           p == PhasesAhead[phase]
           q == PhasesAhead[next]
<1>1. /\ phase # "idle" /\ p \in 0..8 /\ p * PhaseSteps \in Nat
      /\ PhaseSteps \in Nat /\ StepsLeft = p * PhaseSteps + StageSteps /\ StageSteps = 1
    BY StepsLeftBounded, StageStepsBounded DEF Publish, StepsLeft, StageSteps
<1>2. CASE next = "idle"
    <2>1. StepsLeft' = 0
        BY <1>2 DEF Publish, End, StepsLeft
    <2> HIDE DEF p
    <2> QED BY <1>1, <2>1
<1>3. CASE next # "idle"
    <2>1. phase' = next /\ stage' = "work"
        BY <1>3 DEF Publish
    <2>2. q \in 0..8 /\ q < p
        BY <1>1, <1>3 DEF TypeOK, Follower, PhasesAhead, Phases, Handoffs
    <2>3. StepsLeft' = q * PhaseSteps + PhaseSteps
        BY <1>3, <2>1 DEF StepsLeft, StageSteps, PhaseSteps
    <2> HIDE DEF p, q
    <2>4. q * PhaseSteps + PhaseSteps <= p * PhaseSteps
        BY <1>1, <2>2, PhaseCounts
    <2>5. q * PhaseSteps + PhaseSteps \in Nat
        BY <1>1, <2>2
    <2> QED BY <1>1, <2>3, <2>4, <2>5
<1> QED BY <1>2, <1>3

LEMMA EveryStepCounts ==
    TypeOK /\ CopyingHere /\ CopyLoop /\ [Next]_vars =>
        [phase # "idle" => \/ StepsLeft' < StepsLeft
                           \/ StepsLeft' = StepsLeft /\ edits' = edits + 1]_vars
<1> SUFFICES ASSUME TypeOK, CopyingHere, CopyLoop, Next, phase # "idle"
             PROVE  StepsLeft' < StepsLeft \/ (StepsLeft' = StepsLeft /\ edits' = edits + 1)
    OBVIOUS
<1>1. CASE Reject \/ HashFails \/ Break \/ Kill
    <2>1. StepsLeft' = 0
        BY <1>1 DEF Reject, HashFails, Break, Kill, End, StepsLeft
    <2>2. PhasesAhead[phase] * PhaseSteps \in Nat
        BY StepsLeftBounded
    <2>3. StepsLeft = PhasesAhead[phase] * PhaseSteps + StageSteps
        BY DEF StepsLeft
    <2>4. PhaseSteps \in Nat /\ StageSteps \in 1..PhaseSteps
        BY StageStepsBounded
    <2>5. StepsLeft > 0
        <3> DEFINE ahead == PhasesAhead[phase] * PhaseSteps
        <3> HIDE DEF ahead
        <3> QED BY <2>2, <2>3, <2>4 DEF ahead
    <2> QED BY <2>1, <2>5
<1>2. CASE Prepare \/ FirstAttempt \/ SecondAttempt \/ Execute \/ Verify \/ CleanSandbox
    <2>1. /\ phase' = phase
          /\ \/ stage = "work" /\ stage' \in {"second", "publish"}
             \/ stage = "second" /\ stage' = "publish"
             \/ stage = "execute" /\ stage' = "verify"
             \/ stage = "verify" /\ stage' = "clean"
             \/ stage = "clean" /\ stage' = "publish"
        BY <1>2 DEF Prepare, FirstAttempt, SecondAttempt, Execute, Verify, CleanSandbox,
                    At, Drafts, Computes
    <2>2. PhaseSteps \in Nat /\ PhaseSteps >= 6
        <3>1. Cardinality(Files) \in Nat
            BY UncopiedFinite
        <3> QED BY <3>1 DEF PhaseSteps
    <2>3. StageSteps' \in Nat /\ StageSteps' < StageSteps
        BY <2>1, <2>2 DEF StageSteps
    <2> QED BY <2>1, <2>3, StageAdvances
<1>3. CASE \/ BuildDemo \/ (\E f \in Files : CopyFile(f) \/ MissingFile(f))
           \/ RecordHash \/ Mutate
    BY <1>3, CopyAdvances, StageAdvances
<1>4. CASE Publish
    BY <1>4, PublishAdvances
<1>5. CASE EditTarget
    <2>1. /\ UNCHANGED <<phase, stage, demo, hashes, copying>> /\ edits' = edits + 1
        BY <1>5 DEF EditTarget, local
    <2> QED BY <2>1 DEF StepsLeft, StageSteps, PhaseSteps, Uncopied
<1>6. ~LoadFails /\ ~Start
    BY DEF LoadFails, Start
<1> QED BY <1>1, <1>2, <1>3, <1>4, <1>5, <1>6 DEF Next, Step

(***************************************************************************)
(* A run of run_pipeline ends after at most nine times as many steps as    *)
(* copying and hashing every file of the target takes, and a few: each of  *)
(* its steps brings it nearer to its end, however the phases turn out, and *)
(* a change of the target sets it back by nothing.                         *)
(***************************************************************************)
THEOREM RunIsFinite ==
    Spec => /\ [](StepsLeft \in 0..(9 * PhaseSteps))
            /\ [][phase # "idle" => \/ StepsLeft' < StepsLeft
                                    \/ StepsLeft' = StepsLeft /\ edits' = edits + 1]_vars
<1>1. Init => CopyLoop
    BY DEF Init, CopyLoop
<1>2. TypeOK => StepsLeft \in 0..(9 * PhaseSteps)
    BY StepsLeftBounded
<1> QED BY <1>1, <1>2, CopyLoopStep, EveryStepCounts, TypeCorrect, CopyingCorrect, PTL
        DEF Spec
=============================================================================
