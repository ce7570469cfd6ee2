----------------------------- MODULE SandboxFiles -----------------------------
(***************************************************************************)
(* What the simulation does to the files of its sandbox                    *)
(* (src/backend/phases/simulation_environment/{demo,execution,             *)
(* verification,mutation_boundary}.py).  A sandbox has the content of every*)
(* file and the directories of nested files that exist in it.              *)
(***************************************************************************)
EXTENDS GapEvaluation

CONSTANTS
    Files,          \* relative paths in the target and in the sandbox
    Nested,         \* those in a directory of their own
    Entry,          \* the entrypoint found when none is named (main.py)
    DefaultFiles    \* files required when the plan names none

ASSUME FileAssumption ==
    /\ IsFiniteSet(Files)
    /\ Nested \subseteq Files /\ DefaultFiles \subseteq Files
    /\ Entry \in Files /\ NoFile \notin Files

TargetContents == {"absent", "original", "edited"}
Contents == TargetContents \cup {"patched", "corrected", "replaced", "blank", "other"}

Present(files) == {f \in Files : files[f] # "absent"}

EmptySandbox == [files |-> [f \in Files |-> "absent"], dirs |-> {}]

\* build_demo: the required files that exist in the target, and the entrypoint.
DemoFiles(p, target) ==
    (IF p.required = {} THEN DefaultFiles ELSE p.required) \cap Present(target)

DemoBuilds(p, files) == files # {} /\ p.entry \in files \cup {NoFile}

EntryPoint(p, files) ==
    IF p.entry # NoFile THEN p.entry ELSE IF Entry \in files THEN Entry ELSE NoFile

\* shutil.copy2 after mkdir(parents).
CopiedInto(box, f, content) ==
    [files |-> [box.files EXCEPT ![f] = content], dirs |-> box.dirs \cup ({f} \cap Nested)]

\* The patch of the plan, which makes the directories it needs.  A plan with
\* two patches does not get through gap evaluation.
PatchApplies(p, box) ==
    p.patches # <<>>
    /\ (Head(p.patches).type = "delete" => Head(p.patches).file \in Present(box.files))

WithPatch(p, box) ==
    LET patch == Head(p.patches)
    IN  IF ~PatchApplies(p, box) THEN box
        ELSE IF patch.type = "delete"
             THEN [box EXCEPT !.files[patch.file] = "absent"]
             ELSE CopiedInto(box, patch.file, "patched")

\* A correction writes a file whose directory exists, or reads an existing one
\* back ("keep": it has neither content nor replacement).  Otherwise it raises,
\* which is recorded as a structured error and has no further effect.
CorrectionApplies(p, box, f) ==
    CASE p.corrections[f] = "keep" -> f \in Present(box.files)
      [] OTHER -> f \in Nested => f \in box.dirs

Corrected(kind, old) ==
    CASE kind = "content" -> "corrected"
      [] kind = "replace" -> IF old = "absent" THEN "blank" ELSE "replaced"
      [] OTHER -> old

Applied(p, box) ==
    {f \in DOMAIN p.corrections : CorrectionApplies(p, WithPatch(p, box), f)}

\* apply_package_plan_corrections: patches, then corrections.
Mutated(p, box) ==
    LET b == WithPatch(p, box)
    IN  [b EXCEPT !.files =
            [f \in Files |-> IF f \in Applied(p, box)
                             THEN Corrected(p.corrections[f], @[f]) ELSE @[f]]]

PatchedFiles(p, box) == IF PatchApplies(p, box) THEN {Head(p.patches).file} ELSE {}

ChangedFiles(p, box) == Applied(p, box) \cup PatchedFiles(p, box)

\* validate_mutation_completeness counts records, after everything is written.
WithinLimit(p, box) ==
    Cardinality(Applied(p, box)) + Cardinality(PatchedFiles(p, box)) <= p.max_files

\* run_verification_commands and complete_verification.  One correction whose
\* file exists is enough for intended_correction_exists.
Verified(p, required, hashes, files, changed) ==
    /\ DOMAIN p.corrections = {} \/ DOMAIN p.corrections \cap Present(files) # {}
    /\ changed \subseteq DOMAIN p.corrections
    /\ required \subseteq Present(files)
    /\ Present(files) \subseteq required \cup changed
    /\ \A f \in required \ changed : files[f] = hashes[f]
=============================================================================
