----------------------------- MODULE GapEvaluation ----------------------------
(***************************************************************************)
(* The rules by which gap evaluation judges and repairs a package plan     *)
(* (src/backend/phases/gap_evaluation/runner.py, patch_policy.py).         *)
(*                                                                         *)
(* A package is what --agent-package brings to a pipeline run: the plan's  *)
(* fields that matter to a gap, the dossier evidence, whether the metadata *)
(* names other statement ids than the run has, and what the simulation     *)
(* reads of the plan (SandboxFiles).  A gap is a code and the item it      *)
(* affects.                                                                *)
(***************************************************************************)
EXTENDS Naturals, FiniteSets, Sequences

CONSTANT NoFile   \* no file named

\* Decisions the pipeline asks of the agent; name and version may be defaulted.
OperatorFields == {"success_looks_like", "boundary_root", "selected_action"}
PlanFields     == {"name", "version"} \cup OperatorFields
Fixes          == "metadata.fixes"     \* key the generic patch adds to a plan

Gap(code, item) == [code |-> code, item |-> item]

MissingCode ==
    [name |-> "PP-002", version |-> "PP-002", success_looks_like |-> "PP-003",
     boundary_root |-> "PP-004", selected_action |-> "PP-005"]

\* package_plan = {}: neither the given fields nor anything else is set.
EmptyPlan(p, fields) ==
    /\ fields = {} /\ p.required = {} /\ DOMAIN p.corrections = {}
    /\ p.patches = <<>> /\ p.entry = NoFile

\* _detect_gaps, all gaps together.  The statement output of a pipeline run
\* always has its ids, so SO-001 does not arise.
Gaps(p, fields) ==
    (IF EmptyPlan(p, fields)
     THEN {Gap("PP-001", "package_plan")}
     ELSE {Gap(MissingCode[f], f) : f \in PlanFields \ fields})
    \cup (IF p.evidence = "none"
          THEN {Gap("DER-001", "dossier_evidence_refs")} ELSE {})
    \cup (IF p.mismatch THEN {Gap("CON-001", "statement_ids")} ELSE {})

\* Readiness in ten-thousandths; READINESS_THRESHOLD is 0.9391.
Threshold == 9391

Penalty(gaps) ==
    LET Count(codes) == Cardinality({g \in gaps : g.code \in codes})
    IN  3000 * Count({"PP-001"}) + 500 * Count({"DER-001"})
        + 1500 * Count({"PP-002", "PP-003", "PP-004", "PP-005", "CON-001"})

Readiness(gaps) == IF Penalty(gaps) > 10000 THEN 0 ELSE 10000 - Penalty(gaps)

\* _evaluate_attempt: status valid, and simulation_ready.
Ready(gaps) == gaps = {} /\ Readiness(gaps) >= Threshold

Unpatchable   == {"DER-001", "PP-001", "SO-001"}
Patchable(g)  == g.code \notin Unpatchable

\* Mutants: the patch sets its gap's code; it decides for the operator.
RepairByCode(g) == IF g.code = "PP-002" THEN {g.code} ELSE {Fixes}
RepairAnything(g) == {g.item}

\* _generate_patches: the key a patch sets.  Only a missing name or version is
\* given a value; the other gaps are merely noted under another key.
Repair(g) == IF g.code = "PP-002" THEN {g.item} ELSE {Fixes}

\* _apply_patches: no patch is ever declared incompatible with another.
Patched(fields, gaps) ==
    fields \cup UNION {Repair(g) : g \in {h \in gaps : Patchable(h)}}

\* run_gap_evaluation raises: the patch for an id mismatch reads a name its
\* function does not have, and the fingerprint sorts the plan's list of
\* patches, which two dictionaries do not allow.
EvaluationRaises(p) == p.mismatch \/ Len(p.patches) > 1
=============================================================================
