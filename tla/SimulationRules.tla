---------------------------- MODULE SimulationRules ----------------------------
(***************************************************************************)
(* The decisions of the simulation that do not depend on how its steps     *)
(* interleave (src/backend/phases/simulation_environment): what it admits, *)
(* what its boundary allows, what a verification adds up to, whether the   *)
(* target counts as unchanged, and the output of every way it may end.     *)
(* Pipeline has the steps and the files.                                   *)
(*                                                                         *)
(* A path is a record of its name, whether it starts with a dot, and which *)
(* of the words "conflict" and "regression" it contains.  A pattern of a   *)
(* boundary is the set of paths it matches.                                *)
(***************************************************************************)
EXTENDS Integers, Sequences, FiniteSets

(* Plans: fields with one value, and fields with a list of items.  An item is *)
(* a value, or a record, which Python does not order.                         *)

ValueItem(value)  == [value |-> value, record |-> FALSE]
RecordItem(value) == [value |-> value, record |-> TRUE]

\* _compute_package_plan_fingerprint sorts every list, whatever its order means.
Sortable(list) == Len(list) < 2 \/ \A k \in 1..Len(list) : ~list[k].record

FingerprintRaises(plan) == \E n \in DOMAIN plan.lists : ~Sortable(plan.lists[n])

Occurrences(list) ==
    [i \in {list[k] : k \in 1..Len(list)} |-> Cardinality({k \in 1..Len(list) : list[k] = i})]

PlanFingerprint(plan) ==
    [values |-> plan.values,
     lists  |-> [n \in DOMAIN plan.lists |-> Occurrences(plan.lists[n])]]
-------------------------------------------------------------------------------
(* Admission.  A key that is missing has the value that .get() puts in. *)

\* READINESS_THRESHOLD, in ten-thousandths
ReadinessThreshold == 9391

\* validate_admission: its first complaint, or "none".  The fingerprint that gap
\* evaluation stored is not compared, it only switches a comparison on.
Complaint(gap, plan) ==
    IF gap.readiness < ReadinessThreshold THEN "ReadinessThresholdError"
    ELSE IF ~gap.simulation_ready THEN "SimulationNotReadyError"
    ELSE IF gap.required_grader_failures # {} THEN "GraderFailureError"
    ELSE IF gap.unresolved_conflict THEN "ConflictError"
    ELSE IF gap.next_route # "simulation_environment" THEN "WrongRouteError"
    ELSE IF gap.plan_fingerprint = "" THEN "none"
    ELSE IF FingerprintRaises(gap.resulting_plan) THEN "TypeError"
    ELSE IF PlanFingerprint(plan) # PlanFingerprint(gap.resulting_plan)
         THEN "PackagePlanFingerprintMismatchError"
    ELSE "none"

\* The output of run_gap_evaluation, whose schema has no such fingerprint and no
\* required_source_files.
OfGapEvaluation(gap) == gap.plan_fingerprint = "" /\ gap.required_source_files = {}
-------------------------------------------------------------------------------
(* The mutation boundary. *)

\* create_mutation_boundary: the defaults stand in for what the plan leaves out,
\* and the forbidden ones are always there.
Boundary(plan, default) ==
    [allowed_files   |-> IF plan.allowed_files = {} THEN default.files ELSE plan.allowed_files,
     allowed_paths   |-> IF plan.allowed_paths = {} THEN default.paths ELSE plan.allowed_paths,
     forbidden_paths |-> plan.forbidden_paths \cup default.forbidden,
     max_files       |-> plan.max_files, max_bytes |-> plan.max_bytes]

\* check_file_within_boundary, validate_mutation_boundary
InBoundary(boundary, p) ==
    /\ \A pattern \in boundary.forbidden_paths : p \notin pattern
    /\ \E pattern \in boundary.allowed_files : p \in pattern
    /\ \E pattern \in boundary.allowed_paths : p \in pattern

\* validate_file_count_boundary, validate_bytes_boundary: all that
\* apply_package_plan_corrections asks of a boundary.
Affordable(boundary, files, bytes) ==
    files <= boundary.max_files /\ bytes <= boundary.max_bytes
-------------------------------------------------------------------------------
(* Verification.  v has the paths of the corrections, of the changed, the     *)
(* required, the present files and of those unlike their source; and whether  *)
(* each of the commands passes.                                               *)

Result(type, p, passed) == [check_type |-> type, path |-> p, passed |-> passed]
Summary == [name |-> "", hidden |-> FALSE, words |-> {}]

Unexpected(v) == {p \in v.present \ (v.required \cup v.changed) : ~p.hidden}

\* One result for each of some paths or, if there are none, one that passed.
Complaints(type, paths) ==
    IF paths = {} THEN {Result(type, Summary, TRUE)} ELSE {Result(type, p, FALSE) : p \in paths}

\* run_verification_commands
Results(v) ==
    {Result("intended_correction_exists", p, p \in v.present) : p \in v.corrections}
    \cup Complaints("files_match_admitted_plan", v.changed \ v.corrections)
    \cup Complaints("no_required_file_missing", v.required \ v.present)
    \cup Complaints("no_unexpected_file_created", Unexpected(v))
    \cup {Result("verification_command", Summary, c) : c \in v.commands}

AllPassed(v) == \A r \in Results(v) : r.passed

\* check_no_unresolved_conflict, check_no_detected_regression: by their messages.
Mentions(v, word) == \E r \in Results(v) : ~r.passed /\ word \in r.path.words

\* check_unrelated_files_unchanged: a file that is gone is not looked at.
UnrelatedUnchanged(v) == v.unlike_source \cap v.present \subseteq v.changed

\* complete_verification: by its flags, whatever the results say.
VerificationPassed(v) ==
    /\ v.corrections = {} \/ v.corrections \cap v.present # {}
    /\ v.changed \subseteq v.corrections
    /\ FALSE \notin v.commands
    /\ v.required \subseteq v.present
    /\ Unexpected(v) = {}
    /\ UnrelatedUnchanged(v)
    /\ ~Mentions(v, "conflict") /\ ~Mentions(v, "regression")

\* simulation_environment_fingerprint: an identifier of a result begins with the
\* time of its verification, in milliseconds, of which six digits are left.
Identifier(r, now) == [clock |-> now % 1000000, type |-> r.check_type, path |-> r.path]

SimulationFingerprint(plan, boundary, v, now, route) ==
    [plan |-> PlanFingerprint(plan), mutation_boundary |-> boundary, final_route |-> route,
     changed_files |-> v.changed,
     verification_results |-> {<<Identifier(r, now), r.passed>> : r \in Results(v)}]
-------------------------------------------------------------------------------
(* Protection of the target, a function from names to files. *)

\* _protect_real_target
Protection(gap, files) ==
    [f \in gap.required_source_files \cap DOMAIN files |-> files[f]]

Distance(a, b) == IF a < b THEN b - a ELSE a - b

\* _verify_real_target_unchanged, with its second of tolerance.
TargetUnchanged(protection, files) ==
    \A f \in DOMAIN protection \cap DOMAIN files :
        /\ files[f].content = protection[f].content
        /\ Distance(files[f].mtime, protection[f].mtime) <= 1
-------------------------------------------------------------------------------
(* The output. *)

Output(status, execution, route, ran) ==
    [status |-> status, execution_status |-> execution, next_route |-> route,
     fingerprint |-> ran, mutation_boundary |-> ran]

\* Before a sandbox exists: admission, build_demo, create_isolated_environment.
Unprepared == Output("failed", "failed", "final_result", FALSE)

\* An exception from then on; its output has no fingerprint but has a boundary.
Broken == [Output("failed", "failed", "gap_handoff", FALSE) EXCEPT !.mutation_boundary = TRUE]

Raised == [Unprepared EXCEPT !.status = "raised", !.next_route = "none"]

\* run_simulation_environment.  o says of the steps how they went; the handler of
\* a failed admission computes the fingerprint again that may just have raised.
Simulation(o) ==
    IF FingerprintRaises(o.plan) THEN Raised
    ELSE IF Complaint(o.gap, o.plan) # "none" \/ ~o.demo_builds THEN Unprepared
    ELSE IF o.isolation \in {"IsolationError", "OSError"} THEN Raised
    ELSE IF o.isolation # "none" THEN Unprepared
    ELSE IF ~Affordable(o.boundary, o.changed_files, o.bytes)
            \/ ~TargetUnchanged(Protection(o.gap, o.before), o.after)
         THEN Broken
    ELSE IF o.executed = "completed" /\ VerificationPassed(o.v)
         THEN Output("completed", "completed", "inspection", TRUE)
    ELSE Output("failed", o.executed, "gap_handoff", TRUE)

\* pipeline/transitions.py, for the simulation and the execution in it.
TableRoute(prepared, succeeded) ==
    IF ~prepared THEN "final_result" ELSE IF succeeded THEN "inspection" ELSE "gap_handoff"

\* cli.run_pipeline goes on to inspection; otherwise it hands over.
GoesOn(output) == output.status = "completed" /\ output.next_route = "inspection"
-------------------------------------------------------------------------------
(***************************************************************************)
(* The plan of the package is admitted whatever plan gap evaluation ended  *)
(* with: its output has no fingerprint to switch the comparison on         *)
(* (validate_admission, "fingerprint matches the Gap_Evaluation result").  *)
(***************************************************************************)
AdmissionIgnoresPlan(gap, a, b) ==
    OfGapEvaluation(gap) => Complaint(gap, a) = Complaint(gap, b)

(***************************************************************************)
(* No plan allows a path that is forbidden by default, and one that names  *)
(* its own allowed files does not get the default ones as well.            *)
(***************************************************************************)
ForbiddenStays(plan, default, p) ==
    InBoundary(Boundary(plan, default), p) =>
        /\ \A pattern \in default.forbidden : p \notin pattern
        /\ plan.allowed_files # {} => \E pattern \in plan.allowed_files : p \in pattern

(***************************************************************************)
(* The final verdict of a verification is not that of its results: it may  *)
(* pass although a correction is missing, if another one is there; and it  *)
(* may fail on a file that no result is about (complete_verification).     *)
(***************************************************************************)
VerdictsDiffer(v) ==
    /\ VerificationPassed(v) =>
          (AllPassed(v) <=> v.corrections \subseteq v.present)
    /\ AllPassed(v) => (VerificationPassed(v) <=> UnrelatedUnchanged(v))

(***************************************************************************)
(* Two simulations of the same input, within 1000 seconds of each other    *)
(* and not in the same millisecond, never have the same fingerprint: there *)
(* is always a result, and its identifier has the time in it, which the    *)
(* fingerprint is documented to exclude (runner.py:68).                    *)
(***************************************************************************)
FingerprintFollowsClock(plan, boundary, v, t, u) ==
    t % 1000000 # u % 1000000 =>
        \A route \in {"inspection", "gap_handoff"} :
            SimulationFingerprint(plan, boundary, v, t, route)
                # SimulationFingerprint(plan, boundary, v, u, route)

(***************************************************************************)
(* After gap evaluation no file of the target is protected: whatever       *)
(* happens to the target, it counts as unchanged (runner.py:144).          *)
(***************************************************************************)
NothingProtected(gap, before, after) ==
    OfGapEvaluation(gap) => TargetUnchanged(Protection(gap, before), after)

(***************************************************************************)
(* The simulation's routes are those of the transition table; the pipeline *)
(* follows them into inspection only: all other outputs are handed over,   *)
(* those that the table sends to the final result too.  An output without  *)
(* a fingerprint is never inspected.                                       *)
(***************************************************************************)
RoutesFollowTable(o) ==
    LET out == Simulation(o)
        prepared == Complaint(o.gap, o.plan) = "none" /\ o.demo_builds /\ o.isolation = "none"
    IN  out.status # "raised" =>
            /\ out.next_route = TableRoute(prepared, out.status = "completed")
            /\ GoesOn(out) <=> out.status = "completed"
            /\ GoesOn(out) => prepared /\ out.fingerprint /\ VerificationPassed(o.v)
===============================================================================
