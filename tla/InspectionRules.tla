--------------------------- MODULE InspectionRules ---------------------------
(***************************************************************************)
(* What inspection admits and checks (src/backend/phases/inspection), what *)
(* run_pipeline hands to it, and which inputs the final result accepts     *)
(* (final_result/validator.py).  Of a fingerprint or of an evidence record *)
(* only its presence matters; a path is the sequence of its parts.         *)
(***************************************************************************)
EXTENDS Integers, Sequences, FiniteSets

NoPath == <<"no path">>     \* a boundary root that is not given

\* A dossier reference: text, or a record with an id and perhaps a phase.
Ref(kind, id, phase) == [kind |-> kind, id |-> id, phase |-> phase]

\* evidence_refs.to_inspection_evidence_refs: text names a phase or "dossier".
InspectionRefs(refs) ==
    {Ref("record", r.id, TRUE) : r \in {s \in refs : s.id # "" /\ (s.kind = "text" \/ s.phase)}}

\* evidence_refs.to_string_evidence_refs
StringRefs(refs) == {Ref("text", r.id, FALSE) : r \in {s \in refs : s.id # ""}}

WellFormedRef(r) == r.kind = "record" /\ r.id # "" /\ r.phase
-------------------------------------------------------------------------------
\* validator.validate_admission: the input is admitted.
Admitted(inp) ==
    /\ inp.phase = "simulation_environment" /\ inp.status = "completed"
    /\ inp.simulation_environment_fingerprint /\ inp.gap_evaluation_fingerprint
    /\ inp.execution_result # "missing" /\ inp.execution_attempt_count = 1
    /\ inp.isolated_environment /\ inp.self_contained_demo # "missing"
    /\ inp.boundary_present /\ inp.post_apply_verification # "missing"
    /\ \A r \in inp.dossier_evidence_refs : WellFormedRef(r)
    /\ inp.real_target_unchanged

\* checks._is_inside_boundary: by the parts of the paths, "." having none.
InsideBoundary(path, root) ==
    Len(path) >= Len(root) /\ \A i \in 1 .. Len(root) : path[i] = root[i]

\* checks._boundary_root
BoundaryRoot(inp) ==
    IF ~inp.boundary_present THEN NoPath
    ELSE IF inp.boundary_root # NoPath THEN inp.boundary_root ELSE inp.isolated_target_root

FingerprintChain(inp) ==
    inp.gap_evaluation_fingerprint /\ inp.simulation_environment_fingerprint

\* SE09: only the boundary root proper counts here.
MutationsBounded(inp) ==
    /\ inp.boundary_present /\ inp.boundary_root # NoPath
    /\ \A m \in inp.target_mutations : InsideBoundary(m, inp.boundary_root)

\* SE10, SE11
ChangesBounded(inp) ==
    /\ BoundaryRoot(inp) # NoPath
    /\ \A f \in inp.changed_files : InsideBoundary(f, BoundaryRoot(inp))

DossierComplete(inp) ==
    /\ inp.dossier_evidence_refs # {}
    /\ \A r \in inp.dossier_evidence_refs : WellFormedRef(r)

\* SE19
Consistent(inp) ==
    /\ inp.status = "completed" => inp.next_route \in {"none", "inspection", "final_result"}
    /\ inp.status # "completed" => inp.next_route # "inspection"

StableIdentifiers(inp) == inp.simulation_environment_id /\ FingerprintChain(inp)

Codes == {"SE01", "SE02", "SE03", "SE04", "SE05", "SE06", "SE07", "SE08", "SE09", "SE10",
          "SE11", "SE12", "SE13", "SE14", "SE15", "SE16", "SE17", "SE18", "SE19", "SE20"}

\* SE05 to SE08: what the simulation ran, and how it ended.
EvidencePasses(inp, c) ==
    /\ c = "SE05" => inp.isolated_environment
    /\ c = "SE06" => inp.self_contained_demo = "ran"
    /\ c = "SE07" => inp.execution_attempt_count = 1
    /\ c = "SE08" => inp.execution_result = "success"

\* SE12 to SE14: the changes were declared and verified.
AccountPasses(inp, c) ==
    /\ c = "SE12" => inp.changed_files = inp.target_mutations
    /\ c = "SE13" => inp.changed_files \subseteq inp.verified_files
    /\ c = "SE14" => inp.post_apply_verification = "success"

\* SE15 to SE17
FlagPasses(inp, c) ==
    /\ c = "SE15" => inp.real_target_unchanged
    /\ c = "SE16" => ~inp.unresolved_conflict
    /\ c = "SE17" => ~inp.regression_detected

\* check_definitions: the function behind each code.
Passes(inp, c) ==
    /\ c = "SE01" => inp.status = "completed"
    /\ c = "SE02" => FingerprintChain(inp)
    /\ c = "SE03" => inp.gap_evaluation_fingerprint
    /\ c = "SE04" => inp.simulation_environment_fingerprint
    /\ EvidencePasses(inp, c)
    /\ c = "SE09" => MutationsBounded(inp)
    /\ c \in {"SE10", "SE11"} => ChangesBounded(inp)
    /\ AccountPasses(inp, c) /\ FlagPasses(inp, c)
    /\ c = "SE18" => DossierComplete(inp)
    /\ c = "SE19" => Consistent(inp)
    /\ c = "SE20" => StableIdentifiers(inp)

\* Changed files given as records, not paths: SE12 cannot put them in a set.
ChecksRaise(inp) == inp.changed_as_records /\ inp.changed_files # {}

\* runner.run_inspection
Inspected(inp) == Admitted(inp) /\ ~ChecksRaise(inp)

\* run_all_checks never stops at a finding.
Findings(inp)  == {c \in Codes : ~Passes(inp, c)}
TerminalState(inp) == IF Findings(inp) = {} THEN "completed" ELSE "failed_inspection"
-------------------------------------------------------------------------------
\* run_pipeline: the input made of the simulation's artifact (sim) and of the
\* boundary the package gives.  Missing fingerprints are replaced by defaults,
\* attempts, conflict, regression and real target are constants, and the
\* artifact has neither target_mutations nor paths in its verifications.
CliInput(sim, boundary) ==
    [phase |-> "simulation_environment", status |-> sim.status,
     simulation_environment_id |-> TRUE,
     gap_evaluation_fingerprint |-> TRUE, simulation_environment_fingerprint |-> TRUE,
     isolated_environment |-> TRUE,
     self_contained_demo |-> IF sim.status = "completed" THEN "ran" ELSE "failed",
     execution_result |-> IF sim.execution_status = "completed" THEN "success"
                          ELSE sim.execution_status,
     execution_attempt_count |-> 1,
     boundary_present |-> sim.boundary \/ boundary.root # NoPath \/ boundary.isolated # NoPath,
     boundary_root |-> boundary.root, isolated_target_root |-> boundary.isolated,
     target_mutations |-> {}, changed_files |-> sim.changed_files,
     changed_as_records |-> TRUE, verified_files |-> {},
     post_apply_verification |-> IF sim.status = "completed" THEN "success" ELSE sim.status,
     dossier_evidence_refs |-> InspectionRefs(sim.refs),
     unresolved_conflict |-> FALSE, regression_detected |-> FALSE,
     real_target_unchanged |-> TRUE, next_route |-> "none"]

\* runner.main, the phase's own command: the artifact's status is not read, and
\* neither result says "success".
MainInput(sim) ==
    [CliInput([sim EXCEPT !.status = "completed"], [root |-> NoPath, isolated |-> NoPath])
        EXCEPT !.self_contained_demo = "failed", !.boundary_present = TRUE,
               !.execution_result = "completed", !.post_apply_verification = "completed",
               !.dossier_evidence_refs = sim.refs]
-------------------------------------------------------------------------------
TerminalStates == {"completed", "failed_gap_evaluation", "failed_simulation_environment",
                   "failed_execution", "failed_inspection"}

StatusOf(terminal) == IF terminal = "completed" THEN "completed" ELSE "failed"

\* validator.validate_route_history_consistency
HistoryConsistent(inp) ==
    inp.route_history # <<>> =>
        /\ \E i \in DOMAIN inp.route_history : inp.route_history[i].phase = inp.source_phase
        /\ LET end == inp.route_history[Len(inp.route_history)]
           IN  inp.source_phase = "inspection" /\ inp.terminal_state = "completed"
               /\ end.phase = "inspection" => end.next_route = "final_result"

\* validator.validate_final_result_input
FinalAccepts(inp) ==
    /\ inp.source_phase # "" /\ inp.source_fingerprint
    /\ inp.terminal_state \in TerminalStates
    /\ inp.source_status = StatusOf(inp.terminal_state)
    /\ inp.terminal_state # "completed" => inp.failure_reasons # {}
    /\ HistoryConsistent(inp)
    /\ \A r \in inp.dossier_evidence_refs : r.kind = "text" /\ r.id \notin {"", "blank"}
    /\ inp.cleanup_requested \in BOOLEAN

\* run_pipeline: the input made of an inspection; the history is a constant.
FinalInput(inp) ==
    [source_phase |-> "inspection",
     source_status |-> IF Findings(inp) = {} THEN "completed" ELSE "failed",
     source_fingerprint |-> TRUE, terminal_state |-> TerminalState(inp),
     route_history |-> <<[phase |-> "simulation_environment", next_route |-> "none"],
                         [phase |-> "inspection", next_route |-> "final_result"]>>,
     dossier_evidence_refs |-> StringRefs(inp.dossier_evidence_refs),
     failure_reasons |-> Findings(inp), cleanup_requested |-> TRUE]
-------------------------------------------------------------------------------
(***************************************************************************)
(* validate_admission and run_all_checks ask eight questions twice: an     *)
(* admitted input passes SE01 to SE05, SE07, SE15, and fails SE18 only for *)
(* want of references.                                                     *)
(***************************************************************************)
AdmissionSettles(inp) ==
    Admitted(inp) =>
        /\ \A c \in Findings(inp) :
              c \notin {"SE01", "SE02", "SE03", "SE04", "SE05", "SE07", "SE15"}
        /\ "SE18" \in Findings(inp) => inp.dossier_evidence_refs = {}

(***************************************************************************)
(* What a passed inspection guarantees (run_all_checks): the changes are   *)
(* those that were declared, they lie in the boundary, and each of them    *)
(* was verified.                                                           *)
(***************************************************************************)
PassedMeansVerified(inp) ==
    Inspected(inp) /\ Findings(inp) = {} =>
        /\ inp.changed_files = inp.target_mutations
        /\ \A f \in inp.changed_files :
              InsideBoundary(f, inp.boundary_root) /\ f \in inp.verified_files

(***************************************************************************)
(* In run_pipeline inspection raises exactly when the simulation did not   *)
(* complete or changed a file, and otherwise passes whenever the package   *)
(* names a boundary root and a reference survived the conversion: no       *)
(* inspection of a changed file is ever reported.                          *)
(***************************************************************************)
OfSimulation(sim) ==
    sim.status = "completed" => sim.execution_status = "completed" /\ sim.boundary

InspectionOfPipeline(sim, boundary) ==
    LET inp == CliInput(sim, boundary)
    IN  OfSimulation(sim) =>
        /\ Inspected(inp) <=> sim.status = "completed" /\ sim.changed_files = {}
        /\ Inspected(inp) =>
              (Findings(inp) = {} <=> boundary.root # NoPath /\ InspectionRefs(sim.refs) # {})

(***************************************************************************)
(* The phase's own command (inspection/runner.py main) reports a failed    *)
(* inspection for every artifact it admits.                                *)
(***************************************************************************)
MainNeverPasses(sim) ==
    {"SE06", "SE08", "SE09", "SE14"} \subseteq Findings(MainInput(sim))

(***************************************************************************)
(* run_final_result accepts every inspection of run_pipeline, passed or    *)
(* failed, unless a reference is blank: a phase that ended is never        *)
(* refused for contradicting itself.                                       *)
(***************************************************************************)
FinalResultFollows(inp) ==
    (\A r \in inp.dossier_evidence_refs : r.id # "blank") => FinalAccepts(FinalInput(inp))
===============================================================================
