----------------------------- MODULE PipelineLaws -----------------------------
(***************************************************************************)
(* The laws of the phases' rules, evaluated on small inputs before they are*)
(* proved for all (PhaseRules_proofs).                                     *)
(***************************************************************************)
EXTENDS InspectionRules, EvidenceRules, SimulationRules

SomeRefs ==
    {Ref("text", "", FALSE), Ref("text", "blank", FALSE), Ref("text", "artifact", FALSE),
     Ref("record", "artifact", FALSE), Ref("record", "artifact", TRUE)}

SomePaths == {<<"src", "a">>, <<"doc", "a">>}

SomeSimulations ==
    [status : {"completed", "failed"}, execution_status : {"completed", "failed"},
     boundary : BOOLEAN, changed_files : SUBSET SomePaths, refs : SUBSET SomeRefs]

SomeRoots == {NoPath, <<>>, <<"src">>}

SomeBoundaries == [root : SomeRoots, isolated : {NoPath, <<"src">>}]

\* Inputs that deviate from those of run_pipeline in any one of their fields,
\* on top of any changes, mutations, verifications and boundary.
SomeInputs ==
    LET simulation == [status |-> "completed", execution_status |-> "completed",
                       boundary |-> TRUE, changed_files |-> {},
                       refs |-> {Ref("text", "artifact", FALSE)}]
        base(root, changed, mutated, verified) ==
            [CliInput(simulation, [root |-> root, isolated |-> <<"src">>])
                EXCEPT !.changed_files = changed, !.target_mutations = mutated,
                       !.verified_files = verified, !.changed_as_records = FALSE]
        some == {base(root, changed, mutated, verified) : root \in SomeRoots,
                    changed \in SUBSET SomePaths, mutated \in SUBSET SomePaths,
                    verified \in SUBSET SomePaths}
    IN  UNION {{i, [i EXCEPT !.phase = "scan"], [i EXCEPT !.status = "failed"],
                [i EXCEPT !.gap_evaluation_fingerprint = FALSE],
                [i EXCEPT !.simulation_environment_fingerprint = FALSE],
                [i EXCEPT !.isolated_environment = FALSE],
                [i EXCEPT !.self_contained_demo = "missing"],
                [i EXCEPT !.execution_attempt_count = 2],
                [i EXCEPT !.boundary_present = FALSE],
                [i EXCEPT !.changed_as_records = TRUE],
                [i EXCEPT !.dossier_evidence_refs = {}],
                [i EXCEPT !.dossier_evidence_refs = SomeRefs],
                [i EXCEPT !.real_target_unchanged = FALSE],
                [i EXCEPT !.next_route = "gap_handoff"]} : i \in some}

ASSUME InspectionLaws ==
    /\ \A i \in SomeInputs :
          AdmissionSettles(i) /\ PassedMeansVerified(i) /\ FinalResultFollows(i)
    /\ \A s \in SomeSimulations :
          MainNeverPasses(s) /\ \A b \in SomeBoundaries : InspectionOfPipeline(s, b)
-------------------------------------------------------------------------------
SomeFile == [under |-> Included, excluded |-> FALSE, stat |-> TRUE, readable |-> TRUE,
             marks |-> {}, suffix |-> "listed", size |-> 1, content |-> "old"]

SomeFiles ==
    {[SomeFile EXCEPT !.marks = m, !.suffix = x, !.readable = r] :
        m \in {{}, {"build", "test"}, {"source"}, {"source", "init"}, {"config", "setup"},
               {"test"}, {"main", "cli"}},
        x \in {"listed", "none", "unlisted"}, r \in BOOLEAN}
    \cup {[SomeFile EXCEPT !.under = "venv"], [SomeFile EXCEPT !.excluded = TRUE],
          [SomeFile EXCEPT !.stat = FALSE], [SomeFile EXCEPT !.content = "new"]}

SomeTargets == [{"a", "b"} -> SomeFiles]

FewTargets ==
    LET few == {[SomeFile EXCEPT !.size = z, !.content = c, !.readable = r, !.stat = t] :
                   z \in {1, 2}, c \in {"old", "new"}, r \in BOOLEAN, t \in BOOLEAN}
    IN  [{"a", "b"} -> few]

SomeItems ==
    {FileItem("a", SomeFile), FileItem("b", [SomeFile EXCEPT !.marks = {"source"}]),
     FileItem("", SomeFile), SurfaceItem("a", Surface("entry_point", "cli")),
     SurfaceItem("a", Surface("", "cli")), DuplicateItem("duplicate_code", "a", {"a", "b"}),
     DriftItem("import_drift", "a", ""), DriftItem("other", "b", "a")}

SomeTexts ==
    SUBSET {"explain", "inspect", "verify", "test", "report", "port", "support", "bug",
            "wrong", "add", "list"}

ASSUME EvidenceLaws ==
    /\ \A f \in SomeFiles : IsFile(f)
    /\ \A t \in SomeTargets : NothingLost(t) /\ OnlyDoubtsReviewed(t)
    /\ \A a, b \in FewTargets : IdIgnoresContent(a, b)
    /\ \A items \in SUBSET SomeItems :
          /\ ChoiceIffActionable(items) /\ ~AnalysisRaises(items)
          /\ \A g \in DOMAIN Groups(items) : Groups(items)[g] \subseteq items
    /\ \A words \in SomeTexts : ReportsArePorts(words)
    /\ \A id \in {"", "ac"} : StatementsValid(Raw(id, "analysis"))
-------------------------------------------------------------------------------
Plain(name) == [name |-> name, hidden |-> FALSE, words |-> {}]

SomeNames ==
    {Plain("main"), [Plain("conflict") EXCEPT !.words = {"conflict"}],
     [Plain(".cache") EXCEPT !.hidden = TRUE]}

SomeVerifications ==
    [corrections : SUBSET SomeNames, changed : SUBSET SomeNames,
     required : SUBSET {Plain("main"), Plain(".cache")}, present : SUBSET SomeNames,
     unlike_source : SUBSET {Plain("main")}, commands : {{}, {TRUE}, {TRUE, FALSE}}]

Quiet ==
    [corrections |-> {}, changed |-> {}, required |-> {}, present |-> {},
     unlike_source |-> {}, commands |-> {TRUE}]

SomePlans ==
    [values : {[name |-> "a"], [name |-> "b"]},
     lists : {[operations |-> o] : o \in
                {<<>>, <<ValueItem("x")>>, <<ValueItem("x"), ValueItem("y")>>,
                 <<ValueItem("y"), ValueItem("x")>>, <<RecordItem("x")>>,
                 <<RecordItem("x"), RecordItem("y")>>}}]

SomeGaps ==
    [readiness : {9390, 9391}, simulation_ready : BOOLEAN,
     required_grader_failures : {{}, {"GR-001"}}, unresolved_conflict : BOOLEAN,
     next_route : {"simulation_environment", "gap_handoff"},
     plan_fingerprint : {"", "stored"}, resulting_plan : SomePlans,
     required_source_files : {{}, {"main"}}]

SomeTrees ==
    LET files == [content : {"old", "new"}, mtime : {0, 1, 2}]
    IN  UNION {[names -> files] : names \in SUBSET {"main"}}

SomeBoundaryPlans ==
    LET patterns == SUBSET {{Plain("main")}, {Plain("main"), Plain("conflict")}}
    IN  [allowed_files : patterns, allowed_paths : patterns, forbidden_paths : patterns,
         max_files : {1}, max_bytes : {1}]

SomeDefault ==
    [files |-> {SomeNames}, paths |-> {{Plain("main")}, {Plain("conflict")}},
     forbidden |-> {{Plain(".cache")}, {Plain("conflict")}}]

SomeSimulationRuns ==
    [gap : {g \in SomeGaps : g.readiness = 9391 /\ g.resulting_plan.lists.operations = <<>>},
     plan : {p \in SomePlans : p.values.name = "a"},
     demo_builds : BOOLEAN, isolation : {"none", "IsolationError", "MissingDemoDependencyError"},
     boundary : {Boundary([allowed_files |-> {}, allowed_paths |-> {}, forbidden_paths |-> {},
                           max_files |-> 1, max_bytes |-> 1], SomeDefault)},
     changed_files : {1, 2}, bytes : {1},
     before : {[f \in {"main"} |-> [content |-> "old", mtime |-> 0]]},
     after : {[f \in {"main"} |-> [content |-> c, mtime |-> 0]] : c \in {"old", "new"}},
     executed : {"completed", "failed"}, v : {Quiet, [Quiet EXCEPT !.commands = {FALSE}]}]

ASSUME SimulationLaws ==
    /\ \A gap \in SomeGaps, a, b \in SomePlans : AdmissionIgnoresPlan(gap, a, b)
    /\ \A plan \in SomeBoundaryPlans, p \in SomeNames : ForbiddenStays(plan, SomeDefault, p)
    /\ \A v \in SomeVerifications :
          /\ VerdictsDiffer(v)
          /\ FingerprintFollowsClock([values |-> <<>>, lists |-> <<>>], "boundary", v, 0, 1)
    /\ \A gap \in SomeGaps, before, after \in SomeTrees : NothingProtected(gap, before, after)
    /\ \A o \in SomeSimulationRuns : RoutesFollowTable(o)
===============================================================================
