----------------------------- MODULE CleanupRules -----------------------------
(***************************************************************************)
(* What the two cleanup commands decide about one entry of a directory tree*)
(* (src/backend/phases/cleanup/{classifier,policy,validators}.py).  An     *)
(* entry is a path below the cleanup root; only what the rules read of its *)
(* name is kept, as membership in sets of entries.                         *)
(***************************************************************************)
EXTENDS Naturals, Sequences, FiniteSets

CONSTANTS
    Entries,      \* paths below the root
    Dirs,         \* those that are directories when they exist
    Above,        \* the directories an entry lies in
    Protected,    \* named as PROTECTED_PATHS
    Artifacts,    \* named as RUN_ARTIFACT_PATTERNS
    Reports,      \* named 08_final_result.json
    Records,      \* named 09_cleanup.json
    Temporary,    \* named as TEMPORARY_PATTERNS
    Evidence,     \* with evidence/finalization in their path
    Preserved,    \* named as PRESERVED_ARTIFACT_PATTERNS, or cleanup_*.json
    Transient,    \* with a name that has a TRANSIENT_PATTERNS word in it
    KeepLatest    \* keep_latest_successful and keep_latest_failed

ASSUME TreeAssumption ==
    /\ IsFiniteSet(Entries) /\ Dirs \subseteq Entries
    /\ Above \in [Entries -> SUBSET Dirs]
    /\ \A e \in Entries : e \notin Above[e] /\ \A d \in Above[e] : Above[d] \subseteq Above[e]
ASSUME NameAssumption ==
    /\ Reports \cup Records \subseteq Artifacts
    /\ Artifacts \cup Protected \cup Temporary \cup Evidence \cup Preserved \cup Transient
         \subseteq Entries
ASSUME PolicyAssumption == KeepLatest \in [{"success", "failed"} -> Nat]

Inside(d) == {e \in Entries : d \in Above[e]}
Direct(d) == {e \in Inside(d) : Above[e] = Above[d] \cup {d}}

\* The content of a file: "v1+" differs from "v1" after the first 8192 bytes.
ReportContents == {"success", "failed", "completed", "torn"}
FileContents   == {"v1", "v1+", "v2", "locked"}
Contents       == {"absent", "dir"} \cup ReportContents \cup FileContents

Exists(disk, e) == disk[e] # "absent"

\* _compute_fingerprint: the first block of a file, the names of the files of
\* a directory; nothing of its subdirectories, and nothing of their content.
FirstBlock(content) ==
    IF content = "v1+" THEN "v1" ELSE IF content = "locked" THEN "unreadable" ELSE content

Fingerprint(disk, e) ==
    [block |-> FirstBlock(disk[e]),
     files |-> IF e \in Dirs /\ Exists(disk, e)
               THEN {f \in Direct(e) \ Dirs : Exists(disk, f)} ELSE {}]

Fingerprints == [block : Contents \cup {"unreadable"}, files : SUBSET Entries]
-------------------------------------------------------------------------------
(* ArtifactClassifier *)

IsProtected(e) == \E a \in Above[e] \cup {e} : a \in Protected

IsRunDirectory(disk, e) ==
    e \in Dirs /\ Exists(disk, e) /\ \E f \in Direct(e) : f \in Artifacts /\ Exists(disk, f)

\* Mutant: a run without a legible report counts as a successful one.
RunStatusOrSuccess(disk, d) ==
    LET legible == {f \in Direct(d) : f \in Reports /\ disk[f] \in ReportContents \ {"torn"}}
    IN  IF legible # {} THEN disk[CHOOSE f \in legible : TRUE] ELSE "success"

\* The report's status; the cleanup record of the pipeline has none.
RunStatus(disk, d) ==
    LET legible(names) ==
            {f \in Direct(d) : f \in names /\ disk[f] \in ReportContents \ {"torn"}}
    IN  IF legible(Reports) # {} THEN disk[CHOOSE f \in legible(Reports) : TRUE]
        ELSE IF legible(Records) # {} THEN "unknown" ELSE "none"

Statuses == (ReportContents \ {"torn"}) \cup {"unknown", "none"}

\* The index of runs that load_run_artifacts returns: nothing usable (latest.json
\* is absent or a pointer, and there is no evidence/runs), a list of runs, newest
\* first, or a mapping of them, of which some are active and name entries.
IsIndex(index) ==
    /\ index.shape \in {"nothing", "list", "mapping"}
    /\ index.runs \in Seq([run : Entries, status : Statuses])
    /\ index.named \subseteq Entries

Latest(index, status) ==
    LET alike == {i \in DOMAIN index.runs : index.runs[i].status = status}
    IN  {index.runs[i].run : i \in {j \in alike :
            Cardinality({k \in alike : k < j}) < KeepLatest[status]}}

\* _decide_run_retention: it iterates over the index as over a list of records,
\* which a mapping is not.
RunDecision(d, status, aged, index) ==
    IF d \in aged THEN IF status = "failed" THEN "preserve" ELSE "delete"
    ELSE IF index.shape = "mapping" THEN "raise"
    ELSE IF index.shape = "list" /\ d \in Latest(index, status) THEN "preserve"
    ELSE "delete"

\* _is_referenced takes the index for a mapping, which a list is not.
ReferenceDecision(e, index) ==
    IF index.shape = "list" THEN "raise"
    ELSE IF index.shape = "mapping" /\ e \in index.named THEN "preserve"
    ELSE "skip"

\* classify: the first rule that applies.
Decision(disk, aged, index, e) ==
    IF IsProtected(e) THEN "preserve"
    ELSE IF IsRunDirectory(disk, e)
         THEN IF RunStatus(disk, e) \in {"success", "failed"}
              THEN RunDecision(e, RunStatus(disk, e), aged, index) ELSE "skip"
    ELSE IF e \in Artifacts THEN "preserve"
    ELSE IF e \in Temporary THEN "delete"
    ELSE IF e \in Evidence THEN "preserve"
    ELSE ReferenceDecision(e, index)

Decisions == {"none", "preserve", "delete", "skip", "raise"}

\* validate_cleanup_root: roots that are the repository or a protected path of
\* it, have ".." in them, or do not have the repository's path as a prefix.
RootKinds == {"inside", "prefix", "outside", "repository", "protected", "traversal"}
RootAccepted(kind) == kind \in {"inside", "prefix"}
-------------------------------------------------------------------------------
(* The phase's validators *)

\* is_transient_path looks for its words in the whole path.
IsTransient(e) == \E a \in Above[e] \cup {e} : a \in Transient

FoundTransient(disk) == {e \in Entries : Exists(disk, e) /\ e \notin Preserved /\ IsTransient(e)}

\* The paths to delete: a file in a directory that goes is not listed again, a
\* directory in one is.  validate_cleanup_safety refuses everything when the
\* output root lies in the working directory of the process.
ChosenTransient(disk, inRepo) ==
    IF inRepo THEN {}
    ELSE {e \in FoundTransient(disk) :
            e \in Dirs \/ ~\E d \in Above[e] : d \in FoundTransient(disk)}
===============================================================================
