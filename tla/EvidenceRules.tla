---------------------------- MODULE EvidenceRules ----------------------------
(***************************************************************************)
(* How the files of a target become evidence: snapshot captures them, scan *)
(* types them, analysis makes an item and a decision of every record, and  *)
(* statement output wraps the analysis (src/backend/phases).               *)
(*                                                                         *)
(* A target is a function from paths to files.  Of a file its path's marks *)
(* matter, what the rules look for in it; whether its name, or a directory *)
(* above it, is excluded; whether it can be statted and read; its size and *)
(* content.                                                                *)
(***************************************************************************)
EXTENDS Integers, Sequences, FiniteSets

Included == "included"     \* no excluded directory above a file

Marks == {"build", "source", "test", "config", "init", "main", "cli",
          "pyproject", "setup"}

IsFile(f) ==
    /\ f.marks \subseteq Marks
    /\ f.suffix \in {"listed", "none", "unlisted"}
    /\ f.excluded \in BOOLEAN /\ f.stat \in BOOLEAN /\ f.readable \in BOOLEAN
    /\ f.content # ""

Notice(code, path, reason) == [notice_code |-> code, path |-> path, reason |-> reason]
-------------------------------------------------------------------------------
(* Snapshot. *)

\* runner.walk_target_with_notices: what the walk reaches and keeps.
Walked(target) ==
    {p \in DOMAIN target : target[p].under = Included /\ ~target[p].excluded}

ExclusionNotices(target) ==
    {Notice("excluded", target[p].under, "directory") :
        p \in {q \in DOMAIN target : target[q].under # Included}}
    \cup {Notice("excluded", p, "file") :
        p \in {q \in DOMAIN target : target[q].under = Included /\ target[q].excluded}}

\* artifact_store.compute_sha256 reports no error: its hash is empty then.
Hash(f) == IF f.readable THEN f.content ELSE ""

\* scope.process_file: without an error to see, every file is "readable".
Captured(target) == {p \in Walked(target) : target[p].stat}

SnapshotNotices(target) ==
    ExclusionNotices(target)
    \cup {Notice("unreadable", p, "stat") : p \in Walked(target) \ Captured(target)}

Digest(f) == [size_bytes |-> f.size, sha256 |-> Hash(f)]

SnapshotFingerprint(target) ==
    <<[p \in Captured(target) |-> Digest(target[p])], SnapshotNotices(target)>>

StatusOfNotices(notices) == IF notices = {} THEN "completed" ELSE "completed_with_notices"
-------------------------------------------------------------------------------
(* Scan.  As every captured file is "readable", the notices are those of the *)
(* snapshot.                                                                 *)

\* classify_file_type: a build pattern anywhere in the path comes first.
FileType(f) ==
    IF "build" \in f.marks THEN "build"
    ELSE IF "source" \in f.marks THEN "source"
    ELSE IF "test" \in f.marks THEN "test"
    ELSE IF "config" \in f.marks THEN "config"
    ELSE "other"

\* detect_language: a path without a suffix has the language "unknown".
Language(f) ==
    CASE f.suffix = "listed" -> "named" [] f.suffix = "none" -> "unknown" [] OTHER -> "none"

\* classify_category, as far as the analysis looks at it.
Category(f) == IF FileType(f) = "source" /\ "init" \in f.marks THEN "package" ELSE "other"

Surface(type, identifier) == [type |-> type, identifier |-> identifier]

\* identify_surfaces
Surfaces(f) ==
    (IF "main" \in f.marks THEN {Surface("entry_point", "__main__")} ELSE {})
    \cup (IF "cli" \in f.marks THEN {Surface("entry_point", "cli")} ELSE {})
    \cup (IF "pyproject" \in f.marks THEN {Surface("build_config", "pyproject.toml")} ELSE {})
    \cup (IF "setup" \in f.marks THEN {Surface("build_config", "setup.py")} ELSE {})

\* compute_scan_fingerprint: neither size nor hash of a file is in it.
ScanFingerprint(target) ==
    <<[p \in Captured(target) |->
         [file_type |-> FileType(target[p]), language |-> Language(target[p]),
          category |-> Category(target[p]), surfaces |-> Surfaces(target[p])]],
      SnapshotNotices(target)>>
-------------------------------------------------------------------------------
(* Analysis of the request: a text is the set of the keywords it contains. *)

Keywords ==
    [diagnostic |->
        {"diagnose", "diagnostic", "inspect", "identify", "compare", "explain", "what is",
         "what are", "how does", "why does", "analyze", "analyse", "investigate", "debug",
         "trace", "profile", "assess"},
     additive |->
        {"add", "implement", "create", "introduce", "new feature", "support", "enable",
         "provide", "build", "extend", "expand", "enhance", "missing"},
     corrective |->
        {"fix", "repair", "correct", "resolve", "bug", "defect", "broken", "error", "issue",
         "problem", "fail", "failure", "crash", "wrong"},
     migration |->
        {"migrate", "migration", "move", "port", "convert", "upgrade", "transition",
         "rewrite", "replace", "rebuild"},
     verification |->
        {"verify", "validate", "check", "confirm", "ensure", "test", "prove", "certify",
         "audit"},
     informational |->
        {"document", "describe", "summarize", "summary", "overview", "information",
         "inform", "report", "list", "enumerate"}]

\* What makes a request of a kind explicit.
Explicit ==
    [diagnostic |->
        {"diagnose", "diagnostic", "why", "explain", "analyze", "analyse", "investigate",
         "debug"},
     verification |->
        {"verify", "validate", "confirm", "ensure", "prove", "certify", "audit"},
     migration  |-> {"migrate", "migration", "port"},
     corrective |-> {"fix", "bug", "defect", "broken", "error", "fail", "crash"}]

\* Keywords are looked for as substrings, so that one may bring another.
Within(word) ==
    CASE word \in {"support", "report"} -> {"port"}
      [] word = "rebuild"     -> {"build"}
      [] word = "failure"     -> {"fail"}
      [] word = "information" -> {"inform"}
      [] word = "why does"    -> {"why"}
      [] OTHER                -> {}

IsText(words) == \A w \in words : Within(w) \subseteq words

Scores(kind, words)    == \E w \in words : w \in Keywords[kind]
ScoresFor(kind, words) == Scores(kind, words) /\ \E w \in words : w \in Explicit[kind]

\* classify_request_kind: the explicit kinds in this order, then the others.
RequestKind(words) ==
    IF ScoresFor("diagnostic", words) THEN "diagnostic"
    ELSE IF ScoresFor("verification", words) THEN "verification"
    ELSE IF ScoresFor("migration", words) THEN "migration"
    ELSE IF ScoresFor("corrective", words) THEN "corrective"
    ELSE IF Scores("additive", words) THEN "additive"
    ELSE IF Scores("diagnostic", words) THEN "diagnostic"
    ELSE IF Scores("verification", words) THEN "verification"
    ELSE IF Scores("informational", words) THEN "informational"
    ELSE "unknown"
-------------------------------------------------------------------------------
(* Analysis: an item is its own identifier, the hash of its payload. *)

Item(kind, path, type, name, language, content, members) ==
    [kind |-> kind, path |-> path, type |-> type, name |-> name,
     language |-> language, content |-> content, members |-> members]

\* normalize_scan_output, for each kind of record; the incomplete ones too.
FileItem(path, f) ==
    Item(IF path # "" /\ Hash(f) # "" THEN "file" ELSE "unreadable",
         path, FileType(f), Category(f), Language(f), Hash(f), {})

SurfaceItem(path, s) ==
    Item(IF path # "" /\ s.type # "" THEN "surface" ELSE "unknown",
         path, s.type, s.identifier, "none", "", {})

NoticeItem(n) ==
    Item(IF n.path # "" /\ n.notice_code # "" THEN "notice" ELSE "unknown",
         n.path, n.notice_code, n.reason, "none", "", {})

\* Records a caller may add in metadata; run_pipeline adds none.
DuplicateItem(type, representative, members) ==
    Item("duplicate_group", representative, type, "", "none", "", members)
DriftItem(type, affected, reference) ==
    Item("drift_record", affected, type, "", "none", "", {affected, reference} \ {""})

ScanItems(target) ==
    {FileItem(p, target[p]) : p \in Captured(target)}
    \cup (UNION {{SurfaceItem(p, s) : s \in Surfaces(target[p])} : p \in Captured(target)})
    \cup {NoticeItem(n) : n \in SnapshotNotices(target)}

Decision(item, category, review, severity) ==
    [source |-> item, category |-> category, actionable |-> review,
     recommended |-> IF review THEN "needs_review" ELSE "no_change", severity |-> severity]

Leave(item, category)           == Decision(item, category, FALSE, "informational")
Review(item, category, severity) == Decision(item, category, TRUE, severity)

ClassifyFile(i) ==
    CASE i.type = "build"  -> Leave(i, "maintainability")
      [] i.type = "config" -> Leave(i, "configuration")
      [] i.type = "test"   -> Leave(i, "test_gap")
      [] i.type = "source" ->
            IF i.name # "package" /\ i.language = "none"
            THEN Review(i, "unsupported", "minor") ELSE Leave(i, "maintainability")
      [] i.type = "data"   -> Leave(i, "informational")
      [] OTHER             -> Review(i, "unknown", "minor")

ClassifySurface(i) ==
    CASE i.type = "entry_point"  -> Leave(i, "interface_drift")
      [] i.type = "build_config" -> Leave(i, "configuration")
      [] OTHER                   -> Leave(i, "informational")

ClassifyNotice(i) ==
    IF i.type = "unreadable" THEN Review(i, "unreadable", "minor") ELSE Leave(i, "informational")

DriftTypes == {"interface_drift", "behavior_drift", "import_drift", "artifact_drift"}

ClassifyDrift(i) ==
    Review(i, IF i.type \in DriftTypes THEN i.type ELSE "artifact_drift", "major")

ClassifyItem(i) ==
    CASE i.kind = "file"            -> ClassifyFile(i)
      [] i.kind = "surface"         -> ClassifySurface(i)
      [] i.kind = "notice"          -> ClassifyNotice(i)
      [] i.kind = "duplicate_group" -> Review(i, "duplication", "major")
      [] i.kind = "drift_record"    -> ClassifyDrift(i)
      [] OTHER                      -> Review(i, "unsupported", "minor")

Decisions(items) == {ClassifyItem(i) : i \in items}

\* grouping.build_groups: the item itself, and those at the paths it names.
Members(items, g) == {g} \cup {i \in items : i.path \in g.members}
Groups(items) ==
    [g \in {i \in items : i.kind \in {"duplicate_group", "drift_record"}} |-> Members(items, g)]

\* A group without a type cannot be sorted, nor be counted.
AnalysisRaises(items) == \E g \in DOMAIN Groups(items) : g.type = ""

\* user_choice_required: no decision to act has a single allowed action.
UserChoiceRequired(items) ==
    \E d \in Decisions(items) : d.actionable /\ d.recommended = "needs_review"

\* compute_analysis_classification_id, compute_analysis_classification_fingerprint
AnalysisId(kind, target) == <<kind, ScanFingerprint(target)>>
AnalysisFingerprint(kind, target) ==
    <<AnalysisId(kind, target), SnapshotFingerprint(target), ScanItems(target),
      Decisions(ScanItems(target)), Groups(ScanItems(target))>>
-------------------------------------------------------------------------------
(* Statement output. *)

\* validate_raw_handoff_llm_sequence
SequenceValid(raw, handoff, llm) ==
    /\ handoff.raw # "" /\ handoff.raw = raw.id
    /\ llm.raw # "" /\ llm.raw = raw.id
    /\ llm.handoff # "" /\ llm.handoff = handoff.id

\* run_pipeline: the raw statement has the analysis' id and the analysis in it.
Raw(id, content) == [id |-> id, content |-> content]
Handoff(raw)     == [id |-> "handoff-001", raw |-> raw.id]
Llm(raw, hand)   == [id |-> "llm-001", raw |-> raw.id, handoff |-> hand.id]

\* statement_output_fingerprint, of statements of run_pipeline.
StatementFingerprint(raw) == <<raw.id, raw.content, Handoff(raw), Llm(raw, Handoff(raw))>>
-------------------------------------------------------------------------------
(***************************************************************************)
(* Nothing the walk reaches is lost on the way from the target to the      *)
(* decisions: a file is an item, or its notice is, and one that could not  *)
(* be statted or read is put up for review.  A read error leaves no notice *)
(* (hashes.compute_sha256): only the empty hash tells of it.               *)
(***************************************************************************)
NothingLost(target) ==
    \A p \in Walked(target) :
        /\ \E i \in ScanItems(target) : i.path = p
        /\ ~(target[p].stat /\ target[p].readable) =>
              \E d \in Decisions(ScanItems(target)) : d.source.path = p /\ d.actionable

(***************************************************************************)
(* What the classifier puts up for review in a pipeline run: what could    *)
(* not be read, and files whose type or whose language it does not know.   *)
(***************************************************************************)
OnlyDoubtsReviewed(target) ==
    \A d \in Decisions(ScanItems(target)) :
        d.actionable =>
            \/ /\ d.source.kind \in {"notice", "unreadable"}
               /\ d.source.path \in Walked(target)
               /\ ~(target[d.source.path].stat /\ target[d.source.path].readable)
            \/ d.source.kind = "file" /\ d.source.type = "other"
            \/ d.source.kind = "file" /\ d.source.language = "none"

(***************************************************************************)
(* The user has to choose exactly when some decision is actionable, for    *)
(* any items (runner.run_analysis_classification).                         *)
(***************************************************************************)
ChoiceIffActionable(items) ==
    UserChoiceRequired(items) <=> \E d \in Decisions(items) : d.actionable

(***************************************************************************)
(* The identifier of an analysis, and so of the statement built on it,     *)
(* does not change when files only change their contents: the scan's       *)
(* fingerprint has neither size nor hash in it.  The snapshot's does: it   *)
(* misses only a change of a file it cannot read that keeps the size.      *)
(***************************************************************************)
SameButContent(a, b) ==
    /\ DOMAIN a = DOMAIN b
    /\ \A p \in DOMAIN a :
          /\ a[p].under = b[p].under /\ a[p].excluded = b[p].excluded
          /\ a[p].stat = b[p].stat /\ a[p].readable = b[p].readable
          /\ a[p].marks = b[p].marks /\ a[p].suffix = b[p].suffix

IdIgnoresContent(a, b) ==
    SameButContent(a, b) =>
        /\ \A kind \in {"unknown", "diagnostic"} : AnalysisId(kind, a) = AnalysisId(kind, b)
        /\ (SnapshotFingerprint(a) = SnapshotFingerprint(b)
              <=> \A p \in Captured(a) :
                    /\ a[p].size = b[p].size
                    /\ a[p].readable => a[p].content = b[p].content)

(***************************************************************************)
(* A request that asks for a report, or for support of something, counts   *)
(* as a migration unless it is explicitly diagnostic or a verification:    *)
(* "port" is looked for inside of words (classify_request_kind).           *)
(***************************************************************************)
ReportsArePorts(words) ==
    IsText(words) /\ ("report" \in words \/ "support" \in words) =>
        RequestKind(words) \in {"diagnostic", "verification", "migration"}

(***************************************************************************)
(* The statements run_pipeline builds are a valid sequence exactly when    *)
(* the analysis has an identifier.                                         *)
(***************************************************************************)
StatementsValid(raw) ==
    SequenceValid(raw, Handoff(raw), Llm(raw, Handoff(raw))) <=> raw.id # ""
===============================================================================
