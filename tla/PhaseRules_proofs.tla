--------------------------- MODULE PhaseRules_proofs ---------------------------
(***************************************************************************)
(* The laws of the rules by which the phases decide, for all inputs.       *)
(***************************************************************************)
EXTENDS InspectionRules, EvidenceRules, SimulationRules, AnswerRules, TaskRules,
        FiniteSetTheorems, WellFoundedInduction, TLAPS

(* Every set of natural numbers has a least one: for induction by the least
   counterexample, which needs no operator for the property. *)

NatOrder == {pair \in Nat \X Nat : pair[1] < pair[2]}

LEMMA Least ==
    ASSUME NEW S, S \subseteq Nat, S # {}
    PROVE  \E n \in S : \A m \in S : n <= m
<1>1. IsWellFoundedOn(NatOrder, Nat)
      BY NatLessThanWellFounded DEF OpToRel, NatOrder
<1>2. PICK n \in S : \A m \in S : <<m, n>> \notin NatOrder
      BY <1>1, WFMin
<1>3. ASSUME NEW m \in S PROVE n <= m
  <2>1. m \in Nat /\ n \in Nat
        OBVIOUS
  <2>2. ~(m < n)
        BY <1>2, <2>1 DEF NatOrder
  <2>3. QED BY <2>1, <2>2
<1>4. QED BY <1>3

-------------------------------------------------------------------------------
(***************************************************************************)
(* What SE01 to SE05, SE07, SE15 and most of SE18 ask, validate_admission  *)
(* has already asked.                                                      *)
(***************************************************************************)
THEOREM AdmissionSettlesAll ==
    ASSUME NEW inp
    PROVE  AdmissionSettles(inp)
<1>1. SUFFICES ASSUME Admitted(inp)
               PROVE  /\ \A c \in Findings(inp) :
                            c \notin {"SE01", "SE02", "SE03", "SE04", "SE05", "SE07", "SE15"}
                      /\ "SE18" \in Findings(inp) => inp.dossier_evidence_refs = {}
      BY DEF AdmissionSettles
<1>2. ASSUME NEW c \in Findings(inp)
      PROVE  c \notin {"SE01", "SE02", "SE03", "SE04", "SE05", "SE07", "SE15"}
      BY <1>1 DEF Findings, Codes, Passes, EvidencePasses, AccountPasses, FlagPasses, Admitted, FingerprintChain
<1>3. "SE18" \in Findings(inp) => inp.dossier_evidence_refs = {}
      BY <1>1 DEF Findings, Codes, Passes, EvidencePasses, AccountPasses, FlagPasses, Admitted, DossierComplete
<1>4. QED BY <1>2, <1>3

(***************************************************************************)
(* The changes of a passed inspection were declared, bounded and verified. *)
(***************************************************************************)
THEOREM PassedIsVerified ==
    ASSUME NEW inp
    PROVE  PassedMeansVerified(inp)
<1>1. SUFFICES ASSUME Findings(inp) = {}
               PROVE  /\ inp.changed_files = inp.target_mutations
                      /\ \A f \in inp.changed_files :
                            InsideBoundary(f, inp.boundary_root) /\ f \in inp.verified_files
      BY DEF PassedMeansVerified
<1>2. Passes(inp, "SE09") /\ Passes(inp, "SE12") /\ Passes(inp, "SE13")
      BY <1>1 DEF Findings, Codes
<1>3. MutationsBounded(inp) /\ inp.changed_files = inp.target_mutations
      /\ inp.changed_files \subseteq inp.verified_files
      BY <1>2 DEF Passes, AccountPasses
<1>4. QED BY <1>3 DEF MutationsBounded

(***************************************************************************)
(* Inspection in run_pipeline: it raises, or it passes, or no reference or *)
(* no boundary root is left.                                               *)
(***************************************************************************)
THEOREM PipelineInspection ==
    ASSUME NEW sim, NEW boundary
    PROVE  InspectionOfPipeline(sim, boundary)
<1> DEFINE inp == CliInput(sim, boundary)
<1>1. SUFFICES ASSUME OfSimulation(sim)
               PROVE  /\ Inspected(inp) <=> sim.status = "completed" /\ sim.changed_files = {}
                      /\ Inspected(inp) =>
                            (Findings(inp) = {} <=>
                                boundary.root # NoPath /\ InspectionRefs(sim.refs) # {})
      BY DEF InspectionOfPipeline
<1>2. \A r \in InspectionRefs(sim.refs) : WellFormedRef(r)
  <2>1. SUFFICES ASSUME NEW r \in InspectionRefs(sim.refs)
                 PROVE  WellFormedRef(r)
        OBVIOUS
  <2>2. PICK s \in sim.refs : s.id # "" /\ r = Ref("record", s.id, TRUE)
        BY <2>1 DEF InspectionRefs
  <2>3. QED BY <2>2 DEF WellFormedRef, Ref
<1>3. Inspected(inp) <=> sim.status = "completed" /\ sim.changed_files = {}
      BY <1>1, <1>2 DEF Inspected, Admitted, ChecksRaise, CliInput, OfSimulation
<1>4. ASSUME Inspected(inp)
      PROVE  Findings(inp) = {} <=> boundary.root # NoPath /\ InspectionRefs(sim.refs) # {}
  <2>1. /\ sim.status = "completed" /\ sim.changed_files = {}
        /\ sim.execution_status = "completed" /\ sim.boundary
        BY <1>1, <1>3, <1>4 DEF OfSimulation
  <2>2. MutationsBounded(inp) <=> boundary.root # NoPath
        BY <2>1 DEF MutationsBounded, CliInput
  <2>3. DossierComplete(inp) <=> InspectionRefs(sim.refs) # {}
        BY <1>2 DEF DossierComplete, CliInput
  <2>4. boundary.root # NoPath => ChangesBounded(inp)
        BY <2>1 DEF ChangesBounded, BoundaryRoot, CliInput
  <2>5. ASSUME Findings(inp) = {}
        PROVE  boundary.root # NoPath /\ InspectionRefs(sim.refs) # {}
    <3>1. Passes(inp, "SE09") /\ Passes(inp, "SE18")
          BY <2>5 DEF Findings, Codes
    <3>2. QED BY <3>1, <2>2, <2>3 DEF Passes, AccountPasses
  <2>6. ASSUME boundary.root # NoPath, InspectionRefs(sim.refs) # {}
        PROVE  Findings(inp) = {}
    <3>1. MutationsBounded(inp) /\ ChangesBounded(inp) /\ DossierComplete(inp)
          BY <2>2, <2>3, <2>4, <2>6
    <3>2. FingerprintChain(inp) /\ Consistent(inp) /\ StableIdentifiers(inp)
          BY <2>1 DEF FingerprintChain, Consistent, StableIdentifiers, CliInput
    <3>3. \A c \in Codes : Passes(inp, c)
          BY <2>1, <3>1, <3>2 DEF Passes, EvidencePasses, AccountPasses, FlagPasses, CliInput
    <3>4. QED BY <3>3 DEF Findings
  <2>7. QED BY <2>5, <2>6
<1>5. QED BY <1>3, <1>4

(***************************************************************************)
(* The final result takes what inspection gives it.                        *)
(***************************************************************************)
THEOREM FinalResultAccepts ==
    ASSUME NEW inp
    PROVE  FinalResultFollows(inp)
<1> DEFINE final == FinalInput(inp)
<1>1. SUFFICES ASSUME \A r \in inp.dossier_evidence_refs : r.id # "blank"
               PROVE  FinalAccepts(final)
      BY DEF FinalResultFollows
<1>2. \A r \in final.dossier_evidence_refs : r.kind = "text" /\ r.id # "" /\ r.id # "blank"
  <2>1. SUFFICES ASSUME NEW r \in StringRefs(inp.dossier_evidence_refs)
                 PROVE  r.kind = "text" /\ r.id # "" /\ r.id # "blank"
        BY DEF FinalInput
  <2>2. PICK s \in inp.dossier_evidence_refs : s.id # "" /\ r = Ref("text", s.id, FALSE)
        BY <2>1 DEF StringRefs
  <2>3. QED BY <1>1, <2>2 DEF Ref
<1>3. /\ final.terminal_state \in TerminalStates
      /\ final.source_status = StatusOf(final.terminal_state)
      /\ final.terminal_state # "completed" => final.failure_reasons # {}
      BY DEF FinalInput, TerminalState, TerminalStates, StatusOf
<1>4. HistoryConsistent(final)
      BY DEF HistoryConsistent, FinalInput
<1>5. final.source_phase # "" /\ final.source_fingerprint /\ final.cleanup_requested \in BOOLEAN
      BY DEF FinalInput
<1>6. QED BY <1>2, <1>3, <1>4, <1>5 DEF FinalAccepts
-------------------------------------------------------------------------------
(***************************************************************************)
(* Every file the walk keeps ends as an item, and one that could not be    *)
(* read as a decision to review it.                                        *)
(***************************************************************************)
THEOREM NothingIsLost ==
    ASSUME NEW target
    PROVE  NothingLost(target)
<1>1. SUFFICES ASSUME NEW p \in Walked(target)
               PROVE  /\ \E i \in ScanItems(target) : i.path = p
                      /\ ~(target[p].stat /\ target[p].readable) =>
                            \E d \in Decisions(ScanItems(target)) :
                                d.source.path = p /\ d.actionable
      BY DEF NothingLost
<1>2. CASE target[p].stat
  <2> DEFINE i == FileItem(p, target[p])
  <2>1. i \in ScanItems(target) /\ i.path = p
        BY <1>1, <1>2 DEF ScanItems, Captured, FileItem, Item
  <2>2. ASSUME ~target[p].readable
        PROVE  ClassifyItem(i).source = i /\ ClassifyItem(i).actionable
    <3>1. i.kind = "unreadable"
          BY <2>2 DEF FileItem, Item, Hash
    <3>2. ClassifyItem(i) = Review(i, "unsupported", "minor")
          BY <3>1 DEF ClassifyItem
    <3>3. QED BY <3>2 DEF Review, Decision
  <2>3. QED BY <1>2, <2>1, <2>2 DEF Decisions
<1>3. CASE ~target[p].stat
  <2> DEFINE i == NoticeItem(Notice("unreadable", p, "stat"))
  <2>1. Notice("unreadable", p, "stat") \in SnapshotNotices(target)
        BY <1>1, <1>3 DEF SnapshotNotices, Captured
  <2>2. i \in ScanItems(target) /\ i.path = p
        BY <2>1 DEF ScanItems, NoticeItem, Notice, Item
  <2>3. ClassifyItem(i).source = i /\ ClassifyItem(i).actionable
    <3>1. i.kind \in {"notice", "unknown"} /\ i.type = "unreadable"
          BY DEF NoticeItem, Notice, Item
    <3>2. ClassifyItem(i) = Review(i, "unreadable", "minor")
          \/ ClassifyItem(i) = Review(i, "unsupported", "minor")
          BY <3>1 DEF ClassifyItem, ClassifyNotice
    <3>3. QED BY <3>2 DEF Review, Decision
  <2>4. QED BY <2>2, <2>3 DEF Decisions
<1>4. QED BY <1>2, <1>3

(***************************************************************************)
(* What is put up for review could not be read, or has no known type or    *)
(* language.                                                               *)
(***************************************************************************)
THEOREM DoubtsOnly ==
    ASSUME NEW target, "" \notin DOMAIN target,
           \A p \in DOMAIN target : IsFile(target[p]) /\ target[p].under # ""
    PROVE  OnlyDoubtsReviewed(target)
<1> DEFINE Doubt(i) ==
        \/ /\ i.kind \in {"notice", "unreadable"} /\ i.path \in Walked(target)
           /\ ~(target[i.path].stat /\ target[i.path].readable)
        \/ i.kind = "file" /\ i.type = "other"
        \/ i.kind = "file" /\ i.language = "none"
<1>1. SUFFICES ASSUME NEW i \in ScanItems(target), ClassifyItem(i).actionable
               PROVE  Doubt(ClassifyItem(i).source)
      BY DEF OnlyDoubtsReviewed, Decisions
<1>2. ClassifyItem(i).source = i
      BY DEF ClassifyItem, ClassifyFile, ClassifySurface, ClassifyNotice, ClassifyDrift,
             Leave, Review, Decision
<1>3. ASSUME NEW p \in Captured(target), i = FileItem(p, target[p])
      PROVE  Doubt(i)
  <2>1. p \in Walked(target) /\ p \in DOMAIN target /\ i.path = p
        BY <1>3 DEF Captured, Walked, FileItem, Item
  <2>2. CASE i.kind = "file"
    <3>1. i.type \in {"build", "source", "test", "config", "other"}
          BY <1>3 DEF FileItem, Item, FileType
    <3>2. ClassifyItem(i) = ClassifyFile(i)
          BY <2>2 DEF ClassifyItem
    <3>3. i.type = "other" \/ i.language = "none"
      <4>1. SUFFICES ASSUME i.type # "other", i.language # "none"
                     PROVE  ~ClassifyFile(i).actionable
            BY <1>1, <3>2
      <4>2. \A c : ~Leave(i, c).actionable
            BY DEF Leave, Decision
      <4>3. \E c : ClassifyFile(i) = Leave(i, c)
        <5>1. CASE i.type = "build"
              BY <5>1 DEF ClassifyFile
        <5>2. CASE i.type = "source"
              BY <4>1, <5>2 DEF ClassifyFile
        <5>3. CASE i.type = "test"
              BY <5>3 DEF ClassifyFile
        <5>4. CASE i.type = "config"
              BY <5>4 DEF ClassifyFile
        <5>5. QED BY <3>1, <4>1, <5>1, <5>2, <5>3, <5>4
      <4>4. QED BY <4>2, <4>3
    <3>4. QED BY <2>2, <3>3
  <2>3. CASE i.kind = "unreadable"
    <3>1. ~target[p].readable
      <4>1. IsFile(target[p])
            BY <2>1
      <4>2. Hash(target[p]) = ""
            BY <1>3, <2>1, <2>3 DEF FileItem, Item
      <4>3. QED BY <4>1, <4>2 DEF Hash, IsFile
    <3>2. QED BY <2>1, <2>3, <3>1
  <2>4. i.kind \in {"file", "unreadable"}
        BY <1>3 DEF FileItem, Item
  <2>5. QED BY <2>2, <2>3, <2>4
<1>4. ASSUME NEW p \in Captured(target), NEW s \in Surfaces(target[p]), i = SurfaceItem(p, s)
      PROVE  FALSE
  <2>1. p # "" /\ s.type # ""
    <3>1. p # ""
          BY DEF Captured, Walked
    <3>2. \A t, x : Surface(t, x).type = t
          BY DEF Surface
    <3>3. \E x : \/ s = Surface("entry_point", x) \/ s = Surface("build_config", x)
          BY DEF Surfaces
    <3>4. s.type \in {"entry_point", "build_config"}
          BY <3>2, <3>3
    <3>5. QED BY <3>1, <3>4
  <2>2. i.kind = "surface"
        BY <1>4, <2>1 DEF SurfaceItem, Item
  <2>3. ~ClassifyItem(i).actionable
        BY <2>2 DEF ClassifyItem, ClassifySurface, Leave, Decision
  <2>4. QED BY <1>1, <2>3
<1>5. ASSUME NEW n \in SnapshotNotices(target), i = NoticeItem(n)
      PROVE  Doubt(i)
  <2>1. n.path # "" /\ n.notice_code \in {"excluded", "unreadable"}
        /\ (n.notice_code = "unreadable" => n.path \in Walked(target) /\ ~target[n.path].stat)
    <3>1. CASE n \in ExclusionNotices(target)
      <4>1. CASE \E p \in DOMAIN target : n = Notice("excluded", target[p].under, "directory")
        <5>1. PICK p \in DOMAIN target : n = Notice("excluded", target[p].under, "directory")
              BY <4>1
        <5>2. n.path = target[p].under /\ n.notice_code = "excluded"
              BY <5>1 DEF Notice
        <5>3. QED BY <5>2
      <4>2. CASE \E p \in DOMAIN target : n = Notice("excluded", p, "file")
        <5>1. PICK p \in DOMAIN target : n = Notice("excluded", p, "file")
              BY <4>2
        <5>2. n.path = p /\ n.notice_code = "excluded"
              BY <5>1 DEF Notice
        <5>3. QED BY <5>2
      <4>3. QED BY <3>1, <4>1, <4>2 DEF ExclusionNotices
    <3>2. CASE \E p \in Walked(target) \ Captured(target) : n = Notice("unreadable", p, "stat")
      <4>1. PICK p \in Walked(target) \ Captured(target) : n = Notice("unreadable", p, "stat")
            BY <3>2
      <4>2. p \in DOMAIN target /\ p # "" /\ ~target[p].stat
            BY <4>1 DEF Walked, Captured
      <4>3. n.path = p /\ n.notice_code = "unreadable"
            BY <4>1 DEF Notice
      <4>4. QED BY <4>1, <4>2, <4>3
    <3>3. QED BY <1>5, <3>1, <3>2 DEF SnapshotNotices
  <2>2. i.kind = "notice" /\ i.type = n.notice_code /\ i.path = n.path
        BY <1>5, <2>1 DEF NoticeItem, Item
  <2>3. i.type = "unreadable"
        BY <1>1, <2>2 DEF ClassifyItem, ClassifyNotice, Leave, Decision
  <2>4. QED BY <2>1, <2>2, <2>3
<1>6. Doubt(i)
      BY <1>1, <1>3, <1>4, <1>5 DEF ScanItems
<1>7. QED BY <1>2, <1>6

(***************************************************************************)
(* The identifier of an analysis stays as it is when only contents change; *)
(* the fingerprint of the snapshot tells every change that can be read.    *)
(***************************************************************************)
THEOREM ContentKeepsId ==
    ASSUME NEW a, NEW b
    PROVE  IdIgnoresContent(a, b)
<1>1. SUFFICES ASSUME SameButContent(a, b)
               PROVE  /\ \A kind \in {"unknown", "diagnostic"} :
                            AnalysisId(kind, a) = AnalysisId(kind, b)
                      /\ (SnapshotFingerprint(a) = SnapshotFingerprint(b)
                            <=> \A p \in Captured(a) :
                                  /\ a[p].size = b[p].size
                                  /\ a[p].readable => a[p].content = b[p].content)
      BY DEF IdIgnoresContent
<1>2. Walked(a) = Walked(b) /\ Captured(a) = Captured(b)
  <2>1. Walked(a) = Walked(b)
        BY <1>1 DEF SameButContent, Walked
  <2>2. \A p \in Walked(a) : a[p].stat <=> b[p].stat
        BY <1>1 DEF SameButContent, Walked
  <2>3. QED BY <2>1, <2>2 DEF Captured
<1>3. SnapshotNotices(a) = SnapshotNotices(b)
  <2>1. \A p \in DOMAIN a : a[p].under = b[p].under /\ a[p].excluded = b[p].excluded
        BY <1>1 DEF SameButContent
  <2>2. DOMAIN a = DOMAIN b
        BY <1>1 DEF SameButContent
  <2>3. ExclusionNotices(a) = ExclusionNotices(b)
        BY <2>1, <2>2 DEF ExclusionNotices
  <2>4. QED BY <1>2, <2>3 DEF SnapshotNotices
<1>4. \A p \in Captured(a) : a[p].marks = b[p].marks /\ a[p].suffix = b[p].suffix
      BY <1>1 DEF SameButContent, Captured, Walked
<1>5. ScanFingerprint(a) = ScanFingerprint(b)
  <2>1. ASSUME NEW p \in Captured(a)
        PROVE  /\ FileType(a[p]) = FileType(b[p]) /\ Language(a[p]) = Language(b[p])
               /\ Category(a[p]) = Category(b[p]) /\ Surfaces(a[p]) = Surfaces(b[p])
        BY <1>4 DEF FileType, Language, Category, Surfaces
  <2>2. QED BY <1>2, <1>3, <2>1 DEF ScanFingerprint
<1>6. \A p \in Captured(a) :
          Digest(a[p]) = Digest(b[p]) <=>
              /\ a[p].size = b[p].size
              /\ a[p].readable => a[p].content = b[p].content
      BY <1>1 DEF SameButContent, Captured, Walked, Digest, Hash
<1>7. SnapshotFingerprint(a) = SnapshotFingerprint(b)
          <=> \A p \in Captured(a) : Digest(a[p]) = Digest(b[p])
  <2> DEFINE ha == [p \in Captured(a) |-> Digest(a[p])]
             hb == [p \in Captured(a) |-> Digest(b[p])]
  <2>1. SnapshotFingerprint(a) = SnapshotFingerprint(b) <=> ha = hb
        BY <1>2, <1>3 DEF SnapshotFingerprint
  <2>2. ha = hb <=> \A p \in Captured(a) : Digest(a[p]) = Digest(b[p])
    <3>1. ASSUME ha = hb, NEW p \in Captured(a)
          PROVE  Digest(a[p]) = Digest(b[p])
      <4>1. ha[p] = Digest(a[p]) /\ hb[p] = Digest(b[p])
            OBVIOUS
      <4>2. QED BY <3>1, <4>1
    <3>2. QED BY <3>1
  <2>3. QED BY <2>1, <2>2
<1>8. QED BY <1>5, <1>6, <1>7 DEF AnalysisId

(***************************************************************************)
(* The user is asked exactly when there is something to review.            *)
(***************************************************************************)
THEOREM ChoiceForReviews ==
    ASSUME NEW items
    PROVE  ChoiceIffActionable(items)
<1>1. ASSUME NEW i \in items, ClassifyItem(i).actionable
      PROVE  ClassifyItem(i).recommended = "needs_review"
  <2>1. \E c, s : ClassifyItem(i) = Leave(i, c) \/ ClassifyItem(i) = Review(i, c, s)
    <3>1. CASE i.kind = "file"
          BY <3>1 DEF ClassifyItem, ClassifyFile
    <3>2. CASE i.kind = "surface"
          BY <3>2 DEF ClassifyItem, ClassifySurface
    <3>3. CASE i.kind = "notice"
          BY <3>3 DEF ClassifyItem, ClassifyNotice
    <3>4. CASE i.kind = "drift_record"
          BY <3>4 DEF ClassifyItem, ClassifyDrift
    <3>5. CASE i.kind \notin {"file", "surface", "notice", "drift_record"}
          BY <3>5 DEF ClassifyItem
    <3>6. QED BY <3>1, <3>2, <3>3, <3>4, <3>5
  <2>2. QED BY <1>1, <2>1 DEF Leave, Review, Decision
<1>2. QED BY <1>1 DEF ChoiceIffActionable, UserChoiceRequired, Decisions

(***************************************************************************)
(* A request for a report, or for support, is never additive, corrective   *)
(* or informational.                                                       *)
(***************************************************************************)
THEOREM ReportsMigrate ==
    ASSUME NEW words
    PROVE  ReportsArePorts(words)
<1>1. SUFFICES ASSUME IsText(words), "report" \in words \/ "support" \in words
               PROVE  RequestKind(words) \in {"diagnostic", "verification", "migration"}
      BY DEF ReportsArePorts
<1>2. "port" \in words
      BY <1>1 DEF IsText, Within
<1>3. Scores("migration", words)
  <2>1. "port" \in Keywords.migration
        BY DEF Keywords
  <2>2. QED BY <1>2, <2>1 DEF Scores
<1>4. \E w \in words : w \in Explicit["migration"]
  <2>1. "port" \in Explicit.migration
        BY DEF Explicit
  <2>2. QED BY <1>2, <2>1
<1>5. ScoresFor("migration", words)
      BY <1>3, <1>4 DEF ScoresFor
<1>6. QED BY <1>5 DEF RequestKind
-------------------------------------------------------------------------------
(***************************************************************************)
(* In a pipeline run the plan the simulation works from is not compared    *)
(* with the one gap evaluation approved.                                   *)
(***************************************************************************)
THEOREM PlanIsNotCompared ==
    ASSUME NEW gap, NEW a, NEW b
    PROVE  AdmissionIgnoresPlan(gap, a, b)
<1>1. QED BY DEF AdmissionIgnoresPlan, OfGapEvaluation, Complaint

(***************************************************************************)
(* ... and no file of the target is protected.                             *)
(***************************************************************************)
THEOREM TargetIsNotProtected ==
    ASSUME NEW gap, NEW before, NEW after
    PROVE  NothingProtected(gap, before, after)
<1>1. SUFFICES ASSUME gap.required_source_files = {}
               PROVE  TargetUnchanged(Protection(gap, before), after)
      BY DEF NothingProtected, OfGapEvaluation
<1>2. DOMAIN Protection(gap, before) = {}
      BY <1>1 DEF Protection
<1>3. QED BY <1>2 DEF TargetUnchanged

(***************************************************************************)
(* What is forbidden by default no plan can allow.                         *)
(***************************************************************************)
THEOREM DefaultsForbid ==
    ASSUME NEW plan, NEW default, NEW p
    PROVE  ForbiddenStays(plan, default, p)
<1>1. QED BY DEF ForbiddenStays, InBoundary, Boundary

(***************************************************************************)
(* Where the final verdict of a verification differs from its results.     *)
(***************************************************************************)
THEOREM FinalVerdict ==
    ASSUME NEW v, v.commands \subseteq BOOLEAN
    PROVE  VerdictsDiffer(v)
<1>1. ASSUME NEW type, NEW paths
      PROVE  (\A r \in Complaints(type, paths) : r.passed) <=> paths = {}
  <2>1. CASE paths = {}
        BY <2>1 DEF Complaints, Result
  <2>2. CASE paths # {}
    <3>1. PICK p \in paths : TRUE
          BY <2>2
    <3>2. Result(type, p, FALSE) \in Complaints(type, paths)
          BY <2>2, <3>1 DEF Complaints
    <3>3. ~Result(type, p, FALSE).passed
          BY DEF Result
    <3>4. QED BY <2>2, <3>2, <3>3
  <2>3. QED BY <2>1, <2>2
<1>2. AllPassed(v) <=>
        /\ v.corrections \subseteq v.present
        /\ v.changed \subseteq v.corrections
        /\ v.required \subseteq v.present
        /\ Unexpected(v) = {}
        /\ FALSE \notin v.commands
  <2> DEFINE corrections == {Result("intended_correction_exists", p, p \in v.present) :
                                p \in v.corrections}
             commands == {Result("verification_command", Summary, c) : c \in v.commands}
  <2>1. (\A r \in corrections : r.passed) <=> v.corrections \subseteq v.present
    <3>1. \A p : Result("intended_correction_exists", p, p \in v.present).passed <=> p \in v.present
          BY DEF Result
    <3>2. QED BY <3>1
  <2>2. (\A r \in commands : r.passed) <=> FALSE \notin v.commands
    <3>1. \A c \in v.commands : Result("verification_command", Summary, c).passed <=> c
          BY DEF Result
    <3>2. (\A r \in commands : r.passed) <=> \A c \in v.commands : c
          BY <3>1
    <3>3. QED BY <3>2
  <2>3. AllPassed(v) <=>
          /\ \A r \in corrections : r.passed
          /\ \A r \in Complaints("files_match_admitted_plan", v.changed \ v.corrections) : r.passed
          /\ \A r \in Complaints("no_required_file_missing", v.required \ v.present) : r.passed
          /\ \A r \in Complaints("no_unexpected_file_created", Unexpected(v)) : r.passed
          /\ \A r \in commands : r.passed
        BY DEF AllPassed, Results
  <2>4. /\ v.changed \ v.corrections = {} <=> v.changed \subseteq v.corrections
        /\ v.required \ v.present = {} <=> v.required \subseteq v.present
        OBVIOUS
  <2> HIDE DEF corrections, commands
  <2>5. QED BY <1>1, <2>1, <2>2, <2>3, <2>4
<1>3. VerificationPassed(v) => (AllPassed(v) <=> v.corrections \subseteq v.present)
      BY <1>2 DEF VerificationPassed
<1>4. ASSUME AllPassed(v)
      PROVE  VerificationPassed(v) <=> UnrelatedUnchanged(v)
  <2>1. ~Mentions(v, "conflict") /\ ~Mentions(v, "regression")
        BY <1>4 DEF AllPassed, Mentions
  <2>2. v.corrections = {} \/ v.corrections \cap v.present # {}
        BY <1>2, <1>4
  <2>3. QED BY <1>2, <1>4, <2>1, <2>2 DEF VerificationPassed
<1>5. QED BY <1>3, <1>4 DEF VerdictsDiffer

(***************************************************************************)
(* The fingerprint of a simulation is not one of its input.                *)
(***************************************************************************)
THEOREM ClockInFingerprint ==
    ASSUME NEW plan, NEW boundary, NEW v, NEW t \in Nat, NEW u \in Nat
    PROVE  FingerprintFollowsClock(plan, boundary, v, t, u)
<1>1. SUFFICES ASSUME t % 1000000 # u % 1000000, NEW route,
                      SimulationFingerprint(plan, boundary, v, t, route)
                        = SimulationFingerprint(plan, boundary, v, u, route)
               PROVE  FALSE
      BY DEF FingerprintFollowsClock
<1> DEFINE Ids(now) == {<<Identifier(r, now), r.passed>> : r \in Results(v)}
<1>2. Ids(t) = Ids(u)
      BY <1>1 DEF SimulationFingerprint
<1>3. PICK r \in Results(v) : TRUE
  <2>1. Complaints("no_unexpected_file_created", Unexpected(v)) # {}
        BY DEF Complaints
  <2>2. QED BY <2>1 DEF Results
<1>4. PICK q \in Results(v) : <<Identifier(r, t), r.passed>> = <<Identifier(q, u), q.passed>>
  <2>1. <<Identifier(r, t), r.passed>> \in Ids(t)
        BY <1>3
  <2>2. <<Identifier(r, t), r.passed>> \in Ids(u)
        BY <1>2, <2>1
  <2>3. QED BY <2>2
<1>5. Identifier(r, t).clock = Identifier(q, u).clock
      BY <1>4
<1>6. QED BY <1>1, <1>5 DEF Identifier

(***************************************************************************)
(* The simulation's routes are the table's, and inspection is reached by a *)
(* prepared and verified simulation only.                                  *)
(***************************************************************************)
THEOREM SimulationRoutes ==
    ASSUME NEW o, o.executed \in {"completed", "failed"}
    PROVE  RoutesFollowTable(o)
<1> DEFINE prepared ==
        Complaint(o.gap, o.plan) = "none" /\ o.demo_builds /\ o.isolation = "none"
<1>1. CASE Simulation(o) = Raised
      BY <1>1 DEF RoutesFollowTable, Raised, Unprepared, Output
<1>2. CASE Simulation(o) = Unprepared /\ ~prepared
      BY <1>2 DEF RoutesFollowTable, Unprepared, Output, TableRoute, GoesOn
<1>3. CASE Simulation(o) = Broken /\ prepared
      BY <1>3 DEF RoutesFollowTable, Broken, Output, TableRoute, GoesOn
<1>4. CASE Simulation(o) = Output("failed", o.executed, "gap_handoff", TRUE) /\ prepared
      BY <1>4 DEF RoutesFollowTable, Output, TableRoute, GoesOn
<1>5. CASE /\ Simulation(o) = Output("completed", "completed", "inspection", TRUE)
           /\ prepared /\ VerificationPassed(o.v)
      BY <1>5 DEF RoutesFollowTable, Output, TableRoute, GoesOn
<1>6. QED BY <1>1, <1>2, <1>3, <1>4, <1>5 DEF Simulation

(***************************************************************************)
(* TaskClassifier has a rule for a question after two or more "if"s.  No   *)
(* prompt reaches it: the rule before it needs one of the words of logic,  *)
(* "if" among them, and a question mark.                                   *)
(***************************************************************************)
THEOREM PremiseChainUnreachable ==
    ASSUME NEW p, p.ifs \in Nat, PossiblePrompt(p)
    PROVE  Structural(p).method # "builtin_logic_chain"
<1>1. p.ifs >= 2 /\ p.ends_in_question => p.logic_word /\ p.question
      BY DEF PossiblePrompt
<1>2. QED BY <1>1 DEF Structural, Verdict

(***************************************************************************)
(* The tasks of a batch have distinct ids, every id of a well-formed item  *)
(* has its task, and validate() calls the input valid exactly when every   *)
(* item is one of the tasks.                                               *)
(***************************************************************************)
THEOREM TasksAreDistinct ==
    ASSUME NEW items, DOMAIN items \subseteq Nat
    PROVE  /\ \A i, j \in Accepted(items) : items[i].id = items[j].id => i = j
           /\ \A i \in WellFormed(items) : \E j \in Accepted(items) : items[j].id = items[i].id
           /\ InputValid(items) <=> Accepted(items) = DOMAIN items
<1>1. WellFormed(items) \subseteq DOMAIN items /\ Accepted(items) \subseteq WellFormed(items)
      BY DEF WellFormed, Accepted
<1>2. ASSUME NEW i \in Accepted(items), NEW j \in Accepted(items),
             items[i].id = items[j].id
      PROVE  i = j
  <2>1. i <= j /\ j <= i
        BY <1>1, <1>2 DEF Accepted
  <2>2. QED BY <1>1, <2>1
<1>3. ASSUME NEW i \in WellFormed(items)
      PROVE  \E j \in Accepted(items) : items[j].id = items[i].id
  <2> DEFINE same == {j \in WellFormed(items) : items[j].id = items[i].id}
  <2>1. same \subseteq Nat /\ same # {}
        BY <1>1
  <2>2. PICK j \in same : \A k \in same : j <= k
        BY <2>1, Least
  <2>3. j \in Accepted(items)
        BY <2>2 DEF Accepted
  <2>4. QED BY <2>2, <2>3
<1>4. Malformed(items) = {} <=> WellFormed(items) = DOMAIN items
      BY <1>1 DEF Malformed
<1>5. QED BY <1>1, <1>2, <1>3, <1>4 DEF InputValid

(***************************************************************************)
(* An answer that the sentiment validator accepts is a bare label, or a    *)
(* JSON object in the text of which a label occurs: a label with its       *)
(* justification never is, although the code's comment expects it.         *)
(***************************************************************************)
THEOREM NoJustifiedLabel ==
    ASSUME NEW a, a.form \in Forms, SentimentErrors(a) = {}
    PROVE  \/ a.form = "bare" /\ a.word \in Labels
           \/ a.form = "json" /\ a.mentions # {}
<1>1. CASE a.form = "sentence"
      BY <1>1 DEF SentimentErrors, LabelAccepted, ValidatorRaises
<1>2. CASE a.form = "bare"
      BY <1>2 DEF SentimentErrors, ValidatorRaises, Report
<1>3. CASE a.form = "compact_json"
      BY <1>3 DEF SentimentErrors, ValidatorRaises, Report
<1>4. CASE a.form = "json"
      BY <1>4 DEF SentimentErrors, ValidatorRaises, Report
<1>5. QED BY <1>1, <1>2, <1>3, <1>4 DEF Forms

(***************************************************************************)
(* A summary that repeats the text word for word is no copy as soon as the *)
(* instruction has more than one nineteenth of the text's distinct words.  *)
(***************************************************************************)
THEOREM VerbatimIsNoCopy ==
    ASSUME NEW text, IsFiniteSet(text), NEW instruction, IsFiniteSet(instruction),
           text \cap instruction = {},
           19 * Cardinality(instruction) > Cardinality(text),
           NEW p, p.words = text \cup instruction, NEW a, a.words = text
    PROVE  ~IsCopy(p, a)
<1>1. a.words \cap p.words = text
      OBVIOUS
<1>2. Cardinality(text) \in Nat /\ Cardinality(instruction) \in Nat
      BY FS_CardinalityType
<1>3. Cardinality(text \cap instruction) = 0
      BY FS_EmptySet
<1>4. Cardinality(p.words) = Cardinality(text) + Cardinality(instruction)
      BY <1>2, <1>3, FS_Union
<1>5. QED BY <1>1, <1>2, <1>4 DEF IsCopy

(***************************************************************************)
(* No prompt makes the shipped templates raise, and none of them states    *)
(* the limit or the signature the prompt asks for.                         *)
(***************************************************************************)
THEOREM TemplatesAreBare ==
    ASSUME NEW p
    PROVE  /\ ~BuildRaises("text_summarisation", SummarySkill, p)
           /\ ~BuildRaises("code_generation", GenerationSkill, p)
           /\ ChosenTemplate("text_summarisation", SummarySkill) = {}
           /\ ChosenTemplate("code_generation", GenerationSkill) = {}
<1>1. ChosenTemplate("text_summarisation", SummarySkill) = {}
      BY DEF ChosenTemplate, SummarySkill, SkillTemplate, TemplateKey, NoTemplate
<1>2. ChosenTemplate("code_generation", GenerationSkill) = {}
      BY DEF ChosenTemplate, GenerationSkill, SkillTemplate, TemplateKey, NoTemplate
<1>3. QED BY <1>1, <1>2 DEF BuildRaises
-------------------------------------------------------------------------------
(* Triggers and confidences *)

\* Induction up to a bound, with the set of the numbers that have the property.
LEMMA UpTo ==
    ASSUME NEW n \in Nat, NEW S, 0 \in S, \A m \in 1 .. n : m - 1 \in S => m \in S
    PROVE  0 .. n \subseteq S
<1> DEFINE without == (0 .. n) \ S
<1>1. ASSUME without # {} PROVE FALSE
  <2>1. without \subseteq Nat
        OBVIOUS
  <2>2. PICK m \in without : \A k \in without : m <= k
        BY <1>1, <2>1, Least
  <2>3. m \in 1 .. n /\ m - 1 \in 0 .. n
        BY <2>2
  <2>4. m - 1 \in S
        BY <2>2, <2>3
  <2>5. QED BY <2>2, <2>3, <2>4
<1>2. QED BY <1>1

\* A running total of natural numbers exists ...
LEMMA TotalsExist ==
    ASSUME NEW n \in Nat, NEW t \in [1 .. n -> Nat]
    PROVE  \E g \in [0 .. n -> Nat] : g[0] = 0 /\ \A i \in 1 .. n : g[i] = g[i - 1] + t[i]
<1> DEFINE Totals(m, g) == g[0] = 0 /\ \A i \in 1 .. m : g[i] = g[i - 1] + t[i]
           S == {m \in 0 .. n : \E g \in [0 .. m -> Nat] : Totals(m, g)}
<1>1. 0 \in S
  <2> DEFINE z == [i \in 0 .. 0 |-> 0]
  <2>1. z \in [0 .. 0 -> Nat] /\ Totals(0, z)
        OBVIOUS
  <2> HIDE DEF z, Totals
  <2>2. 0 \in 0 .. n
        OBVIOUS
  <2>3. QED BY <2>1, <2>2
<1>2. ASSUME NEW m \in 1 .. n, m - 1 \in S PROVE m \in S
  <2>1. PICK g \in [0 .. m - 1 -> Nat] : Totals(m - 1, g)
        BY <1>2
  <2> DEFINE h == [i \in 0 .. m |-> IF i = m THEN g[m - 1] + t[m] ELSE g[i]]
  <2>2. g[m - 1] \in Nat /\ t[m] \in Nat
        OBVIOUS
  <2>3. h \in [0 .. m -> Nat]
        BY <2>2
  <2>4. ASSUME NEW i \in 1 .. m PROVE h[i] = h[i - 1] + t[i]
    <3>1. i - 1 \in 0 .. m - 1 /\ h[i - 1] = g[i - 1]
          OBVIOUS
    <3>2. CASE i = m
          BY <3>1, <3>2
    <3>3. CASE i # m
      <4>1. i \in 1 .. m - 1 /\ h[i] = g[i]
            BY <3>3
      <4>2. QED BY <2>1, <3>1, <4>1
    <3>4. QED BY <3>2, <3>3
  <2>5. h[0] = 0
        BY <2>1
  <2> HIDE DEF h
  <2>6. Totals(m, h)
        BY <2>4, <2>5
  <2> HIDE DEF Totals
  <2>7. QED BY <2>3, <2>6
<1> HIDE DEF S
<1>3. n \in S
  <2>1. 0 .. n \subseteq S
        BY <1>1, <1>2, UpTo
  <2>2. QED BY <2>1
<1>4. \E g \in [0 .. n -> Nat] : Totals(n, g)
  <2> HIDE DEF Totals
  <2>1. QED BY <1>3 DEF S
<1>5. QED BY <1>4

\* ... and is at least each of its terms.
LEMMA TotalsBound ==
    ASSUME NEW n \in Nat, NEW t \in [1 .. n -> Nat], NEW g,
           g[0] = 0, \A i \in 1 .. n : g[i] = g[i - 1] + t[i]
    PROVE  g[n] \in Nat /\ \A j \in 1 .. n : t[j] <= g[n]
<1> DEFINE Bounds(m) == g[m] \in Nat /\ \A j \in 1 .. m : t[j] <= g[m]
           S == {m \in 0 .. n : Bounds(m)}
<1>1. 0 \in S
      OBVIOUS
<1>2. ASSUME NEW m \in 1 .. n, m - 1 \in S PROVE m \in S
  <2>1. g[m] = g[m - 1] + t[m] /\ t[m] \in Nat /\ g[m - 1] \in Nat
        BY <1>2
  <2>2. ASSUME NEW j \in 1 .. m PROVE t[j] <= g[m]
    <3>1. CASE j = m
          BY <2>1, <3>1
    <3>2. CASE j # m
      <4>1. j \in 1 .. m - 1 /\ t[j] \in Nat
            BY <3>2
      <4>2. t[j] <= g[m - 1]
            BY <1>2, <4>1
      <4>3. QED BY <2>1, <4>1, <4>2
    <3>3. QED BY <3>1, <3>2
  <2>3. QED BY <2>1, <2>2
<1> HIDE DEF S
<1>3. n \in S
  <2>1. 0 .. n \subseteq S
        BY <1>1, <1>2, UpTo
  <2>2. QED BY <2>1
<1>4. Bounds(n)
  <2> HIDE DEF Bounds
  <2>1. QED BY <1>3 DEF S
<1>5. QED BY <1>4

\* The triggers of a prompt, in the order of the skills.
IsPrompt(p, order) ==
    /\ \A i \in DOMAIN order : p.triggers[order[i]] \in Nat /\ p.anti[order[i]] \in Nat
    /\ \A i, j \in DOMAIN order : order[i] = order[j] => i = j

LEMMA TriggerTotal ==
    ASSUME NEW C, NEW order \in Seq(C), NEW p, IsPrompt(p, order)
    PROVE  /\ TotalTriggers(p, order) \in Nat
           /\ \A i \in 1 .. Len(order) : p.triggers[order[i]] <= TotalTriggers(p, order)
<1> DEFINE n == Len(order)
           t == [i \in 1 .. n |-> p.triggers[order[i]]]
           Defines(g) == g = [i \in 0 .. n |-> IF i = 0 THEN 0
                                               ELSE g[i - 1] + p.triggers[order[i]]]
           sum == CHOOSE g : Defines(g)
<1>1. n \in Nat /\ t \in [1 .. n -> Nat]
      BY DEF IsPrompt
<1>2. \E g : Defines(g)
  <2>1. PICK g \in [0 .. n -> Nat] : g[0] = 0 /\ \A i \in 1 .. n : g[i] = g[i - 1] + t[i]
        BY <1>1, TotalsExist
  <2>2. ASSUME NEW i \in 0 .. n
        PROVE  g[i] = IF i = 0 THEN 0 ELSE g[i - 1] + p.triggers[order[i]]
        BY <1>1, <2>1
  <2>3. Defines(g)
        BY <2>1, <2>2
  <2>4. QED BY <2>3
<1>3. Defines(sum)
      BY <1>2
<1>4. sum[0] = 0 /\ \A i \in 1 .. n : sum[i] = sum[i - 1] + t[i]
  <2> HIDE DEF sum
  <2>1. sum[0] = 0
        BY <1>1, <1>3
  <2>2. ASSUME NEW i \in 1 .. n PROVE sum[i] = sum[i - 1] + t[i]
        BY <1>1, <1>3
  <2>3. QED BY <2>1, <2>2
<1>5. TotalTriggers(p, order) = sum[n]
      BY DEF TotalTriggers
<1> HIDE DEF sum
<1>6. sum[n] \in Nat /\ \A j \in 1 .. n : t[j] <= sum[n]
      BY <1>1, <1>4, TotalsBound
<1>7. QED BY <1>1, <1>5, <1>6

\* A skill's weight is at most the number of its triggers.
LEMMA WeightType ==
    ASSUME NEW C, NEW order \in Seq(C), NEW p, IsPrompt(p, order), NEW i \in 1 .. Len(order)
    PROVE  /\ Weight(p, order[i]) \in Nat
           /\ Weight(p, order[i]) <= p.triggers[order[i]]
  BY DEF IsPrompt, Weight

\* There is a best skill: the first of those with the greatest weight.
LEMMA BestSkillExists ==
    ASSUME NEW C, NEW order \in Seq(C), order # <<>>, NEW p, IsPrompt(p, order)
    PROVE  \E b \in 1 .. Len(order) :
              /\ BestSkill(p, order) = order[b]
              /\ \A j \in 1 .. Len(order) : Weight(p, order[j]) <= Weight(p, order[b])
<1> DEFINE n == Len(order)
           total == TotalTriggers(p, order)
           w(i) == Weight(p, order[i])
           short == {total - w(i) : i \in 1 .. n}
<1>1. n \in Nat \ {0} /\ DOMAIN order = 1 .. n /\ total \in Nat
      BY TriggerTotal
<1>2. \A i \in 1 .. n : w(i) \in Nat /\ w(i) <= total
  <2>1. ASSUME NEW i \in 1 .. n PROVE w(i) \in Nat /\ w(i) <= total
    <3>1. w(i) \in Nat /\ w(i) <= p.triggers[order[i]] /\ p.triggers[order[i]] \in Nat
          BY <1>1, WeightType DEF IsPrompt
    <3>2. p.triggers[order[i]] <= total
          BY TriggerTotal
    <3> HIDE DEF w, total
    <3>3. QED BY <1>1, <3>1, <3>2
  <2>2. QED BY <2>1
<1> HIDE DEF w, total, n
<1>3. PICK a \in 1 .. n : \A j \in 1 .. n : w(j) <= w(a)
  <2>1. short \subseteq Nat /\ short # {}
        BY <1>1, <1>2
  <2>2. PICK s \in short : \A r \in short : s <= r
        BY <2>1, Least
  <2>3. PICK a \in 1 .. n : s = total - w(a)
        BY <2>2
  <2>4. ASSUME NEW j \in 1 .. n PROVE w(j) <= w(a)
    <3>1. s <= total - w(j)
          BY <2>2
    <3>2. QED BY <1>1, <1>2, <2>3, <3>1
  <2>5. QED BY <2>4
<1> DEFINE heaviest == {i \in 1 .. n : w(i) = w(a)}
<1>4. heaviest \subseteq Nat /\ heaviest # {}
      BY <1>1
<1>5. PICK b \in heaviest : \A i \in heaviest : b <= i
      BY <1>4, Least
<1>6. b \in 1 .. n /\ \A j \in 1 .. n : w(j) <= w(b) /\ (j # b => w(j) < w(b) \/ b < j)
  <2>1. b \in 1 .. n /\ w(b) = w(a)
        BY <1>5
  <2>2. ASSUME NEW j \in 1 .. n, j # b PROVE w(j) < w(b) \/ b < j
    <3>1. CASE w(j) = w(a)
      <4>1. b <= j
            BY <1>5, <3>1
      <4>2. QED BY <1>1, <2>1, <2>2, <4>1
    <3>2. CASE w(j) # w(a)
          BY <1>2, <1>3, <2>1, <3>2
    <3>3. QED BY <3>1, <3>2
  <2>3. QED BY <1>3, <2>1, <2>2
<1> DEFINE IsBest(c) == \A i, j \in DOMAIN order :
                            order[i] = c /\ i # j =>
                                \/ Weight(p, order[j]) < Weight(p, c)
                                \/ Weight(p, order[j]) = Weight(p, c) /\ i < j
           named == {order[i] : i \in DOMAIN order}
<1>7. order[b] \in named /\ IsBest(order[b])
  <2>1. \A i \in DOMAIN order : order[i] = order[b] => i = b
        BY <1>1, <1>6 DEF IsPrompt
  <2>2. \A j \in DOMAIN order : w(j) \in Nat
        BY <1>1, <1>2
  <2>3. QED BY <1>1, <1>6, <2>1, <2>2 DEF w
<1>8. ASSUME NEW c \in named, IsBest(c) PROVE c = order[b]
  <2>1. PICK i \in DOMAIN order : c = order[i]
        BY <1>8
  <2>2. w(i) \in Nat /\ w(b) \in Nat /\ i \in Nat /\ b \in Nat
        BY <1>1, <1>2, <1>6, <2>1
  <2>3. i # b => w(b) < w(i) \/ (w(b) = w(i) /\ i < b)
        BY <1>1, <1>6, <1>8, <2>1 DEF w
  <2>4. i # b => w(i) < w(b) \/ (w(i) <= w(b) /\ b < i)
        BY <1>1, <1>6, <2>1
  <2>5. i = b
        BY <2>2, <2>3, <2>4
  <2>6. QED BY <2>1, <2>5
<1>9. BestSkill(p, order) = order[b]
  <2>1. BestSkill(p, order) = CHOOSE c \in named : IsBest(c)
        BY DEF BestSkill
  <2> HIDE DEF named, IsBest
  <2>2. QED BY <1>7, <1>8, <2>1
<1>10. QED BY <1>6, <1>9 DEF w, n

(***************************************************************************)
(* The confidence of the classifier is a fraction of 1 before anything caps*)
(* it, its denominator is never 0, and it is 0 exactly for a prompt without*)
(* a category, for any number of skills and any triggers                   *)
(* (classify_deterministic).                                               *)
(***************************************************************************)
THEOREM ConfidenceIsFraction ==
    ASSUME NEW C, "unknown" \notin C, NEW order \in Seq(C), NEW p, IsPrompt(p, order)
    PROVE  LET v == ClassifyDeterministic(p, order)
           IN  /\ v.num \in Nat /\ v.den \in Nat \ {0} /\ v.num <= v.den
               /\ v.num = 0 <=> v.category = "unknown"
<1> DEFINE Fraction(v) == /\ v.num \in Nat /\ v.den \in Nat \ {0} /\ v.num <= v.den
                          /\ v.num = 0 <=> v.category = "unknown"
<1>1. Structural(p).method # "none" => Fraction(Structural(p))
      BY DEF Structural, Verdict
<1>2. Fraction(Fallback(p))
  <2> DEFINE hits == {i \in DOMAIN BuiltinOrder : BuiltinOrder[i] \in p.builtin}
             first == CHOOSE i \in hits : \A j \in hits : i <= j
  <2>1. CASE hits = {}
        BY <2>1 DEF Fallback, Verdict
  <2>2. CASE hits # {}
    <3>1. hits \subseteq Nat
          BY DEF BuiltinOrder
    <3>2. first \in hits
      <4> HIDE DEF hits
      <4>1. \E i \in hits : \A j \in hits : i <= j
            BY <2>2, <3>1, Least
      <4>2. QED BY <4>1
    <3>3. \A i \in DOMAIN BuiltinOrder : BuiltinOrder[i] # "unknown"
          BY DEF BuiltinOrder
    <3>4. BuiltinOrder[first] # "unknown"
          BY <3>2, <3>3
    <3>5. Fallback(p) = Verdict(BuiltinOrder[first], "builtin_fallback", 80, 100)
          BY <2>2 DEF Fallback
    <3> HIDE DEF first
    <3>6. QED BY <3>4, <3>5 DEF Verdict
  <2>3. QED BY <2>1, <2>2
<1>3. ASSUME order # <<>>, Weight(p, BestSkill(p, order)) > 0
      PROVE  Fraction(Verdict(BestSkill(p, order), "deterministic",
                              Weight(p, BestSkill(p, order)), TotalTriggers(p, order)))
  <2>1. PICK b \in 1 .. Len(order) : BestSkill(p, order) = order[b]
        BY <1>3, BestSkillExists
  <2>2. order[b] \in C /\ order[b] # "unknown"
        OBVIOUS
  <2>3. /\ Weight(p, order[b]) \in Nat /\ p.triggers[order[b]] \in Nat
        /\ Weight(p, order[b]) <= p.triggers[order[b]]
        BY WeightType DEF IsPrompt
  <2>4. TotalTriggers(p, order) \in Nat /\ p.triggers[order[b]] <= TotalTriggers(p, order)
        BY TriggerTotal
  <2>5. /\ Weight(p, order[b]) > 0 /\ Weight(p, order[b]) <= TotalTriggers(p, order)
        /\ TotalTriggers(p, order) # 0
        BY <1>3, <2>1, <2>3, <2>4
  <2>6. QED BY <2>1, <2>2, <2>3, <2>4, <2>5 DEF Verdict
<1> HIDE DEF Fraction
<1>4. Fraction(ClassifyDeterministic(p, order))
      BY <1>1, <1>2, <1>3 DEF ClassifyDeterministic
<1>5. QED BY <1>4 DEF Fraction

(***************************************************************************)
(* The order in which a directory lists the skill files decides only       *)
(* between categories of the same weight: two orders of the same skills    *)
(* choose categories that weigh the same.                                  *)
(***************************************************************************)
THEOREM OrderDecidesTies ==
    ASSUME NEW C, NEW one \in Seq(C), NEW other \in Seq(C), one # <<>>, other # <<>>,
           {one[i] : i \in DOMAIN one} = {other[i] : i \in DOMAIN other},
           NEW p, IsPrompt(p, one), IsPrompt(p, other)
    PROVE  Weight(p, BestSkill(p, one)) = Weight(p, BestSkill(p, other))
<1>1. PICK a \in 1 .. Len(one) :
          /\ BestSkill(p, one) = one[a]
          /\ \A j \in 1 .. Len(one) : Weight(p, one[j]) <= Weight(p, one[a])
      BY BestSkillExists
<1>2. PICK b \in 1 .. Len(other) :
          /\ BestSkill(p, other) = other[b]
          /\ \A j \in 1 .. Len(other) : Weight(p, other[j]) <= Weight(p, other[b])
      BY BestSkillExists
<1>3. PICK i \in 1 .. Len(other) : other[i] = one[a]
      OBVIOUS
<1>4. PICK j \in 1 .. Len(one) : one[j] = other[b]
  <2>1. other[b] \in {other[k] : k \in DOMAIN other} /\ DOMAIN one = 1 .. Len(one)
        OBVIOUS
  <2>2. other[b] \in {one[k] : k \in DOMAIN one}
        BY <2>1
  <2>3. QED BY <2>1, <2>2
<1>5. Weight(p, one[a]) \in Nat /\ Weight(p, other[b]) \in Nat
      BY WeightType
<1>6. Weight(p, one[a]) <= Weight(p, other[b]) /\ Weight(p, other[b]) <= Weight(p, one[a])
      BY <1>1, <1>2, <1>3, <1>4
<1>7. QED BY <1>1, <1>2, <1>5, <1>6
-------------------------------------------------------------------------------
(***************************************************************************)
(* Whatever the tool for named entities accepts, the checks that           *)
(* category_validator makes after it accept too: they never refuse an      *)
(* answer, however many entities it has.                                   *)
(***************************************************************************)
THEOREM RepeatedChecksAreIdle ==
    ASSUME NEW a, a.form \in {"blank", "array", "broken", "object", "fenced", "lines"},
           DOMAIN a.items \subseteq Nat
    PROVE  NerErrors(a) = NerToolErrors(a)
<1> SUFFICES ASSUME NerToolErrors(a) = {}
             PROVE  RepeatedErrors(a.items) = {}
      BY DEF NerErrors
<1>1. \/ a.form = "array" /\ JsonErrors(a.items) = {}
      \/ a.form = "lines" /\ LineErrors(a.items) = {}
      BY DEF NerToolErrors
<1>2. CASE JsonErrors(a.items) = {}
  <2> DEFINE wrong == {i \in DOMAIN a.items : ItemErrors(a.items[i]) # {}}
             first == CHOOSE i \in wrong : \A j \in wrong : i <= j
  <2>1. ASSUME wrong # {} PROVE FALSE
    <3>1. first \in wrong
      <4>1. wrong \subseteq Nat
            OBVIOUS
      <4> HIDE DEF wrong
      <4>2. \E i \in wrong : \A j \in wrong : i <= j
            BY <2>1, <4>1, Least
      <4>3. QED BY <4>2
    <3>2. JsonErrors(a.items) = ItemErrors(a.items[first])
          BY <2>1 DEF JsonErrors
    <3> HIDE DEF first
    <3>3. QED BY <1>2, <3>1, <3>2
  <2>2. ASSUME NEW i \in DOMAIN a.items
        PROVE  a.items[i].type \in SupportedTypes /\ a.items[i].value # "none"
    <3>1. ItemErrors(a.items[i]) = {}
          BY <2>1
    <3>2. QED BY <3>1 DEF ItemErrors, ValidatorRaises
  <2>3. ~Duplicates(a.items)
        BY <1>2, <2>1 DEF JsonErrors, Report
  <2>4. QED BY <2>2, <2>3 DEF RepeatedErrors, Report
<1>3. CASE LineErrors(a.items) = {}
      BY <1>3 DEF LineErrors, RepeatedErrors, Report
<1>4. QED BY <1>1, <1>2, <1>3

(***************************************************************************)
(* For every prompt that asks for x + y * z, z not 1 and y not 0, the right*)
(* answer is refused and x + y is accepted: only the first operation is    *)
(* recomputed (_validate_mathematical_reasoning).                          *)
(***************************************************************************)
THEOREM PrecedenceIsIgnored ==
    ASSUME NEW x \in Int, NEW y \in Int, NEW z \in Int, y # 0, z # 1
    PROVE  LET p == [numbers |-> <<x, y, z>>, ops |-> <<"+", "*">>, units |-> FALSE]
               says(v) == [blank |-> FALSE, numbers |-> <<v>>, units |-> FALSE]
           IN  /\ MathErrors(p, says(x + y * z)) = {"wrong_value"}
               /\ MathErrors(p, says(x + y)) = {}
<1> DEFINE p == [numbers |-> <<x, y, z>>, ops |-> <<"+", "*">>, units |-> FALSE]
           says(v) == [blank |-> FALSE, numbers |-> <<v>>, units |-> FALSE]
<1>1. RecomputedValue(p) = x + y
      BY DEF RecomputedValue, Operate
<1>2. x + y * z # x + y
  <2>1. y * z # y
        OBVIOUS
  <2>2. y * z \in Int
        OBVIOUS
  <2>3. QED BY <2>1, <2>2
<1>3. ASSUME NEW v \in Int
      PROVE  MathErrors(p, says(v)) = Report("wrong_value", v # x + y)
      BY <1>1 DEF MathErrors, Report
<1>4. x + y * z \in Int /\ x + y \in Int
      OBVIOUS
<1>5. QED BY <1>2, <1>3, <1>4 DEF Report
==============================================================================
