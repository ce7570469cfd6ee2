------------------------ MODULE ArtifactCleanup_proofs ------------------------
(***************************************************************************)
(* What the cleanup commands may remove and what they report, for every    *)
(* tree, every naming of its entries, every index of runs and any number   *)
(* of commands and of changes by other processes.                          *)
(***************************************************************************)
EXTENDS ArtifactCleanup, FiniteSetTheorems, TLAPS

\* What is left to do, or under way, is in the plan, and only with --apply.
WorkInv ==
    /\ pc \in {"execute", "retain"} => \A e \in todo : plan[e] = "delete" /\ apply
    /\ pc = "remove" => /\ command = "cleanup" /\ plan[at] = "delete" /\ apply
                        /\ \A e \in todo : plan[e] = "delete"
    /\ pc \in {"classify", "execute"} => command = "cleanup"
    /\ pc = "retain" => command = "retention"

\* Nothing is removed before the plan is complete, nor without --apply.
NothingYet == (pc = "classify" \/ ~apply) => removed = {}

\* What is removed is what the command has decided to delete, and what lies below
\* that; without --apply nothing is.
RemovalsAreChosen ==
    \A e \in removed : \E a \in Above[e] \cup {e} : plan[a] = "delete" /\ apply

\* What the plan of run_cleanup says of directories without a finished run, and
\* of the artifacts of a run; and that of the retention of preserved entries.
PlanInv ==
    /\ pc = "classify" => \A d \in busy : d \notin todo
    /\ \A d \in busy : plan[d] = "delete" => d \in Temporary
    /\ command # "cleanup" => busy = {}
    /\ command = "cleanup" => \A f \in Entries \ Dirs : plan[f] = "delete" => f \notin Artifacts
    /\ command = "retention" => \A e \in Preserved : plan[e] # "delete"

\* A removal that is not on the list left an error.
ListedInv == errors \/ \A e \in removed : \E a \in Above[e] \cup {e} : a \in listed

StatusInv ==
    status \in {"completed_with_deletions", "completed_no_deletions", "completed", "skipped"}
        => pc = "idle" /\ (~errors \/ removed = {})

\* As long as nothing has changed since, the entry is as it was compared.
ComparedInv == pc = "remove" /\ ~window => UnchangedSincePlan(at)

IInv == TypeOK /\ WorkInv /\ NothingYet /\ RemovalsAreChosen /\ PlanInv /\ ListedInv
        /\ StatusInv /\ ComparedInv
-------------------------------------------------------------------------------
LEMMA DirectIsInside ==
    ASSUME NEW d \in Entries, NEW f \in Direct(d)
    PROVE  f \in Entries /\ Above[f] = Above[d] \cup {d}
  BY DEF Direct, Inside

LEMMA InsideIsBelow ==
    ASSUME NEW d \in Entries, NEW e \in {d} \cup Inside(d)
    PROVE  e \in Entries /\ d \in Above[e] \cup {e}
  BY DEF Inside

LEMMA DecisionType ==
    ASSUME NEW e \in Entries
    PROVE  Decision(disk, aged, index, e) \in Decisions
  BY DEF Decision, Decisions, RunDecision, ReferenceDecision

LEMMA FingerprintType ==
    ASSUME TypeOK, NEW e \in Entries
    PROVE  Fingerprint(disk, e) \in Fingerprints
  <1>1. disk[e] \in Contents
    BY DEF TypeOK
  <1>2. FirstBlock(disk[e]) \in Contents \cup {"unreadable"}
    BY <1>1 DEF FirstBlock, Contents, FileContents
  <1>3. {f \in Direct(e) \ Dirs : Exists(disk, f)} \subseteq Entries
    BY DEF Direct, Inside
  <1> QED BY <1>2, <1>3 DEF Fingerprint, Fingerprints

\* Only a temporary name condemns a directory without a finished run.
LEMMA UnfinishedIsKept ==
    ASSUME NEW d \in Dirs,
           ~\E f \in Direct(d) : f \in Reports /\ disk[f] \in {"success", "failed"},
           Decision(disk, aged, index, d) = "delete"
    PROVE  d \in Temporary
  <1>1. RunStatus(disk, d) \notin {"success", "failed"}
    <2> DEFINE legible(names) ==
            {f \in Direct(d) : f \in names /\ disk[f] \in ReportContents \ {"torn"}}
    <2>1. RunStatus(disk, d) =
            IF legible(Reports) # {} THEN disk[CHOOSE f \in legible(Reports) : TRUE]
            ELSE IF legible(Records) # {} THEN "unknown" ELSE "none"
      BY DEF RunStatus
    <2>2. legible(Reports) # {} => (CHOOSE f \in legible(Reports) : TRUE) \in legible(Reports)
      OBVIOUS
    <2>3. \A f \in legible(Reports) : disk[f] \notin {"success", "failed"}
      OBVIOUS
    <2> HIDE DEF legible
    <2> QED BY <2>1, <2>2, <2>3
  <1> QED BY <1>1 DEF Decision, ReferenceDecision

LEMMA ArtifactIsKept ==
    ASSUME NEW f \in Entries \ Dirs, Decision(disk, aged, index, f) = "delete"
    PROVE  f \notin Artifacts
  BY DEF Decision, IsRunDirectory

LEMMA ChosenIsPresent ==
    ASSUME NEW inRepo \in BOOLEAN
    PROVE  ChosenTransient(disk, inRepo) \subseteq Entries \ Preserved
  BY DEF ChosenTransient, FoundTransient
-------------------------------------------------------------------------------
LEMMA InitIInv == Init => IInv
  <1> SUFFICES ASSUME Init
               PROVE  IInv
    OBVIOUS
  <1>1. disk \in [Entries -> Contents]
    BY TreesAssumption DEF Init
  <1>2. NoPlan \in [Entries -> Decisions] /\ NoPrint \in [Entries -> Fingerprints]
    BY DEF NoPlan, NoPrint, Decisions, Fingerprints, Contents
  <1>3. TypeOK
    BY <1>1, <1>2 DEF Init, TypeOK
  <1> QED BY <1>3 DEF Init, IInv, WorkInv, NothingYet, RemovalsAreChosen, PlanInv,
                      ListedInv, StatusInv, ComparedInv, NoPlan
-------------------------------------------------------------------------------
(* A command starts with nothing removed, nothing listed and a new plan. *)

LEMMA StartCleanupIInv == IInv /\ StartCleanup => IInv'
  <1> SUFFICES ASSUME IInv, StartCleanup
               PROVE  IInv'
    OBVIOUS
  <1> USE DEF StartCleanup, Begin, IInv
  <1>1. NoPlan \in [Entries -> Decisions] /\ NoPrint \in [Entries -> Fingerprints]
    BY DEF NoPlan, NoPrint, Decisions, Fingerprints, Contents
  <1>2. todo' \subseteq Entries /\ errors' \in BOOLEAN /\ aged' \subseteq Dirs
    BY DEF Present, RootAccepted
  <1>3. TypeOK'
    BY <1>1, <1>2 DEF TypeOK
  <1>4. PlanInv'
    BY DEF PlanInv, NoPlan
  <1> QED BY <1>3, <1>4 DEF WorkInv, NothingYet, RemovalsAreChosen, ListedInv, StatusInv,
                            ComparedInv

LEMMA StartRetentionIInv == IInv /\ StartRetention => IInv'
  <1> SUFFICES ASSUME IInv, StartRetention
               PROVE  IInv'
    OBVIOUS
  <1> USE DEF StartRetention, Begin, IInv
  <1>1. NoPrint \in [Entries -> Fingerprints]
    BY DEF NoPrint, Fingerprints, Contents
  <1>2. PICK inRepo \in BOOLEAN :
          LET chosen == IF apply' THEN ChosenTransient(disk, inRepo) ELSE {} IN
          /\ todo' = chosen
          /\ plan' = [e \in Entries |-> IF e \in chosen THEN "delete" ELSE "none"]
    OBVIOUS
  <1>3. todo' \subseteq Entries /\ plan' \in [Entries -> Decisions]
    BY <1>2, ChosenIsPresent DEF Decisions
  <1>4. \A e \in todo' : plan'[e] = "delete" /\ apply'
    BY <1>2, <1>3
  <1>5. TypeOK'
    BY <1>1, <1>3 DEF TypeOK
  <1>6. \A e \in Preserved : plan'[e] # "delete"
    BY <1>2, ChosenIsPresent, NameAssumption
  <1> QED BY <1>4, <1>5, <1>6 DEF WorkInv, NothingYet, RemovalsAreChosen, ListedInv, StatusInv,
                            ComparedInv, PlanInv

(***************************************************************************)
(* Classifying fills in the plan; nothing has been removed yet.            *)
(***************************************************************************)
LEMMA ClassifyIInv == IInv /\ Classify => IInv'
  <1> SUFFICES ASSUME IInv, Classify
               PROVE  IInv'
    OBVIOUS
  <1> USE DEF Classify, IInv
  <1>1. PICK e \in Foremost :
        LET decision == Decision(disk, aged, index, e) IN
        /\ plan' = [plan EXCEPT ![e] = decision]
        /\ prints' = [prints EXCEPT ![e] = Fingerprint(disk, e)]
        /\ busy' = IF e \in Dirs /\ ~\E f \in Direct(e) :
                          f \in Reports /\ disk[f] \in {"success", "failed"}
                   THEN busy \cup {e} ELSE busy
        /\ IF decision = "raise"
           THEN End("raised")
           ELSE todo' = todo \ {e} /\ UNCHANGED <<pc, at, status>>
    OBVIOUS
  <1>2. e \in todo /\ e \in Entries
    BY DEF Foremost, TypeOK
  <1>3. TypeOK'
    <2>1. plan' \in [Entries -> Decisions]
      BY <1>1, <1>2, DecisionType DEF TypeOK
    <2>2. prints' \in [Entries -> Fingerprints]
      BY <1>1, <1>2, FingerprintType DEF TypeOK
    <2>3. busy' \subseteq Dirs
      BY <1>1 DEF TypeOK
    <2>4. todo' \subseteq Entries /\ pc' \in {"idle", "classify"} /\ at' \in Entries \cup {NoEntry}
      BY <1>1 DEF TypeOK, End
    <2> QED BY <2>1, <2>2, <2>3, <2>4 DEF TypeOK, choice
  <1>4. command = "cleanup" /\ removed = {} /\ removed' = {}
    BY DEF WorkInv, NothingYet
  <1>5. PlanInv'
    <2>1. plan'[e] = Decision(disk, aged, index, e) /\ \A f \in Entries \ {e} : plan'[f] = plan[f]
      BY <1>1, <1>2 DEF TypeOK
    <2>2. \A d \in busy' : plan'[d] = "delete" => d \in Temporary
      <3>1. e \in busy' /\ plan'[e] = "delete" => e \in Temporary
        BY <1>1, <1>2, <2>1, UnfinishedIsKept DEF PlanInv
      <3>2. busy' \ {e} \subseteq busy /\ busy \subseteq Entries
        BY <1>1, TreeAssumption DEF TypeOK
      <3> QED BY <2>1, <3>1, <3>2 DEF PlanInv
    <2>3. pc' = "classify" => \A d \in busy' : d \notin todo'
      BY <1>1 DEF PlanInv, End
    <2>4. \A f \in Entries \ Dirs : plan'[f] = "delete" => f \notin Artifacts
      BY <1>4, <2>1, ArtifactIsKept DEF PlanInv
    <2> QED BY <1>4, <2>2, <2>3, <2>4 DEF PlanInv, choice
  <1>6. WorkInv'
    BY <1>1, <1>4 DEF WorkInv, choice, End
  <1>7. StatusInv'
    BY <1>1, <1>4 DEF StatusInv, End
  <1> QED BY <1>1, <1>3, <1>4, <1>5, <1>6, <1>7 DEF NothingYet, RemovalsAreChosen, ListedInv,
                                                 ComparedInv, choice, End

LEMMA PlanDoneIInv == IInv /\ PlanDone => IInv'
  <1> SUFFICES ASSUME IInv, PlanDone
               PROVE  IInv'
    OBVIOUS
  <1> USE DEF PlanDone, IInv, choice, history
  <1>1. TypeOK' /\ WorkInv'
    BY DEF TypeOK, WorkInv, ToDelete
  <1> QED BY <1>1 DEF NothingYet, RemovalsAreChosen, PlanInv, ListedInv, StatusInv, ComparedInv

LEMMA RecheckIInv == IInv /\ Recheck => IInv'
  <1> SUFFICES ASSUME IInv, Recheck
               PROVE  IInv'
    OBVIOUS
  <1> USE DEF Recheck, IInv, choice
  <1>1. PICK e \in Foremost :
        /\ todo' = todo \ {e}
        /\ IF Exists(disk, e) /\ UnchangedSincePlan(e)
           THEN pc' = "remove" /\ at' = e /\ window' = FALSE /\ UNCHANGED errors
           ELSE /\ errors' = (errors \/ Exists(disk, e))
                /\ UNCHANGED <<pc, at, window>>
    OBVIOUS
  <1>2. e \in todo /\ e \in Entries /\ plan[e] = "delete" /\ apply
    BY DEF Foremost, TypeOK, WorkInv
  <1>3. TypeOK'
    BY <1>1, <1>2 DEF TypeOK
  <1>4. ComparedInv'
    BY <1>1 DEF ComparedInv, UnchangedSincePlan
  <1>5. WorkInv'
    BY <1>1, <1>2 DEF WorkInv
  <1> QED BY <1>1, <1>3, <1>4, <1>5 DEF NothingYet, RemovalsAreChosen, PlanInv, ListedInv, StatusInv
-------------------------------------------------------------------------------
(***************************************************************************)
(* Removals: whatever goes lies below an entry that the plan condemns, and *)
(* that entry is listed unless an error is noted.                          *)
(***************************************************************************)
LEMMA WithoutType ==
    ASSUME TypeOK, NEW gone
    PROVE  Without(gone) \in [Entries -> Contents]
  <1>1. "absent" \in Contents
    BY DEF Contents
  <1> QED BY <1>1 DEF Without, TypeOK

LEMMA RemoveIInv == IInv /\ Remove => IInv'
  <1> SUFFICES ASSUME IInv, Remove
               PROVE  IInv'
    OBVIOUS
  <1> USE DEF Remove, IInv, choice
  <1>1. PICK gone \in SUBSET ({at} \cup Inside(at)), failed \in BOOLEAN :
        /\ gone \subseteq Present
        /\ Removes(gone)
        /\ listed' = IF failed \/ gone = {} THEN listed ELSE listed \cup {at}
        /\ errors' = ErrorsAfter(failed)
    OBVIOUS
  <1>2. at \in Entries /\ plan[at] = "delete" /\ apply /\ command = "cleanup"
    BY DEF TypeOK, WorkInv
  <1>3. \A e \in gone : e \in Entries /\ at \in Above[e] \cup {e}
    BY <1>2, InsideIsBelow
  <1>4. TypeOK'
    <2>1. disk' \in [Entries -> Contents] /\ removed' \subseteq Entries
      BY <1>1, <1>3, WithoutType DEF Removes, TypeOK
    <2>2. errors' \in BOOLEAN /\ listed' \subseteq Entries
      BY <1>1, <1>2 DEF ErrorsAfter, TypeOK
    <2> QED BY <2>1, <2>2 DEF TypeOK
  <1>5. RemovalsAreChosen'
    BY <1>1, <1>2, <1>3 DEF RemovalsAreChosen, Removes
  <1>6. ListedInv'
    BY <1>1, <1>3 DEF ListedInv, Removes, ErrorsAfter
  <1>7. WorkInv' /\ PlanInv' /\ StatusInv' /\ ComparedInv' /\ NothingYet'
    BY <1>2 DEF WorkInv, PlanInv, StatusInv, ComparedInv, NothingYet
  <1> QED BY <1>4, <1>5, <1>6, <1>7

LEMMA RetainIInv == IInv /\ Retain => IInv'
  <1> SUFFICES ASSUME IInv, Retain
               PROVE  IInv'
    OBVIOUS
  <1> USE DEF Retain, IInv, choice
  <1>1. PICK e \in Foremost, gone \in SUBSET Present :
        /\ todo' = todo \ {e}
        /\ gone \subseteq {e} \cup Inside(e)
        /\ Removes(gone)
        /\ IF disk[e] = "dir" \/ e \in gone
           THEN listed' = listed \cup {e} /\ UNCHANGED errors
           ELSE errors' = TRUE /\ UNCHANGED listed
    OBVIOUS
  <1>2. e \in todo /\ e \in Entries /\ plan[e] = "delete" /\ apply /\ command = "retention"
    BY DEF Foremost, TypeOK, WorkInv
  <1>3. \A f \in gone : f \in Entries /\ e \in Above[f] \cup {f}
    BY <1>1, <1>2, InsideIsBelow
  <1>4. TypeOK'
    <2>1. disk' \in [Entries -> Contents] /\ removed' \subseteq Entries
      BY <1>1, <1>3, WithoutType DEF Removes, TypeOK
    <2>2. errors' \in BOOLEAN /\ listed' \subseteq Entries /\ todo' \subseteq Entries
      BY <1>1, <1>2 DEF TypeOK
    <2> QED BY <2>1, <2>2 DEF TypeOK
  <1>5. RemovalsAreChosen'
    BY <1>1, <1>2, <1>3 DEF RemovalsAreChosen, Removes
  <1>6. ListedInv'
    BY <1>1, <1>3 DEF ListedInv, Removes
  <1>7. WorkInv' /\ PlanInv' /\ StatusInv' /\ ComparedInv' /\ NothingYet'
    BY <1>1, <1>2 DEF WorkInv, PlanInv, StatusInv, ComparedInv, NothingYet
  <1> QED BY <1>4, <1>5, <1>6, <1>7
-------------------------------------------------------------------------------
(* The end of a command, and the steps of other processes. *)

LEMMA FinishCleanupIInv == IInv /\ FinishCleanup => IInv'
  <1> SUFFICES ASSUME IInv, FinishCleanup
               PROVE  IInv'
    OBVIOUS
  <1> USE DEF FinishCleanup, End, IInv, choice, history
  <1>1. TypeOK'
    BY DEF TypeOK, ToDelete
  <1>2. ListedInv'
    BY DEF ListedInv, NothingYet
  <1>3. StatusInv'
    BY DEF StatusInv, CleanupStatus, NothingYet
  <1> QED BY <1>1, <1>2, <1>3 DEF WorkInv, NothingYet, RemovalsAreChosen, PlanInv, ComparedInv

LEMMA FinishRetentionIInv == IInv /\ FinishRetention => IInv'
  <1> SUFFICES ASSUME IInv, FinishRetention
               PROVE  IInv'
    OBVIOUS
  <1> USE DEF FinishRetention, End, IInv, choice, history
  <1>1. disk' \in [Entries -> Contents]
    BY TreesAssumption DEF TypeOK, Contents, FileContents
  <1>2. TypeOK'
    BY <1>1 DEF TypeOK
  <1>3. StatusInv'
    BY DEF StatusInv, RetentionStatus
  <1> QED BY <1>2, <1>3 DEF WorkInv, NothingYet, RemovalsAreChosen, PlanInv, ComparedInv, ListedInv

LEMMA OthersIInv == IInv /\ (Write \/ Delete) => IInv'
  <1> SUFFICES ASSUME IInv, Write \/ Delete
               PROVE  IInv'
    OBVIOUS
  <1> USE DEF IInv
  <1>1. disk' \in [Entries -> Contents]
    <2>1. CASE Write
      <3>1. PICK e \in Entries :
              \E content \in Contents : disk' = [disk EXCEPT ![e] = content]
        BY <2>1 DEF Write, Contents
      <3> QED BY <3>1 DEF TypeOK
    <2>2. CASE Delete
      BY <2>2, WithoutType DEF Delete
    <2> QED BY <2>1, <2>2
  <1>2. window' = TRUE
        /\ UNCHANGED <<choice, pc, todo, plan, prints, at, listed, errors, status, removed, busy>>
    BY DEF Write, Delete, Changed
  <1>3. TypeOK'
    BY <1>1, <1>2 DEF TypeOK, choice
  <1> QED BY <1>2, <1>3 DEF WorkInv, NothingYet, RemovalsAreChosen, PlanInv, ComparedInv,
                            ListedInv, StatusInv, choice

LEMMA NextIInv == IInv /\ [Next]_vars => IInv'
  <1> SUFFICES ASSUME IInv, [Next]_vars
               PROVE  IInv'
    OBVIOUS
  <1>1. CASE Cleanup
    BY <1>1, StartCleanupIInv, ClassifyIInv, PlanDoneIInv, RecheckIInv, RemoveIInv,
       FinishCleanupIInv DEF Cleanup
  <1>2. CASE Retention
    BY <1>2, StartRetentionIInv, RetainIInv, FinishRetentionIInv DEF Retention
  <1>3. CASE Write \/ Delete
    BY <1>3, OthersIInv
  <1>4. CASE UNCHANGED vars
    BY <1>4 DEF vars, choice, history, IInv, TypeOK, WorkInv, NothingYet, RemovalsAreChosen,
                PlanInv, ListedInv, StatusInv, ComparedInv, UnchangedSincePlan, Fingerprint
  <1> QED BY <1>1, <1>2, <1>3, <1>4 DEF Next

LEMMA Inductive == Spec => []IInv
  BY InitIInv, NextIInv, PTL DEF Spec
-------------------------------------------------------------------------------
\* Every reachable state is well typed.
THEOREM TypeCorrect == Spec => []TypeOK
  <1>1. IInv => TypeOK
    BY DEF IInv
  <1> QED BY <1>1, Inductive, PTL

\* A command removes only what it decided to delete and what lies below it, and
\* without --apply nothing (execute_cleanup, run_cleanup_retention).
THEOREM OnlyChosenRemoved == Spec => []RemovalsAreChosen
  <1>1. IInv => RemovalsAreChosen
    BY DEF IInv
  <1> QED BY <1>1, Inductive, PTL

\* Each preserved entry that is removed lies in a directory the command chose.
PreservedGoWithDirectories ==
    command = "retention" =>
        \A e \in removed \cap Preserved : \E a \in Above[e] : plan[a] = "delete" /\ apply

\* The retention stage removes what must never be deleted only with a transient
\* directory above it (rmtree, runner.py:144), never by its own name.
THEOREM PreservedTheorem == Spec => []PreservedGoWithDirectories
  <1>1. IInv => PreservedGoWithDirectories
    BY DEF IInv, RemovalsAreChosen, PlanInv, PreservedGoWithDirectories
  <1> QED BY <1>1, Inductive, PTL

\* The artifacts of a run without a finished report survive run_cleanup, unless a
\* directory with a temporary name or a finished run around them goes.
THEOREM UnfinishedRunsSurvive == Spec => []RunInProgressSurvives
  <1>1. IInv => RunInProgressSurvives
    <2> SUFFICES ASSUME IInv, NEW d \in busy, NEW f \in Direct(d) \ Dirs,
                        f \in Artifacts, f \in removed
                 PROVE  \E a \in Above[d] \cup {d} :
                            plan[a] = "delete" /\ (a \notin busy \/ a \in Temporary)
      BY DEF RunInProgressSurvives
    <2>1. d \in Entries
      BY TreeAssumption DEF IInv, TypeOK
    <2>2. f \in Entries /\ Above[f] = Above[d] \cup {d}
      BY <2>1, DirectIsInside
    <2>3. PICK a \in Above[f] \cup {f} : plan[a] = "delete"
      BY DEF IInv, RemovalsAreChosen
    <2>4. a # f
      BY <2>2, <2>3 DEF IInv, PlanInv
    <2> QED BY <2>2, <2>3, <2>4 DEF IInv, PlanInv
  <1> QED BY <1>1, Inductive, PTL

\* A command that reports no error has listed everything it removed, or a
\* directory above it (the verdict of execute_cleanup and of the retention).
THEOREM NothingVanishesSilently == Spec => []RemovalsAreListed
  <1>1. IInv => RemovalsAreListed
    BY DEF IInv, RemovalsAreListed, StatusInv, ListedInv
  <1> QED BY <1>1, Inductive, PTL

\* A file that changed after it was classified is not unlinked, if the change
\* shows in the fingerprint and came before it was compared (execute_cleanup).
THEOREM ChangesAreSeen == Spec => ChangedFilesSurvive
  <1> DEFINE Safe == \A e \in Entries \ Dirs :
        pc = "remove" /\ e = at /\ e \in removed' /\ e \notin removed /\ ~window
            => FirstBlock(disk[e]) = prints[e].block
  <1>1. IInv => Safe
    BY DEF IInv, ComparedInv, UnchangedSincePlan, Fingerprint
  <1> HIDE DEF Safe
  <1>2. Spec => [][Safe]_vars
    BY <1>1, Inductive, PTL DEF Spec
  <1> QED BY <1>2 DEF ChangedFilesSurvive, Safe
-------------------------------------------------------------------------------
(***************************************************************************)
(* Termination by a variant.  A command works on the list it has made, not *)
(* on the tree, so what other processes write in the meantime cannot keep  *)
(* it going.                                                               *)
(***************************************************************************)

\* Steps to the end of the command, at most.
StepsLeft ==
    LET waiting == Cardinality(todo)
    IN  CASE pc = "classify" -> waiting + 2 * Cardinality(Entries) + 2
          [] pc = "execute"  -> 2 * waiting + 1
          [] pc = "remove"   -> 2 * waiting + 2
          [] pc = "retain"   -> waiting + 1
          [] pc = "idle"     -> 0

LEMMA TodoFinite ==
    ASSUME TypeOK
    PROVE  /\ IsFiniteSet(todo) /\ Cardinality(Entries) \in Nat
           /\ Cardinality(todo) \in 0 .. Cardinality(Entries)
           /\ \A e \in todo : Cardinality(todo \ {e}) = Cardinality(todo) - 1
  <1>1. todo \in SUBSET Entries /\ IsFiniteSet(Entries)
    BY TreeAssumption DEF TypeOK
  <1>2. IsFiniteSet(todo) /\ Cardinality(todo) <= Cardinality(Entries)
    BY <1>1, FS_Subset
  <1>3. Cardinality(todo) \in Nat /\ Cardinality(Entries) \in Nat
    BY <1>1, <1>2, FS_CardinalityType
  <1>4. \A e \in todo : Cardinality(todo \ {e}) = Cardinality(todo) - 1
    BY <1>2, FS_RemoveElement
  <1> QED BY <1>2, <1>3, <1>4

LEMMA StepsLeftBounded ==
    ASSUME TypeOK
    PROVE  StepsLeft \in 0 .. 3 * Cardinality(Entries) + 2
  BY TodoFinite DEF TypeOK, StepsLeft

LEMMA TodoFiniteNext == TypeOK' => Cardinality(todo') \in 0 .. Cardinality(Entries)
  <1> SUFFICES ASSUME TypeOK'
               PROVE  Cardinality(todo') \in 0 .. Cardinality(Entries)
    OBVIOUS
  <1>1. todo' \in SUBSET Entries /\ IsFiniteSet(Entries)
    BY TreeAssumption DEF TypeOK
  <1>2. IsFiniteSet(todo') /\ Cardinality(todo') <= Cardinality(Entries)
    BY <1>1, FS_Subset
  <1>3. Cardinality(todo') \in Nat /\ Cardinality(Entries) \in Nat
    BY <1>1, <1>2, FS_CardinalityType
  <1> QED BY <1>2, <1>3

\* A round over the list takes one entry off it.
LEMMA CommandCounts ==
    /\ TypeOK /\ TypeOK'
    /\ Classify \/ PlanDone \/ Recheck \/ Remove \/ FinishCleanup \/ Retain \/ FinishRetention
    => StepsLeft' < StepsLeft
  <1> SUFFICES ASSUME TypeOK, TypeOK',
                      \/ Classify \/ PlanDone \/ Recheck \/ Remove
                      \/ FinishCleanup \/ Retain \/ FinishRetention
               PROVE  StepsLeft' < StepsLeft
    OBVIOUS
  <1> DEFINE n == Cardinality(todo)
             m == Cardinality(todo')
  <1>t. n \in Nat /\ m \in 0 .. Cardinality(Entries) /\ Cardinality(Entries) \in Nat
    BY TodoFinite, TodoFiniteNext
  <1>e. todo = {} => n = 0
    BY FS_EmptySet
  <1>1. CASE Classify
    <2>1. PICK e \in todo : \/ pc' = "idle"
                            \/ pc' = "classify" /\ todo' = todo \ {e}
      BY <1>1 DEF Classify, Foremost, End
    <2>2. pc' = "idle" \/ (pc' = "classify" /\ m = n - 1)
      BY <2>1, TodoFinite
    <2> QED BY <1>1, <1>t, <2>2 DEF Classify, StepsLeft
  <1>2. CASE PlanDone
    <2>1. pc = "classify" /\ pc' = "execute" /\ n = 0
      BY <1>2, <1>e DEF PlanDone
    <2> HIDE DEF n, m
    <2>2. StepsLeft = n + 2 * Cardinality(Entries) + 2 /\ StepsLeft' = 2 * m + 1
      BY <2>1 DEF StepsLeft, n, m
    <2> QED BY <1>t, <2>1, <2>2
  <1>3. CASE Recheck
    <2>1. PICK e \in todo : todo' = todo \ {e}
      BY <1>3 DEF Recheck, Foremost
    <2>2. m = n - 1
      BY <2>1, TodoFinite
    <2>3. pc = "execute" /\ pc' \in {"execute", "remove"}
      BY <1>3 DEF Recheck
    <2> QED BY <1>t, <2>2, <2>3 DEF StepsLeft
  <1>4. CASE Remove
    <2>1. pc = "remove" /\ pc' = "execute" /\ m = n
      BY <1>4 DEF Remove
    <2> QED BY <1>t, <2>1 DEF StepsLeft
  <1>5. CASE Retain
    <2>1. PICK e \in todo : todo' = todo \ {e}
      BY <1>5 DEF Retain, Foremost
    <2>2. m = n - 1
      BY <2>1, TodoFinite
    <2>3. pc = "retain" /\ pc' = "retain"
      BY <1>5 DEF Retain
    <2> QED BY <1>t, <2>2, <2>3 DEF StepsLeft
  <1>6. CASE FinishCleanup \/ FinishRetention
    <2>1. pc \in {"execute", "retain"} /\ pc' = "idle"
      BY <1>6 DEF FinishCleanup, FinishRetention, End
    <2> QED BY <1>t, <2>1 DEF StepsLeft
  <1> QED BY <1>1, <1>2, <1>3, <1>4, <1>5, <1>6

\* What other processes do is no work for the command.
LEMMA OthersDoNotCount ==
    ASSUME Write \/ Delete
    PROVE  StepsLeft' = StepsLeft /\ changes' = changes + 1
  BY DEF Write, Delete, Changed, StepsLeft

(***************************************************************************)
(* A command ends after at most 3 * |Entries| + 2 steps of its own,        *)
(* whatever other processes write and delete meanwhile and whatever cannot *)
(* be removed: every step of run_cleanup and run_cleanup_retention uses up *)
(* a part of that number, and only changes by others leave it as it is.    *)
(***************************************************************************)
THEOREM CommandIsFinite ==
    Spec => /\ [](StepsLeft \in 0 .. 3 * Cardinality(Entries) + 2)
            /\ [][pc # "idle" => \/ StepsLeft' < StepsLeft
                                 \/ StepsLeft' = StepsLeft /\ changes' = changes + 1]_vars
  <1>1. TypeOK /\ TypeOK' /\ [Next]_vars =>
            [pc # "idle" => \/ StepsLeft' < StepsLeft
                            \/ StepsLeft' = StepsLeft /\ changes' = changes + 1]_vars
    <2> SUFFICES ASSUME TypeOK, TypeOK', Next, pc # "idle"
                 PROVE  \/ StepsLeft' < StepsLeft
                        \/ StepsLeft' = StepsLeft /\ changes' = changes + 1
      OBVIOUS
    <2>1. ~StartCleanup /\ ~StartRetention
      BY DEF StartCleanup, StartRetention, Begin
    <2> QED BY <2>1, CommandCounts, OthersDoNotCount DEF Next, Cleanup, Retention
  <1> QED BY TypeCorrect, StepsLeftBounded, <1>1, PTL DEF Spec
===============================================================================
