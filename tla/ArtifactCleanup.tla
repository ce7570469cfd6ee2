---------------------------- MODULE ArtifactCleanup ----------------------------
(***************************************************************************)
(* The two cleanup commands on one directory tree.                         *)
(* "cleanup" is run_cleanup (cleanup/artifact_cleanup.py): it lists the    *)
(* tree, classifies every entry and notes a fingerprint, then goes through *)
(* the entries to delete, compares the fingerprint again and removes.      *)
(* "retention" is run_cleanup_retention (cleanup/runner.py), the pipeline's*)
(* last phase: it lists what looks transient and removes it.               *)
(* Meanwhile other processes, a pipeline run for one, change the tree.     *)
(***************************************************************************)
EXTENDS CleanupRules

CONSTANTS
    Trees,        \* trees to start from
    Indexes,      \* what load_run_artifacts may return
    Pointer,      \* latest.json in the root
    MaxCommands,  \* bound: commands started
    MaxChanges    \* bound: changes by other processes

ASSUME TreesAssumption ==
    /\ Trees \subseteq [Entries -> Contents]
    /\ \A t \in Trees, e \in Entries : e \in Dirs => t[e] \in {"absent", "dir"}
    /\ \A index \in Indexes : IsIndex(index)
    /\ Pointer \in Entries \ Dirs
    /\ MaxCommands \in Nat /\ MaxChanges \in Nat

VARIABLES
    disk,      \* content of every entry
    command,   \* "none", "cleanup" or "retention"
    apply,     \* delete, or only report
    aged,      \* directories older than max_age_days
    index,     \* the index of runs
    pc,        \* where the command is
    todo,      \* entries still to classify or to remove
    plan,      \* decision on each entry
    prints,    \* fingerprint of each entry when it was classified
    at,        \* the entry whose fingerprint has just been compared
    listed,    \* files_deleted, directories_deleted; deleted_paths
    errors,    \* whether the command has noted an error
    status,    \* final_status or cleanup_status of the last command
    removed,   \* history: entries this command has removed
    busy,      \* history: directories that held no finished run when classified
    window,    \* history: the tree changed since the last comparison
    commands, changes

history == <<removed, busy, window>>
choice  == <<command, apply, aged, index, commands>>
vars    == <<disk, choice, pc, todo, plan, prints, at, listed, errors, status,
             history, changes>>

NoEntry == "no entry"
NoPlan  == [e \in Entries |-> "none"]
NoPrint == [e \in Entries |-> [block |-> "absent", files |-> {}]]
NoIndex == [shape |-> "nothing", runs |-> <<>>, named |-> {}]

Init ==
    /\ disk \in Trees
    /\ command = "none" /\ apply = FALSE /\ aged = {} /\ index = NoIndex /\ commands = 0
    /\ pc = "idle" /\ todo = {} /\ plan = NoPlan /\ prints = NoPrint /\ at = NoEntry
    /\ listed = {} /\ errors = FALSE /\ status = "none"
    /\ removed = {} /\ busy = {} /\ window = FALSE /\ changes = 0

Present == {e \in Entries : Exists(disk, e)}

\* Entries of which nothing that contains them is waiting: rglob lists a
\* directory before what is in it.
Foremost == {e \in todo : \A a \in Above[e] : a \notin todo}

Begin(name) ==
    /\ pc = "idle" /\ commands < MaxCommands
    /\ command' = name /\ commands' = commands + 1
    /\ apply' \in BOOLEAN
    /\ listed' = {} /\ status' = "none"
    /\ removed' = {} /\ busy' = {} /\ window' = FALSE
    /\ UNCHANGED <<disk, changes>>

End(outcome) ==
    /\ status' = outcome /\ pc' = "idle" /\ todo' = {} /\ at' = NoEntry
-------------------------------------------------------------------------------
(* run_cleanup *)

\* The policy, the index and the list of artifacts.  A root that is refused is
\* noted as an error, and leaves the plan empty.
StartCleanup ==
    /\ Begin("cleanup")
    /\ aged' \in SUBSET {d \in Dirs : Exists(disk, d)}
    /\ index' \in Indexes
    /\ \E kind \in RootKinds :
        /\ todo' = IF RootAccepted(kind) THEN Present ELSE {}
        /\ errors' = ~RootAccepted(kind)
    /\ pc' = "classify" /\ plan' = NoPlan /\ prints' = NoPrint /\ at' = NoEntry

\* One round of build_cleanup_plan, on the tree as it is now.
Classify ==
    /\ pc = "classify"
    /\ \E e \in Foremost :
        LET decision == Decision(disk, aged, index, e) IN
        /\ plan' = [plan EXCEPT ![e] = decision]
        /\ prints' = [prints EXCEPT ![e] = Fingerprint(disk, e)]
        /\ busy' = IF e \in Dirs /\ ~\E f \in Direct(e) :
                          f \in Reports /\ disk[f] \in {"success", "failed"}
                   THEN busy \cup {e} ELSE busy
        /\ IF decision = "raise"
           THEN End("raised")
           ELSE todo' = todo \ {e} /\ UNCHANGED <<pc, at, status>>
    /\ UNCHANGED <<disk, choice, listed, errors, removed, window, changes>>

ToDelete == {e \in Entries : plan[e] = "delete"}

PlanDone ==
    /\ pc = "classify" /\ todo = {}
    /\ pc' = "execute"
    /\ todo' = IF apply THEN ToDelete ELSE {}
    /\ UNCHANGED <<disk, choice, plan, prints, at, listed, errors, status, history, changes>>

\* Mutant: the fingerprint is not compared.
UnchangedIfPresent(e) == Exists(disk, e)

UnchangedSincePlan(e) == Fingerprint(disk, e) = prints[e]

\* execute_cleanup: the entry is gone, or has changed, or is about to be removed.
Recheck ==
    /\ pc = "execute"
    /\ \E e \in Foremost :
        /\ todo' = todo \ {e}
        /\ IF Exists(disk, e) /\ UnchangedSincePlan(e)
           THEN pc' = "remove" /\ at' = e /\ window' = FALSE /\ UNCHANGED errors
           ELSE /\ errors' = (errors \/ Exists(disk, e))
                /\ UNCHANGED <<pc, at, window>>
    /\ UNCHANGED <<disk, choice, plan, prints, listed, status, removed, busy, changes>>

\* Whatever goes from a tree takes with it what is inside.
Without(gone) == [e \in Entries |-> IF e \in gone THEN "absent" ELSE disk[e]]

Removes(gone) ==
    /\ disk' = Without(gone)
    /\ removed' = removed \cup gone

\* Mutant: a removal that fails is skipped without an error.
NotedFailure(failed) == errors

ErrorsAfter(failed) == errors \/ failed

\* unlink, or rmtree, which stops at the first entry it cannot remove; an entry
\* that has vanished since it was compared may pass unnoticed.
Remove ==
    /\ pc = "remove"
    /\ \E gone \in SUBSET ({at} \cup Inside(at)), failed \in BOOLEAN :
        /\ gone \subseteq Present
        /\ \A e \in gone : Present \cap Inside(e) \subseteq gone
        /\ failed => at \notin gone
        /\ ~failed => Present \cap ({at} \cup Inside(at)) = gone
        /\ Removes(gone)
        /\ listed' = IF failed \/ gone = {} THEN listed ELSE listed \cup {at}
        /\ errors' = ErrorsAfter(failed)
    /\ pc' = "execute" /\ at' = NoEntry
    /\ UNCHANGED <<choice, todo, plan, prints, status, busy, window, changes>>

\* The verdict of execute_cleanup.  A dry run always says "completed", and gives
\* the entries it would delete as those it has deleted.
CleanupStatus ==
    IF ~apply THEN "completed"
    ELSE IF errors THEN "error"
    ELSE IF listed # {} THEN "completed_with_deletions"
    ELSE "completed_no_deletions"

FinishCleanup ==
    /\ command = "cleanup" /\ pc = "execute" /\ todo = {}
    /\ End(CleanupStatus)
    /\ listed' = IF apply THEN listed ELSE ToDelete
    /\ UNCHANGED <<disk, choice, plan, prints, errors, history, changes>>
-------------------------------------------------------------------------------
(* run_cleanup_retention *)

\* find_transient_paths and the selection of what to delete.
StartRetention ==
    /\ Begin("retention")
    /\ \E inRepo \in BOOLEAN :
        LET chosen == IF apply' THEN ChosenTransient(disk, inRepo) ELSE {} IN
        /\ todo' = chosen
        /\ plan' = [e \in Entries |-> IF e \in chosen THEN "delete" ELSE "none"]
    /\ pc' = "retain" /\ errors' = FALSE /\ prints' = NoPrint /\ at' = NoEntry
    /\ UNCHANGED <<aged, index>>

\* A directory is removed without regard to errors and reported as deleted; for
\* anything else, a directory that has gone with an outer one included, unlink
\* may fail.
Retain ==
    /\ pc = "retain"
    /\ \E e \in Foremost, gone \in SUBSET Present :
        /\ todo' = todo \ {e}
        /\ gone \subseteq {e} \cup Inside(e)
        /\ \A f \in gone : Present \cap Inside(f) \subseteq gone
        /\ Removes(gone)
        /\ IF disk[e] = "dir" \/ e \in gone
           THEN listed' = listed \cup {e} /\ UNCHANGED errors
           ELSE errors' = TRUE /\ UNCHANGED listed
    /\ UNCHANGED <<choice, pc, plan, prints, at, status, busy, window, changes>>

\* latest.json must still be there; then the report of this command is written
\* to a directory of its own, and latest.json is made to point to it, unless a
\* write raises.
RetentionStatus ==
    IF errors \/ ~Exists(disk, Pointer) THEN "error"
    ELSE IF apply /\ listed # {} THEN "completed"
    ELSE IF ~apply THEN "dry_run" ELSE "skipped"

FinishRetention ==
    /\ command = "retention" /\ pc = "retain" /\ todo = {}
    /\ \/ /\ End(RetentionStatus)
          /\ disk' = [disk EXCEPT ![Pointer] = "v2"]
       \/ /\ End("raised")
          /\ UNCHANGED disk
    /\ UNCHANGED <<choice, plan, prints, listed, errors, history, changes>>
-------------------------------------------------------------------------------
(* Other processes *)

Changed == changes < MaxChanges /\ changes' = changes + 1 /\ window' = TRUE

Write ==
    /\ Changed
    /\ \E e \in Entries :
        /\ \A d \in Above[e] : Exists(disk, d)
        /\ \E content \in IF e \in Dirs THEN {"dir"}
                          ELSE IF e \in Reports THEN ReportContents ELSE FileContents :
            content # disk[e] /\ disk' = [disk EXCEPT ![e] = content]
    /\ UNCHANGED <<choice, pc, todo, plan, prints, at, listed, errors, status, removed, busy>>

Delete ==
    /\ Changed
    /\ \E e \in Present : disk' = Without({e} \cup Inside(e))
    /\ UNCHANGED <<choice, pc, todo, plan, prints, at, listed, errors, status, removed, busy>>

Cleanup   == StartCleanup \/ Classify \/ PlanDone \/ Recheck \/ Remove \/ FinishCleanup
Retention == StartRetention \/ Retain \/ FinishRetention
Next      == Cleanup \/ Retention \/ Write \/ Delete

Spec == Init /\ [][Next]_vars
-------------------------------------------------------------------------------
TypeOK ==
    /\ disk \in [Entries -> Contents]
    /\ command \in {"none", "cleanup", "retention"} /\ apply \in BOOLEAN
    /\ aged \subseteq Dirs
    /\ pc \in {"idle", "classify", "execute", "remove", "retain"}
    /\ todo \subseteq Entries /\ plan \in [Entries -> Decisions]
    /\ prints \in [Entries -> Fingerprints]
    /\ at \in Entries \cup {NoEntry} /\ (pc = "remove" => at \in Entries)
    /\ listed \subseteq Entries /\ errors \in BOOLEAN
    /\ removed \subseteq Entries /\ busy \subseteq Dirs /\ window \in BOOLEAN

\* The retention stage removes none of the "artifacts that must NEVER be deleted"
\* (cleanup/validators.py:8, runner.py:35).
PreservedSurvive == command = "retention" => removed \cap Preserved = {}

\* The artifacts of a run that had not finished when it was looked at survive
\* run_cleanup, unless what is deleted is a directory with a temporary name or
\* a finished run around it.
RunInProgressSurvives ==
    \A d \in busy : \A f \in Direct(d) \ Dirs : f \in Artifacts /\ f \in removed =>
        \E a \in Above[d] \cup {d} : plan[a] = "delete" /\ (a \notin busy \/ a \in Temporary)

\* A command that ends without an error has listed, for everything it removed,
\* the entry or a directory above it: no removal is missing from the manifest.
RemovalsAreListed ==
    status \in {"completed_with_deletions", "completed_no_deletions", "completed", "skipped"}
        => \A e \in removed : \E a \in Above[e] \cup {e} : a \in listed

\* A file that was changed after it was classified, by whatever process, is not
\* unlinked, unless the change is out of the fingerprint's sight or falls between
\* the comparison and the removal.
ChangedFilesSurvive ==
    [][\A e \in Entries \ Dirs :
        pc = "remove" /\ e = at /\ e \in removed' /\ e \notin removed /\ ~window
            => FirstBlock(disk[e]) = prints[e].block]_vars
===============================================================================
