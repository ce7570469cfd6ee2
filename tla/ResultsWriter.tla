----------------------------- MODULE ResultsWriter ----------------------------
(***************************************************************************)
(* The last step of Track 1: process_input publishes results.json through  *)
(* SubmissionValidator.atomic_write.  The container may be killed at any   *)
(* point and started again on the same volume, where it finds what the     *)
(* killed run left; every step that touches the disk may raise.            *)
(*                                                                         *)
(* Run n writes version n.  A file holds the first `parts` of the Parts    *)
(* flushes its content takes, and parses only when all of them are there.  *)
(***************************************************************************)
EXTENDS Naturals

CONSTANTS
    Parts,     \* flushes of the write buffer the content takes
    MaxRuns,   \* bound: runs of the container
    Nothing    \* the file does not exist

ASSUME PartsAssumption == Parts \in Nat \ {0} /\ MaxRuns \in Nat \ {0}
Files == [version : Nat, parts : 0 .. Parts]
ASSUME NothingAssumption == Nothing \notin Files /\ Nothing \notin Nat

VARIABLES
    pc,        \* "start", "open", "write", "validate", "replace", "cleanup",
               \* "done"
    run,       \* number of this run, the version it writes
    temp,      \* the file at output_path + ".tmp"
    file,      \* the file at output_path
    dir,       \* does the output directory exist?
    success,   \* what process_input returned
    reported   \* history: versions reported as written

vars == <<pc, run, temp, file, dir, success, reported>>

Whole(f) == f # Nothing /\ f.parts = Parts

Init ==
    /\ pc = "start" /\ run = 1
    /\ temp = Nothing /\ file = Nothing
    /\ dir \in BOOLEAN
    /\ success = FALSE /\ reported = {}

Return(ok) ==
    /\ pc' = "done" /\ success' = ok
    /\ reported' = IF ok THEN reported \cup {run} ELSE reported

\* process_input: the output directory is made if it is missing.
MakeDirectory(ok) ==
    /\ pc = "start"
    /\ IF dir \/ ok
       THEN dir' = TRUE /\ pc' = "open" /\ UNCHANGED <<success, reported>>
       ELSE Return(FALSE) /\ UNCHANGED dir
    /\ UNCHANGED <<run, temp, file>>

\* (mutant: the results file itself is written)
OpenInPlace ==
    /\ pc = "open"
    /\ temp' = [version |-> run, parts |-> 0]
    /\ file' = [version |-> run, parts |-> 0]
    /\ pc' = "write"
    /\ UNCHANGED <<run, dir, success, reported>>

\* (mutant: a temporary file left by a killed run is appended to)
OpenAppend ==
    /\ pc = "open"
    /\ temp' = IF temp = Nothing THEN [version |-> run, parts |-> 0] ELSE temp
    /\ pc' = "write"
    /\ UNCHANGED <<run, file, dir, success, reported>>

\* open(temp_path, 'w') truncates what a killed run left.
OpenTemp ==
    /\ pc = "open"
    /\ temp' = [version |-> run, parts |-> 0]
    /\ pc' = "write"
    /\ UNCHANGED <<run, file, dir, success, reported>>

WriteTemp ==
    /\ pc = "write"
    /\ IF temp.parts < Parts
       THEN temp' = [temp EXCEPT !.parts = @ + 1] /\ UNCHANGED pc
       ELSE pc' = "validate" /\ UNCHANGED temp
    /\ UNCHANGED <<run, file, dir, success, reported>>

\* validate_output_file(temp_path)
ValidateTemp ==
    /\ pc = "validate"
    /\ pc' = IF Whole(temp) THEN "replace" ELSE "cleanup"
    /\ UNCHANGED <<run, temp, file, dir, success, reported>>

\* (mutant: success is reported before the file is in place)
ReplaceLater ==
    /\ pc = "replace"
    /\ Return(TRUE)
    /\ UNCHANGED <<run, temp, file, dir>>

Replace ==
    /\ pc = "replace"
    /\ file' = temp /\ temp' = Nothing
    /\ Return(TRUE)
    /\ UNCHANGED <<run, dir>>

\* Any step of atomic_write may raise.
Raise ==
    /\ pc \in {"open", "write", "validate", "replace"}
    /\ pc' = "cleanup"
    /\ UNCHANGED <<run, temp, file, dir, success, reported>>

\* os.remove(temp_path), whose own failure is ignored.
Cleanup(removed) ==
    /\ pc = "cleanup"
    /\ temp' = IF removed THEN Nothing ELSE temp
    /\ Return(FALSE)
    /\ UNCHANGED <<run, file, dir>>

\* The container is killed, or has ended; the next run starts.
Restart ==
    /\ run < MaxRuns
    /\ run' = run + 1
    /\ pc' = "start" /\ success' = FALSE
    /\ UNCHANGED <<temp, file, dir, reported>>

RunStep ==
    \/ \E ok \in BOOLEAN : MakeDirectory(ok)
    \/ OpenTemp
    \/ WriteTemp
    \/ ValidateTemp
    \/ Replace
    \/ Raise
    \/ \E removed \in BOOLEAN : Cleanup(removed)

Next == RunStep \/ Restart

Spec == Init /\ [][Next]_vars

-----------------------------------------------------------------------------
(* Properties *)

TypeOK ==
    /\ pc \in {"start", "open", "write", "validate", "replace", "cleanup", "done"}
    /\ run \in Nat
    /\ temp \in Files \cup {Nothing} /\ file \in Files \cup {Nothing}
    /\ dir \in BOOLEAN /\ success \in BOOLEAN
    /\ reported \subseteq Nat

(***************************************************************************)
(* Whoever reads results.json, at any moment and after any sequence of     *)
(* kills and restarts, finds no file or a complete one                     *)
(* (VERIFICATION_POLICY.md: "Output is written atomically").               *)
(***************************************************************************)
ReadersSeeWhole == file # Nothing => Whole(file)

(***************************************************************************)
(* A run that reports success has published its own results, and not what  *)
(* an earlier run left in the temporary file.                              *)
(***************************************************************************)
SuccessIsPublished ==
    success => file # Nothing /\ file.version = run /\ Whole(file)

(***************************************************************************)
(* The writer implements the atomically published file.                    *)
(***************************************************************************)
Published == INSTANCE PublishedFile WITH
    Versions <- 1 .. MaxRuns,
    file <- IF Whole(file) THEN file.version ELSE Nothing

ImplementsPublishedFile == Published!Spec
=============================================================================
