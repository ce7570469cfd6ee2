---------------------------- MODULE FinalResultLock ---------------------------
(***************************************************************************)
(* Calls of run_final_result (src/backend/phases/final_result/runner.py)   *)
(* for one final_result_id.  The id covers the source phase, the source    *)
(* fingerprint and the terminal state; two requests with the same id may   *)
(* differ in everything else, their content, which lock_fingerprint        *)
(* identifies.  The lock is a file in the temporary directory that all     *)
(* processes share (locking.py), written to a temporary path and renamed.  *)
(*                                                                         *)
(* A file is an inode: a process that has a path open keeps writing to the *)
(* inode even after the path is renamed.                                   *)
(***************************************************************************)
EXTENDS Naturals, FiniteSets

CONSTANTS
    Procs,        \* processes that call run_final_result
    Contents,     \* contents (lock fingerprints) requested for this id
    Inodes,       \* files on disk
    Absent,       \* no such path, file, or content
    Overlap,      \* may a call start while another one is in progress?
    ReadErrors,   \* may reading the lock file raise OSError?
    MaxRuns,      \* bound: calls made
    MaxCrashes    \* bound: processes killed in the middle of a call

Empty == "empty"   \* content of a file that is not JSON

ASSUME DataAssumption ==
    /\ Absent \notin Inodes /\ Absent \notin Contents
    /\ Empty \notin Contents /\ Absent # Empty
ASSUME BoundAssumption ==
    /\ Overlap \in BOOLEAN /\ ReadErrors \in BOOLEAN
    /\ MaxRuns \in Nat /\ MaxCrashes \in Nat

VARIABLES
    lock_file,   \* inode at {final_result_id}.lock, or Absent
    temp_file,   \* inode at {final_result_id}.tmp, or Absent
    data,        \* content of every inode
    pc,          \* where each process is in its call; "idle" between calls
    request,     \* lock_fingerprint of the call in progress
    handle,      \* inode the process has open for writing
    outcome,     \* how the process's last call ended
    artifact,    \* content of 08_final_result.json in its output root
    accepted,    \* history: contents reported as locked
    runs, crashes

disk  == <<lock_file, temp_file, data>>
count == <<runs, crashes>>
vars  == <<disk, pc, request, handle, outcome, artifact, accepted, count>>

Idle(p) == pc[p] = "idle"

\* What the lock file says; Empty when it does not parse.
LockedContent == IF lock_file = Absent THEN Absent ELSE data[lock_file]

\* _read_lock_file: a file that cannot be read counts as no lock.
Readings == IF ReadErrors THEN {LockedContent, Absent} ELSE {LockedContent}

Free(i) ==
    /\ i # lock_file /\ i # temp_file
    /\ \A p \in Procs : i # handle[p]

Init ==
    /\ lock_file = Absent /\ temp_file = Absent
    /\ data = [i \in Inodes |-> Empty]
    /\ pc = [p \in Procs |-> "idle"]
    /\ request = [p \in Procs |-> Absent]
    /\ handle = [p \in Procs |-> Absent]
    /\ outcome = [p \in Procs |-> "none"]
    /\ artifact = [p \in Procs |-> Absent]
    /\ accepted = {}
    /\ runs = 0 /\ crashes = 0

Goto(p, label) == pc' = [pc EXCEPT ![p] = label]

\* run_final_result returns or raises.
End(p, how) ==
    /\ Goto(p, "idle")
    /\ outcome' = [outcome EXCEPT ![p] = how]
    /\ accepted' = IF how \in {"locked", "idempotent"}
                   THEN accepted \cup {request[p]}
                   ELSE accepted

Begin(p, c) ==
    /\ Idle(p) /\ runs < MaxRuns
    /\ Overlap \/ \A q \in Procs : Idle(q)
    /\ Goto(p, "check")
    /\ request' = [request EXCEPT ![p] = c]
    /\ outcome' = [outcome EXCEPT ![p] = "none"]
    /\ runs' = runs + 1
    /\ UNCHANGED <<disk, handle, artifact, accepted, crashes>>

\* (mutant: the artifact is written before the lock is acquired)
CheckLockEarlyArtifact(p) ==
    /\ pc[p] = "check"
    /\ artifact' = [artifact EXCEPT ![p] = request[p]]
    /\ IF LockedContent = request[p]
       THEN End(p, "idempotent")
       ELSE Goto(p, "acquire") /\ UNCHANGED <<outcome, accepted>>
    /\ UNCHANGED <<disk, request, handle, count>>

\* Step 5: an identical request returns without writing anything.
CheckLock(p) ==
    /\ pc[p] = "check"
    /\ \E seen \in Readings :
        IF seen = request[p]
        THEN End(p, "idempotent")
        ELSE Goto(p, "acquire") /\ UNCHANGED <<outcome, accepted>>
    /\ UNCHANGED <<disk, request, handle, artifact, count>>

\* (mutant: the content of the lock is not compared)
AcquireUnchecked(p) ==
    /\ pc[p] = "acquire"
    /\ Goto(p, IF LockedContent \in Contents THEN "artifact" ELSE "open")
    /\ UNCHANGED <<disk, request, handle, outcome, artifact, accepted, count>>

\* (mutant: a lock with another content is replaced)
AcquireOverwrites(p) ==
    /\ pc[p] = "acquire"
    /\ Goto(p, IF LockedContent = request[p] THEN "artifact" ELSE "open")
    /\ UNCHANGED <<disk, request, handle, outcome, artifact, accepted, count>>

\* (mutant: a temporary file left behind is waited for)
AcquireWaits(p) ==
    /\ pc[p] = "acquire" /\ temp_file = Absent
    /\ IF LockedContent \in Contents \ {request[p]}
       THEN End(p, "rejected")
       ELSE /\ Goto(p, IF LockedContent = request[p] THEN "artifact" ELSE "open")
            /\ UNCHANGED <<outcome, accepted>>
    /\ UNCHANGED <<disk, request, handle, artifact, count>>

\* (mutant: a request is rejected whenever a lock is there)
AcquireRejects(p) ==
    /\ pc[p] = "acquire"
    /\ IF lock_file # Absent \/ temp_file # Absent
       THEN End(p, "rejected")
       ELSE Goto(p, "open") /\ UNCHANGED <<outcome, accepted>>
    /\ UNCHANGED <<disk, request, handle, artifact, count>>

\* Step 6, acquire_lock: a lock that does not parse counts as no lock.
AcquireLock(p) ==
    /\ pc[p] = "acquire"
    /\ \E seen \in Readings :
        IF seen \in Contents \ {request[p]}
        THEN End(p, "rejected")
        ELSE /\ Goto(p, IF seen = request[p] THEN "artifact" ELSE "open")
             /\ UNCHANGED <<outcome, accepted>>
    /\ UNCHANGED <<disk, request, handle, artifact, count>>

\* (mutant: the lock file itself is opened and written)
OpenInPlace(p) ==
    /\ pc[p] = "open"
    /\ \E i \in Inodes :
        /\ IF lock_file = Absent THEN Free(i) ELSE i = lock_file
        /\ lock_file' = i
        /\ temp_file' = i
        /\ data' = [data EXCEPT ![i] = Empty]
        /\ handle' = [handle EXCEPT ![p] = i]
    /\ Goto(p, "write")
    /\ UNCHANGED <<request, outcome, artifact, accepted, count>>

\* _write_lock_file: open(temp_path, "w") truncates a file left there.
OpenTemp(p) ==
    /\ pc[p] = "open"
    /\ \E i \in Inodes :
        /\ IF temp_file = Absent THEN Free(i) ELSE i = temp_file
        /\ temp_file' = i
        /\ data' = [data EXCEPT ![i] = Empty]
        /\ handle' = [handle EXCEPT ![p] = i]
    /\ Goto(p, "write")
    /\ UNCHANGED <<lock_file, request, outcome, artifact, accepted, count>>

\* json.dump and close: the few bytes of a lock reach the file together.
WriteTemp(p) ==
    /\ pc[p] = "write"
    /\ data' = [data EXCEPT ![handle[p]] = request[p]]
    /\ handle' = [handle EXCEPT ![p] = Absent]
    /\ Goto(p, "replace")
    /\ UNCHANGED <<lock_file, temp_file, request, outcome, artifact, accepted,
                   count>>

\* temp_path.replace(lock_path); the file may have been moved by another call.
Replace(p) ==
    /\ pc[p] = "replace"
    /\ IF temp_file = Absent
       THEN /\ End(p, "error")
            /\ UNCHANGED <<lock_file, temp_file>>
       ELSE /\ lock_file' = temp_file /\ temp_file' = Absent
            /\ Goto(p, "artifact")
            /\ UNCHANGED <<outcome, accepted>>
    /\ UNCHANGED <<data, request, handle, artifact, count>>

\* Opening or writing the lock raises OSError, which the caller sees.
FileError(p) ==
    /\ pc[p] \in {"open", "write"}
    /\ End(p, "error")
    /\ handle' = [handle EXCEPT ![p] = Absent]
    /\ UNCHANGED <<disk, request, artifact, count>>

\* Step 9: the artifact is replaced atomically; an OSError is swallowed.
WriteArtifact(p) ==
    /\ pc[p] = "artifact"
    /\ \E c \in {artifact[p], request[p]} : artifact' = [artifact EXCEPT ![p] = c]
    /\ End(p, "locked")
    /\ UNCHANGED <<disk, request, handle, count>>

\* The process is killed; its next call starts afresh.
Crash(p) ==
    /\ ~Idle(p) /\ crashes < MaxCrashes
    /\ End(p, "crashed")
    /\ handle' = [handle EXCEPT ![p] = Absent]
    /\ crashes' = crashes + 1
    /\ UNCHANGED <<disk, request, artifact, runs>>

CallStep(p) ==
    \/ CheckLock(p)
    \/ AcquireLock(p)
    \/ OpenTemp(p)
    \/ WriteTemp(p)
    \/ Replace(p)
    \/ FileError(p)
    \/ WriteArtifact(p)

Next ==
    \E p \in Procs :
        \/ \E c \in Contents : Begin(p, c)
        \/ CallStep(p)
        \/ Crash(p)

(* A process that is not killed finishes its call. *)
Spec == Init /\ [][Next]_vars /\ \A p \in Procs : WF_vars(CallStep(p))

-----------------------------------------------------------------------------
(* Properties *)

Labels == {"idle", "check", "acquire", "open", "write", "replace", "artifact"}
Outcomes == {"none", "idempotent", "locked", "rejected", "error", "crashed"}

TypeOK ==
    /\ lock_file \in Inodes \cup {Absent}
    /\ temp_file \in Inodes \cup {Absent}
    /\ data \in [Inodes -> Contents \cup {Empty}]
    /\ pc \in [Procs -> Labels]
    /\ request \in [Procs -> Contents \cup {Absent}]
    /\ handle \in [Procs -> Inodes \cup {Absent}]
    /\ outcome \in [Procs -> Outcomes]
    /\ artifact \in [Procs -> Contents \cup {Absent}]
    /\ accepted \subseteq Contents
    /\ runs \in Nat /\ crashes \in Nat

(***************************************************************************)
(* Two calls for the same final result that both report it as locked were  *)
(* made with the same content (run_final_result: "reject modification      *)
(* after locking").                                                        *)
(***************************************************************************)
AcceptedAgree == \A c, d \in accepted : c = d

(***************************************************************************)
(* A content that was reported as locked is the one in the lock file from  *)
(* then on, through later calls, failures of the file system and crashes.  *)
(***************************************************************************)
AcceptedStaysLocked == \A c \in accepted : LockedContent = c

(***************************************************************************)
(* No output root ever holds a final result other than the locked one.     *)
(***************************************************************************)
ArtifactMatchesLock ==
    \A p \in Procs : artifact[p] # Absent => artifact[p] = LockedContent

(***************************************************************************)
(* A call is rejected only if another content is locked: a call that       *)
(* failed or was killed half-way blocks nobody.                            *)
(***************************************************************************)
RejectedOnlyOnConflict ==
    \A p \in Procs :
        outcome[p] = "rejected" =>
            LockedContent \in Contents /\ LockedContent # request[p]

(***************************************************************************)
(* Every call ends.                                                        *)
(***************************************************************************)
CallsEnd == \A p \in Procs : ~Idle(p) ~> Idle(p)

(***************************************************************************)
(* The lock implements the write-once register.                            *)
(***************************************************************************)
Register == INSTANCE LockRegister WITH value <- LockedContent

ImplementsRegister == Register!Spec
=============================================================================
