------------------------ MODULE FinalResultLock_proofs ------------------------
(***************************************************************************)
(* Calls of run_final_result that do not overlap, and can read the lock    *)
(* file, keep every promise of the lock, whatever the number of processes, *)
(* contents, crashes and failures to write.  Both conditions are needed:   *)
(* without the first the run lock_race refutes AcceptedAgree, and without  *)
(* the second an unreadable lock is replaced.  The last part of the module *)
(* is about calls that do overlap: what still holds of them.               *)
(***************************************************************************)
EXTENDS FinalResultLock, TLAPS

\* The circumstances under which the lock is proved correct.
Orderly == ~Overlap /\ ~ReadErrors

\* One call at a time.
Solo == \A p, q \in Procs : ~Idle(p) /\ ~Idle(q) => p = q

\* The file at the lock path is complete, and nobody has it open.
LockInv ==
    /\ lock_file # Absent => data[lock_file] \in Contents
    /\ lock_file # Absent => temp_file # lock_file

\* What a call has established at each of its steps.
CallInv ==
    \A p \in Procs :
        /\ ~Idle(p) => request[p] \in Contents
        /\ pc[p] \in {"open", "write", "replace"} => lock_file = Absent
        /\ pc[p] = "write" => handle[p] = temp_file /\ temp_file \in Inodes
        /\ pc[p] = "replace" =>
              temp_file \in Inodes /\ data[temp_file] = request[p]
        /\ pc[p] = "artifact" => LockedContent = request[p]

\* What callers and readers have been told.
PromiseInv ==
    /\ AcceptedStaysLocked
    /\ ArtifactMatchesLock
    /\ RejectedOnlyOnConflict

IInv == Orderly /\ TypeOK /\ Solo /\ LockInv /\ CallInv /\ PromiseInv

-----------------------------------------------------------------------------
LEMMA InitIInv == Orderly /\ Init => IInv
  BY DataAssumption
     DEF Init, IInv, TypeOK, Solo, LockInv, CallInv, PromiseInv, Idle,
         AcceptedStaysLocked, ArtifactMatchesLock, RejectedOnlyOnConflict,
         Labels, Outcomes

LEMMA TrueReading == IInv => Readings = {LockedContent}
  BY DEF IInv, Orderly, Readings

(***************************************************************************)
(* Every step preserves the types.                                         *)
(***************************************************************************)
LEMMA NextType == IInv /\ [Next]_vars => TypeOK'
  <1> SUFFICES ASSUME IInv, [Next]_vars
               PROVE  TypeOK'
    OBVIOUS
  <1> USE DataAssumption DEF IInv, TypeOK, Labels, Outcomes, Goto, End, Idle,
                             disk, count
  <1>1. ASSUME NEW p \in Procs, NEW c \in Contents, Begin(p, c)
        PROVE  TypeOK'
    BY <1>1, BoundAssumption DEF Begin
  <1>2. ASSUME NEW p \in Procs, CheckLock(p)
        PROVE  TypeOK'
    <2>1. request[p] \in Contents
      BY <1>2 DEF CallInv, CheckLock
    <2> QED BY <1>2, <2>1 DEF CheckLock
  <1>3. ASSUME NEW p \in Procs, AcquireLock(p)
        PROVE  TypeOK'
    BY <1>3 DEF AcquireLock
  <1>4. ASSUME NEW p \in Procs, OpenTemp(p)
        PROVE  TypeOK'
    BY <1>4 DEF OpenTemp
  <1>5. ASSUME NEW p \in Procs, WriteTemp(p)
        PROVE  TypeOK'
    <2>1. request[p] \in Contents /\ handle[p] \in Inodes
      BY <1>5 DEF CallInv, WriteTemp
    <2> QED BY <1>5, <2>1 DEF WriteTemp
  <1>6. ASSUME NEW p \in Procs, Replace(p)
        PROVE  TypeOK'
    BY <1>6 DEF Replace
  <1>7. ASSUME NEW p \in Procs, FileError(p)
        PROVE  TypeOK'
    BY <1>7 DEF FileError
  <1>8. ASSUME NEW p \in Procs, WriteArtifact(p)
        PROVE  TypeOK'
    <2>1. request[p] \in Contents
      BY <1>8 DEF CallInv, WriteArtifact
    <2> QED BY <1>8, <2>1 DEF WriteArtifact
  <1>9. ASSUME NEW p \in Procs, Crash(p)
        PROVE  TypeOK'
    BY <1>9 DEF Crash
  <1>10. CASE UNCHANGED vars
    BY <1>10 DEF vars
  <1> QED BY <1>1, <1>2, <1>3, <1>4, <1>5, <1>6, <1>7, <1>8, <1>9, <1>10
          DEF Next, CallStep

(***************************************************************************)
(* A call starts only when no other is in progress.                        *)
(***************************************************************************)
LEMMA NextSolo == IInv /\ [Next]_vars => Solo'
  <1> SUFFICES ASSUME IInv, [Next]_vars
               PROVE  Solo'
    OBVIOUS
  <1> USE DEF IInv, TypeOK, Solo, Idle
  <1>1. ASSUME NEW p \in Procs, NEW c \in Contents, Begin(p, c)
        PROVE  Solo'
    BY <1>1 DEF Begin, Goto, Orderly
  <1>2. ASSUME NEW p \in Procs, CallStep(p) \/ Crash(p)
        PROVE  Solo'
    <2>1. ~Idle(p)
      BY <1>2 DEF CallStep, Crash, CheckLock, AcquireLock, OpenTemp, WriteTemp,
                  Replace, FileError, WriteArtifact
    <2>2. \A q \in Procs \ {p} : pc'[q] = pc[q]
      BY <1>2 DEF CallStep, Crash, CheckLock, AcquireLock, OpenTemp, WriteTemp,
                  Replace, FileError, WriteArtifact, Goto, End
    <2> QED BY <2>1, <2>2
  <1>3. CASE UNCHANGED vars
    BY <1>3 DEF vars
  <1> QED BY <1>1, <1>2, <1>3 DEF Next

(***************************************************************************)
(* A call in progress finds every other process idle, before and after its *)
(* step.                                                                   *)
(***************************************************************************)
LEMMA OthersIdle ==
    ASSUME IInv, NEW p \in Procs, CallStep(p) \/ Crash(p)
    PROVE  \A q \in Procs \ {p} : Idle(q) /\ pc'[q] = "idle"
  <1>1. ~Idle(p)
    BY DEF CallStep, Crash, CheckLock, AcquireLock, OpenTemp, WriteTemp,
           Replace, FileError, WriteArtifact, Idle
  <1>2. \A q \in Procs \ {p} : pc'[q] = pc[q]
    BY DEF IInv, TypeOK, CallStep, Crash, CheckLock, AcquireLock, OpenTemp,
           WriteTemp, Replace, FileError, WriteArtifact, Goto, End
  <1> QED BY <1>1, <1>2 DEF IInv, Solo, Idle

(***************************************************************************)
(* Only a file whose writing has ended is moved to the lock path, and only *)
(* while there is no lock.                                                 *)
(***************************************************************************)
LEMMA NextLock == IInv /\ [Next]_vars => LockInv' /\ CallInv'
  <1> SUFFICES ASSUME IInv, [Next]_vars
               PROVE  LockInv' /\ CallInv'
    OBVIOUS
  <1> USE DataAssumption DEF IInv, TypeOK, LockInv, CallInv, LockedContent, Idle
  <1>1. ASSUME NEW p \in Procs, NEW c \in Contents, Begin(p, c)
        PROVE  LockInv' /\ CallInv'
    <2>1. \A q \in Procs : Idle(q)
      BY <1>1 DEF Begin, Orderly
    <2> QED BY <1>1, <2>1 DEF Begin, Goto, disk
  <1>2. ASSUME NEW p \in Procs, CallStep(p) \/ Crash(p)
        PROVE  LockInv' /\ CallInv'
    <2>o. \A q \in Procs \ {p} : Idle(q) /\ pc'[q] = "idle"
      BY <1>2, OthersIdle
    <2>1. CASE CheckLock(p)
      <3>1. UNCHANGED <<lock_file, temp_file, data, request, handle>>
        BY <2>1 DEF CheckLock, disk
      <3>2. pc'[p] \in {"idle", "acquire"} /\ request[p] \in Contents
        BY <2>1 DEF CheckLock, Goto, End
      <3> QED BY <2>o, <3>1, <3>2
    <2>2. CASE AcquireLock(p)
      BY <2>2, <2>o, TrueReading DEF AcquireLock, Goto, End, disk
    <2>3. CASE OpenTemp(p)
      <3>1. lock_file = Absent /\ lock_file' = Absent /\ pc'[p] = "write"
        BY <2>3 DEF OpenTemp, Goto
      <3>2. temp_file' \in Inodes /\ handle'[p] = temp_file'
        BY <2>3 DEF OpenTemp
      <3> QED BY <2>3, <2>o, <3>1, <3>2 DEF OpenTemp
    <2>4. CASE WriteTemp(p)
      <3>1. /\ lock_file = Absent /\ lock_file' = Absent /\ pc'[p] = "replace"
            /\ temp_file' = temp_file /\ request' = request
            /\ handle[p] = temp_file /\ temp_file \in Inodes
            /\ request[p] \in Contents
        BY <2>4 DEF WriteTemp, Goto
      <3>2. data'[temp_file] = request[p]
        BY <2>4, <3>1 DEF WriteTemp
      <3> QED BY <2>o, <3>1, <3>2
    <2>5. CASE Replace(p)
      <3>1. /\ temp_file \in Inodes /\ data[temp_file] = request[p]
            /\ request[p] \in Contents
        BY <2>5 DEF Replace
      <3>2. /\ lock_file' = temp_file /\ temp_file' = Absent
            /\ data' = data /\ request' = request /\ pc'[p] = "artifact"
        BY <2>5, <3>1 DEF Replace, Goto
      <3> QED BY <2>o, <3>1, <3>2
    <2>6. CASE FileError(p)
      BY <2>6, <2>o DEF FileError, Goto, End, disk
    <2>7. CASE WriteArtifact(p)
      BY <2>7, <2>o DEF WriteArtifact, Goto, End, disk
    <2>8. CASE Crash(p)
      BY <2>8, <2>o DEF Crash, Goto, End, disk
    <2> QED BY <1>2, <2>1, <2>2, <2>3, <2>4, <2>5, <2>6, <2>7, <2>8 DEF CallStep
  <1>3. CASE UNCHANGED vars
    BY <1>3 DEF vars, disk
  <1> QED BY <1>1, <1>2, <1>3 DEF Next

(***************************************************************************)
(* Every step leaves the locked content alone, or locks the first one.     *)
(***************************************************************************)
LEMMA LockStep ==
    ASSUME IInv, [Next]_vars
    PROVE  \/ LockedContent' = LockedContent
           \/ /\ LockedContent = Absent /\ LockedContent' \in Contents
              /\ UNCHANGED <<accepted, artifact, outcome>>
  <1> USE DataAssumption DEF IInv, TypeOK, LockInv, CallInv, LockedContent, Idle
  <1>1. ASSUME NEW p \in Procs, NEW c \in Contents, Begin(p, c)
        PROVE  LockedContent' = LockedContent
    BY <1>1 DEF Begin, disk
  <1>2. ASSUME NEW p \in Procs,
               \/ CheckLock(p) \/ AcquireLock(p) \/ FileError(p)
               \/ WriteArtifact(p) \/ Crash(p)
        PROVE  LockedContent' = LockedContent
    BY <1>2 DEF CheckLock, AcquireLock, FileError, WriteArtifact, Crash, disk
  <1>3. ASSUME NEW p \in Procs, OpenTemp(p) \/ WriteTemp(p)
        PROVE  LockedContent' = LockedContent
    BY <1>3 DEF OpenTemp, WriteTemp
  <1>4. ASSUME NEW p \in Procs, Replace(p)
        PROVE  /\ LockedContent = Absent /\ LockedContent' \in Contents
               /\ UNCHANGED <<accepted, artifact, outcome>>
    BY <1>4 DEF Replace
  <1>5. CASE UNCHANGED vars
    BY <1>5 DEF vars, disk
  <1> QED BY <1>1, <1>2, <1>3, <1>4, <1>5 DEF Next, CallStep

(***************************************************************************)
(* What a step reports or publishes is the locked content.                 *)
(***************************************************************************)
LEMMA ReportStep ==
    ASSUME IInv, [Next]_vars
    PROVE  /\ accepted' \in {accepted, accepted \cup ({LockedContent} \ {Absent})}
           /\ \A p \in Procs :
                /\ artifact'[p] \in {artifact[p], LockedContent}
                /\ outcome'[p] = "rejected" =>
                      /\ LockedContent \in Contents
                      /\ LockedContent # request'[p]
  <1> USE DataAssumption DEF IInv, TypeOK, CallInv, PromiseInv,
                             RejectedOnlyOnConflict, Idle
  <1> DEFINE Reports ==
        /\ accepted' \in {accepted, accepted \cup ({LockedContent} \ {Absent})}
        /\ \A p \in Procs :
             /\ artifact'[p] \in {artifact[p], LockedContent}
             /\ outcome'[p] = "rejected" =>
                   LockedContent \in Contents /\ LockedContent # request'[p]
  <1>1. ASSUME NEW p \in Procs, NEW c \in Contents, Begin(p, c)
        PROVE  Reports
    BY <1>1 DEF Begin
  <1>2. ASSUME NEW p \in Procs, CheckLock(p)
        PROVE  Reports
    BY <1>2, TrueReading DEF CheckLock, End
  <1>3. ASSUME NEW p \in Procs, AcquireLock(p)
        PROVE  Reports
    BY <1>3, TrueReading DEF AcquireLock, End
  <1>4. ASSUME NEW p \in Procs, OpenTemp(p) \/ WriteTemp(p) \/ Replace(p)
        PROVE  Reports
    BY <1>4 DEF OpenTemp, WriteTemp, Replace, End
  <1>5. ASSUME NEW p \in Procs, FileError(p) \/ Crash(p)
        PROVE  Reports
    BY <1>5 DEF FileError, Crash, End
  <1>6. ASSUME NEW p \in Procs, WriteArtifact(p)
        PROVE  Reports
    BY <1>6 DEF WriteArtifact, End
  <1>7. CASE UNCHANGED vars
    BY <1>7 DEF vars
  <1> QED BY <1>1, <1>2, <1>3, <1>4, <1>5, <1>6, <1>7 DEF Next, CallStep

LEMMA NextPromise == IInv /\ [Next]_vars => PromiseInv'
  <1> SUFFICES ASSUME IInv, [Next]_vars
               PROVE  PromiseInv'
    OBVIOUS
  <1> USE DataAssumption DEF IInv, PromiseInv, AcceptedStaysLocked,
                             ArtifactMatchesLock, RejectedOnlyOnConflict
  <1>1. CASE LockedContent' = LockedContent
    <2>1. AcceptedStaysLocked'
      BY <1>1, ReportStep
    <2>2. ArtifactMatchesLock'
      BY <1>1, ReportStep
    <2>3. RejectedOnlyOnConflict'
      BY <1>1, ReportStep
    <2> QED BY <2>1, <2>2, <2>3
  <1>2. CASE /\ LockedContent = Absent /\ LockedContent' \in Contents
             /\ UNCHANGED <<accepted, artifact, outcome>>
    <2>1. /\ accepted = {}
          /\ \A p \in Procs : artifact[p] = Absent /\ outcome[p] # "rejected"
      BY <1>2 DEF TypeOK
    <2> QED BY <1>2, <2>1
  <1> QED BY <1>1, <1>2, LockStep

LEMMA NextIInv == IInv /\ [Next]_vars => IInv'
  BY NextType, NextSolo, NextLock, NextPromise DEF IInv

(***************************************************************************)
(* Two calls reported as locked were made with the same content.           *)
(***************************************************************************)
THEOREM AgreeTheorem == Orderly /\ Spec => []AcceptedAgree
  <1>1. IInv => AcceptedAgree
    BY DEF IInv, PromiseInv, AcceptedStaysLocked, AcceptedAgree
  <1> QED BY InitIInv, NextIInv, <1>1, PTL DEF Spec

(***************************************************************************)
(* A content reported as locked stays locked.                              *)
(***************************************************************************)
THEOREM StaysLockedTheorem == Orderly /\ Spec => []AcceptedStaysLocked
  <1>1. IInv => AcceptedStaysLocked
    BY DEF IInv, PromiseInv
  <1> QED BY InitIInv, NextIInv, <1>1, PTL DEF Spec

(***************************************************************************)
(* No output root holds a final result other than the locked one.          *)
(***************************************************************************)
THEOREM ArtifactTheorem == Orderly /\ Spec => []ArtifactMatchesLock
  <1>1. IInv => ArtifactMatchesLock
    BY DEF IInv, PromiseInv
  <1> QED BY InitIInv, NextIInv, <1>1, PTL DEF Spec

(***************************************************************************)
(* Only a conflict with the locked content rejects a call.                 *)
(***************************************************************************)
THEOREM RejectionTheorem == Orderly /\ Spec => []RejectedOnlyOnConflict
  <1>1. IInv => RejectedOnlyOnConflict
    BY DEF IInv, PromiseInv
  <1> QED BY InitIInv, NextIInv, <1>1, PTL DEF Spec

-----------------------------------------------------------------------------
LEMMA InitRefines == Init => Register!Init
  BY DEF Init, Register!Init, LockedContent

LEMMA NextRefines == IInv /\ [Next]_vars => [Register!Next]_Register!vars
  <1> SUFFICES ASSUME IInv, [Next]_vars
               PROVE  [Register!Next]_Register!vars
    OBVIOUS
  <1> USE DEF Register!Next, Register!vars, Register!Lock, Register!Accept
  <1>1. CASE LockedContent' = LockedContent
    <2>1. CASE accepted' = accepted
      BY <1>1, <2>1
    <2>2. CASE /\ LockedContent # Absent
               /\ accepted' = accepted \cup {LockedContent}
      <3>1. LockedContent \in Contents
        BY <2>2 DEF IInv, LockInv, LockedContent
      <3> QED BY <1>1, <2>2, <3>1
    <2> QED BY <2>1, <2>2, ReportStep
  <1>2. CASE /\ LockedContent = Absent /\ LockedContent' \in Contents
             /\ UNCHANGED <<accepted, artifact, outcome>>
    BY <1>2
  <1> QED BY <1>1, <1>2, LockStep

(***************************************************************************)
(* The lock file, through every failure and crash, implements a register   *)
(* that is written once.                                                   *)
(***************************************************************************)
THEOREM RefinesRegister == Orderly /\ Spec => ImplementsRegister
  BY InitIInv, NextIInv, InitRefines, NextRefines, PTL
     DEF Spec, ImplementsRegister, Register!Spec
-----------------------------------------------------------------------------
(* Calls that overlap: what holds in all circumstances *)

\* A call under way has a request, and an open file while it writes.
Called ==
    \A p \in Procs : /\ ~Idle(p) => request[p] \in Contents
                     /\ pc[p] = "write" => handle[p] \in Inodes

LEMMA InitCalled == Init => TypeOK /\ Called
  BY DataAssumption DEF Init, TypeOK, Called, Idle, Labels, Outcomes

LEMMA NextCalled == TypeOK /\ Called /\ [Next]_vars => (TypeOK /\ Called)'
  <1> SUFFICES ASSUME TypeOK, Called, [Next]_vars
               PROVE  TypeOK' /\ Called'
    OBVIOUS
  <1> USE DataAssumption DEF TypeOK, Called, Labels, Outcomes, Goto, End, Idle, disk, count
  <1>1. ASSUME NEW p \in Procs, NEW c \in Contents, Begin(p, c)
        PROVE  TypeOK' /\ Called'
    BY <1>1, BoundAssumption DEF Begin
  <1>2. ASSUME NEW p \in Procs, CheckLock(p)
        PROVE  TypeOK' /\ Called'
    BY <1>2 DEF CheckLock
  <1>3. ASSUME NEW p \in Procs, AcquireLock(p)
        PROVE  TypeOK' /\ Called'
    BY <1>3 DEF AcquireLock
  <1>4. ASSUME NEW p \in Procs, OpenTemp(p)
        PROVE  TypeOK' /\ Called'
    BY <1>4 DEF OpenTemp
  <1>5. ASSUME NEW p \in Procs, WriteTemp(p)
        PROVE  TypeOK' /\ Called'
    BY <1>5 DEF WriteTemp
  <1>6. ASSUME NEW p \in Procs, Replace(p)
        PROVE  TypeOK' /\ Called'
    BY <1>6 DEF Replace
  <1>7. ASSUME NEW p \in Procs, FileError(p)
        PROVE  TypeOK' /\ Called'
    BY <1>7 DEF FileError
  <1>8. ASSUME NEW p \in Procs, WriteArtifact(p)
        PROVE  TypeOK' /\ Called'
    BY <1>8 DEF WriteArtifact
  <1>9. ASSUME NEW p \in Procs, Crash(p)
        PROVE  TypeOK' /\ Called'
    BY <1>9, BoundAssumption DEF Crash
  <1>10. CASE UNCHANGED vars
    BY <1>10 DEF vars
  <1> QED BY <1>1, <1>2, <1>3, <1>4, <1>5, <1>6, <1>7, <1>8, <1>9, <1>10
             DEF Next, CallStep

(***************************************************************************)
(* Type correctness of the lock, however calls overlap.                    *)
(***************************************************************************)
THEOREM TypeCorrect == Spec => []TypeOK
  BY InitCalled, NextCalled, PTL DEF Spec

\* Content c is locked, and nobody is past the check with another one.
Settled(c) ==
    /\ c \in Contents /\ LockedContent = c
    /\ \A p \in Procs : /\ pc[p] \notin {"open", "write", "replace"}
                        /\ pc[p] = "artifact" => request[p] = c

\* The content stays locked; no other one is reported, or written to an artifact.
HoldsOn(c) ==
    /\ Settled(c)'
    /\ accepted' \subseteq accepted \cup {c}
    /\ \A p \in Procs : artifact'[p] \in {artifact[p], c}

LEMMA SettledStep ==
    ASSUME TypeOK, ~ReadErrors, [Next]_vars, NEW c, Settled(c)
    PROVE  HoldsOn(c)
  <1>r. Readings = {c} /\ c \in Contents
    BY DEF Readings, Settled
  <1>t. /\ pc \in [Procs -> Labels] /\ request \in [Procs -> Contents \cup {Absent}]
        /\ artifact \in [Procs -> Contents \cup {Absent}]
    BY DEF TypeOK
  <1> USE <1>t DEF HoldsOn, Settled, LockedContent, Goto, End, Idle, disk, count
  <1>1. ASSUME NEW p \in Procs, NEW d \in Contents, Begin(p, d)
        PROVE  HoldsOn(c)
    BY <1>1 DEF Begin
  <1>2. ASSUME NEW p \in Procs, CheckLock(p)
        PROVE  HoldsOn(c)
    BY <1>2, <1>r DEF CheckLock
  <1>3. ASSUME NEW p \in Procs, AcquireLock(p)
        PROVE  HoldsOn(c)
    <2>1. CASE request[p] = c
      BY <1>3, <1>r, <2>1 DEF AcquireLock
    <2>2. CASE request[p] # c
      BY <1>3, <1>r, <2>2 DEF AcquireLock
    <2> QED BY <2>1, <2>2
  <1>4. ASSUME NEW p \in Procs, OpenTemp(p) \/ WriteTemp(p) \/ Replace(p) \/ FileError(p)
        PROVE  HoldsOn(c)
    BY <1>4 DEF OpenTemp, WriteTemp, Replace, FileError
  <1>5. ASSUME NEW p \in Procs, WriteArtifact(p)
        PROVE  HoldsOn(c)
    BY <1>5 DEF WriteArtifact
  <1>6. ASSUME NEW p \in Procs, Crash(p)
        PROVE  HoldsOn(c)
    BY <1>6 DEF Crash
  <1>7. CASE UNCHANGED vars
    BY <1>7 DEF vars
  <1> HIDE DEF HoldsOn, Settled, LockedContent, Goto, End, Idle, disk, count
  <1>8. ASSUME NEW p \in Procs, CallStep(p)
        PROVE  HoldsOn(c)
    BY <1>2, <1>3, <1>4, <1>5, <1>8 DEF CallStep
  <1>9. CASE Next
    BY <1>1, <1>6, <1>8, <1>9 DEF Next
  <1> QED BY <1>7, <1>9

(***************************************************************************)
(* The race of lock_race has an end: once a content is locked and no call  *)
(* is left between its check and its replacement, calls may overlap and be *)
(* killed as they like, that content stays locked and no other is reported *)
(* or written, provided the lock file can be read.                         *)
(***************************************************************************)
THEOREM SettledLockHolds ==
    ~ReadErrors /\ Spec =>
        [][\A c \in Contents : Settled(c) => HoldsOn(c)]_vars
  <1> DEFINE Inv == ~ReadErrors /\ TypeOK /\ Called
  <1>1. Inv /\ [Next]_vars =>
            [\A c \in Contents : Settled(c) => HoldsOn(c)]_vars
    BY SettledStep
  <1>2. ~ReadErrors /\ Init => Inv
    BY InitCalled
  <1>3. Inv /\ [Next]_vars => Inv'
    BY NextCalled
  <1> HIDE DEF Inv
  <1> QED BY <1>1, <1>2, <1>3, PTL DEF Spec

\* Steps to the end of the call of a process, at most.
StepsLeft(p) ==
    CASE pc[p] = "check"    -> 6
      [] pc[p] = "acquire"  -> 5
      [] pc[p] = "open"     -> 4
      [] pc[p] = "write"    -> 3
      [] pc[p] = "replace"  -> 2
      [] pc[p] = "artifact" -> 1
      [] pc[p] = "idle"     -> 0

(***************************************************************************)
(* A call makes at most six steps of its own, with overlapping calls,      *)
(* crashes and temporary files left behind, and no step of another process *)
(* sets it back.                                                           *)
(***************************************************************************)
THEOREM CallIsFinite ==
    Spec => [][\A p \in Procs : ~Idle(p) =>
                  /\ CallStep(p) => StepsLeft(p)' < StepsLeft(p)
                  /\ StepsLeft(p)' = StepsLeft(p) \/ StepsLeft(p)' < StepsLeft(p)]_vars
  <1>1. TypeOK /\ [Next]_vars =>
            [\A p \in Procs : ~Idle(p) =>
                /\ CallStep(p) => StepsLeft(p)' < StepsLeft(p)
                /\ StepsLeft(p)' = StepsLeft(p) \/ StepsLeft(p)' < StepsLeft(p)]_vars
    <2> SUFFICES ASSUME TypeOK, Next, NEW p \in Procs, ~Idle(p)
                 PROVE  /\ CallStep(p) => StepsLeft(p)' < StepsLeft(p)
                        /\ StepsLeft(p)' = StepsLeft(p) \/ StepsLeft(p)' < StepsLeft(p)
      OBVIOUS
    <2>t. pc \in [Procs -> Labels]
      BY DEF TypeOK
    <2> USE <2>t DEF Goto, End, Idle, Labels
    <2>1. CallStep(p) => StepsLeft(p)' < StepsLeft(p)
      BY DEF CallStep, CheckLock, AcquireLock, OpenTemp, WriteTemp, Replace, FileError,
             WriteArtifact, StepsLeft
    <2>2. ASSUME NEW q \in Procs, (\E c \in Contents : Begin(q, c)) \/ CallStep(q) \/ Crash(q),
                 q # p
          PROVE  StepsLeft(p)' = StepsLeft(p)
      <3>1. pc'[p] = pc[p]
        BY <2>2 DEF Begin, Crash, CallStep, CheckLock, AcquireLock, OpenTemp, WriteTemp, Replace,
                    FileError, WriteArtifact
      <3> QED BY <3>1 DEF StepsLeft
    <2>3. ~\E c \in Contents : Begin(p, c)
      BY DEF Begin
    <2>4. Crash(p) => StepsLeft(p)' < StepsLeft(p)
      BY DEF Crash, StepsLeft
    <2> QED BY <2>1, <2>2, <2>3, <2>4 DEF Next
  <1> QED BY InitCalled, NextCalled, <1>1, PTL DEF Spec
=============================================================================
