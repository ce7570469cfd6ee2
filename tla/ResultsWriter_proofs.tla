------------------------- MODULE ResultsWriter_proofs -------------------------
(***************************************************************************)
(* The results file is complete at every moment and after any sequence of  *)
(* kills, for every number of runs and of flushes.                         *)
(***************************************************************************)
EXTENDS ResultsWriter, TLAPS

Runs == 1 .. MaxRuns

\* From its opening to its publication, the temporary file is this run's own.
TempInv ==
    /\ pc \in {"write", "validate", "replace"} =>
            temp \in Files /\ temp.version = run
    /\ pc = "replace" => Whole(temp)

\* What is published is whole and was written by some run.
FileInv ==
    /\ ReadersSeeWhole
    /\ file # Nothing => file.version \in Runs

SuccessInv == SuccessIsPublished /\ (success => pc = "done")

IInv == TypeOK /\ run \in Runs /\ TempInv /\ FileInv /\ SuccessInv

-----------------------------------------------------------------------------
LEMMA InitIInv == Init => IInv
  <1> SUFFICES ASSUME Init
               PROVE  IInv
    OBVIOUS
  <1>1. run \in Runs /\ pc = "start" /\ file = Nothing /\ success = FALSE
    BY PartsAssumption DEF Init, Runs
  <1>2. TypeOK
    BY DEF Init, TypeOK
  <1> QED BY <1>1, <1>2 DEF IInv, TempInv, FileInv, SuccessInv,
                            ReadersSeeWhole, SuccessIsPublished

(***************************************************************************)
(* Every step preserves the invariant: only Replace changes the file, and  *)
(* it moves there a file that validated.                                   *)
(***************************************************************************)
LEMMA NextIInv == IInv /\ [Next]_vars => IInv'
  <1> SUFFICES ASSUME IInv, [Next]_vars
               PROVE  IInv'
    OBVIOUS
  <1> USE PartsAssumption, NothingAssumption
      DEF IInv, TypeOK, Runs, TempInv, FileInv, SuccessInv, ReadersSeeWhole,
          SuccessIsPublished, Whole, Files
  <1>1. ASSUME NEW ok \in BOOLEAN, MakeDirectory(ok)
        PROVE  IInv'
    BY <1>1 DEF MakeDirectory, Return
  <1>2. CASE OpenTemp
    BY <1>2 DEF OpenTemp
  <1>3. CASE WriteTemp
    BY <1>3 DEF WriteTemp
  <1>4. CASE ValidateTemp
    BY <1>4 DEF ValidateTemp
  <1>5. CASE Replace
    BY <1>5 DEF Replace, Return
  <1>6. CASE Raise
    BY <1>6 DEF Raise
  <1>7. ASSUME NEW removed \in BOOLEAN, Cleanup(removed)
        PROVE  IInv'
    BY <1>7 DEF Cleanup, Return
  <1>8. CASE Restart
    <2>1. run' \in Runs /\ pc' = "start" /\ success' = FALSE
      BY <1>8 DEF Restart
    <2>2. temp' = temp /\ file' = file /\ dir' = dir /\ reported' = reported
      BY <1>8 DEF Restart
    <2>3. TypeOK'
      <3>1. /\ pc' \in {"start", "open", "write", "validate", "replace",
                        "cleanup", "done"}
            /\ run' \in Nat
        BY <2>1
      <3>2. dir' \in BOOLEAN /\ success' \in BOOLEAN
        BY <2>1, <2>2, Zenon
      <3> QED BY <2>2, <3>1, <3>2, Zenon
    <2>4. TempInv' /\ FileInv' /\ SuccessInv'
      BY <2>1, <2>2
    <2> QED BY <2>1, <2>3, <2>4
  <1>9. CASE UNCHANGED vars
    BY <1>9 DEF vars
  <1> QED BY <1>1, <1>2, <1>3, <1>4, <1>5, <1>6, <1>7, <1>8, <1>9
          DEF Next, RunStep

(***************************************************************************)
(* Type correctness of the writer.                                         *)
(***************************************************************************)
THEOREM TypeCorrect == Spec => []TypeOK
  <1>1. IInv => TypeOK
    BY DEF IInv
  <1> QED BY InitIInv, NextIInv, <1>1, PTL DEF Spec

(***************************************************************************)
(* A reader of results.json never sees a part of a file.                   *)
(***************************************************************************)
THEOREM ReadersTheorem == Spec => []ReadersSeeWhole
  <1>1. IInv => ReadersSeeWhole
    BY DEF IInv, FileInv
  <1> QED BY InitIInv, NextIInv, <1>1, PTL DEF Spec

(***************************************************************************)
(* A run that reports success has published its own results.               *)
(***************************************************************************)
THEOREM SuccessTheorem == Spec => []SuccessIsPublished
  <1>1. IInv => SuccessIsPublished
    BY DEF IInv, SuccessInv
  <1> QED BY InitIInv, NextIInv, <1>1, PTL DEF Spec

-----------------------------------------------------------------------------
LEMMA InitRefines == Init => Published!Init
  BY DEF Init, Published!Init, Whole

LEMMA NextRefines == IInv /\ [Next]_vars => [Published!Publish]_Published!vars
  <1> SUFFICES ASSUME IInv, [Next]_vars
               PROVE  [Published!Publish]_Published!vars
    OBVIOUS
  <1> USE DEF Published!Publish, Published!vars
  <1>1. CASE Replace
    <2>1. Whole(file') /\ file'.version = run /\ run \in Runs
      BY <1>1 DEF IInv, TempInv, Replace
    <2>2. reported' = reported \cup {run}
      BY <1>1 DEF Replace, Return
    <2> QED BY <2>1, <2>2 DEF Runs, Whole
  <1>2. CASE ~Replace
    <2>1. UNCHANGED <<file, reported>>
      BY <1>2 DEF Next, RunStep, vars, MakeDirectory, OpenTemp, WriteTemp,
                  ValidateTemp, Raise, Cleanup, Restart, Return
    <2> QED BY <2>1 DEF Whole
  <1> QED BY <1>1, <1>2

(***************************************************************************)
(* The writer implements the atomically published file.                    *)
(***************************************************************************)
THEOREM RefinesPublishedFile == Spec => ImplementsPublishedFile
  BY InitIInv, NextIInv, InitRefines, NextRefines, PTL
     DEF Spec, ImplementsPublishedFile, Published!Spec
=============================================================================
