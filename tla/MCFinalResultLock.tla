-------------------------- MODULE MCFinalResultLock ---------------------------
(* Small instances of FinalResultLock. *)
EXTENDS FinalResultLock, TLC

CONSTANTS p1, p2, a, b, absent

\* Processes and contents are interchangeable.
Symmetry == Permutations({p1, p2}) \cup Permutations({a, b})
=============================================================================
