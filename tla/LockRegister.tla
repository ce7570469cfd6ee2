----------------------------- MODULE LockRegister -----------------------------
(***************************************************************************)
(* What run_final_result promises about the content of a terminal outcome  *)
(* ("lock the terminal outcome", "reject modification after locking"): a   *)
(* register that is written once, and requests that are accepted only for  *)
(* the content it holds.                                                   *)
(***************************************************************************)
CONSTANTS
    Contents,   \* the contents a final result may have
    Absent      \* the register has not been written

VARIABLES
    value,      \* the locked content, or Absent
    accepted    \* the contents of the requests reported as locked

vars == <<value, accepted>>

Init == value = Absent /\ accepted = {}

Lock(c) == value = Absent /\ value' = c /\ UNCHANGED accepted

Accept(c) == value = c /\ accepted' = accepted \cup {c} /\ UNCHANGED value

Next == \E c \in Contents : Lock(c) \/ Accept(c)

Spec == Init /\ [][Next]_vars
=============================================================================
