--------------------------- MODULE MCTrack1Executor ---------------------------
(* Small instances of Track1Executor. *)
EXTENDS Track1Executor, TaskLaws

CONSTANTS m1, m2, unlisted

TwoModels == <<m1, m2>>

Prompt(path, expr, category) ==
    [path |-> path, expr |-> expr, category |-> category]

(***************************************************************************)
(* "What is 3 + 4?"; "Calculate 10 / 0", which the evaluator declines; a   *)
(* low-risk and a high-risk question; and a prompt that a tool claims      *)
(* without solving it.                                                     *)
(***************************************************************************)
SomePrompts ==
    {Prompt("arithmetic", TRUE, "facts"), Prompt("model", TRUE, "facts"),
     Prompt("model", FALSE, "facts"), Prompt("model", FALSE, "code"),
     Prompt("hint", FALSE, "facts")}
=============================================================================
