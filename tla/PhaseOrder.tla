------------------------------ MODULE PhaseOrder ------------------------------
(***************************************************************************)
(* What run_pipeline promises to whoever reads its output directory: the   *)
(* artifacts of a run appear in the order of Phase_order, one at a time    *)
(* and whole, none of them disappears while the run lasts, and the exit    *)
(* code is 0 exactly when the last of them is the report of cleanup or the *)
(* handoff of gap evaluation or of the simulation.                         *)
(***************************************************************************)
EXTENDS Naturals

VARIABLES
    written,   \* the complete artifacts of the current run
    running,   \* a run is under way
    exit       \* how the last run ended, "none" before that

vars == <<written, running, exit>>

\* Phase_order; a handoff takes the place of the phase it stops short of.
Position ==
    [snapshot |-> 1, scan |-> 2, analysis_classification |-> 3, statement_output |-> 4,
     gap_evaluation |-> 5, simulation_environment |-> 6, inspection |-> 7,
     final_result |-> 8, cleanup |-> 9,
     gap_handoff |-> 6, simulation_handoff |-> 7]

Handoffs  == {"gap_handoff", "simulation_handoff"}
Artifacts == DOMAIN Position
Endings   == Handoffs \cup {"cleanup"}

\* What a run has written when it is the turn of a.
Needed(a) == {b \in Artifacts \ Handoffs : Position[b] < Position[a]}

Init == written = {} /\ running = FALSE /\ exit = "none"

\* A run starts, with the artifacts of earlier runs still around.
Begin ==
    /\ ~running /\ running' = TRUE
    /\ written' = {} /\ exit' = "none"

\* The agent package cannot be read: no run starts.
Refuse ==
    /\ ~running /\ exit' = "rejected"
    /\ UNCHANGED <<written, running>>

\* The next artifact is complete.
Appears(a) == written = Needed(a) /\ written' = written \cup {a}

Publish(a) ==
    /\ running /\ Appears(a)
    /\ running' = (a \notin Endings)
    /\ exit' = IF a \in Endings THEN "ok" ELSE "none"

\* The run ends early, between two artifacts or with one just complete.
Stop ==
    /\ running /\ running' = FALSE
    /\ exit' \in {"rejected", "broken", "killed"}
    /\ written' = written \/ \E a \in written' \ written : Appears(a)

Next == Begin \/ Refuse \/ (\E a \in written' \ written : Publish(a)) \/ Stop

Spec == Init /\ [][Next]_vars
=============================================================================
