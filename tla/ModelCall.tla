------------------------------- MODULE ModelCall ------------------------------
(***************************************************************************)
(* What a caller of FireworksClient.infer may rely on: one call returns    *)
(* one verdict, and the time it takes is its budget plus, at worst, the    *)
(* last request it still had in flight.                                    *)
(***************************************************************************)
EXTENDS Naturals, ModelReplies

CONSTANTS
    Timeout,   \* the `timeout` argument of the call
    MaxPost    \* the longest a single request may last

VARIABLES
    pc,        \* "running" or "done"
    now,       \* time since the call began
    result     \* what the call returned, or Pending

vars == <<pc, now, result>>

Pending == [kind |-> "pending", says |-> "plain"]

CallBound == Timeout + MaxPost

Init == pc = "running" /\ now = 0 /\ result = Pending

\* The call goes on, and the clock moves within the bound.
Elapse ==
    /\ pc = "running"
    /\ now' \in now .. (CallBound - 1)
    /\ UNCHANGED <<pc, result>>

\* The call returns what the provider said last.
Verdict(reply) ==
    /\ pc = "running"
    /\ now' \in now .. (CallBound - 1)
    /\ pc' = "done"
    /\ result' = reply

Next == Elapse \/ \E reply \in Replies : Verdict(reply)

Spec == Init /\ [][Next]_vars /\ WF_vars(\E reply \in Replies : Verdict(reply))
=============================================================================
