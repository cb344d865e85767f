------------------------------ MODULE SettledRun ------------------------------
(***************************************************************************)
(* What runSettled of src/myxo-concurrent.js promises its callers, gather  *)
(* and schedule: the tasks settle on their own, in any order; the call     *)
(* returns one outcome per task, in task order, once all have settled, or  *)
(* throws and returns none.                                                *)
(***************************************************************************)
CONSTANT Task

VARIABLES
    settled,   \* how each task ended: "ok", "error", or "none" so far
    outcomes,  \* what the call returned for each task, "none" before
    verdict    \* "none", "settled" or "threw"

vars == <<settled, outcomes, verdict>>

Init ==
    /\ settled = [t \in Task |-> "none"]
    /\ outcomes = [t \in Task |-> "none"]
    /\ verdict = "none"

(* A task may also settle after the call threw; nobody looks any more.     *)
Settle(t, how) ==
    /\ settled[t] = "none" /\ how \in {"ok", "error"}
    /\ settled' = [settled EXCEPT ![t] = how]
    /\ UNCHANGED <<outcomes, verdict>>

(* "missing" stands for a settled task whose message was not seen.         *)
Return ==
    /\ verdict = "none"
    /\ \A t \in Task : settled[t] # "none"
    /\ outcomes' \in [Task -> {"ok", "error", "missing"}]
    /\ \A t \in Task : outcomes'[t] \in {settled[t], "missing"}
    /\ verdict' = "settled"
    /\ UNCHANGED settled

Throw ==
    /\ verdict = "none"
    /\ verdict' = "threw"
    /\ UNCHANGED <<settled, outcomes>>

Next ==
    \/ \E t \in Task, how \in {"ok", "error"} : Settle(t, how)
    \/ Return \/ Throw

Spec == Init /\ [][Next]_vars
=============================================================================
