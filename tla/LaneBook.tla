------------------------------ MODULE LaneBook ------------------------------
(***************************************************************************)
(* What the lanes of src/tools/lane.js promise: a batch is granted at one  *)
(* moment, whole, and only when nobody alive holds any of its lanes.       *)
(***************************************************************************)
CONSTANTS Session, Path

VARIABLE holds

Init == holds = [s \in Session |-> {}]

Grant(s, lanes) ==
    /\ \A t \in Session : holds[t] \cap lanes = {}
    /\ holds' = [holds EXCEPT ![s] = @ \cup lanes]
GiveBack(s, lanes) ==
    /\ lanes \subseteq holds[s]
    /\ holds' = [holds EXCEPT ![s] = @ \ lanes]

Next == \E s \in Session, lanes \in SUBSET Path : Grant(s, lanes) \/ GiveBack(s, lanes)

Spec == Init /\ [][Next]_holds
=============================================================================
