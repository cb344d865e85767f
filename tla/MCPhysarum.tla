----------------------------- MODULE MCPhysarum -----------------------------
(* Coarse numbers of the conductance law, and a program that schedules on  *)
(* a pool or calls a route (the two share the law and nothing else).       *)
EXTENDS PhysarumScheduler, Router

Half == <<1, 2>>
Eighth == <<1, 8>>

Pooling == manner = [p \in Tube |-> Broken] /\ answer = "none" /\ calls = << >> /\ changes = 0
Routing == way = [w \in Tube |-> Fails] /\ size = 0 /\ turns = 0

MeshInit == Init /\ RouteInit /\ (Pooling \/ Routing)
MeshNext ==
    \/ Pooling /\ asked = {} /\ Next /\ UNCHANGED routeVars
    \/ Routing /\ RouteNext /\ UNCHANGED vars

MeshSpec ==
    /\ MeshInit /\ [][MeshNext]_<<vars, routeVars>>
    /\ WF_vars(Pooling /\ asked = {} /\ Proceeds /\ UNCHANGED routeVars)
    /\ WF_routeVars(Routing /\ Goes /\ UNCHANGED vars)

(* Who trails is asked again and again, as a worker of a pool and as a     *)
(* provider of a route, however small the batches and whatever the outcome *)
(* (builtins.js:25-37, 64-68).                                             *)
NobodyStarved == NeverStarved /\ EveryTubeProbed

(* Who is and stays faster ends higher, in a pool and on a route           *)
(* (CONCURRENCY.md:146, VISION.md:84).                                     *)
FasterWins == FasterEndsHigher /\ FasterOvertakes
=============================================================================
