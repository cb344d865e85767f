------------------------------- MODULE Router -------------------------------
(***************************************************************************)
(* routeCall of src/builtins.js: a call goes to the provider with most     *)
(* credit, and fails over to the others in the order of their credit.      *)
(*                                                                         *)
(* A provider may call its own route: the outer call then goes on by the   *)
(* order and the total it took before, over conductances and credits that  *)
(* have moved.  How a provider does is up to its environment.              *)
(***************************************************************************)
EXTENDS Physarum

CONSTANTS
    Speeds,                 \* qualities measured
    Broken, Denied, Asks,   \* a provider's other ways: it fails, it is refused by the fence, it asks the route
    MaxNesting,             \* bound: calls in calls; one more fails, as a call stack too deep
    MaxChanges              \* bound: changes of a provider's ways

ASSUME RouterAssumption ==
    /\ Speeds \subseteq Nat /\ Speeds # {} /\ MaxNesting \in Nat \ {0} /\ MaxChanges \in Nat
    /\ Cardinality({Broken, Denied, Asks}) = 3 /\ {Broken, Denied, Asks} \cap Nat = {}

Manner == Speeds \cup {Broken, Denied, Asks}

VARIABLES
    flow, purse,   \* the route: conductances and credits
    manner,        \* how each provider does at present
    changes,       \* of that so far
    calls,         \* calls under way, each in a provider of the one before: [total, order]
    answer,        \* of the call that ended last: none, result, error, denial
    asked          \* history: who was asked since the program called the route

route == <<flow, purse>>
routeVars == <<route, manner, changes, calls, answer, asked>>

RouteInit ==
    /\ flow = [p \in Tube |-> Unit] /\ purse = [p \in Tube |-> 0]
    /\ manner \in [Tube -> Manner] /\ changes = 0
    /\ calls = << >> /\ answer = "none" /\ asked = {}

Call == calls[Len(calls)]
Asked == Head(Call.order)
Back == SubSeq(calls, 1, Len(calls) - 1)

(* Most credit first, and the first of equals.                             *)
Order(credit) ==
    LET before(p) == {q \in Tube : credit[q] > credit[p] \/ (credit[q] = credit[p] /\ q < p)}
    IN [k \in 1..Tubes |-> CHOOSE p \in Tube : Cardinality(before(p)) = k - 1]

(* Operators named ..._Bug are what a plausible mistake would make of the  *)
(* definition that follows; no action uses them.                           *)

(* Credits accrue; the first in order is asked, and pays.                  *)
Open ==
    LET due == Accrued(flow, purse)
    IN /\ purse' = Relative(Paid(flow, due, Order(due)[1]))
       /\ calls' = Append(calls, [total |-> Total(flow), order |-> Order(due)])
       /\ asked' = (IF calls = << >> THEN {} ELSE asked) \cup {Order(due)[1]}

CallRoute ==
    /\ calls = << >>
    /\ Open /\ answer' = "none"
    /\ UNCHANGED <<flow, manner, changes>>

AskAgain ==
    /\ calls # << >> /\ answer = "none"
    /\ manner[Asked] = Asks /\ Len(calls) < MaxNesting
    /\ Open
    /\ UNCHANGED <<flow, manner, changes, answer>>

(* The innermost call's provider is done: by itself, or with what its own  *)
(* call of the route brought.                                              *)
Comes(what) ==
    /\ calls # << >>
    /\ \/ answer = what /\ manner[Asked] = Asks
       \/ answer = "none" /\ CASE what = "result" -> manner[Asked] \in Speeds
                               [] what = "denial" -> manner[Asked] = Denied
                               [] what = "error" -> manner[Asked] = Broken
                                      \/ (manner[Asked] = Asks /\ Len(calls) = MaxNesting)

(* A provider that asked is as slow as the slowest.                        *)
Slowest == CHOOSE q \in Speeds : \A r \in Speeds : q <= r
Measured == IF manner[Asked] = Asks THEN Slowest ELSE manner[Asked]

Serve ==
    /\ Comes("result")
    /\ flow' = [flow EXCEPT ![Asked] = Learn(@, Measured)]
    /\ calls' = Back /\ answer' = "result"
    /\ UNCHANGED <<purse, manner, changes, asked>>

(* The next in the order taken pays the total taken.                       *)
FailOver ==
    /\ Comes("error") /\ Len(Call.order) > 1
    /\ flow' = [flow EXCEPT ![Asked] = Decay(@)]
    /\ purse' = Relative([purse EXCEPT ![Call.order[2]] = @ - Explore[2] * Call.total])
    /\ calls' = [calls EXCEPT ![Len(calls)].order = Tail(@)] /\ answer' = "none"
    /\ asked' = asked \cup {Call.order[2]}
    /\ UNCHANGED <<manner, changes>>

NoneLeft ==
    /\ Comes("error") /\ Len(Call.order) = 1
    /\ flow' = [flow EXCEPT ![Asked] = Decay(@)]
    /\ calls' = Back /\ answer' = "error"
    /\ UNCHANGED <<purse, manner, changes, asked>>

(* Bug: a denial is a failure like any other.                              *)
Deny_Bug ==
    /\ Comes("denial")
    /\ flow' = [flow EXCEPT ![Asked] = Decay(@)]
    /\ IF Len(Call.order) > 1
       THEN /\ calls' = [calls EXCEPT ![Len(calls)].order = Tail(@)] /\ answer' = "none"
            /\ asked' = asked \cup {Call.order[2]}
       ELSE calls' = Back /\ answer' = "error" /\ asked' = asked
    /\ UNCHANGED <<purse, manner, changes>>

(* The law is not routed around.                                           *)
Deny ==
    /\ Comes("denial")
    /\ calls' = Back /\ answer' = "denial"
    /\ UNCHANGED <<route, manner, changes, asked>>

(* Between calls a provider gets faster, slower, worse, or recovers.       *)
Change(p, h) ==
    /\ calls = << >> /\ changes < MaxChanges /\ manner[p] # h
    /\ changes' = changes + 1
    /\ manner' = [manner EXCEPT ![p] = h] /\ answer' = "none"
    /\ UNCHANGED <<route, calls, asked>>

Goes == CallRoute \/ AskAgain \/ Serve \/ FailOver \/ NoneLeft \/ Deny
RouteNext == Goes \/ \E p \in Tube, h \in Manner : Change(p, h)

(* A call under way goes on, and the program calls again.                  *)
RouteSpec == RouteInit /\ [][RouteNext]_routeVars /\ WF_routeVars(Goes)
-----------------------------------------------------------------------------
RouteTypeOK ==
    /\ flow \in [Tube -> Nat] /\ purse \in [Tube -> Nat]
    /\ manner \in [Tube -> Manner] /\ changes \in 0..MaxChanges
    /\ calls \in Seq([total : Nat, order : Seq(Tube)]) /\ Len(calls) <= MaxNesting
    /\ answer \in {"none", "result", "error", "denial"}

(* Whatever calls nest: a call is refused if and only if somebody it asked *)
(* was, for the law is not routed around; and it fails only when everybody *)
(* has been asked and nobody works (VISION.md:83-86).                      *)
RouteHolds == (calls = << >> /\ answer # "none") =>
    /\ answer = "denial" <=> \E p \in asked : manner[p] = Denied
    /\ answer = "error" => asked = Tube /\ \A p \in Tube : manner[p] \notin Speeds

(* A route that keeps being called asks every provider again and again,    *)
(* also those that failed (builtins.js:25-37).                             *)
KeepsRouting == []<>(calls # << >>)
EveryTubeProbed == KeepsRouting => \A p \in Tube : []<>(calls # << >> /\ Asked = p)

(* One that is and stays faster overtakes a slower one (VISION.md:84).     *)
Quicker(p, q) == manner[p] \in Speeds /\ manner[q] \in Speeds /\ manner[p] > manner[q]
FasterOvertakes == KeepsRouting =>
    \A p, q \in Tube : <>[]Quicker(p, q) => <>[](flow[p] > flow[q])
=============================================================================
