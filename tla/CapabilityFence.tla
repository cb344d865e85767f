--------------------------- MODULE CapabilityFence ---------------------------
(***************************************************************************)
(* The capability fence of src/interpreter.js: every call of a host        *)
(* capability passes the manifest (`needs`) and the budgets the script     *)
(* declared, reaches the host, and ends as one entry of the audit ledger.  *)
(*                                                                         *)
(* The budget is looked at before the host function runs and charged when  *)
(* it has returned.  In between the host function may call back an agent   *)
(* it was handed, and that agent may call capabilities itself.             *)
(***************************************************************************)
EXTENDS Integers, Sequences, FiniteSets

CONSTANTS
    Cap,              \* the host capabilities installed
    ByValue,          \* opts.valueCaps: metered by the value of the argument
    CallsBack,        \* those whose host function may call an agent
    RequireManifest,  \* opts.requireManifest
    Amounts,          \* numbers used as first arguments
    Ceilings,         \* numbers used in (max N) and (total N)
    None,             \* no number: a constraint left out, a bad argument
    MaxNeeds,         \* bound: declarations the script makes
    MaxCalls          \* bound: calls the script makes

ASSUME FenceAssumption ==
    /\ ByValue \subseteq Cap /\ CallsBack \subseteq Cap
    /\ RequireManifest \in BOOLEAN
    /\ Amounts \subseteq Nat /\ Ceilings \subseteq Nat /\ None \notin Nat
    /\ MaxNeeds \in Nat /\ MaxCalls \in Nat

Number == Nat \cup {None}

(* cap, cap(max N), cap(total N), cap(max M, total N); a cap of the last   *)
(* three kinds is metered.                                                 *)
Limit == [max : Ceilings \cup {None}, total : Ceilings \cup {None}]
Metered(lim) == lim.max # None \/ lim.total # None

Arg == Amounts \cup {None}   \* None: negative, not finite, not a number

VARIABLES
    declared,   \* declarations made so far; this.manifest is null at none
    manifest,   \* this.manifest: the limit of each declared capability
    capSpent,   \* this.capSpent
    capCalls,   \* this.capCalls
    running,    \* host functions under way: [cap, arg, limit, before], outermost first
    audit,      \* this.audit: [cap, arg, end], end: ok, failed, refused
    made,       \* calls made so far
    reached,    \* history: calls that reached the host function
    used,       \* history: calls of each capability that succeeded ...
    worth,      \* ... and the sum of their arguments
    ceiling,    \* history: the largest budget under which a call was admitted,
    underway,   \* what the calls under way are to cost, and `before` this one
    overlap     \* the most that was under way when a call was admitted

ledgerVars  == <<running, audit, made, reached>>
counterVars == <<capSpent, capCalls, used, worth>>
historyVars == <<ceiling, overlap, underway>>
fenceVars == <<declared, manifest, historyVars, ledgerVars, counterVars>>

Init ==
    /\ declared = 0 /\ manifest = [c \in {} |-> None]
    /\ capSpent = [c \in Cap |-> 0] /\ capCalls = [c \in Cap |-> 0]
    /\ running = << >> /\ audit = << >> /\ made = 0 /\ reached = 0
    /\ used = [c \in Cap |-> 0] /\ worth = [c \in Cap |-> 0]
    /\ ceiling = [c \in Cap |-> 0]
    /\ underway = [c \in Cap |-> 0] /\ overlap = [c \in Cap |-> 0]

Entry(c, a, end) == [cap |-> c, arg |-> a, end |-> end]

(* The script runs: no host function is under way, or the innermost one    *)
(* has called an agent.                                                    *)
ScriptRuns == running # << >> => running[Len(running)].cap \in CallsBack

-----------------------------------------------------------------------------
(* needs: the limit declared last is the one in force.                     *)
Needs(c, lim) ==
    /\ ScriptRuns /\ declared < MaxNeeds
    /\ declared' = declared + 1
    /\ manifest' = [d \in DOMAIN manifest \cup {c} |->
                      IF d = c THEN lim ELSE manifest[d]]
    /\ UNCHANGED <<historyVars, ledgerVars, counterVars>>

Within(n, bound) == bound # None => n <= bound
Least(m, n) == IF m = None \/ (n # None /\ n < m) THEN n ELSE m
Most(m, n) == IF m = None \/ n = None THEN None ELSE IF m < n THEN n ELSE m

(* The budget a limit sets: of the sum of the arguments, or of the calls.  *)
Budget(c, lim) == IF c \in ByValue THEN lim.total ELSE Least(lim.max, lim.total)

(* What a call is to cost of it.                                           *)
Cost(c, a) == IF c \in ByValue THEN a ELSE 1
Plus(n, a) == IF a = None THEN n ELSE n + a

Governed == declared > 0
Declared(c) == c \in DOMAIN manifest
LimitOf(c) == IF Declared(c) THEN manifest[c] ELSE [max |-> None, total |-> None]

(* Operators named ..._Bug are what a plausible mistake would make of the  *)
(* definition that follows; no action uses them.                           *)

(* Bug: a budget that is used up admits one more call.                     *)
InBudget_Bug(c, a) ==
    LET lim == LimitOf(c) IN
    Metered(lim) =>
        IF c \in ByValue
        THEN a # None /\ Within(a, lim.max) /\ Within(capSpent[c], lim.total)
        ELSE Within(capCalls[c], Budget(c, lim))

InBudget(c, a) ==
    LET lim == LimitOf(c) IN
    Metered(lim) =>
        IF c \in ByValue
        THEN a # None /\ Within(a, lim.max) /\ Within(capSpent[c] + a, lim.total)
        ELSE Within(capCalls[c] + 1, Budget(c, lim))

Admitted(c, a) ==
    /\ RequireManifest => Governed
    /\ Governed => Declared(c)
    /\ InBudget(c, a)

(* A refusal is an entry too; the error that follows is the script's.      *)
Refuse(c, a) ==
    /\ ScriptRuns /\ made < MaxCalls
    /\ ~Admitted(c, a)
    /\ made' = made + 1
    /\ audit' = Append(audit, Entry(c, a, "refused"))
    /\ UNCHANGED <<declared, manifest, historyVars, running, reached, counterVars>>

(* The host function is called.                                            *)
Perform(c, a) ==
    /\ ScriptRuns /\ made < MaxCalls
    /\ Admitted(c, a)
    /\ made' = made + 1 /\ reached' = reached + 1
    /\ running' = Append(running, [cap |-> c, arg |-> a, limit |-> LimitOf(c), before |-> underway])
    /\ ceiling' = [ceiling EXCEPT ![c] = Most(@, Budget(c, LimitOf(c)))]
    /\ underway' = [underway EXCEPT ![c] = Plus(@, Cost(c, a))]
    /\ overlap' = [overlap EXCEPT ![c] = IF @ < underway[c] THEN underway[c] ELSE @]
    /\ UNCHANGED <<declared, manifest, audit, counterVars>>

Innermost == running[Len(running)]
Outer == SubSeq(running, 1, Len(running) - 1)
(* The limit looked up before the call says what is charged after it.      *)
Charge(call) ==
    IF ~Metered(call.limit) THEN UNCHANGED <<capSpent, capCalls>>
    ELSE IF call.cap \in ByValue
    THEN capSpent' = [capSpent EXCEPT ![call.cap] = Plus(@, call.arg)] /\ UNCHANGED capCalls
    ELSE capCalls' = [capCalls EXCEPT ![call.cap] = @ + 1] /\ UNCHANGED capSpent

(* Its cost is under way no more.                                          *)
Settles == underway' = Innermost.before /\ UNCHANGED <<ceiling, overlap>>

(* It returned.                                                            *)
Succeed ==
    /\ running # << >>
    /\ running' = Outer
    /\ audit' = Append(audit, Entry(Innermost.cap, Innermost.arg, "ok"))
    /\ Charge(Innermost) /\ Settles
    /\ used' = [used EXCEPT ![Innermost.cap] = @ + 1]
    /\ worth' = [worth EXCEPT ![Innermost.cap] = Plus(@, Innermost.arg)]
    /\ UNCHANGED <<declared, manifest, made, reached>>

(* Bug: an error leaves the call before it is written down.                *)
Fail_Bug ==
    /\ running # << >>
    /\ running' = Outer /\ Settles
    /\ UNCHANGED <<declared, manifest, made, reached, audit, counterVars>>

(* It threw, or what it returned could not be shown: nothing is charged.   *)
Fail ==
    /\ running # << >>
    /\ running' = Outer /\ Settles
    /\ audit' = Append(audit, Entry(Innermost.cap, Innermost.arg, "failed"))
    /\ UNCHANGED <<declared, manifest, made, reached, counterVars>>

Next ==
    \/ \E c \in Cap, lim \in Limit : Needs(c, lim)
    \/ \E c \in Cap, a \in Arg : Refuse(c, a) \/ Perform(c, a)
    \/ Succeed \/ Fail

Spec == Init /\ [][Next]_fenceVars

-----------------------------------------------------------------------------
Call == [cap : Cap, arg : Arg, limit : Limit, before : [Cap -> Nat]]
TypeOK ==
    /\ declared \in 0..MaxNeeds
    /\ DOMAIN manifest \subseteq Cap /\ manifest \in [DOMAIN manifest -> Limit]
    /\ capSpent \in [Cap -> Nat] /\ capCalls \in [Cap -> Nat]
    /\ running \in Seq(Call)
    /\ audit \in Seq([cap : Cap, arg : Arg, end : {"ok", "failed", "refused"}])
    /\ made \in 0..MaxCalls /\ reached \in 0..made
    /\ used \in [Cap -> Nat] /\ worth \in [Cap -> Nat]
    /\ ceiling \in [Cap -> Number] /\ underway \in [Cap -> Nat] /\ overlap \in [Cap -> Nat]

(* The budgets hold, in truth and not only by the counters: what succeeded *)
(* is never more than the largest budget under which a call was admitted   *)
(* (SPEC.md:81 and the comment at interpreter.js:859-862) ... but for what *)
(* was under way, still to be charged, when a call was admitted (900-905). *)
Consumed(c) == IF c \in ByValue THEN worth[c] ELSE used[c]
BudgetHolds == \A c \in Cap : ceiling[c] # None => Consumed(c) <= ceiling[c] + overlap[c]

(* Which is nothing when no host function calls back.                      *)
NothingOverlaps == overlap = [c \in Cap |-> 0]

(* Why: the counters are the truth of every capability that was never      *)
(* called without a budget, since each of its calls is metered, and with   *)
(* what is under way they fit.  Calls end in the reverse of the order they *)
(* began in, so that what is left under way is what was there before.      *)
Counted(c) == IF c \in ByValue THEN capSpent[c] ELSE capCalls[c]
CountersAreTrue == \A c \in Cap : ceiling[c] # None => Counted(c) = Consumed(c)
Budgeted(call) == ceiling[call.cap] # None =>
    Budget(call.cap, call.limit) # None /\ Cost(call.cap, call.arg) # None
With(call) == [call.before EXCEPT ![call.cap] = Plus(@, Cost(call.cap, call.arg))]
Stacked ==
    /\ running # << >> => underway = With(running[Len(running)])
    /\ \A i \in 1..(Len(running) - 1) : running[i + 1].before = With(running[i])
Fits == \A c \in Cap : ceiling[c] # None => Counted(c) + underway[c] <= ceiling[c] + overlap[c]
IInv ==
    /\ TypeOK /\ CountersAreTrue /\ Stacked /\ Fits
    /\ \A i \in DOMAIN running : Budgeted(running[i])

(* The ledger tells the whole story: with the calls under way it accounts  *)
(* for every call, and for every one that reached the host (SPEC.md:82).   *)
Ended(ends) == {i \in DOMAIN audit : audit[i].end \in ends}
LedgerIsComplete ==
    /\ made = Len(audit) + Len(running)
    /\ reached = Cardinality(Ended({"ok", "failed"})) + Len(running)
    /\ \A c \in Cap : used[c] = Cardinality({i \in Ended({"ok"}) : audit[i].cap = c})
=============================================================================
