------------------------------- MODULE MemoMesh -------------------------------
(***************************************************************************)
(* Hot promotion in src/interpreter.js: an agent called often enough, and  *)
(* never seen to depend on anything but its arguments and on the agents it *)
(* names, answers from a cache.  Two mechanisms keep the cache honest: the *)
(* purity frames (taint) and the global epoch (invalidation).              *)
(*                                                                         *)
(* What the bodies of agents compute is left open: an agent that runs may  *)
(* read, call, write, have effects, return or throw at any time.  What a   *)
(* call looked at is recorded in saw, as pairs of a name and the value it  *)
(* had (Unbound when it had none: the error can be rescued); an answer is  *)
(* good as long as the bindings it saw are still there.  Names are the     *)
(* pathways the agents may find outside themselves: those of the global    *)
(* scope and of the scopes, blocks or bodies of agents, in which agents    *)
(* are declared.  Around says which of them are in the scopes around an    *)
(* agent.  Who owns these scopes acts when no frame is on the stack.       *)
(*                                                                         *)
(* A parameter left over is given its default before the call has a frame  *)
(* (interpreter.js:955-976): the default's pathways are those around the   *)
(* agent that is called, and the frame they are held against is still that *)
(* of the caller.                                                          *)
(***************************************************************************)
EXTENDS Integers, SequencesExt, FiniteSets

CONSTANTS
    Name,       \* pathways the agents may name
    Global,     \* those in the global scope
    Agent,      \* agent values (closures)
    Around,     \* the pathways of the scopes around each
    Optional,   \* those with a parameter that has a default, or a rest
    Data,       \* other values a pathway may hold
    Unbound,    \* no binding
    PromoteAt,  \* opts.promoteAt
    CacheSize,  \* the 50000 answers an agent may have cached
    MaxDepth,   \* opts.maxDepth
    MaxEpoch,   \* bound: invalidations
    MaxFilling, \* bound: calls whose defaults are being evaluated
    Careless    \* what programs do of the things the epoch misses

(* weave: flatly, over a pathway that holds an agent; redeclare: a pathway *)
(* of an inner scope that holds an agent; absence: an agent depends on     *)
(* there being no pathway, whose error it rescues or in whose place it     *)
(* finds one of an outer scope; default: a default reads data of a scope   *)
(* that is not around the caller.                                          *)
Kinds == {"weave", "redeclare", "absence", "default"}

ASSUME MemoAssumption ==
    /\ Global \subseteq Name
    /\ Agent \cap Data = {} /\ Unbound \notin Agent \cup Data
    /\ Around \in [Agent -> SUBSET Name] /\ \A a \in Agent : Global \subseteq Around[a]
    /\ Optional \subseteq Agent
    /\ PromoteAt \in Nat \ {0} /\ CacheSize \in Nat
    /\ MaxDepth \in Nat /\ MaxEpoch \in Nat /\ MaxFilling \in Nat
    /\ Careless \subseteq Kinds

Val == Agent \cup Data \cup {Unbound}
Saw == SUBSET (Name \X Val)

VARIABLES
    bind,    \* what each name is bound to
    epoch,   \* this.epoch
    memo,    \* this.memo: [calls, impure, epoch, cache] of each agent
    frames,  \* this.frames with what each call saw: [agent, prim, pure, saw]
    filling, \* the calls without a frame as yet: [agent, at], at the depth of their caller
    served   \* the entry the last step answered from, or none

vars == <<bind, epoch, memo, frames, filling, served>>

(* The cache is the set of what its entries saw.  Which arguments an entry *)
(* belongs to is left out: keyOf is injective.                             *)
Rec == [calls : 0..(PromoteAt + 1), impure : BOOLEAN, epoch : 0..MaxEpoch,
        cache : SUBSET Saw]
Frame == [agent : Agent, prim : BOOLEAN, pure : BOOLEAN, saw : Saw]
Unfilled == [agent : Agent, at : 0..MaxDepth]

Init ==
    /\ bind \in [Name -> Val]
    /\ epoch = 0
    /\ memo = [a \in Agent |-> [calls |-> 0, impure |-> FALSE, epoch |-> 0,
                                cache |-> {}]]
    /\ frames = << >> /\ filling = << >>
    /\ served = {}

Depth == Len(frames)
Top == frames[Depth]

(* What runs now: a default, on behalf of the top call, or its body, or,   *)
(* when there is none, the owner.  What it may name are the pathways       *)
(* around it.                                                              *)
Filling == filling # << >> /\ Last(filling).at = Depth
Idle == frames = << >> /\ filling = << >>
Named == CASE Filling -> Around[Last(filling).agent]
           [] ~Filling /\ frames # << >> -> Around[Top.agent]
           [] OTHER -> Name

(* markImpure: every call under way depends on what the top one does.      *)
(* Nothing of them will be cached, and what they saw is forgotten.         *)
Tainted == [i \in DOMAIN frames |->
              [frames[i] EXCEPT !.pure = FALSE, !.saw = {}]]

Sees(stack, k, pairs) ==
    IF k \in DOMAIN stack /\ stack[k].pure
    THEN [stack EXCEPT ![k].saw = @ \cup pairs] ELSE stack

Looks(pairs) == Sees(frames, Depth, pairs)

-----------------------------------------------------------------------------
(* Bindings change.                                                        *)

Bump == epoch < MaxEpoch /\ epoch' = epoch + 1

(* seed and agent declarations of the owner: define() in its own scope; an *)
(* agent's own declarations stay in its call.                              *)
Declare(x, v) ==
    /\ Idle /\ v # Unbound
    /\ bind' = [bind EXCEPT ![x] = v]
    /\ x \notin Global /\ bind[x] \in Agent => "redeclare" \in Careless
    /\ IF x \in Global /\ bind[x] # Unbound THEN Bump ELSE UNCHANGED epoch
    /\ served' = {}
    /\ UNCHANGED <<memo, frames, filling>>

(* A destructuring seed of globals always invalidates.                     *)
Destructure(x, v) ==
    /\ Idle /\ v # Unbound /\ x \in Global
    /\ bind' = [bind EXCEPT ![x] = v]
    /\ Bump
    /\ served' = {}
    /\ UNCHANGED <<memo, frames, filling>>

(* A flat weave defines what the module exposes.                           *)
Weave(x, v) ==
    /\ Idle /\ v # Unbound
    /\ bind[x] \in Agent => "weave" \in Careless
    /\ bind' = [bind EXCEPT ![x] = v]
    /\ served' = {}
    /\ UNCHANGED <<epoch, memo, frames, filling>>

(* What a mistake would make of the next definition; no action uses it.    *)
(* Bug: rebinding an agent invalidates only when it is global.             *)
Assign_Bug(x, v) ==
    /\ ~Filling /\ x \in Named /\ bind[x] # Unbound /\ v # Unbound
    /\ bind' = [bind EXCEPT ![x] = v]
    /\ IF x \in Global THEN Bump ELSE UNCHANGED epoch
    /\ frames' = IF frames # << >> /\ Top.pure THEN Tainted ELSE frames
    /\ served' = {}
    /\ UNCHANGED <<memo, filling>>

(* x = v, by the owner or inside an agent, which it taints.                *)
Assign(x, v) ==
    /\ ~Filling /\ x \in Named /\ bind[x] # Unbound /\ v # Unbound
    /\ bind' = [bind EXCEPT ![x] = v]
    /\ IF x \in Global \/ bind[x] \in Agent \/ v \in Agent
       THEN Bump ELSE UNCHANGED epoch
    /\ frames' = IF frames # << >> /\ Top.pure THEN Tainted ELSE frames
    /\ served' = {}
    /\ UNCHANGED <<memo, filling>>

(* An agent-valued binding no agent names is reassigned or decays: the     *)
(* caches go, though nothing they depend on has changed.                   *)
AssignElsewhere ==
    /\ ~Filling /\ Bump
    /\ served' = {}
    /\ UNCHANGED <<bind, memo, frames, filling>>

(* decay x.                                                                *)
Decay(x) ==
    /\ ~Filling /\ x \in Named /\ bind[x] # Unbound
    /\ bind' = [bind EXCEPT ![x] = Unbound]
    /\ IF x \in Global \/ bind[x] \in Agent THEN Bump ELSE UNCHANGED epoch
    /\ frames' = IF frames # << >> /\ Top.pure THEN Tainted ELSE frames
    /\ served' = {}
    /\ UNCHANGED <<memo, filling>>

(* prune and metabolize: cold globals go, and the caller is tainted.       *)
Prune(cold) ==
    /\ cold # {} /\ \A x \in cold : bind[x] # Unbound
    /\ bind' = [x \in Name |-> IF x \in cold THEN Unbound ELSE bind[x]]
    /\ Bump
    /\ frames' = Tainted
    /\ served' = {}
    /\ UNCHANGED <<memo, filling>>

-----------------------------------------------------------------------------
(* What an agent does.                                                     *)

(* An identifier is evaluated: reading data taints, reading code does not, *)
(* an unknown name is an error or is looked for further out.  Data is free *)
(* when its scope is around the top call (isLocalEnv); what a default      *)
(* reads may not be, and then nobody is tainted.                           *)
Free(x) == x \in Around[Top.agent]
Read(x) ==
    /\ frames # << >> /\ x \in Named
    /\ Top.pure /\ bind[x] = Unbound => "absence" \in Careless
    /\ Top.pure /\ bind[x] \in Data /\ ~Free(x) => "default" \in Careless
    /\ frames' = IF bind[x] \in Data /\ Top.pure /\ Free(x)
                 THEN Tainted ELSE Looks({<<x, bind[x]>>})
    /\ served' = {}
    /\ UNCHANGED <<bind, epoch, memo, filling>>

(* emit, a capability, spawn, gather, random, ...                          *)
Effect ==
    /\ frames # << >>
    /\ frames' = Tainted
    /\ served' = {}
    /\ UNCHANGED <<bind, epoch, memo, filling>>

(* What may be looked up to call an agent: one of the pathways, or none,   *)
(* when it is at hand in a parameter or in a pathway of one's own.         *)
Ways(a) == {{}} \cup {{<<x, a>>} : x \in {y \in Named : bind[y] = a}}

(* callValue counts the call and drops a cache of an older epoch.          *)
Counted(a) ==
    LET r == memo[a] IN
    [calls  |-> IF r.calls > PromoteAt THEN r.calls ELSE r.calls + 1,
     impure |-> r.impure,
     epoch  |-> epoch,
     cache  |-> IF r.epoch # epoch THEN {} ELSE r.cache]

(* The promoted pathway answers.                                           *)
CallHit(a, way) ==
    /\ a \notin Optional
    /\ \E entry \in Counted(a).cache :
         /\ ~memo[a].impure /\ Counted(a).calls > PromoteAt
         /\ memo' = [memo EXCEPT ![a] = Counted(a)]
         /\ frames' = Looks(way \cup entry)
         /\ served' = entry
    /\ UNCHANGED <<bind, epoch, filling>>

(* The agent is run, in a frame of its own.  prim: its parameters are      *)
(* plain and its arguments primitive.                                      *)
Framed(a, prim) == [agent |-> a, prim |-> prim, pure |-> TRUE, saw |-> {}]
CallRun(a, way, prim) ==
    /\ Depth < MaxDepth /\ (prim => a \notin Optional)
    /\ memo' = [memo EXCEPT ![a] = Counted(a)]
    /\ frames' = Append(Looks(way), Framed(a, prim))
    /\ served' = {}
    /\ UNCHANGED <<bind, epoch, filling>>

(* Arguments are left over: the defaults come first, whatever they do.     *)
CallFills(a, way) ==
    /\ a \in Optional /\ Len(filling) < MaxFilling
    /\ memo' = [memo EXCEPT ![a] = Counted(a)]
    /\ frames' = Looks(way)
    /\ filling' = Append(filling, [agent |-> a, at |-> Depth])
    /\ served' = {}
    /\ UNCHANGED <<bind, epoch>>

(* All parameters are there: now the frame is pushed.                      *)
Filled ==
    /\ Filling /\ Depth < MaxDepth
    /\ frames' = Append(frames, Framed(Last(filling).agent, FALSE))
    /\ filling' = Front(filling)
    /\ served' = {}
    /\ UNCHANGED <<bind, epoch, memo>>

(* Past maxDepth the call is an error (one the caller rescues), but it has *)
(* been counted.  With defaults to evaluate it is a Throw that comes later.*)
CallTooDeep(a, way) ==
    /\ Depth = MaxDepth
    /\ memo' = [memo EXCEPT ![a] = Counted(a)]
    /\ frames' = Looks(way)
    /\ served' = {}
    /\ UNCHANGED <<bind, epoch, filling>>

(* finally: the frame goes, and taint sticks to the agent.  What the call  *)
(* saw, its caller depends on.                                             *)
Popped(k) ==
    Sees(SubSeq(frames, 1, k), k,
         UNION {frames[i].saw : i \in (k + 1)..Depth})

Stained(r) == [r EXCEPT !.impure = TRUE, !.cache = {}]

(* The call returns; a clean, hot, primitive answer is cached.             *)
Return(primitive) ==
    /\ frames # << >> /\ ~Filling
    /\ LET a == Top.agent
           r == memo[a]
       IN memo' = [memo EXCEPT ![a] =
            IF ~Top.pure THEN Stained(r)
            ELSE IF /\ ~r.impure /\ Top.prim /\ primitive /\ r.calls >= PromoteAt
                    /\ Cardinality(r.cache) < CacheSize
                 THEN [r EXCEPT !.cache = @ \cup {Top.saw}]
                 ELSE r]
    /\ frames' = Popped(Depth - 1)
    /\ served' = {}
    /\ UNCHANGED <<bind, epoch, filling>>

(* An error leaves one call or several, with a frame or without, until     *)
(* somebody rescues it: the body of call k, the owner, or the router that  *)
(* the n-th default has called.                                            *)
Throw(k, n) ==
    /\ k < Depth \/ n < Len(filling)
    /\ \A i \in DOMAIN filling : IF i <= n THEN filling[i].at <= k ELSE filling[i].at >= k
    /\ memo' = [a \in Agent |->
         IF \E i \in (k + 1)..Depth : frames[i].agent = a /\ ~frames[i].pure
         THEN Stained(memo[a]) ELSE memo[a]]
    /\ frames' = Popped(k)
    /\ filling' = SubSeq(filling, 1, n)
    /\ served' = {}
    /\ UNCHANGED <<bind, epoch>>

-----------------------------------------------------------------------------
Rebinding ==
    \/ \E x \in Name, v \in Val :
         Declare(x, v) \/ Destructure(x, v) \/ Weave(x, v) \/ Assign(x, v)
    \/ AssignElsewhere
    \/ \E x \in Name : Decay(x)
    \/ \E cold \in SUBSET Global : Prune(cold)

Running ==
    \/ \E x \in Name : Read(x)
    \/ \E a \in Agent : \E way \in Ways(a) :
         \/ CallHit(a, way) \/ CallFills(a, way) \/ CallTooDeep(a, way)
         \/ \E prim \in BOOLEAN : CallRun(a, way, prim)
    \/ Filled \/ Effect
    \/ \E primitive \in BOOLEAN : Return(primitive)
    \/ \E k \in 0..Depth, n \in 0..Len(filling) : Throw(k, n)

Next == Rebinding \/ Running

Spec == Init /\ [][Next]_vars

-----------------------------------------------------------------------------
TypeOK ==
    /\ bind \in [Name -> Val]
    /\ epoch \in 0..MaxEpoch
    /\ memo \in [Agent -> Rec]
    /\ frames \in Seq(Frame) /\ Len(frames) <= MaxDepth
    /\ filling \in Seq(Unfilled) /\ Len(filling) <= MaxFilling
    /\ served \in Saw

Current(saw) == \A p \in saw : bind[p[1]] = p[2]
IsCode(saw)  == \A p \in saw : p[2] \in Agent

(* SPEC.md, "The living mesh", and test/soundness-fuzz.test.js: promotion  *)
(* is invisible.  An answer from the cache depended on nothing that has    *)
(* been rebound since.                                                     *)
ServedIsFresh == Current(served)

(* Taint reaches every caller: no call under an impure one is still held   *)
(* to be pure, for its answer depends on it (interpreter.js:1074-1076).    *)
TaintReachesCallers == \A i, j \in DOMAIN frames :
    (i < j /\ ~frames[j].pure) => ~frames[i].pure

(* A call still held to be pure has seen code only, none of it rebound.    *)
PureCallsAreStill == \A i \in DOMAIN frames : frames[i].pure =>
    Current(frames[i].saw) /\ IsCode(frames[i].saw)

(* No cache is of an epoch to come.                                        *)
EpochsBehind == \A a \in Agent : memo[a].epoch <= epoch

(* What a cache that is not about to be dropped holds is still right.      *)
CacheIsFresh == \A a \in Agent : memo[a].epoch = epoch =>
    \A saw \in memo[a].cache : Current(saw) /\ IsCode(saw)

(* An agent once seen impure is never promoted again.                      *)
ImpureStaysOut == \A a \in Agent : memo[a].impure => memo[a].cache = {}

(* The inductive invariant, when no program is careless.                   *)
IInv ==
    /\ TypeOK /\ ServedIsFresh /\ TaintReachesCallers /\ PureCallsAreStill
    /\ EpochsBehind /\ CacheIsFresh /\ ImpureStaysOut
=============================================================================
