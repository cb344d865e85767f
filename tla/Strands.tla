------------------------------- MODULE Strands -------------------------------
(***************************************************************************)
(* How src/interpreter.js runs a file of tests and the strands it weaves:  *)
(* modules are loaded once, in scopes of their own; tests record what      *)
(* their expectations find; errors, reports and failed expectations unwind *)
(* through agents, blocks, modules, tests, routers and fibers.             *)
(*                                                                         *)
(* The frames of the interpreter's recursion are a stack, and its next     *)
(* statement is any that the code on top of it may execute: a program is   *)
(* one choice of statements.  An agent may have been handed anywhere, so   *)
(* it may be called from anywhere.  Fibers run one after the other, to     *)
(* their end (they interleave in FiberScheduler).                          *)
(***************************************************************************)
EXTENDS Integers, SequencesExt

CONSTANTS
    Strand, Main,      \* the files, and the one that is run
    Name,              \* names that may be seeded and exposed
    MaxOps, MaxDepth   \* bounds: statements executed, frames

ASSUME StrandsAssumption == Main \in Strand /\ MaxOps \in Nat /\ MaxDepth \in Nat

VARIABLES
    stack,            \* frames: [kind, of]
    flying,           \* what is being thrown, or none
    exportStack,      \* per module being run, the names exposed so far
    dirStack,         \* and the strand whose directory paths start from
    moduleCache,      \* loaded strands, with their exports
    moduleInProgress,
    bound,            \* names each strand has seeded or woven
    fibers,           \* ready, done, or the error it is held for
    inTest,           \* the test whose body runs, or 0
    asserts,          \* expectations met in each test that was opened
    testResults,      \* records: [test, ok]
    verdict,          \* none, ran, load error
    ops,              \* statements so far
    missed, masked    \* history: an expectation failed; a router dropped one

modules == <<exportStack, dirStack, moduleCache, moduleInProgress, bound>>
tests == <<inTest, asserts, testResults>>
history == <<missed, masked>>
vars == <<stack, flying, modules, fibers, tests, verdict, ops, history>>

Errors == {"error", "fail", "assert"}

Init ==
    /\ stack = <<[kind |-> "program", of |-> Main]>> /\ flying = "none"
    /\ exportStack = << {} >> /\ dirStack = <<Main>>
    /\ moduleCache = [k \in {} |-> {}] /\ moduleInProgress = {} /\ bound = [k \in Strand |-> {}]
    /\ fibers = << >>
    /\ inTest = 0 /\ asserts = << >> /\ testResults = << >>
    /\ verdict = "none" /\ ops = 0 /\ missed = FALSE /\ masked = FALSE

Top == Last(stack)
On(kinds) == stack # << >> /\ Top.kind \in kinds
Push(kind, x) == stack' = Append(stack, [kind |-> kind, of |-> x])
Pop == stack' = Front(stack)

(* The code on top executes a statement.                                   *)
Statement ==
    /\ flying = "none" /\ stack # << >> /\ ~On({"pump"}) /\ ops < MaxOps
    /\ ops' = ops + 1
    /\ UNCHANGED <<verdict, masked>>
Nested == Len(stack) < MaxDepth

-----------------------------------------------------------------------------
(* Modules.                                                                *)

Bind(frames, names) ==
    bound' = IF Last(frames).kind = "module" THEN [bound EXCEPT ![Last(frames).of] = @ \cup names]
             ELSE bound

Seed(n) ==
    /\ Statement /\ On({"module"})
    /\ Bind(stack, {n})
    /\ UNCHANGED <<stack, flying, exportStack, dirStack, moduleCache, moduleInProgress,
                   fibers, tests, missed>>

(* Wherever it stands, the innermost module that is being run exposes.     *)
Expose(n) ==
    /\ Statement
    /\ exportStack' = [exportStack EXCEPT ![Len(exportStack)] = @ \cup {n}]
    /\ UNCHANGED <<stack, flying, dirStack, moduleCache, moduleInProgress, bound, fibers, tests, missed>>

WeaveCached(k) ==
    /\ Statement /\ k \in DOMAIN moduleCache
    /\ Bind(stack, moduleCache[k])
    /\ UNCHANGED <<stack, flying, exportStack, dirStack, moduleCache, moduleInProgress,
                   fibers, tests, missed>>

(* A file that cannot be read is an error like any other.                  *)
WeaveCircular(k) ==
    /\ Statement /\ k \in moduleInProgress
    /\ flying' = "error"
    /\ UNCHANGED <<stack, modules, fibers, tests, missed>>

WeaveLoads(k) ==
    /\ Statement /\ Nested /\ k \notin DOMAIN moduleCache \cup moduleInProgress
    /\ Push("module", k)
    /\ moduleInProgress' = moduleInProgress \cup {k}
    /\ exportStack' = Append(exportStack, {}) /\ dirStack' = Append(dirStack, k)
    /\ bound' = [bound EXCEPT ![k] = {}]
    /\ UNCHANGED <<flying, moduleCache, fibers, tests, missed>>

(* The finally of weaveModule.                                             *)
Unload ==
    /\ Pop
    /\ exportStack' = Front(exportStack) /\ dirStack' = Front(dirStack)
    /\ moduleInProgress' = moduleInProgress \ {Top.of}

(* Operators named ..._Bug are what a plausible mistake would make of the  *)
(* definition that follows; no action uses them.                           *)

(* Bug: what was exposed is cached before it is known to have been seeded. *)
ModuleEnds_Bug ==
    /\ flying = "none" /\ On({"module"})
    /\ Unload
    /\ moduleCache' = [k \in DOMAIN moduleCache \cup {Top.of} |->
                           IF k = Top.of THEN Last(exportStack) ELSE moduleCache[k]]
    /\ IF Last(exportStack) \subseteq bound[Top.of]
       THEN flying' = "none" /\ Bind(Front(stack), Last(exportStack))
       ELSE flying' = "error" /\ bound' = bound
    /\ UNCHANGED <<fibers, tests, verdict, ops, history>>

ModuleEnds ==
    /\ flying = "none" /\ On({"module"})
    /\ Unload
    /\ IF Last(exportStack) \subseteq bound[Top.of]
       THEN /\ moduleCache' = [k \in DOMAIN moduleCache \cup {Top.of} |->
                                   IF k = Top.of THEN Last(exportStack) ELSE moduleCache[k]]
            /\ Bind(Front(stack), Last(exportStack))
            /\ flying' = "none"
       ELSE flying' = "error" /\ UNCHANGED <<moduleCache, bound>>
    /\ UNCHANGED <<fibers, tests, verdict, ops, history>>

(* Bug: a module that throws leaves its directory behind.                  *)
ModuleThrows_Bug ==
    /\ flying # "none" /\ On({"module"})
    /\ Pop
    /\ exportStack' = Front(exportStack) /\ moduleInProgress' = moduleInProgress \ {Top.of}
    /\ UNCHANGED <<flying, dirStack, moduleCache, bound, fibers, tests, verdict, ops, history>>

(* A report, too, passes through, and ends the strands above.              *)
ModuleThrows ==
    /\ flying # "none" /\ On({"module"})
    /\ Unload
    /\ UNCHANGED <<flying, moduleCache, bound, fibers, tests, verdict, ops, history>>

-----------------------------------------------------------------------------
(* Agents, blocks, routers.                                                *)

Raise(e) ==
    /\ Statement /\ e \in {"error", "fail", "report"}
    /\ flying' = e
    /\ UNCHANGED <<stack, modules, fibers, tests, missed>>

(* A route of n providers calls the first of them.                         *)
Enter(kind, n) ==
    /\ Statement /\ Nested
    /\ Push(kind, n)
    /\ UNCHANGED <<flying, modules, fibers, tests, missed>>

(* An agent returns, or reports; attempt succeeds; the router has an       *)
(* answer.                                                                 *)
Leaves ==
    /\ \/ flying = "none" /\ On({"agent", "attempt", "provider"})
       \/ flying = "report" /\ On({"agent", "provider"})
    /\ Pop /\ flying' = "none"
    /\ UNCHANGED <<modules, fibers, tests, verdict, ops, history>>

(* Bug: anything thrown is rescued.                                        *)
Rescue_Bug ==
    /\ flying \in Errors /\ On({"attempt"})
    /\ Pop /\ flying' = "none"
    /\ UNCHANGED <<modules, fibers, tests, verdict, ops, history>>

(* What follows may stand for the rescue block.                            *)
Rescue ==
    /\ flying \in {"error", "fail"} /\ On({"attempt"})
    /\ Pop /\ flying' = "none"
    /\ UNCHANGED <<modules, fibers, tests, verdict, ops, history>>

(* routeCall catches whatever a provider throws.                           *)
FailsOver ==
    /\ flying \in Errors /\ On({"provider"}) /\ Top.of > 1
    /\ stack' = [stack EXCEPT ![Len(stack)].of = @ - 1] /\ flying' = "none"
    /\ masked' = (masked \/ flying = "assert")
    /\ UNCHANGED <<modules, fibers, tests, verdict, ops, missed>>

(* Nobody here catches it.                                                 *)
Passes ==
    /\ \/ flying \in Errors /\ On({"agent", "expect"})
       \/ flying \in {"assert", "report"} /\ On({"attempt"})
       \/ flying \in {"assert", "error"} /\ On({"tofail"})
       \/ flying \in Errors /\ On({"provider"}) /\ Top.of = 1
    /\ Pop
    /\ UNCHANGED <<flying, modules, fibers, tests, verdict, ops, history>>

-----------------------------------------------------------------------------
(* Tests.                                                                  *)

Test ==
    /\ Statement /\ Nested
    /\ asserts' = Append(asserts, 0) /\ inTest' = Len(asserts) + 1
    /\ Push("test", [id |-> Len(asserts) + 1, prev |-> inTest])
    /\ UNCHANGED <<flying, modules, fibers, testResults, missed>>

Record(ok) ==
    /\ testResults' = Append(testResults, [test |-> Top.of.id, ok |-> ok])
    /\ inTest' = Top.of.prev
    /\ Pop /\ flying' = "none"
    /\ UNCHANGED <<modules, fibers, asserts, verdict, ops, history>>

TestEnds == flying = "none" /\ On({"test"}) /\ Record(asserts[Top.of.id] > 0)
TestThrows == flying # "none" /\ On({"test"}) /\ Record(FALSE)

Counted == asserts' = [asserts EXCEPT ![inTest] = @ + 1]
Finds(e) == flying' = e /\ missed' = (missed \/ e = "assert")

(* expect, of an expression that calls no agent.                           *)
Expect(e) ==
    /\ Statement /\ inTest # 0 /\ e \in {"none", "assert", "error"}
    /\ Counted /\ Finds(e)
    /\ UNCHANGED <<stack, modules, fibers, inTest, testResults>>

(* expect of a call, or of a call to fail.                                 *)
ExpectCall(kind) ==
    /\ Statement /\ Nested /\ inTest # 0
    /\ Counted /\ Push(kind, 0)
    /\ UNCHANGED <<flying, modules, fibers, inTest, testResults, missed>>

ExpectOutside ==
    /\ Statement /\ inTest = 0
    /\ flying' = "error"
    /\ UNCHANGED <<stack, modules, fibers, tests, missed>>

Settle(e) ==
    /\ Pop /\ Finds(e)
    /\ UNCHANGED <<modules, fibers, tests, verdict, ops, masked>>

(* The value is matched; or the failure is, with what was to be its text.  *)
Matches ==
    \/ flying \in {"none", "report"} /\ On({"expect"}) /\ \E e \in {"none", "assert"} : Settle(e)
    \/ flying = "fail" /\ On({"tofail"}) /\ \E e \in {"none", "assert"} : Settle(e)
    \/ flying \in {"none", "report"} /\ On({"tofail"}) /\ Settle("assert")

-----------------------------------------------------------------------------
(* Fibers.                                                                 *)

Spawn ==
    /\ Statement
    /\ fibers' = Append(fibers, "ready")
    /\ UNCHANGED <<stack, flying, modules, tests, missed>>

(* drain (0) or await of fiber f.                                          *)
Pumping == \E i \in DOMAIN stack : stack[i].kind = "pump"
Pump(f) ==
    /\ Statement /\ Nested /\ f \in {0} \cup DOMAIN fibers
    /\ IF Pumping THEN flying' = "error" /\ UNCHANGED stack ELSE Push("pump", f) /\ UNCHANGED flying
    /\ UNCHANGED <<modules, fibers, tests, missed>>

Ready == {i \in DOMAIN fibers : fibers[i] = "ready"}
StepFiber ==
    /\ flying = "none" /\ On({"pump"}) /\ Ready # {}
    /\ LET i == CHOOSE j \in Ready : \A h \in Ready : j <= h
       IN Push("fiber", i) /\ fibers' = [fibers EXCEPT ![i] = "done"]
    /\ UNCHANGED <<flying, modules, tests, verdict, ops, history>>

FiberEnds ==
    /\ On({"fiber"})
    /\ Pop /\ flying' = "none"
    /\ fibers' = IF flying \in Errors THEN [fibers EXCEPT ![Top.of] = flying] ELSE fibers
    /\ UNCHANGED <<modules, tests, verdict, ops, history>>

(* The first held error is thrown, again and again; or, to who awaited it, *)
(* the fiber's own.                                                        *)
Surface ==
    /\ flying = "none" /\ On({"pump"}) /\ Ready = {}
    /\ Pop
    /\ LET held == {i \in DOMAIN fibers : fibers[i] \in Errors /\ Top.of \in {0, i}}
       IN flying' = IF held = {} THEN "none" ELSE fibers[CHOOSE i \in held : \A h \in held : i <= h]
    /\ UNCHANGED <<modules, fibers, tests, verdict, ops, history>>

-----------------------------------------------------------------------------
(* run: the body ends, by itself or by a report; fibers run to their end.  *)
BodyEnds ==
    /\ flying \in {"none", "report"} /\ On({"program"})
    /\ flying' = "none"
    /\ stack' = IF fibers = << >> THEN << >> ELSE <<[kind |-> "pump", of |-> 0]>>
    /\ UNCHANGED <<modules, fibers, tests, verdict, ops, history>>

BodyThrows ==
    /\ flying \in Errors /\ On({"program"})
    /\ stack' = << >>
    /\ UNCHANGED <<flying, modules, fibers, tests, verdict, ops, history>>

(* Whatever run throws is a load error of the file, its only result.       *)
RunEnds ==
    /\ stack = << >> /\ verdict = "none"
    /\ verdict' = IF flying = "none" THEN "ran" ELSE "load error"
    /\ flying' = "none"
    /\ exportStack' = Front(exportStack) /\ dirStack' = Front(dirStack)
    /\ UNCHANGED <<stack, moduleCache, moduleInProgress, bound, fibers, tests, ops, history>>

Weave(k) == WeaveCached(k) \/ WeaveCircular(k) \/ WeaveLoads(k)
Statements ==
    \/ \E n \in Name : Seed(n) \/ Expose(n)
    \/ \E k \in Strand : Weave(k)
    \/ \E e \in {"error", "fail", "report"} : Raise(e)
    \/ Enter("agent", 0) \/ Enter("attempt", 0) \/ Enter("provider", 2)
    \/ Test \/ ExpectOutside
    \/ \E e \in {"none", "assert", "error"} : Expect(e)
    \/ ExpectCall("expect") \/ ExpectCall("tofail")
    \/ Spawn \/ \E f \in {0} \cup DOMAIN fibers : Pump(f)
Unwinding == ModuleEnds \/ ModuleThrows \/ Leaves \/ Rescue \/ FailsOver \/ Passes
    \/ TestEnds \/ TestThrows \/ Matches
Next == Statements \/ Unwinding \/ StepFiber \/ FiberEnds \/ Surface
    \/ BodyEnds \/ BodyThrows \/ RunEnds

Spec == Init /\ [][Next]_vars
-----------------------------------------------------------------------------
Open == {i \in DOMAIN stack : stack[i].kind = "module"}
Depth(i) == Cardinality({j \in Open : j <= i})

(* Of some tests that are running, t is the innermost; 0 if there is none. *)
Running == {i \in DOMAIN stack : stack[i].kind = "test"}
Innermost(t, some) ==
    IF some = {} THEN t = 0 ELSE \E i \in some : stack[i].of.id = t /\ \A j \in some : j <= i

(* However modules and tests have ended before, what the interpreter knows *)
(* of where it is mirrors where it is: paths start from the strand that is *)
(* being run, names are exposed for it, a strand is in progress at most    *)
(* once, and expectations are counted for the innermost test.              *)
KnowsWhereItIs == verdict = "none" =>
    /\ Len(dirStack) = Cardinality(Open) + 1 /\ Len(exportStack) = Len(dirStack)
    /\ dirStack[1] = Main /\ \A i \in Open : dirStack[Depth(i) + 1] = stack[i].of
    /\ \A i, j \in Open : stack[i].of = stack[j].of => i = j
    /\ moduleInProgress = {stack[i].of : i \in Open}
    /\ Innermost(inTest, Running)

(* A strand that has been loaded stays so, with the same exports, and is   *)
(* never run again (SPEC.md:91, README.md:250-251); and what it exports it *)
(* has.                                                                    *)
LoadedForGood == [][\A k \in DOMAIN moduleCache :
    /\ k \in DOMAIN moduleCache' /\ moduleCache'[k] = moduleCache[k]
    /\ moduleCache[k] \subseteq bound[k] /\ bound'[k] = bound[k]
    /\ Len(stack') > Len(stack) => Last(stack') # [kind |-> "module", of |-> k]]_vars

(* myxo test succeeds only on a file all of whose tests were recorded once *)
(* and met an expectation, none of which failed, be it in a fiber, a       *)
(* module or behind an attempt (SPEC.md:122, errors.js:34-35); but a       *)
(* router takes a failed expectation for an outage, and asks the next      *)
(* provider.                                                               *)
Succeeds == verdict = "ran" /\ testResults # << >> /\ \A i \in DOMAIN testResults : testResults[i].ok
GreenIsGreen == Succeeds =>
    /\ ~missed \/ masked
    /\ Len(testResults) = Len(asserts)
    /\ \A t \in DOMAIN asserts : asserts[t] > 0 /\ \E i \in DOMAIN testResults : testResults[i].test = t
=============================================================================
