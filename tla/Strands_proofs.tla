---------------------------- MODULE Strands_proofs ----------------------------
(***************************************************************************)
(* Theorems about Strands, for every set of strands and names, every       *)
(* number of statements and every depth.                                   *)
(***************************************************************************)
EXTENDS Strands, SequenceTheorems, FiniteSetTheorems, TLAPS

(* What a frame, and each part of the interpreter's state, can be.         *)
Plain == {"agent", "attempt", "provider", "expect", "tofail", "pump", "fiber"}
Frame == [kind : {"program"}, of : {Main}] \cup [kind : {"module"}, of : Strand]
    \cup [kind : Plain, of : Nat] \cup [kind : {"test"}, of : [id : Nat, prev : Nat]]

StackOK == stack \in Seq(Frame) /\ flying \in Errors \cup {"none", "report"}
ModulesOK ==
    /\ exportStack \in Seq(SUBSET Name) /\ dirStack \in Seq(Strand)
    /\ DOMAIN moduleCache \subseteq Strand
    /\ moduleCache \in [DOMAIN moduleCache -> SUBSET Name]
    /\ moduleInProgress \subseteq Strand /\ bound \in [Strand -> SUBSET Name]
TestsOK ==
    /\ inTest \in Nat /\ asserts \in Seq(Nat)
    /\ testResults \in Seq([test : Nat, ok : BOOLEAN])
RunOK ==
    /\ fibers \in Seq({"ready", "done"} \cup Errors)
    /\ verdict \in {"none", "ran", "load error"}
TypeOK == StackOK /\ ModulesOK /\ TestsOK /\ RunOK

(* A run is the program's frame or its last pump, and what is above; one   *)
(* pump at most, and above it the fiber it steps.                          *)
Shape ==
    /\ stack # << >> => stack[1].kind = "program" \/ stack[1] = [kind |-> "pump", of |-> 0]
    /\ \A i \in DOMAIN stack : stack[i].kind = "program" => i = 1
    /\ \A i, j \in DOMAIN stack : stack[i].kind = "pump" /\ stack[j].kind = "pump" => i = j
    /\ \A i \in DOMAIN stack : stack[i].kind = "fiber" =>
         /\ i > 1 /\ stack[i - 1].kind = "pump"
         /\ stack[i].of \in DOMAIN fibers /\ fibers[stack[i].of] = "done"
    /\ verdict # "none" => stack = << >> /\ flying = "none"

(* A test returns to the one it stands in.                                 *)
TestsNest == \A i \in Running : Innermost(stack[i].of.prev, {j \in Running : j < i})

(* What is cached is not being loaded, and exports what it has.            *)
CachedIsWhole ==
    \A k \in DOMAIN moduleCache : k \notin moduleInProgress /\ moduleCache[k] \subseteq bound[k]

(* A test is running or has been recorded, once, and is recorded as good   *)
(* only if it met an expectation.                                          *)
TestsKept ==
    /\ \A i \in Running : stack[i].of.id \in DOMAIN asserts
    /\ Len(testResults) + Cardinality(Running) = Len(asserts)
    /\ \A t \in DOMAIN asserts :
         \/ \E i \in Running : stack[i].of.id = t
         \/ \E i \in DOMAIN testResults : testResults[i].test = t
    /\ \A i \in DOMAIN testResults :
         testResults[i].test \in DOMAIN asserts /\ (testResults[i].ok => asserts[testResults[i].test] > 0)

(* A failed expectation was dropped by a router, is on its way, is held in *)
(* a fiber, or has spoiled a test or the run.                              *)
Accounted == missed =>
    \/ masked \/ flying = "assert" \/ verdict = "load error"
    \/ \E f \in DOMAIN fibers : fibers[f] = "assert"
    \/ \E i \in DOMAIN testResults : ~testResults[i].ok

(* A run that ends well leaves no error in a fiber.                        *)
NothingHeld == stack = << >> /\ flying = "none" /\ verdict # "load error" =>
    \A f \in DOMAIN fibers : fibers[f] \notin Errors

IInv == TypeOK /\ Shape /\ KnowsWhereItIs /\ TestsNest /\ CachedIsWhole /\ TestsKept
    /\ Accounted /\ NothingHeld

-----------------------------------------------------------------------------
(* A sequence is empty when its length is nought.                          *)
LEMMA EmptyOrNot ==
    ASSUME NEW S, NEW s \in Seq(S)
    PROVE  s = << >> <=> Len(s) = 0
BY EmptySeq

(* Frames come and go at the end.                                          *)
LEMMA FrontLast ==
    ASSUME NEW S, NEW s \in Seq(S), s # << >>
    PROVE  /\ Len(s) \in Nat \ {0} /\ DOMAIN s = 1..Len(s) /\ Last(s) = s[Len(s)] /\ Last(s) \in S
           /\ Front(s) \in Seq(S) /\ Len(Front(s)) = Len(s) - 1
           /\ DOMAIN Front(s) = 1..(Len(s) - 1)
           /\ \A i \in 1..(Len(s) - 1) : Front(s)[i] = s[i]
<1>1. Len(s) \in Nat \ {0} /\ DOMAIN s = 1..Len(s) /\ \A i \in 1..Len(s) : s[i] \in S
  BY EmptySeq, LenProperties, ElementOfSeq
<1>2. \A i \in 1..(Len(s) - 1) : s[i] \in S
  BY <1>1
<1>3. /\ SubSeq(s, 1, Len(s) - 1) \in Seq(S)
      /\ Len(SubSeq(s, 1, Len(s) - 1)) = IF 1 <= Len(s) - 1 THEN Len(s) - 1 - 1 + 1 ELSE 0
      /\ \A i \in 1..(Len(s) - 1 - 1 + 1) : SubSeq(s, 1, Len(s) - 1)[i] = s[1 + i - 1]
  BY <1>1, <1>2, SubSeqProperties
<1>4. Len(Front(s)) = Len(s) - 1
  BY <1>1, <1>3 DEF Front
<1>5. DOMAIN Front(s) = 1..(Len(s) - 1)
  BY <1>3, <1>4, LenProperties DEF Front
<1>6. \A i \in 1..(Len(s) - 1) : Front(s)[i] = s[i]
  BY <1>1, <1>3 DEF Front
<1> QED BY <1>1, <1>3, <1>4, <1>5, <1>6 DEF Front, Last

LEMMA AppendLast ==
    ASSUME NEW S, NEW s \in Seq(S), NEW e \in S
    PROVE  /\ Append(s, e) \in Seq(S) /\ Len(s) \in Nat
           /\ DOMAIN s = 1..Len(s) /\ DOMAIN Append(s, e) = 1..(Len(s) + 1)
           /\ Len(Append(s, e)) = Len(s) + 1
           /\ \A i \in 1..Len(s) : Append(s, e)[i] = s[i]
           /\ Append(s, e)[Len(s) + 1] = e /\ Append(s, e) # << >>
BY AppendProperties, LenProperties

(* Numbers have a least.                                                   *)
LEMMA Least ==
    ASSUME NEW T \in SUBSET Nat, T # {}
    PROVE  \E m \in T : \A n \in T : m <= n
<1>1. PICK m \in T : \A n \in T : <<n, m>> \notin OpToRel(<, Nat)
  BY NatLessThanWellFounded, WFMin
<1>2. \A n \in T : ~(n < m)
  BY <1>1 DEF OpToRel
<1> QED BY <1>2

LEMMA FibersNumbered ==
    ASSUME TypeOK
    PROVE  DOMAIN fibers = 1..Len(fibers) /\ Len(fibers) \in Nat
<1>1. fibers \in Seq({"ready", "done"} \cup Errors)
  BY DEF TypeOK, RunOK
<1> QED BY <1>1, LenProperties

LEMMA FirstReady ==
    ASSUME fibers \in Seq({"ready", "done"} \cup Errors), Ready # {}
    PROVE  Ready \subseteq Nat /\ \E j \in Ready : \A h \in Ready : j <= h
<1>1. Ready \in SUBSET Nat
  BY LenProperties DEF Ready
<1> QED BY <1>1, Least

(* Every state has frames, errors, names and records of their kinds.       *)
LEMMA StackTyped == TypeOK /\ [Next]_vars => StackOK'
<1> SUFFICES ASSUME TypeOK, [Next]_vars PROVE StackOK'
  OBVIOUS
<1> USE DEF StackOK
<1>1. stack \in Seq(Frame) /\ flying \in Errors \cup {"none", "report"}
  BY DEF TypeOK
<1>0. fibers \in Seq({"ready", "done"} \cup Errors) /\ DOMAIN fibers = 1..Len(fibers) /\ Len(fibers) \in Nat
  BY FibersNumbered DEF TypeOK, RunOK
<1>2. ASSUME NEW e \in Frame, stack' = Append(stack, e), UNCHANGED flying PROVE StackOK'
  BY <1>1, <1>2, AppendLast
<1>3. ASSUME On(Plain \cup {"test", "module", "program"}), Pop, flying' \in Errors \cup {"none", "report"}
      PROVE  StackOK'
  BY <1>1, <1>3, FrontLast DEF Pop, On
<1>4. ASSUME UNCHANGED stack, flying' \in Errors \cup {"none", "report"} PROVE StackOK'
  BY <1>1, <1>4
<1>5. CASE Statements
  <2>1. CASE \E k \in Strand : WeaveLoads(k)
    <3> PICK k \in Strand : WeaveLoads(k)
      BY <2>1
    <3>1. [kind |-> "module", of |-> k] \in Frame
      BY DEF Frame
    <3> QED BY <1>2, <3>1 DEF WeaveLoads, Push
  <2>2. CASE Enter("agent", 0) \/ Enter("attempt", 0) \/ Enter("provider", 2)
    <3>1. \A x \in {"agent", "attempt", "provider"}, y \in {0, 2} : [kind |-> x, of |-> y] \in Frame
      BY DEF Frame, Plain
    <3> QED BY <1>2, <2>2, <3>1 DEF Enter, Push
  <2>3. CASE Test
    <3>1. Len(asserts) \in Nat /\ inTest \in Nat
      BY LenProperties DEF TypeOK, TestsOK
    <3>2. [kind |-> "test", of |-> [id |-> Len(asserts) + 1, prev |-> inTest]] \in Frame
      BY <3>1 DEF Frame
    <3> QED BY <1>2, <2>3, <3>2 DEF Test, Push
  <2>4. CASE ExpectCall("expect") \/ ExpectCall("tofail")
    <3>1. \A x \in {"expect", "tofail"} : [kind |-> x, of |-> 0] \in Frame
      BY DEF Frame, Plain
    <3> QED BY <1>2, <2>4, <3>1 DEF ExpectCall, Push
  <2>5. ASSUME NEW f \in {0} \cup DOMAIN fibers, Pump(f) PROVE StackOK'
    <3>1. f \in Nat
      BY <1>0, <2>5
    <3>2. [kind |-> "pump", of |-> f] \in Frame
      BY <3>1 DEF Frame, Plain
    <3> QED BY <1>2, <1>4, <2>5, <3>2 DEF Pump, Push, Errors
  <2> QED BY <1>1, <1>4, <1>5, <2>1, <2>2, <2>3, <2>4, <2>5
        DEF Statements, Seed, Expose, Weave, WeaveCached, WeaveCircular, Raise, Expect, ExpectOutside,
            Finds, Spawn, Errors
<1>6. CASE Unwinding
  <2>1. CASE FailsOver
    <3>1. stack # << >> /\ Top.kind = "provider" /\ Top.of > 1 /\ flying' = "none"
          /\ stack' = [stack EXCEPT ![Len(stack)].of = @ - 1]
      BY <2>1 DEF FailsOver, On
    <3>2. Len(stack) \in 1..Len(stack) /\ Top = stack[Len(stack)] /\ Top \in Frame
      BY <1>1, <3>1, FrontLast DEF Top
    <3>3. Top \in [kind : Plain, of : Nat]
      BY <3>1, <3>2 DEF Frame, Plain
    <3>4. [Top EXCEPT !.of = @ - 1] \in Frame
      BY <3>1, <3>3 DEF Frame
    <3>5. stack' = [stack EXCEPT ![Len(stack)] = [Top EXCEPT !.of = @ - 1]]
      BY <3>1, <3>2
    <3> QED BY <1>1, <3>1, <3>2, <3>4, <3>5, ExceptSeq
  <2> QED BY <1>1, <1>3, <1>6, <2>1
        DEF Unwinding, ModuleEnds, ModuleThrows, Unload, Leaves, Rescue, Passes, TestEnds, TestThrows,
            Record, Matches, Settle, Finds, On, Plain, Errors
<1>7. CASE StepFiber
  <2> DEFINE i == CHOOSE j \in Ready : \A h \in Ready : j <= h
  <2>1. Ready \subseteq Nat /\ \E j \in Ready : \A h \in Ready : j <= h
    BY <1>7, FirstReady DEF StepFiber, TypeOK, RunOK
  <2>2. i \in Nat
    BY <2>1
  <2>3. [kind |-> "fiber", of |-> i] \in Frame
    BY <2>2 DEF Frame, Plain
  <2> QED BY <1>2, <1>7, <2>3 DEF StepFiber, Push
<1>8. CASE FiberEnds
  BY <1>1, <1>3, <1>8 DEF FiberEnds, On, Plain
<1>9. CASE Surface
  <2> DEFINE held == {i \in DOMAIN fibers : fibers[i] \in Errors /\ Top.of \in {0, i}}
             first == CHOOSE i \in held : \A h \in held : i <= h
  <2>1. Pop /\ flying' = IF held = {} THEN "none" ELSE fibers[first]
    BY <1>9 DEF Surface
  <2>2. held # {} => \E i \in held : \A h \in held : i <= h
    <3>1. held \in SUBSET Nat
      BY <1>0
    <3> QED BY <3>1, Least
  <2>3. held # {} => first \in held
    BY <2>2
  <2>4. flying' \in Errors \cup {"none", "report"}
    BY <2>1, <2>3 DEF Errors
  <2> HIDE DEF first, held
  <2> QED BY <1>3, <1>9, <2>1, <2>4 DEF Surface, On, Plain
<1>10. CASE BodyEnds \/ BodyThrows
  <2>1. [kind |-> "pump", of |-> 0] \in Frame
    BY DEF Frame, Plain
  <2>2. <<[kind |-> "pump", of |-> 0]>> \in Seq(Frame) /\ << >> \in Seq(Frame)
    BY <2>1
  <2> QED BY <1>1, <1>10, <2>2 DEF BodyEnds, BodyThrows
<1>11. CASE RunEnds \/ UNCHANGED vars
  BY <1>1, <1>11 DEF RunEnds, vars
<1> QED BY <1>5, <1>6, <1>7, <1>8, <1>9, <1>10, <1>11 DEF Next

(* What a frame that comes or goes is to the modules and tests that run.   *)
LEMMA Pushed ==
    ASSUME StackOK, NEW e \in Frame, stack' = Append(stack, e)
    PROVE  LET n == Len(stack) + 1
           IN  /\ n \in Nat /\ DOMAIN stack' = 1..n /\ DOMAIN stack = 1..(n - 1) /\ stack'[n] = e
               /\ \A i \in DOMAIN stack : stack'[i] = stack[i] /\ i < n
               /\ Open' = IF e.kind = "module" THEN Open \cup {n} ELSE Open
               /\ Running' = IF e.kind = "test" THEN Running \cup {n} ELSE Running
               /\ n \notin Open \cup Running
               /\ \A i \in Open \cup Running : i \in Nat /\ i < n /\ stack'[i] = stack[i]
<1> DEFINE n == Len(stack) + 1
<1>1. /\ n \in Nat \ {0} /\ DOMAIN stack' = 1..n /\ DOMAIN stack = 1..(n - 1)
      /\ \A i \in 1..(n - 1) : stack'[i] = stack[i]
      /\ stack'[n] = e
  BY AppendLast DEF StackOK
<1> HIDE DEF n
<1>2. Open' = IF e.kind = "module" THEN Open \cup {n} ELSE Open
  BY <1>1 DEF Open
<1>3. Running' = IF e.kind = "test" THEN Running \cup {n} ELSE Running
  BY <1>1 DEF Running
<1>4. Open \cup Running \subseteq 1..(n - 1)
  BY <1>1 DEF Open, Running
<1> QED BY <1>1, <1>2, <1>3, <1>4 DEF n

LEMMA Popped ==
    ASSUME StackOK, stack # << >>, Pop
    PROVE  LET n == Len(stack)
           IN  /\ n \in Nat \ {0} /\ DOMAIN stack' = 1..(n - 1) /\ DOMAIN stack = 1..n
               /\ Top = stack[n] /\ Top \in Frame /\ Len(stack') = n - 1
               /\ \A i \in DOMAIN stack' : stack'[i] = stack[i]
               /\ Open' = Open \ {n} /\ Running' = Running \ {n}
               /\ n \in Open <=> Top.kind = "module"
               /\ n \in Running <=> Top.kind = "test"
               /\ \A i \in Open \cup Running : i \in Nat /\ i <= n /\ (i # n => stack'[i] = stack[i])
<1> DEFINE n == Len(stack)
<1>1. /\ n \in Nat \ {0} /\ DOMAIN stack' = 1..(n - 1) /\ DOMAIN stack = 1..n
      /\ Top = stack[n] /\ Top \in Frame /\ Len(stack') = n - 1
      /\ \A i \in 1..(n - 1) : stack'[i] = stack[i]
  BY FrontLast DEF StackOK, Pop, Top
<1> HIDE DEF n
<1>2. Open' = Open \ {n} /\ (n \in Open <=> Top.kind = "module")
  BY <1>1 DEF Open
<1>3. Running' = Running \ {n} /\ (n \in Running <=> Top.kind = "test")
  BY <1>1 DEF Running
<1>4. Open \cup Running \subseteq 1..n
  BY <1>1 DEF Open, Running
<1> QED BY <1>1, <1>2, <1>3, <1>4 DEF n

LEMMA OpenRunning ==
    ASSUME StackOK
    PROVE  /\ Open \subseteq Nat /\ IsFiniteSet(Open) /\ Cardinality(Open) \in Nat
           /\ Running \subseteq Nat /\ IsFiniteSet(Running) /\ Cardinality(Running) \in Nat
<1>1. Len(stack) \in Nat /\ DOMAIN stack = 1..Len(stack)
  BY LenProperties DEF StackOK
<1>2. IsFiniteSet(1..Len(stack))
  BY <1>1, FS_Interval
<1>3. Open \in SUBSET (1..Len(stack)) /\ Running \in SUBSET (1..Len(stack))
  BY <1>1 DEF Open, Running
<1>4. IsFiniteSet(Open) /\ IsFiniteSet(Running)
  BY <1>2, <1>3, FS_Subset
<1> QED BY <1>3, <1>4, FS_CardinalityType

LEMMA TopFrame ==
    ASSUME StackOK, stack # << >>
    PROVE  /\ Len(stack) \in Nat \ {0} /\ DOMAIN stack = 1..Len(stack) /\ Len(stack) \in DOMAIN stack
           /\ Top = stack[Len(stack)] /\ Top \in Frame
BY FrontLast DEF Top, StackOK

(* The frames of modules, and of tests, stay as they are.                  *)
SameModules == Open' = Open /\ \A i \in Open : stack'[i] = stack[i]
SameTests == Running' = Running /\ \A i \in Running : stack'[i] = stack[i]

LEMMA OthersPush ==
    ASSUME StackOK, NEW e \in Frame, stack' = Append(stack, e)
    PROVE  (e.kind # "module" => SameModules) /\ (e.kind # "test" => SameTests)
BY Pushed DEF SameModules, SameTests

LEMMA OthersPop ==
    ASSUME StackOK, stack # << >>, Pop
    PROVE  (Top.kind # "module" => SameModules) /\ (Top.kind # "test" => SameTests)
BY Popped DEF SameModules, SameTests

LEMMA NothingThere ==
    ASSUME stack = << >> \/ \E e : stack = <<e>> /\ e.kind \notin {"module", "test"}
    PROVE  Open = {} /\ Running = {}
BY DEF Open, Running

(* The frames a statement puts on the stack.                               *)
LEMMA PlainFrames ==
    /\ \A k \in Plain, x \in Nat : [kind |-> k, of |-> x] \in Frame
    /\ \A k \in Strand : [kind |-> "module", of |-> k] \in Frame
    /\ TypeOK => [kind |-> "test", of |-> [id |-> Len(asserts) + 1, prev |-> inTest]] \in Frame
<1>1. ASSUME TypeOK PROVE Len(asserts) \in Nat /\ inTest \in Nat
  BY <1>1, LenProperties DEF TypeOK, TestsOK
<1> QED BY <1>1 DEF Frame
(* Statements are executed while the run lasts.                            *)
LEMMA StatementsRun == Shape /\ Statement => verdict = "none" /\ stack # << >>
BY DEF Shape, Statement

(* Another try changes nothing but how many providers are left.            *)
LEMMA OnlyOf ==
    ASSUME NEW n, stack' = [stack EXCEPT ![n].of = @ - 1], stack[n] \in Frame
    PROVE  /\ DOMAIN stack' = DOMAIN stack
           /\ \A i \in DOMAIN stack : stack'[i].kind = stack[i].kind /\ (i # n => stack'[i] = stack[i])
<1>1. stack' = [stack EXCEPT ![n] = [stack[n] EXCEPT !.of = @ - 1]]
  OBVIOUS
<1>2. [stack[n] EXCEPT !.of = @ - 1].kind = stack[n].kind
  BY DEF Frame
<1> QED BY <1>1, <1>2

(* The program's frame is the only one when it is the last.                *)
LEMMA LastIsFirst ==
    ASSUME StackOK, Shape, On({"program"})
    PROVE  \E e : stack = <<e>> /\ e.kind = "program"
<1>1. /\ Len(stack) \in Nat \ {0} /\ DOMAIN stack = 1..Len(stack)
      /\ Top = stack[Len(stack)] /\ Top \in Frame /\ Top.kind = "program"
  BY FrontLast DEF On, Top, StackOK
<1>2. Len(stack) = 1
  BY <1>1 DEF Shape
<1>3. stack = <<Top>>
  <2>1. <<Top>> \in Seq(Frame)
    BY <1>1
  <2> QED BY <1>1, <1>2, <2>1, SeqEqual DEF StackOK
<1> QED BY <1>1, <1>3

(* A step leaves the modules that run as they are, or one comes or goes.   *)
ModulesStay ==
    SameModules /\ UNCHANGED <<dirStack, moduleInProgress>> /\ Len(exportStack') = Len(exportStack)

LEMMA ModuleMoves ==
    ASSUME IInv, [Next]_vars
    PROVE  ModulesStay \/ (\E k \in Strand : WeaveLoads(k)) \/ (On({"module"}) /\ Unload) \/ RunEnds
<1> USE DEF ModulesStay
<1>0. StackOK /\ Shape /\ TypeOK
  BY DEF IInv, TypeOK
<1>1. CASE Statements
  <2>1. CASE \E n \in Name : Expose(n)
    <3>1. Len(exportStack) \in 1..Len(exportStack) /\ exportStack \in Seq(SUBSET Name)
      <4>1. Len(exportStack) = Cardinality(Open) + 1 /\ exportStack \in Seq(SUBSET Name)
        BY <1>0, <2>1, StatementsRun DEF Expose, IInv, KnowsWhereItIs, TypeOK, ModulesOK
      <4> QED BY <1>0, <4>1, OpenRunning
    <3>2. exportStack[Len(exportStack)] \in SUBSET Name
      BY <3>1, ElementOfSeq
    <3> QED BY <2>1, <3>1, <3>2, ExceptSeq DEF Expose, SameModules, Open
  <2>2. CASE \E e \in {"agent", "attempt", "provider"}, x \in {0, 2} : Enter(e, x)
    BY <1>0, <2>2, OthersPush, PlainFrames DEF Enter, Push, Plain, modules
  <2>3. CASE Test
    <3> DEFINE e == [kind |-> "test", of |-> [id |-> Len(asserts) + 1, prev |-> inTest]]
    <3>1. e \in Frame /\ stack' = Append(stack, e)
      BY <1>0, <2>3, PlainFrames DEF Test, Push
    <3> QED BY <1>0, <2>3, <3>1, OthersPush DEF Test, modules
  <2>4. CASE ExpectCall("expect") \/ ExpectCall("tofail")
    BY <1>0, <2>4, OthersPush, PlainFrames DEF ExpectCall, Push, Plain, modules
  <2>5. ASSUME NEW f \in {0} \cup DOMAIN fibers, Pump(f) PROVE ModulesStay
    <3>1. CASE UNCHANGED stack
      BY <2>5, <3>1 DEF Pump, modules, SameModules, Open
    <3>2. CASE Push("pump", f)
      <4>1. f \in Nat
        BY <1>0, <2>5, FibersNumbered
      <4> QED BY <1>0, <2>5, <3>2, <4>1, OthersPush, PlainFrames DEF Pump, Push, Plain, modules
    <3> QED BY <2>5, <3>1, <3>2 DEF Pump
  <2>6. CASE UNCHANGED <<stack, exportStack, dirStack, moduleInProgress>>
    BY <2>6 DEF SameModules, Open
  <2> QED BY <1>1, <2>1, <2>2, <2>3, <2>4, <2>5, <2>6
        DEF Statements, Weave, Seed, WeaveCached, WeaveCircular, Raise, ExpectOutside, Expect, Spawn, modules
<1>2. CASE Unwinding
  <2>1. CASE ModuleEnds \/ ModuleThrows
    BY <2>1 DEF ModuleEnds, ModuleThrows
  <2>2. CASE FailsOver
    <3>1. /\ Top.kind = "provider" /\ Len(stack) \in Nat \ {0} /\ Top = stack[Len(stack)] /\ Top \in Frame
          /\ DOMAIN stack = 1..Len(stack)
          /\ stack' = [stack EXCEPT ![Len(stack)].of = @ - 1] /\ UNCHANGED modules
      BY <1>0, <2>2, FrontLast DEF FailsOver, On, Top, StackOK
    <3>2. DOMAIN stack' = DOMAIN stack
          /\ \A i \in DOMAIN stack : stack'[i].kind = stack[i].kind /\ (i # Len(stack) => stack'[i] = stack[i])
      BY <3>1, OnlyOf
    <3>3. SameModules
      BY <3>1, <3>2 DEF SameModules, Open
    <3> QED BY <3>1, <3>3 DEF modules
  <2>3. CASE On(Plain \cup {"test"}) /\ Pop /\ UNCHANGED modules
    BY <1>0, <2>3, OthersPop DEF On, Plain, modules
  <2> QED BY <1>2, <2>1, <2>2, <2>3
        DEF Unwinding, Leaves, Rescue, Passes, TestEnds, TestThrows, Record, Matches, Settle, On, Plain
<1>3. CASE StepFiber
  <2> PICK i \in Ready : Push("fiber", i)
    BY <1>0, <1>3, FirstReady DEF StepFiber, TypeOK, RunOK
  <2>1. i \in Nat
    BY <1>0, <1>3, FirstReady DEF StepFiber, TypeOK, RunOK
  <2> QED BY <1>0, <1>3, <2>1, OthersPush, PlainFrames DEF StepFiber, Push, Plain, modules
<1>4. CASE FiberEnds \/ Surface
  BY <1>0, <1>4, OthersPop DEF FiberEnds, Surface, On, modules
<1>5. CASE BodyEnds \/ BodyThrows
  <2>1. \E e : stack = <<e>> /\ e.kind = "program"
    BY <1>0, <1>5, LastIsFirst DEF BodyEnds, BodyThrows, On
  <2>2. stack' = << >> \/ stack' = <<[kind |-> "pump", of |-> 0]>>
    BY <1>5 DEF BodyEnds, BodyThrows
  <2>3. Open = {} /\ Open' = {}
    BY <2>1, <2>2 DEF Open
  <2> QED BY <1>5, <2>3 DEF SameModules, BodyEnds, BodyThrows, modules
<1>6. CASE UNCHANGED vars
  BY <1>6 DEF SameModules, Open, vars, modules
<1> QED BY <1>1, <1>2, <1>3, <1>4, <1>5, <1>6 DEF Next

(* A step leaves the tests that run as they are, or one comes or goes.     *)
TestsStay ==
    /\ SameTests /\ UNCHANGED <<inTest, testResults>>
    /\ asserts' = asserts \/ (inTest # 0 /\ Counted)

LEMMA TestMoves ==
    ASSUME IInv, [Next]_vars
    PROVE  TestsStay \/ Test \/ TestEnds \/ TestThrows
<1> USE DEF TestsStay
<1>0. StackOK /\ Shape /\ TypeOK
  BY DEF IInv, TypeOK
<1>1. CASE Statements
  <2>1. CASE \E k \in Strand : WeaveLoads(k)
    BY <1>0, <2>1, OthersPush, PlainFrames DEF WeaveLoads, Push, tests
  <2>2. CASE \E e \in {"agent", "attempt", "provider"}, x \in {0, 2} : Enter(e, x)
    BY <1>0, <2>2, OthersPush, PlainFrames DEF Enter, Push, Plain, tests
  <2>4. CASE ExpectCall("expect") \/ ExpectCall("tofail")
    BY <1>0, <2>4, OthersPush, PlainFrames DEF ExpectCall, Push, Plain, tests
  <2>5. ASSUME NEW f \in {0} \cup DOMAIN fibers, Pump(f) PROVE TestsStay
    <3>1. CASE UNCHANGED stack
      BY <2>5, <3>1 DEF Pump, tests, SameTests, Running
    <3>2. CASE Push("pump", f)
      <4>1. f \in Nat
        BY <1>0, <2>5, FibersNumbered
      <4> QED BY <1>0, <2>5, <3>2, <4>1, OthersPush, PlainFrames DEF Pump, Push, Plain, tests
    <3> QED BY <2>5, <3>1, <3>2 DEF Pump
  <2>6. CASE UNCHANGED <<stack, inTest, testResults>> /\ (asserts' = asserts \/ (inTest # 0 /\ Counted))
    BY <2>6 DEF SameTests, Running
  <2> QED BY <1>1, <2>1, <2>2, <2>4, <2>5, <2>6
        DEF Statements, Weave, Seed, Expose, WeaveCached, WeaveCircular, Raise, ExpectOutside, Expect,
            Spawn, tests
<1>2. CASE Unwinding
  <2>1. CASE TestEnds \/ TestThrows
    BY <2>1
  <2>2. CASE FailsOver
    <3>1. /\ Top.kind = "provider" /\ Len(stack) \in Nat \ {0} /\ Top = stack[Len(stack)] /\ Top \in Frame
          /\ DOMAIN stack = 1..Len(stack)
          /\ stack' = [stack EXCEPT ![Len(stack)].of = @ - 1] /\ UNCHANGED tests
      BY <1>0, <2>2, FrontLast DEF FailsOver, On, Top, StackOK
    <3>2. DOMAIN stack' = DOMAIN stack
          /\ \A i \in DOMAIN stack : stack'[i].kind = stack[i].kind /\ (i # Len(stack) => stack'[i] = stack[i])
      BY <3>1, OnlyOf
    <3>3. SameTests
      BY <3>1, <3>2 DEF SameTests, Running
    <3> QED BY <3>1, <3>3 DEF tests
  <2>3. CASE On(Plain \cup {"module"}) /\ Pop /\ UNCHANGED tests
    BY <1>0, <2>3, OthersPop DEF On, Plain, tests
  <2> QED BY <1>2, <2>1, <2>2, <2>3
        DEF Unwinding, ModuleEnds, ModuleThrows, Unload, Leaves, Rescue, Passes, Matches, Settle, On, Plain
<1>3. CASE StepFiber
  <2> PICK i \in Ready : Push("fiber", i)
    BY <1>0, <1>3, FirstReady DEF StepFiber, TypeOK, RunOK
  <2>1. i \in Nat
    BY <1>0, <1>3, FirstReady DEF StepFiber, TypeOK, RunOK
  <2> QED BY <1>0, <1>3, <2>1, OthersPush, PlainFrames DEF StepFiber, Push, Plain, tests
<1>4. CASE FiberEnds \/ Surface
  BY <1>0, <1>4, OthersPop DEF FiberEnds, Surface, On, tests
<1>5. CASE BodyEnds \/ BodyThrows
  <2>1. \E e : stack = <<e>> /\ e.kind = "program"
    BY <1>0, <1>5, LastIsFirst DEF BodyEnds, BodyThrows, On
  <2>2. stack' = << >> \/ stack' = <<[kind |-> "pump", of |-> 0]>>
    BY <1>5 DEF BodyEnds, BodyThrows
  <2>3. Running = {} /\ Running' = {}
    BY <2>1, <2>2 DEF Running
  <2> QED BY <1>5, <2>3 DEF SameTests, BodyEnds, BodyThrows, tests
<1>6. CASE UNCHANGED vars \/ RunEnds
  BY <1>6 DEF SameTests, Running, vars, tests, RunEnds
<1> QED BY <1>1, <1>2, <1>3, <1>4, <1>5, <1>6 DEF Next
-----------------------------------------------------------------------------
(* Where the interpreter is.                                               *)
LEMMA WhereKept == IInv /\ [Next]_vars => KnowsWhereItIs'
<1> SUFFICES ASSUME IInv, [Next]_vars, verdict' = "none" PROVE KnowsWhereItIs'
  BY DEF KnowsWhereItIs
<1>0. StackOK /\ TypeOK /\ KnowsWhereItIs /\ TestsNest
  BY DEF IInv, TypeOK
<1>1. verdict = "none"
  BY DEF Next, Statements, Unwinding, Seed, Expose, Weave, WeaveCached, WeaveCircular, WeaveLoads, Raise,
         Enter, Test, Expect, ExpectCall, ExpectOutside, Spawn, Pump, Statement, ModuleEnds, ModuleThrows,
         Leaves, Rescue, FailsOver, Passes, TestEnds, TestThrows, Record, Matches, Settle, StepFiber,
         FiberEnds, Surface, BodyEnds, BodyThrows, RunEnds, vars
<1>2. /\ Open \subseteq Nat /\ IsFiniteSet(Open) /\ Cardinality(Open) \in Nat
      /\ Running \subseteq Nat
  BY <1>0, OpenRunning
<1>3. ASSUME NEW i \in Open
      PROVE  {j \in Open : j <= i} \in SUBSET Open /\ Depth(i) \in Nat /\ Depth(i) <= Cardinality(Open)
  <2>1. {j \in Open : j <= i} \in SUBSET Open
    OBVIOUS
  <2> QED BY <1>2, <2>1, FS_Subset, FS_CardinalityType DEF Depth
<1>4. /\ Len(dirStack) = Cardinality(Open) + 1 /\ Len(exportStack) = Len(dirStack)
      /\ dirStack[1] = Main /\ \A i \in Open : dirStack[Depth(i) + 1] = stack[i].of
      /\ \A i, j \in Open : stack[i].of = stack[j].of => i = j
      /\ moduleInProgress = {stack[i].of : i \in Open}
      /\ dirStack \in Seq(Strand) /\ exportStack \in Seq(SUBSET Name)
  BY <1>0, <1>1 DEF KnowsWhereItIs, TypeOK, ModulesOK
<1> DEFINE Right ==
      /\ Len(dirStack) = Cardinality(Open) + 1 /\ Len(exportStack) = Len(dirStack)
      /\ dirStack[1] = Main /\ \A i \in Open : dirStack[Depth(i) + 1] = stack[i].of
      /\ \A i, j \in Open : stack[i].of = stack[j].of => i = j
      /\ moduleInProgress = {stack[i].of : i \in Open}
<1>5. Right'
  <2>1. CASE ModulesStay
    <3>1. \A i \in Open : Depth(i)' = Depth(i)
      BY <2>1 DEF ModulesStay, SameModules, Depth
    <3>2. Open' = Open /\ UNCHANGED <<dirStack, moduleInProgress>> /\ Len(exportStack') = Len(exportStack)
          /\ \A i \in Open : stack'[i] = stack[i]
      BY <2>1 DEF ModulesStay, SameModules
    <3> QED BY <1>4, <3>1, <3>2
  <2>2. ASSUME NEW k \in Strand, WeaveLoads(k) PROVE Right'
    <3> DEFINE e == [kind |-> "module", of |-> k]
    <3>0. e \in Frame /\ stack' = Append(stack, e) /\ e.kind = "module" /\ e.of = k
      BY <2>2, PlainFrames DEF WeaveLoads, Push
    <3> HIDE DEF e
    <3> PICK n \in Nat : n = Len(stack) + 1
      BY <1>0, LenProperties DEF StackOK
    <3>1. /\ n \in Nat /\ Open' = Open \cup {n} /\ n \notin Open /\ stack'[n].of = k
          /\ \A i \in Open : i \in Nat /\ i < n /\ stack'[i] = stack[i]
      BY <1>0, <3>0, Pushed
    <3>2. /\ k \notin moduleInProgress /\ moduleInProgress' = moduleInProgress \cup {k}
          /\ exportStack' = Append(exportStack, {}) /\ dirStack' = Append(dirStack, k)
      BY <2>2 DEF WeaveLoads
    <3>3. Cardinality(Open') = Cardinality(Open) + 1
      BY <1>2, <3>1, FS_AddElement
    <3>4. \A i \in Open : Depth(i)' = Depth(i)
      <4>1. \A i \in Open : {j \in Open' : j <= i} = {j \in Open : j <= i}
        BY <1>2, <3>1
      <4> QED BY <4>1 DEF Depth
    <3>5. Depth(n)' = Cardinality(Open) + 1
      <4>0. \A j \in Open' : j <= n
        BY <1>2, <3>1
      <4>1. {j \in Open' : j <= n} = Open'
        BY <4>0, Zenon
      <4> QED BY <3>3, <4>1 DEF Depth
    <3>6. /\ Len(dirStack') = Len(dirStack) + 1 /\ Len(exportStack') = Len(exportStack) + 1
          /\ \A i \in 1..Len(dirStack) : dirStack'[i] = dirStack[i]
          /\ dirStack'[Len(dirStack) + 1] = k
      <4>1. {} \in SUBSET Name
        OBVIOUS
      <4> QED BY <1>4, <2>2, <3>2, <4>1, AppendLast
    <3>7. \A i \in Open' : dirStack'[Depth(i)' + 1] = stack'[i].of
      <4>1. ASSUME NEW i \in Open PROVE dirStack'[Depth(i)' + 1] = stack'[i].of
        <5>1. Depth(i) + 1 \in 1..Len(dirStack)
          BY <1>2, <1>3, <1>4
        <5> QED BY <1>4, <3>1, <3>4, <3>6, <5>1
      <4>2. dirStack'[Depth(n)' + 1] = stack'[n].of
        BY <1>4, <3>1, <3>5, <3>6
      <4> QED BY <3>1, <4>1, <4>2
    <3>8. dirStack'[1] = Main
      BY <1>2, <1>4, <3>6
    <3>9. \A i, j \in Open' : stack'[i].of = stack'[j].of => i = j
      <4> SUFFICES ASSUME NEW i \in Open', NEW j \in Open', stack'[i].of = stack'[j].of
                   PROVE  i = j
        OBVIOUS
      <4>1. \A o \in Open : stack'[o].of = stack[o].of /\ stack[o].of \in moduleInProgress
        BY <1>4, <3>1
      <4>2. \A o \in Open : stack'[o].of # stack'[n].of
        BY <3>1, <3>2, <4>1
      <4>3. CASE i \in Open /\ j \in Open
        BY <1>4, <4>1, <4>3
      <4> QED BY <3>1, <4>2, <4>3
    <3>10. moduleInProgress' = {stack'[i].of : i \in Open'}
      <4>1. {stack'[i].of : i \in Open'} = {stack'[i].of : i \in Open} \cup {stack'[n].of}
        BY <3>1
      <4>2. {stack'[i].of : i \in Open} = {stack[i].of : i \in Open}
        BY <3>1
      <4> QED BY <1>4, <3>1, <3>2, <4>1, <4>2
    <3>11. Len(dirStack') = Cardinality(Open') + 1 /\ Len(exportStack') = Len(dirStack')
      BY <1>2, <1>4, <3>3, <3>6
    <3> QED BY <3>7, <3>8, <3>9, <3>10, <3>11
  <2>3. CASE On({"module"}) /\ Unload
    <3> DEFINE n == Len(stack)
    <3>1. /\ n \in Nat /\ n \in Open /\ Open' = Open \ {n} /\ Top = stack[n]
          /\ \A i \in Open : i \in Nat /\ i <= n /\ (i # n => stack'[i] = stack[i])
      BY <1>0, <2>3, Popped DEF On, Unload
    <3> HIDE DEF n
    <3>2. /\ moduleInProgress' = moduleInProgress \ {stack[n].of}
          /\ exportStack' = Front(exportStack) /\ dirStack' = Front(dirStack)
      BY <2>3, <3>1 DEF Unload
    <3>3. Cardinality(Open') = Cardinality(Open) - 1 /\ IsFiniteSet(Open') /\ Cardinality(Open') \in Nat
      BY <1>2, <3>1, FS_RemoveElement, FS_CardinalityType
    <3>4. \A i \in Open' : Depth(i)' = Depth(i) /\ Depth(i) \in Nat /\ Depth(i) <= Cardinality(Open')
      <4> SUFFICES ASSUME NEW i \in Open'
                   PROVE  Depth(i)' = Depth(i) /\ Depth(i) \in Nat /\ Depth(i) <= Cardinality(Open')
        OBVIOUS
      <4>1. {j \in Open' : j <= i} = {j \in Open : j <= i} /\ {j \in Open' : j <= i} \in SUBSET Open'
        BY <1>2, <3>1
      <4> QED BY <3>3, <4>1, FS_Subset, FS_CardinalityType DEF Depth
    <3>5. /\ Len(dirStack') = Len(dirStack) - 1 /\ Len(exportStack') = Len(exportStack) - 1
          /\ \A i \in 1..(Len(dirStack) - 1) : dirStack'[i] = dirStack[i]
      <4>1. dirStack # << >> /\ exportStack # << >>
        BY <1>2, <1>4
      <4> QED BY <1>4, <3>2, <4>1, FrontLast
    <3>6. \A i \in Open' : dirStack'[Depth(i)' + 1] = stack'[i].of
      <4> SUFFICES ASSUME NEW i \in Open' PROVE dirStack'[Depth(i)' + 1] = stack'[i].of
        OBVIOUS
      <4>1. Depth(i) + 1 \in 1..(Len(dirStack) - 1)
        BY <1>2, <1>4, <3>3, <3>4
      <4> QED BY <1>4, <3>1, <3>4, <3>5, <4>1
    <3>7. dirStack'[1] = Main
      <4>1. 1 \in 1..(Len(dirStack) - 1)
        BY <1>2, <1>4, <3>3
      <4> QED BY <1>4, <3>5, <4>1
    <3>8. \A i, j \in Open' : stack'[i].of = stack'[j].of => i = j
      BY <1>4, <3>1
    <3>9. moduleInProgress' = {stack'[i].of : i \in Open'}
      BY <1>4, <3>1, <3>2
    <3>10. Len(dirStack') = Cardinality(Open') + 1 /\ Len(exportStack') = Len(dirStack')
      BY <1>2, <1>4, <3>3, <3>5
    <3> QED BY <3>6, <3>7, <3>8, <3>9, <3>10
  <2>4. CASE RunEnds
    BY <2>4 DEF RunEnds
  <2> QED BY <2>1, <2>2, <2>3, <2>4, ModuleMoves
<1>6. Innermost(inTest, Running)'
  <2>0. Innermost(inTest, Running)
    BY <1>0, <1>1 DEF KnowsWhereItIs
  <2>1. CASE TestsStay
    BY <2>0, <2>1 DEF TestsStay, SameTests, Innermost
  <2>2. CASE Test
    <3> DEFINE n == Len(stack) + 1
    <3>1. /\ n \in Nat /\ Running' = Running \cup {n} /\ inTest' = Len(asserts) + 1
          /\ stack'[n].of.id = Len(asserts) + 1 /\ \A i \in Running : i \in Nat /\ i < n
      BY <1>0, <2>2, PlainFrames, Pushed DEF Test, Push
    <3> HIDE DEF n
    <3> QED BY <3>1 DEF Innermost
  <2>3. CASE TestEnds \/ TestThrows
    <3> DEFINE n == Len(stack)
    <3>1. /\ n \in Nat /\ n \in Running /\ Running' = Running \ {n} /\ inTest' = stack[n].of.prev
          /\ \A i \in Running : i \in Nat /\ i <= n /\ (i # n => stack'[i] = stack[i])
      BY <1>0, <2>3, Popped DEF TestEnds, TestThrows, Record, On
    <3> HIDE DEF n
    <3>2. Innermost(stack[n].of.prev, {j \in Running : j < n})
      BY <1>0, <3>1 DEF TestsNest
    <3>3. {j \in Running : j < n} = Running'
      BY <1>2, <3>1
    <3> QED BY <3>1, <3>2, <3>3 DEF Innermost
  <2> QED BY <2>1, <2>2, <2>3, TestMoves
<1> QED BY <1>5, <1>6 DEF KnowsWhereItIs

LEMMA NestKept == IInv /\ [Next]_vars => TestsNest'
<1> SUFFICES ASSUME IInv, [Next]_vars, NEW i \in Running'
             PROVE  Innermost(stack[i].of.prev, {j \in Running : j < i})'
  BY DEF TestsNest
<1>0. StackOK /\ TypeOK /\ TestsNest /\ Running \subseteq Nat
  BY OpenRunning DEF IInv, TypeOK
<1>1. CASE TestsStay
  BY <1>0, <1>1 DEF TestsStay, SameTests, Innermost, TestsNest
<1>2. CASE Test
  <2> DEFINE e == [kind |-> "test", of |-> [id |-> Len(asserts) + 1, prev |-> inTest]]
  <2>0. e \in Frame /\ stack' = Append(stack, e) /\ e.kind = "test" /\ e.of.prev = inTest
    BY <1>0, <1>2, PlainFrames DEF Test, Push
  <2> HIDE DEF e
  <2> PICK n \in Nat : n = Len(stack) + 1
    BY <1>0, LenProperties DEF StackOK
  <2>1. /\ n \in Nat /\ Running' = Running \cup {n} /\ stack'[n].of.prev = inTest
        /\ \A j \in Running : j \in Nat /\ j < n /\ stack'[j] = stack[j]
    BY <1>0, <2>0, Pushed
  <2>2. CASE i = n
    <3>0. \A j \in Running' : j < i <=> j \in Running
      BY <1>0, <2>1, <2>2
    <3>1. {j \in Running' : j < i} = Running
      BY <2>1, <3>0
    <3>2. Innermost(inTest, Running)
      BY <1>2, StatementsRun DEF Test, IInv, KnowsWhereItIs
    <3> QED BY <2>1, <2>2, <3>1, <3>2 DEF Innermost
  <2>3. CASE i # n
    <3>1. {j \in Running' : j < i} = {j \in Running : j < i} /\ i \in Running
      BY <2>1, <2>3
    <3>2. Innermost(stack[i].of.prev, {j \in Running : j < i})
      BY <1>0, <3>1 DEF TestsNest
    <3> QED BY <2>1, <3>1, <3>2 DEF Innermost
  <2> QED BY <2>2, <2>3
<1>3. CASE TestEnds \/ TestThrows
  <2> DEFINE n == Len(stack)
  <2>1. /\ n \in Nat /\ Running' = Running \ {n}
        /\ \A j \in Running : j \in Nat /\ j <= n /\ (j # n => stack'[j] = stack[j])
    BY <1>0, <1>3, Popped DEF TestEnds, TestThrows, Record, On
  <2> HIDE DEF n
  <2>2. {j \in Running' : j < i} = {j \in Running : j < i} /\ i \in Running
    BY <2>1
  <2>3. Innermost(stack[i].of.prev, {j \in Running : j < i})
    BY <1>0, <2>2 DEF TestsNest
  <2> QED BY <2>1, <2>2, <2>3 DEF Innermost
<1> QED BY <1>1, <1>2, <1>3, TestMoves
-----------------------------------------------------------------------------
(* What a step does to the stack.                                          *)
FiberKinds == {"program", "pump", "fiber"}
StaysPut == UNCHANGED stack /\ (stack # << >> \/ UNCHANGED vars)
    /\ (UNCHANGED fibers \/ fibers' = Append(fibers, "ready"))
GoesIn == stack # << >> /\ UNCHANGED fibers
    /\ \E e \in Frame : /\ stack' = Append(stack, e) /\ e.kind \notin FiberKinds
                        /\ e.kind = "module" => \E k \in Strand : WeaveLoads(k)
Pumps == stack # << >> /\ UNCHANGED fibers /\ ~Pumping /\ \E f \in {0} \cup DOMAIN fibers : Push("pump", f)
ComesOut == stack # << >> /\ UNCHANGED fibers /\ Pop /\ Top.kind \notin FiberKinds

LEMMA StackMoves ==
    ASSUME IInv, [Next]_vars
    PROVE  RunEnds \/ /\ UNCHANGED verdict
                      /\ \/ StaysPut \/ GoesIn \/ Pumps \/ StepFiber
                         \/ ComesOut \/ FailsOver \/ FiberEnds \/ Surface \/ BodyEnds \/ BodyThrows
<1>0. Shape /\ TypeOK
  BY DEF IInv
<1>1. CASE Statements
  <2>0. \A e \in {"agent", "attempt", "provider", "expect", "tofail"}, x \in {0, 2} :
          [kind |-> e, of |-> x] \in Frame /\ e \notin FiberKinds
    BY PlainFrames DEF Plain, FiberKinds
  <2>1. ASSUME NEW k \in Strand, WeaveLoads(k) PROVE GoesIn /\ UNCHANGED verdict
    <3>1. [kind |-> "module", of |-> k] \in Frame /\ stack' = Append(stack, [kind |-> "module", of |-> k])
      BY <2>1, PlainFrames DEF WeaveLoads, Push
    <3> QED BY <2>1, <3>1 DEF GoesIn, FiberKinds, WeaveLoads, Statement
  <2>2. ASSUME NEW e \in {"agent", "attempt", "provider"}, NEW x \in {0, 2}, Enter(e, x)
        PROVE  GoesIn /\ UNCHANGED verdict
    BY <2>0, <2>2 DEF GoesIn, Enter, Push, Statement
  <2>3. CASE Test
    <3> DEFINE e == [kind |-> "test", of |-> [id |-> Len(asserts) + 1, prev |-> inTest]]
    <3>1. e \in Frame /\ stack' = Append(stack, e)
      BY <1>0, <2>3, PlainFrames DEF Test, Push
    <3> QED BY <2>3, <3>1 DEF GoesIn, FiberKinds, Test, Statement
  <2>4. ASSUME NEW e \in {"expect", "tofail"}, ExpectCall(e) PROVE GoesIn /\ UNCHANGED verdict
    BY <2>0, <2>4 DEF GoesIn, ExpectCall, Push, Statement
  <2>5. ASSUME NEW f \in {0} \cup DOMAIN fibers, Pump(f) PROVE (Pumps \/ StaysPut) /\ UNCHANGED verdict
    BY <2>5 DEF Pumps, StaysPut, Pump, Statement
  <2>6. CASE Spawn
    BY <2>6 DEF StaysPut, Spawn, Statement
  <2>7. CASE Statement /\ UNCHANGED <<stack, fibers>>
    BY <2>7 DEF StaysPut, Statement
  <2> QED BY <1>1, <2>1, <2>2, <2>3, <2>4, <2>5, <2>6, <2>7
        DEF Statements, Weave, Seed, Expose, WeaveCached, WeaveCircular, Raise, ExpectOutside, Expect
<1>2. CASE Unwinding
  BY <1>2 DEF Unwinding, ModuleEnds, ModuleThrows, Unload, Leaves, Rescue, Passes, TestEnds, TestThrows,
              Record, Matches, Settle, On, FiberKinds, ComesOut, FailsOver
<1>3. CASE UNCHANGED vars
  BY <1>3 DEF vars, StaysPut
<1> QED BY <1>1, <1>2, <1>3 DEF Next, StepFiber, FiberEnds, Surface, BodyEnds, BodyThrows

(* The shape of a run is kept.                                             *)
LEMMA ShapeKept == IInv /\ [Next]_vars => Shape'
<1> SUFFICES ASSUME IInv, [Next]_vars PROVE Shape'
  OBVIOUS
<1>0. StackOK /\ Shape /\ TypeOK
  BY DEF IInv, TypeOK
<1>00. DOMAIN fibers = 1..Len(fibers) /\ Len(fibers) \in Nat /\ fibers \in Seq({"ready", "done"} \cup Errors)
  BY <1>0, FibersNumbered DEF TypeOK, RunOK
<1>1. CASE RunEnds
  BY <1>0, <1>1 DEF RunEnds, Shape
<1>2. CASE UNCHANGED verdict /\ StaysPut
  <2>1. \A f \in DOMAIN fibers : f \in DOMAIN fibers' /\ fibers'[f] = fibers[f]
    <3>1. CASE fibers' = Append(fibers, "ready")
      BY <1>00, <3>1, AppendLast
    <3> QED BY <1>2, <3>1 DEF StaysPut
  <2> QED BY <1>0, <1>2, <2>1 DEF StaysPut, Shape, vars
<1>3. CASE UNCHANGED verdict /\ (GoesIn \/ Pumps \/ StepFiber)
  <2>1. PICK e \in Frame :
          /\ stack' = Append(stack, e) /\ stack # << >> /\ e.kind # "program"
          /\ e.kind = "pump" => ~Pumping
          /\ e.kind = "fiber" => On({"pump"}) /\ e.of \in DOMAIN fibers' /\ fibers'[e.of] = "done"
          /\ e.kind # "fiber" => UNCHANGED fibers
    <3>1. CASE GoesIn
      BY <3>1 DEF GoesIn, FiberKinds
    <3>2. CASE Pumps
      <4> PICK f \in {0} \cup DOMAIN fibers : Push("pump", f)
        BY <3>2 DEF Pumps
      <4>1. f \in Nat
        BY <1>00
      <4>2. [kind |-> "pump", of |-> f] \in Frame
        BY <4>1, PlainFrames DEF Plain
      <4> QED BY <3>2, <4>2 DEF Pumps, Push
    <3>3. CASE StepFiber
      <4> PICK i \in Ready : Push("fiber", i) /\ fibers' = [fibers EXCEPT ![i] = "done"]
        BY <1>0, <3>3, FirstReady DEF StepFiber, TypeOK, RunOK
      <4>1. i \in Nat /\ i \in DOMAIN fibers
        BY <1>00 DEF Ready
      <4>2. [kind |-> "fiber", of |-> i] \in Frame
        BY <4>1, PlainFrames DEF Plain
      <4> QED BY <3>3, <4>1, <4>2 DEF StepFiber, Push, On
    <3> QED BY <1>3, <3>1, <3>2, <3>3
  <2> PICK n \in Nat : n = Len(stack) + 1
    BY <1>0, LenProperties DEF StackOK
  <2>2. /\ DOMAIN stack' = 1..n /\ DOMAIN stack = 1..(n - 1) /\ stack'[n] = e
        /\ \A i \in DOMAIN stack : stack'[i] = stack[i]
    BY <1>0, <2>1, Pushed
  <2>3. n > 1 /\ Top = stack[n - 1]
    <3>1. Len(stack) \in Nat \ {0} /\ Top = stack[Len(stack)]
      BY <1>0, <2>1, FrontLast DEF Top, StackOK
    <3>2. n - 1 = Len(stack)
      BY <3>1
    <3> QED BY <3>1, <3>2
  <2>4. \A i \in 1..n : stack'[i].kind = "program" => i = 1
    BY <1>0, <2>1, <2>2 DEF Shape
  <2>5. \A i, j \in 1..n : stack'[i].kind = "pump" /\ stack'[j].kind = "pump" => i = j
    BY <1>0, <2>1, <2>2 DEF Shape, Pumping
  <2>6. ASSUME NEW i \in 1..n, stack'[i].kind = "fiber"
        PROVE  /\ i > 1 /\ stack'[i - 1].kind = "pump"
               /\ stack'[i].of \in DOMAIN fibers' /\ fibers'[stack'[i].of] = "done"
    <3>1. CASE i = n
      <4>1. e.kind = "fiber" /\ stack[n - 1].kind = "pump"
        BY <2>1, <2>2, <2>3, <2>6, <3>1 DEF On
      <4>2. n - 1 \in DOMAIN stack /\ stack'[n - 1] = stack[n - 1]
        BY <2>2, <2>3
      <4> QED BY <2>1, <2>2, <2>3, <3>1, <4>1, <4>2
    <3>2. CASE i # n /\ e.kind # "fiber"
      BY <1>0, <2>1, <2>2, <2>6, <3>2 DEF Shape
    <3>3. CASE i # n /\ e.kind = "fiber"
      <4>1. i \in 1..(n - 1) /\ stack[i].kind = "fiber" /\ stack[n - 1].kind = "pump"
        BY <2>1, <2>2, <2>3, <2>6, <3>3 DEF On
      <4>2. i > 1 /\ stack[i - 1].kind = "pump"
        BY <1>0, <2>2, <4>1 DEF Shape
      <4>3. i - 1 = n - 1
        BY <1>0, <2>2, <2>3, <4>1, <4>2 DEF Shape
      <4> QED BY <4>1, <4>3
    <3> QED BY <3>1, <3>2, <3>3
  <2>7. stack'[1] = stack[1] /\ stack' # << >> /\ verdict' = "none"
    BY <1>0, <1>3, <2>1, <2>2, <2>3, AppendLast DEF Shape, StackOK
  <2> QED BY <1>0, <2>1, <2>2, <2>4, <2>5, <2>6, <2>7 DEF Shape
<1>4. CASE UNCHANGED verdict /\ (ComesOut \/ FiberEnds \/ Surface)
  <2>1. stack # << >> /\ Pop /\ verdict' = "none"
    BY <1>0, <1>4 DEF ComesOut, FiberEnds, Surface, On, Shape
  <2> PICK n \in Nat : n = Len(stack)
    BY <1>0, LenProperties DEF StackOK
  <2>2. /\ DOMAIN stack' = 1..(n - 1) /\ DOMAIN stack = 1..n /\ Top = stack[n] /\ n > 0
        /\ \A i \in DOMAIN stack' : stack'[i] = stack[i]
        /\ Len(stack') = n - 1
    BY <1>0, <2>1, Popped
  <2>3. ASSUME NEW i \in 1..(n - 1), stack[i].kind = "fiber"
        PROVE  stack[i].of \in DOMAIN fibers' /\ fibers'[stack[i].of] = "done"
    <3>1. i > 1 /\ stack[i - 1].kind = "pump" /\ stack[i].of \in DOMAIN fibers /\ fibers[stack[i].of] = "done"
      BY <1>0, <2>2, <2>3 DEF Shape
    <3>2. CASE FiberEnds
      <4>1. stack[n].kind = "fiber"
        BY <2>2, <3>2 DEF FiberEnds, On
      <4>2. n > 1 /\ stack[n - 1].kind = "pump"
        <5>1. n \in DOMAIN stack
          BY <2>2
        <5> QED BY <1>0, <4>1, <5>1 DEF Shape
      <4>3. i - 1 = n - 1
        BY <1>0, <2>2, <3>1, <4>2 DEF Shape
      <4> QED BY <4>3
    <3> QED BY <1>4, <3>1, <3>2 DEF ComesOut, Surface
  <2>4. \A i \in 1..(n - 1) : stack[i].kind = "fiber" => i > 1 /\ stack[i - 1].kind = "pump"
    BY <1>0, <2>2 DEF Shape
  <2>5. stack' # << >> => stack'[1] = stack[1]
    <3>1. stack' # << >> => n - 1 # 0
      BY <1>0, <1>4, <2>2, StackTyped, EmptyOrNot DEF StackOK
    <3> QED BY <2>2, <3>1
  <2>6. \A i \in 1..(n - 1) : stack'[i] = stack[i] /\ (stack[i].kind = "program" => i = 1)
    BY <1>0, <2>2 DEF Shape
  <2>7. \A i, j \in 1..(n - 1) : stack[i].kind = "pump" /\ stack[j].kind = "pump" => i = j
    BY <1>0, <2>2 DEF Shape
  <2>8. stack # << >> => stack[1].kind = "program" \/ stack[1] = [kind |-> "pump", of |-> 0]
    BY <1>0 DEF Shape
  <2> QED BY <2>1, <2>2, <2>3, <2>4, <2>5, <2>6, <2>7, <2>8 DEF Shape
<1>5. CASE UNCHANGED verdict /\ FailsOver
  <2>1. /\ Top.kind = "provider" /\ Len(stack) \in Nat \ {0} /\ Top = stack[Len(stack)] /\ Top \in Frame
        /\ DOMAIN stack = 1..Len(stack) /\ stack # << >>
        /\ stack' = [stack EXCEPT ![Len(stack)].of = @ - 1] /\ UNCHANGED <<fibers, verdict>>
    BY <1>0, <1>5, FrontLast DEF FailsOver, On, Top, StackOK
  <2>2. DOMAIN stack' = DOMAIN stack
        /\ \A i \in DOMAIN stack : stack'[i].kind = stack[i].kind /\ (i # Len(stack) => stack'[i] = stack[i])
    BY <2>1, OnlyOf
  <2>3. Len(stack) # 1 /\ verdict' = "none"
    BY <1>0, <2>1 DEF Shape
  <2>4. \A i \in DOMAIN stack : stack[i].kind \in {"program", "pump", "fiber"} => stack'[i] = stack[i]
    BY <2>1, <2>2
  <2>5. \A i \in DOMAIN stack : i > 1 => i - 1 \in DOMAIN stack
    BY <2>1
  <2>6. stack'[1] = stack[1]
    BY <2>1, <2>2, <2>3
  <2> QED BY <1>0, <2>1, <2>2, <2>3, <2>4, <2>5, <2>6 DEF Shape
<1>6. CASE UNCHANGED verdict /\ (BodyEnds \/ BodyThrows)
  <2>1. stack # << >> /\ verdict' = "none"
    BY <1>0, <1>6 DEF BodyEnds, BodyThrows, On, Shape
  <2>2. stack' = << >> \/ stack' = <<[kind |-> "pump", of |-> 0]>>
    BY <1>6 DEF BodyEnds, BodyThrows
  <2> QED BY <2>1, <2>2 DEF Shape
<1> QED BY <1>1, <1>2, <1>3, <1>4, <1>5, <1>6, StackMoves
-----------------------------------------------------------------------------
(* What is bound, cached and exposed.                                      *)

(* The module on top is being loaded.                                      *)
LEMMA TopLoads ==
    ASSUME IInv, stack # << >>, Top.kind = "module"
    PROVE  Top.of \in moduleInProgress /\ Top.of \in Strand /\ Len(stack) \in Open /\ Top = stack[Len(stack)]
<1>1. StackOK /\ Shape /\ KnowsWhereItIs
  BY DEF IInv, TypeOK
<1>2. Len(stack) \in DOMAIN stack /\ Top = stack[Len(stack)] /\ Top \in Frame
  BY <1>1, FrontLast DEF Top, StackOK
<1>3. Len(stack) \in Open /\ Top.of \in Strand
  BY <1>2 DEF Open, Frame, Plain
<1> QED BY <1>1, <1>2, <1>3 DEF Shape, KnowsWhereItIs

(* A step that loads nothing leaves the cache as it is, and adds names to  *)
(* nothing but a module that is being loaded.                              *)
CacheStays ==
    /\ UNCHANGED moduleCache /\ moduleInProgress' \subseteq moduleInProgress
    /\ bound' \in [Strand -> SUBSET Name] /\ \A k \in Strand : bound[k] \subseteq bound'[k]
    /\ \A k \in Strand : bound'[k] = bound[k] \/ k \in moduleInProgress
    /\ exportStack' \in Seq(SUBSET Name) /\ dirStack' \in Seq(Strand)

LEMMA CacheMoves ==
    ASSUME IInv, [Next]_vars
    PROVE  CacheStays \/ (\E k \in Strand : WeaveLoads(k)) \/ ModuleEnds
<1>0. StackOK /\ TypeOK /\ Shape /\ ModulesOK
  BY DEF IInv, TypeOK
<1>1. CASE UNCHANGED modules
  BY <1>0, <1>1 DEF modules, CacheStays, ModulesOK
<1>2. ASSUME NEW names, names \subseteq Name, Bind(stack, names), stack # << >>,
             UNCHANGED <<exportStack, dirStack, moduleCache, moduleInProgress>>
      PROVE  CacheStays
  <2>1. ASSUME NEW k \in Strand, Last(stack).kind = "module", Last(stack).of = k PROVE k \in moduleInProgress
    BY <1>2, <2>1, TopLoads DEF Top
  <2>2. /\ bound' \in [Strand -> SUBSET Name] /\ \A k \in Strand : bound[k] \subseteq bound'[k]
        /\ \A k \in Strand : bound'[k] = bound[k] \/ (Last(stack).kind = "module" /\ Last(stack).of = k)
    BY <1>0, <1>2 DEF Bind, ModulesOK
  <2> QED BY <1>0, <1>2, <2>1, <2>2 DEF CacheStays, ModulesOK
<1>3. ASSUME NEW n \in Name, Seed(n) PROVE CacheStays
  BY <1>2, <1>3 DEF Seed, On
<1>4. ASSUME NEW k \in Strand, WeaveCached(k) PROVE CacheStays
  <2>1. moduleCache[k] \subseteq Name
    BY <1>0, <1>4 DEF WeaveCached, ModulesOK
  <2> QED BY <1>2, <1>4, <2>1 DEF WeaveCached, Statement
<1>5. ASSUME NEW n \in Name, Expose(n) PROVE CacheStays
  <2>1. Len(exportStack) \in 1..Len(exportStack) /\ exportStack \in Seq(SUBSET Name)
    <3>1. Len(exportStack) = Cardinality(Open) + 1 /\ exportStack \in Seq(SUBSET Name)
      BY <1>0, <1>5, StatementsRun DEF Expose, IInv, KnowsWhereItIs, ModulesOK
    <3> QED BY <1>0, <3>1, OpenRunning
  <2>2. exportStack[Len(exportStack)] \cup {n} \in SUBSET Name
    BY <2>1, ElementOfSeq
  <2>3. exportStack' \in Seq(SUBSET Name)
    BY <1>5, <2>1, <2>2, ExceptSeq DEF Expose
  <2> QED BY <1>0, <1>5, <2>3 DEF Expose, CacheStays, ModulesOK
<1>6. CASE ModuleThrows
  <2>1. verdict = "none" /\ stack # << >>
    BY <1>0, <1>6 DEF ModuleThrows, On, Shape
  <2>2. exportStack # << >> /\ dirStack # << >>
    <3>1. Len(dirStack) = Cardinality(Open) + 1 /\ Len(exportStack) = Len(dirStack)
      BY <2>1 DEF IInv, KnowsWhereItIs
    <3>2. Len(exportStack) # 0 /\ Len(dirStack) # 0
      BY <1>0, <3>1, OpenRunning
    <3> QED BY <1>0, <3>2, EmptyOrNot DEF ModulesOK
  <2> QED BY <1>0, <1>6, <2>2, FrontLast DEF ModuleThrows, Unload, CacheStays, ModulesOK
<1>7. CASE RunEnds
  <2>1. verdict = "none"
    BY <1>7 DEF RunEnds
  <2>2. exportStack # << >> /\ dirStack # << >>
    <3>1. Len(dirStack) = Cardinality(Open) + 1 /\ Len(exportStack) = Len(dirStack)
      BY <2>1 DEF IInv, KnowsWhereItIs
    <3>2. Len(exportStack) # 0 /\ Len(dirStack) # 0
      BY <1>0, <3>1, OpenRunning
    <3> QED BY <1>0, <3>2, EmptyOrNot DEF ModulesOK
  <2> QED BY <1>0, <1>7, <2>2, FrontLast DEF RunEnds, CacheStays, ModulesOK
<1>8. CASE Statements
  BY <1>1, <1>3, <1>4, <1>5, <1>8
     DEF Statements, Weave, WeaveCircular, Raise, Enter, Test, Expect, ExpectCall, ExpectOutside, Spawn, Pump
<1>9. CASE Unwinding
  BY <1>1, <1>6, <1>9 DEF Unwinding, Leaves, Rescue, FailsOver, Passes, TestEnds, TestThrows, Record, Matches, Settle
<1>10. CASE UNCHANGED vars
  BY <1>1, <1>10 DEF vars
<1> QED BY <1>1, <1>7, <1>8, <1>9, <1>10 DEF Next, StepFiber, FiberEnds, Surface, BodyEnds, BodyThrows

(* A module that ends well: what was exposed, it has; what is cached.      *)
LEMMA Ending ==
    ASSUME IInv, ModuleEnds
    PROVE  /\ Top.of \in Strand /\ Top.of \in moduleInProgress /\ moduleInProgress' = moduleInProgress \ {Top.of}
           /\ exportStack' \in Seq(SUBSET Name) /\ dirStack' \in Seq(Strand)
           /\ bound' \in [Strand -> SUBSET Name] /\ \A k \in Strand : bound[k] \subseteq bound'[k]
           /\ \A k \in Strand : bound'[k] = bound[k] \/ (k \in moduleInProgress /\ k # Top.of)
           /\ \/ UNCHANGED moduleCache
              \/ \E names \in SUBSET Name :
                   /\ names \subseteq bound[Top.of]
                   /\ moduleCache' = [k \in DOMAIN moduleCache \cup {Top.of} |->
                                          IF k = Top.of THEN names ELSE moduleCache[k]]
<1>0. StackOK /\ TypeOK /\ Shape /\ ModulesOK
  BY DEF IInv, TypeOK
<1>1. stack # << >> /\ Top.kind = "module" /\ verdict = "none" /\ Pop
  BY <1>0 DEF ModuleEnds, On, Shape, Unload
<1>2. /\ Top.of \in moduleInProgress /\ Top.of \in Strand
      /\ Len(stack) \in Open /\ Top = stack[Len(stack)] /\ KnowsWhereItIs
  BY <1>1, TopLoads DEF IInv
<1>3. exportStack # << >> /\ dirStack # << >>
  <2>1. Len(dirStack) = Cardinality(Open) + 1 /\ Len(exportStack) = Len(dirStack)
    BY <1>1, <1>2 DEF KnowsWhereItIs
  <2>2. Len(exportStack) # 0 /\ Len(dirStack) # 0
    BY <1>0, <2>1, OpenRunning
  <2> QED BY <1>0, <2>2, EmptyOrNot DEF ModulesOK
<1>4. /\ Last(exportStack) \in SUBSET Name /\ Front(exportStack) \in Seq(SUBSET Name)
      /\ Front(dirStack) \in Seq(Strand)
  BY <1>0, <1>3, FrontLast DEF ModulesOK
<1>5. /\ Len(stack) \in Nat /\ Last(Front(stack)) = stack[Len(stack) - 1]
      /\ Len(stack) - 1 \in DOMAIN stack
  <2> DEFINE s == Front(stack)
  <2>1. /\ Len(stack) \in Nat \ {0} /\ DOMAIN stack = 1..Len(stack) /\ s \in Seq(Frame)
        /\ Len(s) = Len(stack) - 1
        /\ \A i \in 1..(Len(stack) - 1) : s[i] = stack[i]
    BY <1>0, <1>1, FrontLast DEF StackOK
  <2>2. Len(stack) # 1
    BY <1>0, <1>1, <1>2 DEF Shape
  <2>3. Last(s) = s[Len(stack) - 1]
    BY <2>1 DEF Last
  <2>4. Len(stack) - 1 \in 1..(Len(stack) - 1) /\ Len(stack) > 1
    BY <2>1, <2>2
  <2>5. Last(s) = stack[Len(stack) - 1]
    BY <2>1, <2>3, <2>4
  <2> HIDE DEF s
  <2> QED BY <2>1, <2>4, <2>5 DEF s
<1>6. ASSUME NEW k \in Strand, Last(Front(stack)).kind = "module", Last(Front(stack)).of = k
      PROVE  k \in moduleInProgress /\ k # Top.of
  <2>1. /\ Len(stack) - 1 \in Open /\ stack[Len(stack) - 1].of = k
        /\ Len(stack) \in Open /\ stack[Len(stack)].of = Top.of
    BY <1>2, <1>5, <1>6 DEF Open
  <2>2. Len(stack) - 1 # Len(stack)
    BY <1>5
  <2> QED BY <1>1, <1>2, <2>1, <2>2 DEF KnowsWhereItIs
<1>7. ASSUME Bind(Front(stack), Last(exportStack))
      PROVE  /\ bound' \in [Strand -> SUBSET Name] /\ \A k \in Strand : bound[k] \subseteq bound'[k]
             /\ \A k \in Strand : bound'[k] = bound[k] \/ (k \in moduleInProgress /\ k # Top.of)
  <2>1. /\ bound' \in [Strand -> SUBSET Name] /\ \A k \in Strand : bound[k] \subseteq bound'[k]
        /\ \A k \in Strand : bound'[k] = bound[k]
                               \/ (Last(Front(stack)).kind = "module" /\ Last(Front(stack)).of = k)
    BY <1>0, <1>4, <1>7 DEF Bind, ModulesOK
  <2> QED BY <1>6, <2>1
<1>8. CASE Last(exportStack) \subseteq bound[Top.of]
  BY <1>2, <1>4, <1>7, <1>8 DEF ModuleEnds, Unload
<1>9. CASE ~(Last(exportStack) \subseteq bound[Top.of])
  BY <1>0, <1>2, <1>4, <1>9 DEF ModuleEnds, Unload, ModulesOK
<1> QED BY <1>8, <1>9

LEMMA ModulesTyped == IInv /\ [Next]_vars => ModulesOK'
<1> SUFFICES ASSUME IInv, [Next]_vars PROVE ModulesOK'
  OBVIOUS
<1>0. ModulesOK
  BY DEF IInv, TypeOK
<1>1. CASE CacheStays
  BY <1>0, <1>1 DEF CacheStays, ModulesOK
<1>2. ASSUME NEW k \in Strand, WeaveLoads(k) PROVE ModulesOK'
  <2>1. {} \in SUBSET Name
    OBVIOUS
  <2>2. exportStack' \in Seq(SUBSET Name) /\ dirStack' \in Seq(Strand)
    BY <1>0, <1>2, <2>1, AppendLast DEF WeaveLoads, ModulesOK
  <2> QED BY <1>0, <1>2, <2>2 DEF WeaveLoads, ModulesOK
<1>3. CASE ModuleEnds
  <2>1. DOMAIN moduleCache' \subseteq Strand /\ moduleCache' \in [DOMAIN moduleCache' -> SUBSET Name]
    BY <1>0, <1>3, Ending DEF ModulesOK
  <2> QED BY <1>0, <1>3, <2>1, Ending DEF ModulesOK
<1> QED BY <1>1, <1>2, <1>3, CacheMoves

LEMMA CachedKept == IInv /\ [Next]_vars => CachedIsWhole'
<1> SUFFICES ASSUME IInv, [Next]_vars PROVE CachedIsWhole'
  OBVIOUS
<1>0. ModulesOK /\ CachedIsWhole
  BY DEF IInv, TypeOK
<1>1. CASE CacheStays
  BY <1>0, <1>1 DEF CacheStays, ModulesOK, CachedIsWhole
<1>2. ASSUME NEW k \in Strand, WeaveLoads(k) PROVE CachedIsWhole'
  BY <1>0, <1>2 DEF WeaveLoads, ModulesOK, CachedIsWhole
<1>3. CASE ModuleEnds
  <2>1. CASE UNCHANGED moduleCache
    BY <1>0, <1>3, <2>1, Ending DEF ModulesOK, CachedIsWhole
  <2>2. ASSUME NEW names \in SUBSET Name, names \subseteq bound[Top.of],
               moduleCache' = [k \in DOMAIN moduleCache \cup {Top.of} |->
                                  IF k = Top.of THEN names ELSE moduleCache[k]]
        PROVE  CachedIsWhole'
    BY <1>0, <1>3, <2>2, Ending DEF ModulesOK, CachedIsWhole
  <2> QED BY <1>3, <2>1, <2>2, Ending
<1> QED BY <1>1, <1>2, <1>3, CacheMoves
-----------------------------------------------------------------------------
(* Fibers, tests and what becomes of a failed expectation.                 *)
LEMMA RunTyped == IInv /\ [Next]_vars => RunOK'
<1> SUFFICES ASSUME IInv, [Next]_vars PROVE RunOK'
  OBVIOUS
<1>0. RunOK /\ StackOK /\ TypeOK
  BY DEF IInv, TypeOK
<1>1. fibers \in Seq({"ready", "done"} \cup Errors) /\ verdict \in {"none", "ran", "load error"}
      /\ DOMAIN fibers = 1..Len(fibers)
  BY <1>0, FibersNumbered DEF RunOK
<1>2. CASE RunEnds
  BY <1>1, <1>2 DEF RunEnds, RunOK
<1>3. CASE UNCHANGED verdict /\ StaysPut
  <2>1. Append(fibers, "ready") \in Seq({"ready", "done"} \cup Errors)
    BY <1>1, AppendLast
  <2> QED BY <1>1, <1>3, <2>1 DEF StaysPut, RunOK
<1>4. CASE UNCHANGED verdict /\ StepFiber
  <2>1. PICK i \in Ready : fibers' = [fibers EXCEPT ![i] = "done"]
    BY <1>1, <1>4, FirstReady DEF StepFiber
  <2>2. i \in 1..Len(fibers) /\ "done" \in {"ready", "done"} \cup Errors
    BY <1>1 DEF Ready
  <2>3. fibers' \in Seq({"ready", "done"} \cup Errors)
    BY <1>1, <2>1, <2>2, ExceptSeq
  <2> QED BY <1>1, <1>4, <2>3 DEF RunOK
<1>5. CASE UNCHANGED verdict /\ FiberEnds
  <2>1. fibers' = fibers \/ (flying \in Errors /\ fibers' = [fibers EXCEPT ![Top.of] = flying])
    BY <1>5 DEF FiberEnds
  <2>2. Top.of \in 1..Len(fibers)
    <3>1. stack # << >> /\ Top.kind = "fiber"
      BY <1>5 DEF FiberEnds, On
    <3>2. Len(stack) \in DOMAIN stack /\ Top = stack[Len(stack)]
      BY <1>0, <3>1, TopFrame
    <3> QED BY <1>1, <3>1, <3>2 DEF IInv, Shape
  <2>3. fibers' \in Seq({"ready", "done"} \cup Errors)
    <3>1. CASE flying \in Errors /\ fibers' = [fibers EXCEPT ![Top.of] = flying]
      <4> DEFINE i == Top.of
      <4>1. flying \in {"ready", "done"} \cup Errors /\ i \in 1..Len(fibers)
        BY <2>2, <3>1
      <4> HIDE DEF i
      <4>2. [fibers EXCEPT ![i] = flying] \in Seq({"ready", "done"} \cup Errors)
        BY <1>1, <4>1, ExceptSeq
      <4> QED BY <3>1, <4>2 DEF i
    <3> QED BY <1>1, <2>1, <3>1
  <2> QED BY <1>1, <1>5, <2>3 DEF RunOK
<1>6. CASE UNCHANGED <<verdict, fibers>>
  BY <1>1, <1>6 DEF RunOK
<1> QED BY <1>2, <1>3, <1>4, <1>5, <1>6, StackMoves
        DEF GoesIn, Pumps, ComesOut, FailsOver, Surface, BodyEnds, BodyThrows

(* Only a running test counts expectations.                                *)
LEMMA CountedIn ==
    ASSUME IInv, inTest # 0, Counted, KnowsWhereItIs, verdict = "none"
    PROVE  /\ asserts' \in Seq(Nat) /\ DOMAIN asserts' = DOMAIN asserts /\ Len(asserts') = Len(asserts)
           /\ \A t \in DOMAIN asserts : asserts'[t] >= asserts[t]
           /\ inTest \in DOMAIN asserts /\ asserts[inTest] \in Nat
<1>1. asserts \in Seq(Nat) /\ Len(asserts) \in Nat /\ DOMAIN asserts = 1..Len(asserts)
  BY LenProperties DEF IInv, TypeOK, TestsOK
<1>2. \A t \in DOMAIN asserts : asserts[t] \in Nat
  BY <1>1, ElementOfSeq
<1>3. inTest \in DOMAIN asserts
  BY DEF IInv, TestsKept, KnowsWhereItIs, Innermost
<1>4. asserts[inTest] + 1 \in Nat /\ asserts' = [asserts EXCEPT ![inTest] = asserts[inTest] + 1]
  BY <1>2, <1>3 DEF Counted
<1>5. /\ asserts' \in Seq(Nat) /\ Len(asserts') = Len(asserts)
      /\ \A t \in 1..Len(asserts) : asserts'[t] = IF t = inTest THEN asserts[inTest] + 1 ELSE asserts[t]
  BY <1>1, <1>3, <1>4, ExceptSeq
<1>6. DOMAIN asserts' = DOMAIN asserts
  BY <1>4
<1>7. ASSUME NEW t \in DOMAIN asserts PROVE asserts'[t] >= asserts[t]
  <2>1. asserts[t] \in Nat /\ asserts'[t] = IF t = inTest THEN asserts[inTest] + 1 ELSE asserts[t]
    BY <1>1, <1>2, <1>5, <1>7
  <2> QED BY <2>1
<1> QED BY <1>2, <1>3, <1>5, <1>6, <1>7

(* Counting happens in statements.                                         *)
LEMMA CountingRuns == IInv /\ [Next]_vars /\ asserts' # asserts => verdict = "none"
BY StatementsRun DEF IInv, Shape, Next, Statements, Unwinding, Seed, Expose, Weave, WeaveCached, WeaveCircular,
   WeaveLoads, Raise, Enter, Test, Expect, ExpectCall, ExpectOutside, Spawn, Pump, ModuleEnds, ModuleThrows,
   Leaves, Rescue, FailsOver, Passes, TestEnds, TestThrows, Record, Matches, Settle, StepFiber,
   FiberEnds, Surface, BodyEnds, BodyThrows, RunEnds, vars, tests

(* What a test that ends leaves: its record.                               *)
LEMMA Recording ==
    ASSUME IInv, TestEnds \/ TestThrows
    PROVE  \E ok \in BOOLEAN :
             /\ ok => asserts[Top.of.id] > 0
             /\ TestThrows => ~ok
             /\ testResults' = Append(testResults, [test |-> Top.of.id, ok |-> ok])
             /\ [test |-> Top.of.id, ok |-> ok] \in [test : Nat, ok : BOOLEAN]
             /\ Len(stack) \in Running /\ Top = stack[Len(stack)] /\ Top.of.id \in DOMAIN asserts
             /\ Top.of.prev \in Nat /\ inTest' = Top.of.prev /\ UNCHANGED <<asserts, verdict>>
             /\ Pop /\ stack # << >> /\ flying' = "none"
<1>1. StackOK /\ stack # << >> /\ Top.kind = "test"
  BY DEF IInv, TypeOK, TestEnds, TestThrows, On
<1>2. Len(stack) \in DOMAIN stack /\ Top = stack[Len(stack)] /\ Top \in Frame
  BY <1>1, FrontLast DEF Top, StackOK
<1>3. Len(stack) \in Running /\ Top.of \in [id : Nat, prev : Nat]
  BY <1>1, <1>2 DEF Running, Frame, Plain
<1>4. Top.of.id \in DOMAIN asserts
  BY <1>2, <1>3 DEF IInv, TestsKept
<1>5. CASE TestEnds
  <2>1. CASE asserts[Top.of.id] > 0
    <3>1. Record(TRUE)
      BY <1>5, <2>1 DEF TestEnds, Record
    <3>2. [test |-> Top.of.id, ok |-> TRUE] \in [test : Nat, ok : BOOLEAN]
      BY <1>3
    <3>3. ~TestThrows
      BY <1>5 DEF TestEnds, TestThrows
    <3> QED BY <1>1, <1>2, <1>3, <1>4, <2>1, <3>1, <3>2, <3>3 DEF Record
  <2>2. CASE ~(asserts[Top.of.id] > 0)
    <3>0. (asserts[Top.of.id] > 0) = FALSE
      BY <2>2
    <3>1. Record(FALSE)
      BY <1>5, <3>0, Zenon DEF TestEnds
    <3>2. [test |-> Top.of.id, ok |-> FALSE] \in [test : Nat, ok : BOOLEAN]
      BY <1>3
    <3> QED BY <1>1, <1>2, <1>3, <1>4, <3>1, <3>2 DEF Record
  <2> QED BY <2>1, <2>2
<1>6. CASE TestThrows
  <2>1. Record(FALSE)
    BY <1>6 DEF TestThrows
  <2>2. [test |-> Top.of.id, ok |-> FALSE] \in [test : Nat, ok : BOOLEAN]
    BY <1>3
  <2> QED BY <1>1, <1>2, <1>3, <1>4, <2>1, <2>2 DEF Record
<1> QED BY <1>5, <1>6

LEMMA TestsTyped == IInv /\ [Next]_vars => TestsOK'
<1> SUFFICES ASSUME IInv, [Next]_vars PROVE TestsOK'
  OBVIOUS
<1>0. TestsOK /\ KnowsWhereItIs
  BY DEF IInv, TypeOK
<1>1. CASE TestsStay
  <2>1. asserts' \in Seq(Nat)
    BY <1>0, <1>1, CountedIn, CountingRuns DEF TestsStay, TestsOK
  <2> QED BY <1>0, <1>1, <2>1 DEF TestsStay, TestsOK
<1>2. CASE Test
  <2>1. asserts' \in Seq(Nat) /\ Len(asserts) \in Nat
    BY <1>0, <1>2, AppendLast DEF Test, TestsOK
  <2> QED BY <1>0, <1>2, <2>1 DEF Test, TestsOK
<1>3. CASE TestEnds \/ TestThrows
  <2>1. PICK ok \in BOOLEAN :
          /\ testResults' = Append(testResults, [test |-> Top.of.id, ok |-> ok])
          /\ [test |-> Top.of.id, ok |-> ok] \in [test : Nat, ok : BOOLEAN]
          /\ inTest' \in Nat /\ UNCHANGED asserts
    BY <1>3, Recording
  <2>2. testResults' \in Seq([test : Nat, ok : BOOLEAN])
    BY <1>0, <2>1, AppendLast DEF TestsOK
  <2> QED BY <1>0, <2>1, <2>2 DEF TestsOK
<1> QED BY <1>1, <1>2, <1>3, TestMoves
LEMMA TestsKeptOn == IInv /\ [Next]_vars => TestsKept'
<1> SUFFICES ASSUME IInv, [Next]_vars PROVE TestsKept'
  OBVIOUS
<1>0. StackOK /\ TypeOK /\ TestsOK /\ KnowsWhereItIs /\ TestsKept
  BY DEF IInv, TypeOK
<1>1. /\ asserts \in Seq(Nat) /\ Len(asserts) \in Nat /\ DOMAIN asserts = 1..Len(asserts)
      /\ testResults \in Seq([test : Nat, ok : BOOLEAN]) /\ Len(testResults) \in Nat
      /\ DOMAIN testResults = 1..Len(testResults)
  BY <1>0, LenProperties DEF TestsOK
<1>2. /\ \A t \in DOMAIN asserts : asserts[t] \in Nat
      /\ IsFiniteSet(Running) /\ Cardinality(Running) \in Nat
  BY <1>0, <1>1, ElementOfSeq, OpenRunning
<1>3. CASE TestsStay
  <2>1. /\ DOMAIN asserts' = DOMAIN asserts /\ Len(asserts') = Len(asserts)
        /\ \A t \in DOMAIN asserts : asserts'[t] >= asserts[t] /\ asserts'[t] \in Nat
    <3>1. CASE asserts' = asserts
      BY <1>2, <3>1
    <3>2. CASE asserts' # asserts
      <4>1. inTest # 0 /\ Counted /\ verdict = "none"
        BY <1>3, <3>2, CountingRuns DEF TestsStay
      <4>2. /\ asserts' \in Seq(Nat) /\ DOMAIN asserts' = DOMAIN asserts /\ Len(asserts') = Len(asserts)
            /\ \A t \in DOMAIN asserts : asserts'[t] >= asserts[t]
        BY <1>0, <4>1, CountedIn
      <4>3. \A t \in DOMAIN asserts : asserts'[t] \in Nat
        BY <1>1, <4>2, ElementOfSeq
      <4> QED BY <4>2, <4>3
    <3> QED BY <3>1, <3>2
  <2>2. Running' = Running /\ (\A i \in Running : stack'[i] = stack[i]) /\ testResults' = testResults
    BY <1>3 DEF TestsStay, SameTests
  <2>3. ASSUME NEW i \in DOMAIN testResults, testResults[i].ok
        PROVE  asserts'[testResults[i].test] > 0
    <3>1. testResults[i].test \in DOMAIN asserts /\ asserts[testResults[i].test] > 0
      BY <1>0, <2>3 DEF TestsKept
    <3> QED BY <1>2, <2>1, <3>1
  <2>4. /\ \A i \in Running' : stack'[i].of.id \in DOMAIN asserts'
        /\ Len(testResults') + Cardinality(Running') = Len(asserts')
        /\ \A t \in DOMAIN asserts' :
             \/ \E i \in Running' : stack'[i].of.id = t
             \/ \E i \in DOMAIN testResults' : testResults'[i].test = t
    BY <1>0, <2>1, <2>2 DEF TestsKept
  <2>5. \A i \in DOMAIN testResults' : testResults'[i].test \in DOMAIN asserts'
    BY <1>0, <2>1, <2>2 DEF TestsKept
  <2> QED BY <2>2, <2>3, <2>4, <2>5 DEF TestsKept
<1>4. CASE Test
  <2> DEFINE e == [kind |-> "test", of |-> [id |-> Len(asserts) + 1, prev |-> inTest]]
  <2>0. e \in Frame /\ stack' = Append(stack, e) /\ e.kind = "test" /\ e.of.id = Len(asserts) + 1
    BY <1>0, <1>4, PlainFrames DEF Test, Push
  <2> HIDE DEF e
  <2> PICK n \in Nat : n = Len(stack) + 1
    BY <1>0, LenProperties DEF StackOK
  <2>1. /\ Running' = Running \cup {n} /\ n \notin Running /\ stack'[n].of.id = Len(asserts) + 1
        /\ \A j \in Running : stack'[j] = stack[j]
    BY <1>0, <2>0, Pushed
  <2>2. Cardinality(Running') = Cardinality(Running) + 1
    BY <1>2, <2>1, FS_AddElement
  <2>3. /\ DOMAIN asserts' = 1..(Len(asserts) + 1) /\ Len(asserts') = Len(asserts) + 1
        /\ \A t \in 1..Len(asserts) : asserts'[t] = asserts[t]
        /\ testResults' = testResults
    BY <1>1, <1>4, AppendLast DEF Test
  <2>4. \A i \in Running' : stack'[i].of.id \in DOMAIN asserts'
    BY <1>0, <1>1, <2>1, <2>3 DEF TestsKept
  <2>5. Len(testResults') + Cardinality(Running') = Len(asserts')
    <3>1. Len(testResults) + Cardinality(Running) = Len(asserts) /\ Len(testResults') = Len(testResults)
      BY <1>0, <2>3 DEF TestsKept
    <3>2. /\ Len(testResults) \in Nat /\ Cardinality(Running) \in Nat /\ Len(asserts) \in Nat
          /\ Len(asserts') = Len(asserts) + 1
      BY <1>1, <1>2, <2>3
    <3> QED BY <2>2, <3>1, <3>2
  <2>6. ASSUME NEW t \in DOMAIN asserts'
        PROVE  \/ \E i \in Running' : stack'[i].of.id = t
               \/ \E i \in DOMAIN testResults' : testResults'[i].test = t
    <3>1. CASE t = Len(asserts) + 1
      BY <2>1, <3>1
    <3>2. CASE t \in DOMAIN asserts
      BY <1>0, <2>1, <2>3, <3>2 DEF TestsKept
    <3> QED BY <1>1, <2>3, <3>1, <3>2
  <2>7. \A i \in DOMAIN testResults' :
          /\ testResults'[i].test \in DOMAIN asserts'
          /\ testResults'[i].ok => asserts'[testResults'[i].test] > 0
    BY <1>0, <1>1, <2>3 DEF TestsKept
  <2> QED BY <2>4, <2>5, <2>6, <2>7 DEF TestsKept
<1>5. CASE TestEnds \/ TestThrows
  <2>1. PICK ok \in BOOLEAN :
          /\ ok => asserts[Top.of.id] > 0
          /\ testResults' = Append(testResults, [test |-> Top.of.id, ok |-> ok])
          /\ [test |-> Top.of.id, ok |-> ok] \in [test : Nat, ok : BOOLEAN]
          /\ Len(stack) \in Running /\ Top = stack[Len(stack)] /\ Top.of.id \in DOMAIN asserts
          /\ UNCHANGED asserts /\ Pop /\ stack # << >>
    BY <1>5, Recording
  <2> DEFINE r == [test |-> Top.of.id, ok |-> ok]
  <2>2. r.test = Top.of.id /\ r.ok = ok /\ r \in [test : Nat, ok : BOOLEAN]
    BY <2>1
  <2>3. testResults' = Append(testResults, r)
    BY <2>1
  <2> HIDE DEF r
  <2>4. /\ DOMAIN testResults' = 1..(Len(testResults) + 1) /\ Len(testResults') = Len(testResults) + 1
        /\ \A i \in 1..Len(testResults) : testResults'[i] = testResults[i]
        /\ testResults'[Len(testResults) + 1] = r
    BY <1>1, <2>2, <2>3, AppendLast
  <2> PICK n \in Nat : n = Len(stack)
    BY <1>0, LenProperties DEF StackOK
  <2>5. /\ Running' = Running \ {n} /\ \A i \in Running : i # n => stack'[i] = stack[i]
    BY <1>0, <2>1, Popped
  <2>6. Cardinality(Running') = Cardinality(Running) - 1
    BY <1>2, <2>1, <2>5, FS_RemoveElement
  <2>7. Len(testResults') + Cardinality(Running') = Len(asserts')
    <3>1. Len(testResults) + Cardinality(Running) = Len(asserts) /\ Len(asserts') = Len(asserts)
      BY <1>0, <2>1 DEF TestsKept
    <3> QED BY <1>1, <1>2, <2>4, <2>6, <3>1
  <2>8. \A i \in Running' : stack'[i].of.id \in DOMAIN asserts'
    BY <1>0, <2>1, <2>5 DEF TestsKept
  <2>9. ASSUME NEW t \in DOMAIN asserts'
        PROVE  \/ \E i \in Running' : stack'[i].of.id = t
               \/ \E i \in DOMAIN testResults' : testResults'[i].test = t
    <3>1. CASE t = Top.of.id
      <4>1. testResults'[Len(testResults) + 1].test = t /\ Len(testResults) + 1 \in DOMAIN testResults'
        BY <1>1, <2>2, <2>4, <3>1
      <4> QED BY <4>1
    <3>2. ASSUME t # Top.of.id, NEW i \in Running, stack[i].of.id = t
          PROVE  \E j \in Running' : stack'[j].of.id = t
      BY <2>1, <2>5, <3>2
    <3>3. ASSUME NEW i \in DOMAIN testResults, testResults[i].test = t
          PROVE  \E j \in DOMAIN testResults' : testResults'[j].test = t
      BY <1>1, <2>4, <3>3
    <3> QED BY <1>0, <2>1, <3>1, <3>2, <3>3 DEF TestsKept
  <2>10. ASSUME NEW i \in DOMAIN testResults'
         PROVE  /\ testResults'[i].test \in DOMAIN asserts'
                /\ testResults'[i].ok => asserts'[testResults'[i].test] > 0
    <3>1. CASE i = Len(testResults) + 1
      BY <2>1, <2>2, <2>4, <3>1
    <3>2. CASE i \in DOMAIN testResults
      BY <1>0, <1>1, <2>1, <2>4, <3>2 DEF TestsKept
    <3> QED BY <1>1, <2>4, <3>1, <3>2
  <2> QED BY <2>7, <2>8, <2>9, <2>10 DEF TestsKept
<1> QED BY <1>3, <1>4, <1>5, TestMoves

(* A failed expectation is on its way until a router, a fiber, a test or   *)
(* the end of the run has it, and no other step of them makes one.         *)
LEMMA AssertMoves ==
    ASSUME [Next]_vars
    PROVE  /\ flying = "assert" => flying' = "assert" \/ (FailsOver /\ masked') \/ FiberEnds \/ TestThrows \/ RunEnds
           /\ missed' => missed \/ flying' = "assert"
           /\ masked => masked'
<1>1. flying = "assert" => flying' = "assert" \/ FailsOver \/ FiberEnds \/ TestThrows \/ RunEnds
  <2>1. Statements => flying = "none"
    BY DEF Statements, Seed, Expose, Weave, WeaveCached, WeaveCircular, WeaveLoads, Raise, Enter, Test,
       Expect, ExpectCall, ExpectOutside, Spawn, Pump, Statement
  <2>2. ASSUME Unwinding, flying = "assert" PROVE flying' = "assert" \/ FailsOver \/ TestThrows
    BY <2>2 DEF Unwinding, ModuleEnds, ModuleThrows, Leaves, Rescue, Passes, TestEnds, Matches
  <2> QED BY <2>1, <2>2 DEF Next, StepFiber, Surface, BodyEnds, BodyThrows, vars
<1>2. UNCHANGED <<missed, masked>> \/ (\E e : Finds(e) /\ UNCHANGED masked) \/ FailsOver
  <2>1. Statements => UNCHANGED <<missed, masked>> \/ (\E e : Finds(e) /\ UNCHANGED masked)
    BY DEF Statements, Seed, Expose, Weave, WeaveCached, WeaveCircular, WeaveLoads, Raise, Enter, Test,
       Expect, ExpectCall, ExpectOutside, Spawn, Pump, Statement
  <2>2. Unwinding => UNCHANGED <<missed, masked>> \/ (\E e : Finds(e) /\ UNCHANGED masked) \/ FailsOver
    BY DEF Unwinding, ModuleEnds, ModuleThrows, Leaves, Rescue, Passes, TestEnds, TestThrows, Record,
       Matches, Settle, history
  <2>3. StepFiber \/ FiberEnds \/ Surface \/ BodyEnds \/ BodyThrows \/ RunEnds \/ UNCHANGED vars
          => UNCHANGED <<missed, masked>>
    BY DEF StepFiber, FiberEnds, Surface, BodyEnds, BodyThrows, RunEnds, vars, history
  <2> QED BY <2>1, <2>2, <2>3 DEF Next
<1>3. FailsOver => missed' = missed /\ masked' = (masked \/ flying = "assert")
  BY DEF FailsOver
<1>4. \A e : Finds(e) => flying' = e /\ missed' = (missed \/ e = "assert")
  BY DEF Finds
<1>5. flying = "assert" => flying' = "assert" \/ (FailsOver /\ masked') \/ FiberEnds \/ TestThrows \/ RunEnds
  BY <1>1, <1>3, Zenon
<1>6. missed' => missed \/ flying' = "assert"
  BY <1>2, <1>3, <1>4, Zenon
<1>7. masked => masked'
  BY <1>2, <1>3, Zenon
<1> QED BY <1>5, <1>6, <1>7

(* What is held in a fiber stays.                                          *)
LEMMA HeldStays ==
    ASSUME IInv, [Next]_vars
    PROVE  /\ \A f \in DOMAIN fibers : fibers[f] = "assert" => f \in DOMAIN fibers' /\ fibers'[f] = "assert"
           /\ FiberEnds /\ flying = "assert" => \E f \in DOMAIN fibers' : fibers'[f] = "assert"
<1>0. StackOK /\ TypeOK /\ Shape
  BY DEF IInv, TypeOK
<1>1. fibers \in Seq({"ready", "done"} \cup Errors) /\ DOMAIN fibers = 1..Len(fibers) /\ Len(fibers) \in Nat
  BY <1>0, FibersNumbered DEF TypeOK, RunOK
<1>2. CASE FiberEnds
  <2>1. stack # << >> /\ Top.kind = "fiber"
    BY <1>2 DEF FiberEnds, On
  <2>2. Top.of \in DOMAIN fibers /\ fibers[Top.of] = "done"
    BY <1>0, <2>1, TopFrame DEF Shape
  <2>3. fibers' = IF flying \in Errors THEN [fibers EXCEPT ![Top.of] = flying] ELSE fibers
    BY <1>2 DEF FiberEnds
  <2> QED BY <2>2, <2>3 DEF Errors
<1>3. CASE StaysPut
  <2>1. \A f \in DOMAIN fibers : f \in DOMAIN Append(fibers, "ready") /\ Append(fibers, "ready")[f] = fibers[f]
    BY <1>1, AppendLast
  <2>2. ~FiberEnds
    <3>1. FiberEnds => Pop /\ stack # << >>
      BY DEF FiberEnds, On
    <3>2. Pop /\ stack # << >> => stack' # stack
      BY <1>0, Popped, TopFrame
    <3> QED BY <1>3, <3>1, <3>2 DEF StaysPut
  <2> QED BY <1>3, <2>1, <2>2 DEF StaysPut
<1>4. CASE StepFiber
  <2>1. PICK i \in Ready : fibers' = [fibers EXCEPT ![i] = "done"]
    BY <1>1, <1>4, FirstReady DEF StepFiber
  <2>2. On({"pump"})
    BY <1>4 DEF StepFiber
  <2> QED BY <2>1, <2>2 DEF Ready, FiberEnds, On
<1>5. CASE UNCHANGED fibers /\ ~FiberEnds
  BY <1>5
<1> QED BY <1>2, <1>3, <1>4, <1>5, StackMoves
        DEF GoesIn, Pumps, ComesOut, FailsOver, Surface, BodyEnds, BodyThrows, RunEnds

LEMMA AccountedKept == IInv /\ [Next]_vars => Accounted'
<1> SUFFICES ASSUME IInv, [Next]_vars, missed' PROVE Accounted'
  BY DEF Accounted
<1>1. /\ testResults \in Seq([test : Nat, ok : BOOLEAN]) /\ Len(testResults) \in Nat
      /\ DOMAIN testResults = 1..Len(testResults)
  BY LenProperties DEF IInv, TypeOK, TestsOK
<1>2. \A i \in DOMAIN testResults : i \in DOMAIN testResults' /\ testResults'[i] = testResults[i]
  <2>1. CASE testResults' = testResults
    BY <2>1
  <2>2. CASE TestEnds \/ TestThrows
    <3>1. PICK r \in [test : Nat, ok : BOOLEAN] : testResults' = Append(testResults, r)
      BY <2>2, Recording
    <3> QED BY <1>1, <3>1, AppendLast
  <2>3. CASE Test
    BY <2>3 DEF Test
  <2> QED BY <2>1, <2>2, <2>3, TestMoves DEF TestsStay
<1>3. CASE masked
  BY <1>3, AssertMoves DEF Accounted
<1>4. CASE verdict = "load error"
  BY <1>4, StackMoves DEF Accounted, RunEnds
<1>5. CASE \E f \in DOMAIN fibers : fibers[f] = "assert"
  BY <1>5, HeldStays DEF Accounted
<1>6. CASE \E i \in DOMAIN testResults : ~testResults[i].ok
  BY <1>2, <1>6 DEF Accounted
<1>7. CASE flying' = "assert"
  BY <1>7 DEF Accounted
<1>8. CASE flying = "assert" /\ flying' # "assert"
  <2>1. CASE FailsOver /\ masked'
    BY <2>1 DEF Accounted
  <2>2. CASE FiberEnds
    BY <1>8, <2>2, HeldStays DEF Accounted
  <2>3. CASE TestThrows
    <3>1. PICK r \in [test : Nat, ok : BOOLEAN] : testResults' = Append(testResults, r) /\ ~r.ok
      <4>1. PICK ok \in BOOLEAN :
              /\ ~ok /\ testResults' = Append(testResults, [test |-> Top.of.id, ok |-> ok])
              /\ [test |-> Top.of.id, ok |-> ok] \in [test : Nat, ok : BOOLEAN]
        BY <2>3, Recording
      <4>2. ~[test |-> Top.of.id, ok |-> ok].ok
        BY <4>1
      <4> QED BY <4>1, <4>2
    <3>2. Len(testResults) + 1 \in DOMAIN testResults' /\ testResults'[Len(testResults) + 1] = r
      BY <1>1, <3>1, AppendLast
    <3> QED BY <3>1, <3>2 DEF Accounted
  <2>4. CASE RunEnds
    BY <1>8, <2>4 DEF RunEnds, Accounted
  <2> QED BY <1>8, <2>1, <2>2, <2>3, <2>4, AssertMoves
<1>9. missed \/ flying' = "assert"
  BY AssertMoves
<1> QED BY <1>3, <1>4, <1>5, <1>6, <1>7, <1>8, <1>9 DEF IInv, Accounted

LEMMA NothingHeldKept == IInv /\ [Next]_vars => NothingHeld'
<1> SUFFICES ASSUME IInv, [Next]_vars PROVE NothingHeld'
  OBVIOUS
<1>0. StackOK /\ Shape /\ NothingHeld /\ TypeOK
  BY DEF IInv, TypeOK
<1>1. CASE RunEnds
  BY <1>0, <1>1 DEF RunEnds, NothingHeld
<1>2. CASE UNCHANGED verdict /\ StaysPut
  BY <1>0, <1>2 DEF StaysPut, NothingHeld, vars
<1>3. ASSUME NEW e \in Frame, stack' = Append(stack, e) PROVE stack' # << >>
  BY <1>0, <1>3, AppendLast DEF StackOK
<1>4. ASSUME GoesIn \/ Pumps \/ StepFiber PROVE stack' # << >>
  <2>1. CASE GoesIn
    BY <1>3, <2>1 DEF GoesIn
  <2>2. CASE Pumps
    <3> PICK x \in {0} \cup DOMAIN fibers : Push("pump", x)
      BY <2>2 DEF Pumps
    <3>1. x \in Nat
      BY <1>0, FibersNumbered
    <3> QED BY <1>3, <3>1, PlainFrames DEF Push, Plain
  <2>3. CASE StepFiber
    <3>1. PICK i \in Ready : Push("fiber", i)
      BY <2>3, FirstReady DEF StepFiber, IInv, TypeOK, RunOK
    <3>2. i \in Nat
      BY <2>3, FirstReady DEF StepFiber, IInv, TypeOK, RunOK
    <3> QED BY <1>3, <3>1, <3>2, PlainFrames DEF Push, Plain
  <2> QED BY <1>4, <2>1, <2>2, <2>3
<1>5. ASSUME Pop, stack # << >>, stack' = << >> PROVE Top = stack[1]
  <2>1. Len(stack') = Len(stack) - 1 /\ Len(stack) \in Nat /\ Top = stack[Len(stack)]
    BY <1>0, <1>5, Popped
  <2>2. Len(stack') = 0
    BY <1>5, EmptySeq
  <2>3. Len(stack) = 1
    BY <2>1, <2>2
  <2> QED BY <2>1, <2>3
<1>6. ASSUME ComesOut \/ FiberEnds PROVE stack' # << >>
  BY <1>0, <1>5, <1>6 DEF ComesOut, FiberEnds, On, FiberKinds, Shape
<1>7. CASE Surface
  <2>1. stack' = << >> => Top = [kind |-> "pump", of |-> 0]
    BY <1>0, <1>5, <1>7 DEF Surface, On, Shape
  <2> DEFINE held == {i \in DOMAIN fibers : fibers[i] \in Errors /\ Top.of \in {0, i}}
             first == CHOOSE i \in held : \A h \in held : i <= h
  <2>2. flying' = IF held = {} THEN "none" ELSE fibers[first]
    BY <1>7 DEF Surface
  <2>3. ASSUME held # {} PROVE flying' # "none"
    <3>1. held \in SUBSET Nat
      BY <1>0, FibersNumbered
    <3>2. first \in held
      BY <2>3, <3>1, Least
    <3>3. fibers[first] # "none"
      BY <3>2 DEF Errors
    <3> HIDE DEF first, held
    <3> QED BY <2>2, <2>3, <3>3
  <2>4. fibers' = fibers
    BY <1>7 DEF Surface
  <2>5. stack' = << >> => Top.of = 0
    BY <2>1
  <2>6. stack' = << >> /\ flying' = "none" => \A f \in DOMAIN fibers : fibers[f] \notin Errors
    BY <2>3, <2>5
  <2> QED BY <2>4, <2>6 DEF NothingHeld
<1>8. CASE BodyEnds \/ BodyThrows
  <2>1. stack' = << >> => fibers' = << >> \/ flying' \in Errors
    BY <1>8 DEF BodyEnds, BodyThrows
  <2>2. DOMAIN << >> = {}
    OBVIOUS
  <2>3. "none" \notin Errors
    BY DEF Errors
  <2> QED BY <2>1, <2>2, <2>3 DEF NothingHeld
<1>9. ASSUME FailsOver PROVE stack' # << >>
  <2>1. stack # << >> /\ stack' = [stack EXCEPT ![Len(stack)].of = @ - 1]
    BY <1>9 DEF FailsOver, On
  <2>2. 1 \in DOMAIN stack
    <3>1. Len(stack) \in Nat \ {0} /\ DOMAIN stack = 1..Len(stack)
      BY <1>0, <2>1, TopFrame
    <3> QED BY <3>1
  <2>3. 1 \in DOMAIN stack'
    BY <1>0, <2>1, <2>2, OnlyOf, TopFrame
  <2> QED BY <2>3
<1> QED BY <1>1, <1>2, <1>4, <1>6, <1>7, <1>8, <1>9, StackMoves DEF NothingHeld
-----------------------------------------------------------------------------
(* The invariant holds at first, and is kept.                              *)
LEMMA Starts == Init => IInv
<1> SUFFICES ASSUME Init PROVE IInv
  OBVIOUS
<1> DEFINE p == [kind |-> "program", of |-> Main]
<1>1. p \in Frame /\ p.kind = "program" /\ stack = <<p>>
  BY DEF Init, Frame
<1> HIDE DEF p
<1>2. StackOK
  BY <1>1 DEF StackOK, Init
<1>3. ModulesOK
  <2>1. {} \in SUBSET Name /\ Main \in Strand
    BY StrandsAssumption
  <2>2. << {} >> \in Seq(SUBSET Name) /\ <<Main>> \in Seq(Strand)
    BY <2>1
  <2> QED BY <2>2 DEF ModulesOK, Init
<1>4. TestsOK /\ RunOK
  BY DEF TestsOK, RunOK, Init
<1>5. Open = {} /\ Running = {}
  BY <1>1, NothingThere
<1>6. Shape
  BY <1>1 DEF Shape, Init
<1>7. KnowsWhereItIs /\ TestsNest
  BY <1>5, FS_EmptySet DEF KnowsWhereItIs, TestsNest, Innermost, Init
<1>8. CachedIsWhole /\ Accounted /\ NothingHeld
  BY <1>1 DEF CachedIsWhole, Accounted, NothingHeld, Init
<1>9. TestsKept
  BY <1>5, FS_EmptySet DEF TestsKept, Init
<1> QED BY <1>2, <1>3, <1>4, <1>6, <1>7, <1>8, <1>9 DEF IInv, TypeOK

LEMMA Kept == IInv /\ [Next]_vars => IInv'
<1>1. IInv => TypeOK
  BY DEF IInv
<1> QED BY <1>1, StackTyped, ModulesTyped, TestsTyped, RunTyped, ShapeKept, WhereKept, NestKept, CachedKept,
          TestsKeptOn, AccountedKept, NothingHeldKept DEF IInv, TypeOK

LEMMA Inductive == Spec => []IInv
BY Starts, Kept, PTL DEF Spec

(* Through any nesting of modules, agents, tests and fibers, and however   *)
(* they end, the stacks of weaveModule and run and the test that Expect    *)
(* counts for mirror where the interpreter is (interpreter.js:203-229,     *)
(* 354-371, 1053-1072).                                                    *)
THEOREM NeverLost == Spec => []KnowsWhereItIs
BY Inductive, PTL DEF IInv

(* A file that testFiles calls good has recorded every test once, each met *)
(* an expectation, and none failed but those a router took for an outage   *)
(* (interpreter.js:361-372, 829-843, builtins.js:40-54, myxo.js:212-230).  *)
THEOREM GreenMeansGood == Spec => []GreenIsGreen
<1>1. IInv => GreenIsGreen
  <2> SUFFICES ASSUME IInv, Succeeds PROVE GreenIsGreen
    BY DEF GreenIsGreen
  <2>1. stack = << >> /\ flying = "none" /\ verdict = "ran"
    BY DEF Succeeds, IInv, Shape
  <2>2. Running = {} /\ Cardinality(Running) = 0
    BY <2>1, NothingThere, FS_EmptySet
  <2>3. missed => masked
    <3>1. \A f \in DOMAIN fibers : fibers[f] # "assert"
      BY <2>1 DEF IInv, NothingHeld, Errors
    <3>2. \A i \in DOMAIN testResults : testResults[i].ok
      BY DEF Succeeds
    <3> QED BY <2>1, <3>1, <3>2 DEF IInv, Accounted
  <2>4. Len(testResults) = Len(asserts)
    <3>1. Len(testResults) \in Nat /\ Len(asserts) \in Nat
      BY LenProperties DEF IInv, TypeOK, TestsOK
    <3>2. Len(testResults) + Cardinality(Running) = Len(asserts)
      BY DEF IInv, TestsKept
    <3> QED BY <2>2, <3>1, <3>2
  <2>5. ASSUME NEW t \in DOMAIN asserts
        PROVE  asserts[t] > 0 /\ \E i \in DOMAIN testResults : testResults[i].test = t
    BY <2>2 DEF IInv, TestsKept, Succeeds
  <2> QED BY <2>3, <2>4, <2>5 DEF GreenIsGreen
<1> QED BY <1>1, Inductive, PTL

(* A strand that weaveModule has cached is never run again, keeps its      *)
(* exports, and has them (interpreter.js:1053-1075).                       *)
THEOREM LoadsOnce == Spec => LoadedForGood
<1> DEFINE Good == \A k \in DOMAIN moduleCache :
      /\ k \in DOMAIN moduleCache' /\ moduleCache'[k] = moduleCache[k]
      /\ moduleCache[k] \subseteq bound[k] /\ bound'[k] = bound[k]
      /\ Len(stack') > Len(stack) => Last(stack') # [kind |-> "module", of |-> k]
<1>1. ASSUME IInv, [Next]_vars PROVE Good
  <2>0. StackOK /\ ModulesOK /\ CachedIsWhole /\ Len(stack) \in Nat /\ StackOK'
    BY <1>1, Kept, LenProperties DEF IInv, TypeOK, StackOK
  <2> SUFFICES ASSUME NEW k \in DOMAIN moduleCache
               PROVE  /\ k \in DOMAIN moduleCache' /\ moduleCache'[k] = moduleCache[k]
                      /\ moduleCache[k] \subseteq bound[k] /\ bound'[k] = bound[k]
                      /\ Len(stack') > Len(stack) => Last(stack') # [kind |-> "module", of |-> k]
    OBVIOUS
  <2>1. k \in Strand /\ k \notin moduleInProgress /\ moduleCache[k] \subseteq bound[k]
    BY <2>0 DEF ModulesOK, CachedIsWhole
  <2>2. k \in DOMAIN moduleCache' /\ moduleCache'[k] = moduleCache[k] /\ bound'[k] = bound[k]
    <3>1. CASE CacheStays
      BY <2>1, <3>1 DEF CacheStays
    <3>2. ASSUME NEW j \in Strand, WeaveLoads(j) PROVE j # k /\ UNCHANGED moduleCache /\ bound'[k] = bound[k]
      BY <2>0, <2>1, <3>2 DEF WeaveLoads, ModulesOK
    <3>3. CASE ModuleEnds
      BY <1>1, <2>1, <3>3, Ending
    <3> QED BY <1>1, <3>1, <3>2, <3>3, CacheMoves
  <2>3. ASSUME Len(stack') > Len(stack) PROVE Last(stack') # [kind |-> "module", of |-> k]
    <3>1. ASSUME NEW e \in Frame, stack' = Append(stack, e) PROVE Last(stack') = e
      BY <2>0, <3>1, AppendLast DEF Last, StackOK
    <3>2. CASE GoesIn
      <4> PICK e \in Frame :
            stack' = Append(stack, e) /\ (e.kind = "module" => \E j \in Strand : WeaveLoads(j))
        BY <3>2 DEF GoesIn
      <4>1. ASSUME NEW j \in Strand, WeaveLoads(j) PROVE Last(stack').of = j /\ j # k
        <5>1. [kind |-> "module", of |-> j] \in Frame /\ stack' = Append(stack, [kind |-> "module", of |-> j])
          BY <4>1, PlainFrames DEF WeaveLoads, Push
        <5>2. Last(stack') = [kind |-> "module", of |-> j]
          BY <3>1, <5>1
        <5>3. j # k
          BY <4>1 DEF WeaveLoads
        <5> QED BY <5>2, <5>3
      <4>2. [kind |-> "module", of |-> k].kind = "module" /\ [kind |-> "module", of |-> k].of = k
        OBVIOUS
      <4>3. Last(stack') = e
        BY <3>1
      <4> QED BY <4>1, <4>2, <4>3, Zenon
    <3>3. CASE Pumps \/ StepFiber
      <4>1. \E x \in {"pump", "fiber"}, f \in Nat : stack' = Append(stack, [kind |-> x, of |-> f])
        <5>1. CASE Pumps
          BY <1>1, <5>1, FibersNumbered DEF Pumps, Push, IInv
        <5>2. CASE StepFiber
          BY <1>1, <5>2, FirstReady DEF StepFiber, Push, IInv, TypeOK, RunOK
        <5> QED BY <3>3, <5>1, <5>2
      <4> PICK x \in {"pump", "fiber"}, f \in Nat : stack' = Append(stack, [kind |-> x, of |-> f])
        BY <4>1
      <4>2. [kind |-> x, of |-> f] \in Frame
        BY PlainFrames DEF Plain
      <4>3. Last(stack') = [kind |-> x, of |-> f]
        BY <3>1, <4>2
      <4>4. [kind |-> x, of |-> f] # [kind |-> "module", of |-> k]
        <5>1. x # "module"
          OBVIOUS
        <5> QED BY <5>1, SMT
      <4> QED BY <4>3, <4>4, Zenon
    <3>4. CASE UNCHANGED stack \/ RunEnds
      <4>1. stack' = stack
        BY <3>4 DEF RunEnds
      <4>2. Len(stack) > Len(stack)
        BY <2>3, <4>1
      <4> QED BY <2>0, <4>2
    <3>5. ASSUME Pop, stack # << >> PROVE FALSE
      BY <2>0, <2>3, <3>5, Popped
    <3>6. CASE FailsOver
      <4>1. stack # << >> /\ stack' = [stack EXCEPT ![Len(stack)].of = @ - 1]
        BY <3>6 DEF FailsOver, On
      <4>2. Len(stack') = Len(stack)
        BY <2>0, <4>1, OnlyOf, TopFrame, LenProperties DEF StackOK
      <4> QED BY <2>0, <2>3, <4>2
    <3>7. CASE BodyEnds \/ BodyThrows
      <4>1. \E e : stack = <<e>>
        BY <1>1, <2>0, <3>7, LastIsFirst DEF BodyEnds, BodyThrows, On, IInv
      <4>2. stack' = << >> \/ \E e : stack' = <<e>>
        BY <3>7 DEF BodyEnds, BodyThrows
      <4> QED BY <2>3, <4>1, <4>2
    <3> QED BY <1>1, <3>2, <3>3, <3>4, <3>5, <3>6, <3>7, StackMoves
            DEF StaysPut, ComesOut, FiberEnds, Surface, On
  <2> QED BY <2>1, <2>2, <2>3
<1>2. IInv /\ [Next]_vars => [Good]_vars
  BY <1>1
<1> QED BY <1>2, Inductive, PTL DEF Spec, LoadedForGood
=============================================================================
