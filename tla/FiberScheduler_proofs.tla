----------------------- MODULE FiberScheduler_proofs ------------------------
(***************************************************************************)
(* Theorems about FiberScheduler, for every number of fibers, channels,    *)
(* capacities and step budgets.                                            *)
(***************************************************************************)
EXTENDS FiberScheduler, SequenceTheorems, FiniteSetTheorems, TLAPS

(* What Append does to the fibers of a queue of entries.                   *)
LEMMA AppendFibers ==
    ASSUME NEW S, NEW q \in Seq(S), NEW e \in S
    PROVE  /\ Append(q, e) \in Seq(S)
           /\ FibersOf(Append(q, e)) = FibersOf(q) \cup {e.fiber}
           /\ (DistinctFibers(q) /\ e.fiber \notin FibersOf(q))
                  => DistinctFibers(Append(q, e))
<1> DEFINE r == Append(q, e)
<1>1. /\ r \in Seq(S) /\ DOMAIN r = 1..(Len(q) + 1) /\ DOMAIN q = 1..Len(q)
      /\ Len(q) \in Nat
      /\ r[Len(q) + 1] = e /\ \A i \in 1..Len(q) : r[i] = q[i]
  BY AppendProperties, LenProperties
<1> HIDE DEF r
<1>2. FibersOf(r) = FibersOf(q) \cup {e.fiber}
  <2>1. ASSUME NEW i \in 1..(Len(q) + 1)
        PROVE  r[i].fiber \in FibersOf(q) \cup {e.fiber}
    BY <1>1 DEF FibersOf
  <2>2. ASSUME NEW i \in 1..Len(q) PROVE q[i].fiber \in FibersOf(r)
    BY <1>1 DEF FibersOf
  <2>3. e.fiber \in FibersOf(r)
    BY <1>1 DEF FibersOf
  <2> QED BY <1>1, <2>1, <2>2, <2>3 DEF FibersOf
<1>3. ASSUME DistinctFibers(q), e.fiber \notin FibersOf(q)
      PROVE  DistinctFibers(r)
  BY <1>1, <1>3 DEF DistinctFibers, FibersOf
<1> QED BY <1>1, <1>2, <1>3 DEF r

(* What removing the head does to the fibers of a queue of entries.        *)
LEMMA TailFibers ==
    ASSUME NEW S, NEW q \in Seq(S), q # << >>
    PROVE  /\ Head(q) \in S /\ Tail(q) \in Seq(S)
           /\ Head(q).fiber \in FibersOf(q)
           /\ FibersOf(q) = FibersOf(Tail(q)) \cup {Head(q).fiber}
           /\ DistinctFibers(q) => /\ DistinctFibers(Tail(q))
                                   /\ Head(q).fiber \notin FibersOf(Tail(q))
<1> DEFINE t == Tail(q)
<1>1. /\ Head(q) \in S /\ t \in Seq(S) /\ Head(q) = q[1]
      /\ Len(q) \in Nat /\ Len(q) > 0 /\ Len(t) = Len(q) - 1
      /\ DOMAIN q = 1..Len(q) /\ DOMAIN t = 1..(Len(q) - 1)
      /\ \A i \in 1..(Len(q) - 1) : t[i] = q[i + 1]
  BY HeadTailProperties, LenProperties, EmptySeq
<1> HIDE DEF t
<1>2. Head(q).fiber \in FibersOf(q)
  BY <1>1 DEF FibersOf
<1>3. FibersOf(q) = FibersOf(t) \cup {Head(q).fiber}
  <2>1. ASSUME NEW i \in 1..Len(q)
        PROVE  q[i].fiber \in FibersOf(t) \cup {Head(q).fiber}
    <3>1. CASE i = 1 BY <3>1, <1>1
    <3>2. CASE i # 1
      <4>1. i - 1 \in 1..(Len(q) - 1) /\ t[i - 1] = q[i]
        BY <3>2, <1>1
      <4> QED BY <4>1, <1>1 DEF FibersOf
    <3> QED BY <3>1, <3>2
  <2>2. ASSUME NEW i \in 1..(Len(q) - 1) PROVE t[i].fiber \in FibersOf(q)
    <3>1. i + 1 \in DOMAIN q /\ t[i] = q[i + 1]
      BY <1>1
    <3> QED BY <3>1 DEF FibersOf
  <2> QED BY <1>1, <1>2, <2>1, <2>2 DEF FibersOf
<1>4. ASSUME DistinctFibers(q)
      PROVE  DistinctFibers(t) /\ Head(q).fiber \notin FibersOf(t)
  <2>1. DistinctFibers(t)
    <3> SUFFICES ASSUME NEW i \in 1..(Len(q) - 1), NEW j \in 1..(Len(q) - 1),
                        t[i].fiber = t[j].fiber
                 PROVE  i = j
      BY <1>1 DEF DistinctFibers
    <3>1. i + 1 \in DOMAIN q /\ j + 1 \in DOMAIN q
      BY <1>1
    <3>2. i + 1 = j + 1
      BY <3>1, <1>1, <1>4 DEF DistinctFibers
    <3> QED BY <3>2
  <2>2. ASSUME NEW i \in 1..(Len(q) - 1) PROVE t[i].fiber # Head(q).fiber
    <3>1. i + 1 \in DOMAIN q /\ 1 \in DOMAIN q /\ i + 1 # 1
      BY <1>1
    <3> QED BY <3>1, <1>1, <1>4 DEF DistinctFibers
  <2> QED BY <1>1, <2>1, <2>2 DEF FibersOf
<1> QED BY <1>1, <1>2, <1>3, <1>4 DEF t

(* The same two facts for a queue of bare fibers (a channel's recvW).      *)
LEMMA AppendElements ==
    ASSUME NEW S, NEW q \in Seq(S), NEW e \in S
    PROVE  /\ Append(q, e) \in Seq(S) /\ Append(q, e) # << >>
           /\ Elements(Append(q, e)) = Elements(q) \cup {e}
           /\ (Distinct(q) /\ e \notin Elements(q)) => Distinct(Append(q, e))
<1> DEFINE r == Append(q, e)
<1>1. /\ r \in Seq(S) /\ DOMAIN r = 1..(Len(q) + 1) /\ DOMAIN q = 1..Len(q)
      /\ Len(q) \in Nat /\ Len(r) = Len(q) + 1
      /\ r[Len(q) + 1] = e /\ \A i \in 1..Len(q) : r[i] = q[i]
  BY AppendProperties, LenProperties
<1>0. r # << >>
  BY <1>1, EmptySeq
<1> HIDE DEF r
<1>2. Elements(r) = Elements(q) \cup {e}
  <2>1. ASSUME NEW i \in 1..(Len(q) + 1) PROVE r[i] \in Elements(q) \cup {e}
    BY <1>1 DEF Elements
  <2>2. ASSUME NEW i \in 1..Len(q) PROVE q[i] \in Elements(r)
    BY <1>1 DEF Elements
  <2>3. e \in Elements(r)
    BY <1>1 DEF Elements
  <2> QED BY <1>1, <2>1, <2>2, <2>3 DEF Elements
<1>3. ASSUME Distinct(q), e \notin Elements(q) PROVE Distinct(r)
  BY <1>1, <1>3 DEF Distinct, Elements
<1> QED BY <1>0, <1>1, <1>2, <1>3 DEF r

LEMMA TailElements ==
    ASSUME NEW S, NEW q \in Seq(S), q # << >>
    PROVE  /\ Head(q) \in S /\ Tail(q) \in Seq(S)
           /\ Head(q) \in Elements(q)
           /\ Elements(q) = Elements(Tail(q)) \cup {Head(q)}
           /\ Distinct(q) => /\ Distinct(Tail(q))
                             /\ Head(q) \notin Elements(Tail(q))
<1> DEFINE t == Tail(q)
<1>1. /\ Head(q) \in S /\ t \in Seq(S) /\ Head(q) = q[1]
      /\ Len(q) \in Nat /\ Len(q) > 0 /\ Len(t) = Len(q) - 1
      /\ DOMAIN q = 1..Len(q) /\ DOMAIN t = 1..(Len(q) - 1)
      /\ \A i \in 1..(Len(q) - 1) : t[i] = q[i + 1]
  BY HeadTailProperties, LenProperties, EmptySeq
<1> HIDE DEF t
<1>2. Head(q) \in Elements(q)
  BY <1>1 DEF Elements
<1>3. Elements(q) = Elements(t) \cup {Head(q)}
  <2>1. ASSUME NEW i \in 1..Len(q) PROVE q[i] \in Elements(t) \cup {Head(q)}
    <3>1. CASE i = 1 BY <3>1, <1>1
    <3>2. CASE i # 1
      <4>1. i - 1 \in 1..(Len(q) - 1) /\ t[i - 1] = q[i]
        BY <3>2, <1>1
      <4> QED BY <4>1, <1>1 DEF Elements
    <3> QED BY <3>1, <3>2
  <2>2. ASSUME NEW i \in 1..(Len(q) - 1) PROVE t[i] \in Elements(q)
    <3>1. i + 1 \in DOMAIN q /\ t[i] = q[i + 1]
      BY <1>1
    <3> QED BY <3>1 DEF Elements
  <2>3. Elements(q) \subseteq Elements(t) \cup {Head(q)}
    BY <1>1, <2>1 DEF Elements
  <2>4. Elements(t) \subseteq Elements(q)
    BY <1>1, <2>2 DEF Elements
  <2> QED BY <1>2, <2>3, <2>4
<1>4. ASSUME Distinct(q) PROVE Distinct(t) /\ Head(q) \notin Elements(t)
  <2>1. Distinct(t)
    <3> SUFFICES ASSUME NEW i \in 1..(Len(q) - 1), NEW j \in 1..(Len(q) - 1),
                        t[i] = t[j]
                 PROVE  i = j
      BY <1>1 DEF Distinct
    <3>1. i + 1 \in DOMAIN q /\ j + 1 \in DOMAIN q
      BY <1>1
    <3>2. i + 1 = j + 1
      BY <3>1, <1>1, <1>4 DEF Distinct
    <3> QED BY <3>2
  <2>2. ASSUME NEW i \in 1..(Len(q) - 1) PROVE t[i] # Head(q)
    <3>1. i + 1 \in DOMAIN q /\ 1 \in DOMAIN q /\ i + 1 # 1
      BY <1>1
    <3> QED BY <3>1, <1>1, <1>4 DEF Distinct
  <2> QED BY <1>1, <2>1, <2>2 DEF Elements
<1> QED BY <1>1, <1>2, <1>3, <1>4 DEF t

-----------------------------------------------------------------------------
(* Init establishes the inductive invariant.                               *)
LEMMA InitIInv == Init => IInv
<1> SUFFICES ASSUME Init PROVE IInv
  OBVIOUS
<1> USE DEF Init
<1>1. TypeOK
  <2>1. None \in Fiber \cup {None} /\ 0 \in 0..MaxFibers /\ 0 \in 0..StepCap
        /\ 0 \in 0..MaxRuns /\ 0 \in 0..MaxOps
    BY ConstantsAssumption
  <2> QED BY <2>1, EmptySeq DEF TypeOK, FiberTypes, ChannelTypes, ControlTypes, None
<1>2. DOMAIN ready = {} /\ \A c \in Channel : DOMAIN recvW[c] = {} /\ DOMAIN sendW[c] = {}
  BY DEF Init
<1>3. Queued = {} /\ \A c \in Channel : Receivers(c) = {} /\ Senders(c) = {}
  BY <1>2 DEF Queued, Receivers, Senders, FibersOf, Elements
<1>4. Born = {} /\ Live = {}
  BY DEF Born, Live
<1>5. LatchHeld /\ Bookkeeping
  BY <1>2, <1>3, <1>4 DEF LatchHeld, Bookkeeping, Elements, None
<1>6. OnePlace
  BY <1>2, <1>3, <1>4 DEF OnePlace, DistinctFibers, Distinct, Parked
<1>7. \A c \in Channel : Pending(c) = << >>
  BY DEF Pending, ValuesOf
<1>8. WaitersJustified /\ ChannelFIFO
  BY <1>7, ConstantsAssumption DEF WaitersJustified, WaitsOnlyIfMust, ChannelFIFO
<1>9. DeadlockIsReal /\ NoSilentFailure
  BY DEF DeadlockIsReal, NoSilentFailure
<1> QED BY <1>1, <1>5, <1>6, <1>8, <1>9 DEF IInv

(* Facts about the constants that every step below uses.                   *)
LEMMA NoneNoVal == None \notin Fiber /\ NoVal \notin Value
BY DEF None, Fiber, NoVal, Value

(* A fiber's step leaves the main program and the pump alone.              *)
LEMMA FiberStepFrame ==
    ASSUME NEW f \in Fiber, FiberStep(f)
    PROVE  /\ UNCHANGED mainVars /\ UNCHANGED <<inScheduler, steps>>
           /\ running = f /\ running' \in {f, None}
<1>1. ASSUME NEW c \in Channel,
             GiveToReceiver(f, c) \/ GiveToBuffer(f, c) \/ ParkSender(f, c)
      PROVE  /\ UNCHANGED <<mainVars, inScheduler, steps>>
             /\ running = f /\ running' \in {f, None}
  BY <1>1 DEF GiveToReceiver, GiveToBuffer, ParkSender, Operate
<1>2. ASSUME NEW c \in Channel, TakeFromBuffer(f, c) \/ ParkReceiver(f, c)
      PROVE  /\ UNCHANGED <<mainVars, inScheduler, steps>>
             /\ running = f /\ running' \in {f, None}
  BY <1>2 DEF TakeFromBuffer, ParkReceiver, Operate
<1>3. ASSUME Yield(f) \/ FiberSpawn(f) \/ \E how \in {"returned", "error"} : Finish(f, how)
      PROVE  /\ UNCHANGED <<mainVars, inScheduler, steps>>
             /\ running = f /\ running' \in {f, None}
  BY <1>3 DEF Yield, FiberSpawn, Finish, Operate
<1> QED BY <1>1, <1>2, <1>3 DEF FiberStep, ChannelStep

(* A step preserves the types of the main program's and the pump's state.  *)
LEMMA ControlTypeStep == IInv /\ [Next]_vars => ControlTypes'
<1> SUFFICES ASSUME IInv, [Next]_vars PROVE ControlTypes'
  OBVIOUS
<1>0. ControlTypes /\ FiberTypes /\ Bookkeeping
  BY DEF IInv, TypeOK
<1>t. None \in Fiber \cup {None} /\ Born \subseteq Fiber
  BY <1>0, ConstantsAssumption DEF Born, Fiber, FiberTypes
<1> USE ConstantsAssumption
<1>1. CASE UNCHANGED vars
  BY <1>0, <1>1 DEF vars, mainVars, ControlTypes
<1>2. CASE StartRun
  BY <1>0, <1>2 DEF StartRun, ControlTypes
<1>3. CASE MainSpawn
  BY <1>0, <1>3 DEF MainSpawn, ControlTypes
<1>4. ASSUME NEW caller \in {"draining", "awaiting", "ending"},
             NEW f \in Fiber \cup {None}, EnterPump(caller, f)
      PROVE  ControlTypes'
  BY <1>0, <1>4 DEF EnterPump, ControlTypes
<1>5. CASE CallDrain
  BY <1>5, <1>4, <1>t DEF CallDrain
<1>6. CASE CallAwait
  BY <1>6, <1>4, <1>t DEF CallAwait
<1>7. CASE EndBody
  <2>1. CASE EnterPump("ending", None)
    BY <2>1, <1>4, <1>t
  <2>2. CASE ~EnterPump("ending", None)
    BY <2>2, <1>0, <1>7 DEF EndBody, ControlTypes
  <2> QED BY <2>1, <2>2
<1>8. CASE FailBody
  BY <1>0, <1>8 DEF FailBody, ControlTypes
<1>9. CASE Dispatch
  <2>1. Head(ready) \in [fiber : Fiber, val : Value \cup {NoVal}]
    BY <1>0, <1>9, HeadTailProperties DEF Dispatch, FiberTypes
  <2> QED BY <2>1, <1>0, <1>9 DEF Dispatch, mainVars, ControlTypes
<1>10. ASSUME NEW how \in {"ok", "error", "deadlock", "budget"},
              NEW errs \in SUBSET Fiber, LeavePump(how, errs)
       PROVE  ControlTypes'
  BY <1>0, <1>10 DEF LeavePump, ControlTypes
<1>11. CASE BudgetSpent
  BY <1>11, <1>10 DEF BudgetSpent
<1>12. CASE CheckAll
  BY <1>t, <1>12, <1>10 DEF CheckAll
<1>13. CASE CheckAwaited
  BY <1>0, <1>t, <1>13, <1>10 DEF CheckAwaited, Bookkeeping
<1>14. ASSUME NEW f \in Fiber, FiberStep(f) PROVE ControlTypes'
  BY <1>0, <1>14, FiberStepFrame DEF mainVars, ControlTypes
<1> QED
  BY <1>1, <1>2, <1>3, <1>5, <1>6, <1>7, <1>8, <1>9, <1>11, <1>12, <1>13, <1>14
  DEF Next, MainStep, PumpStep, Quit

(* A step preserves the types of the channels.                             *)
LEMMA ChannelTypeStep == IInv /\ [Next]_vars => ChannelTypes'
<1> SUFFICES ASSUME IInv, [Next]_vars PROVE ChannelTypes'
  OBVIOUS
<1>0. ChannelTypes /\ FiberTypes
  BY DEF IInv, TypeOK
<1>1. CASE UNCHANGED chanVars
  BY <1>0, <1>1 DEF chanVars, ChannelTypes
<1>2. ASSUME NEW f \in Fiber, NEW c \in Channel, Operate(f)
      PROVE  NewValue(f, c) \in Value
  BY <1>0, <1>2, ConstantsAssumption DEF Operate, NewValue, Value, FiberTypes
<1>3. ASSUME NEW f \in Fiber, NEW c \in Channel, GiveToReceiver(f, c)
      PROVE  ChannelTypes'
  <2>1. NewValue(f, c) \in Value
    BY <1>2, <1>3 DEF GiveToReceiver
  <2>2. Tail(recvW[c]) \in Seq(Fiber)
    BY <1>0, <1>3, HeadTailProperties DEF GiveToReceiver, ChannelTypes
  <2>3. given' \in [Channel -> Seq(Value)] /\ taken' \in [Channel -> Seq(Value)]
    BY <2>1, <1>0, <1>3, AppendElements DEF GiveToReceiver, ChannelTypes
  <2> QED BY <2>2, <2>3, <1>0, <1>3 DEF GiveToReceiver, ChannelTypes
<1>4. ASSUME NEW f \in Fiber, NEW c \in Channel, GiveToBuffer(f, c)
      PROVE  ChannelTypes'
  <2>1. NewValue(f, c) \in Value
    BY <1>2, <1>4 DEF GiveToBuffer
  <2>2. given' \in [Channel -> Seq(Value)] /\ buf' \in [Channel -> Seq(Value)]
    BY <2>1, <1>0, <1>4, AppendElements DEF GiveToBuffer, ChannelTypes
  <2> QED BY <2>2, <1>0, <1>4 DEF GiveToBuffer, ChannelTypes
<1>5. ASSUME NEW f \in Fiber, NEW c \in Channel, ParkSender(f, c)
      PROVE  ChannelTypes'
  <2>1. NewValue(f, c) \in Value
    BY <1>2, <1>5 DEF ParkSender
  <2>2. [fiber |-> f, value |-> NewValue(f, c)] \in [fiber : Fiber, value : Value]
    BY <2>1
  <2>3. given' \in [Channel -> Seq(Value)]
    BY <2>1, <1>0, <1>5, AppendElements DEF ParkSender, ChannelTypes
  <2>4. sendW' \in [Channel -> Seq([fiber : Fiber, value : Value])]
    BY <2>2, <1>0, <1>5, AppendFibers DEF ParkSender, ChannelTypes
  <2> QED BY <2>3, <2>4, <1>0, <1>5 DEF ParkSender, ChannelTypes
<1>6. ASSUME NEW f \in Fiber, NEW c \in Channel, TakeFromBuffer(f, c)
      PROVE  ChannelTypes'
  <2>1. Head(buf[c]) \in Value /\ Tail(buf[c]) \in Seq(Value)
    BY <1>0, <1>6, HeadTailProperties DEF TakeFromBuffer, ChannelTypes
  <2>2. taken' \in [Channel -> Seq(Value)]
    BY <2>1, <1>0, <1>6, AppendElements DEF TakeFromBuffer, ChannelTypes
  <2>3. CASE sendW[c] = << >>
    BY <2>1, <2>2, <2>3, <1>0, <1>6 DEF TakeFromBuffer, ChannelTypes
  <2>4. CASE sendW[c] # << >>
    <3>1. /\ Head(sendW[c]) \in [fiber : Fiber, value : Value]
          /\ Tail(sendW[c]) \in Seq([fiber : Fiber, value : Value])
      BY <2>4, <1>0, HeadTailProperties DEF ChannelTypes
    <3>2. Append(Tail(buf[c]), Head(sendW[c]).value) \in Seq(Value)
      BY <3>1, <2>1, AppendElements
    <3> QED BY <3>1, <3>2, <2>2, <2>4, <1>0, <1>6 DEF TakeFromBuffer, ChannelTypes
  <2> QED BY <2>3, <2>4
<1>7. ASSUME NEW f \in Fiber, NEW c \in Channel, ParkReceiver(f, c)
      PROVE  ChannelTypes'
  BY <1>0, <1>7, AppendElements DEF ParkReceiver, ChannelTypes
<1>8. ASSUME NEW f \in Fiber, FiberStep(f) PROVE ChannelTypes'
  BY <1>1, <1>3, <1>4, <1>5, <1>6, <1>7, <1>8
  DEF FiberStep, ChannelStep, Yield, FiberSpawn, Finish
<1>9. CASE MainStep \/ PumpStep
  BY <1>1, <1>9
  DEF MainStep, StartRun, MainSpawn, CallDrain, CallAwait, EnterPump, EndBody,
      FailBody, Quit, vars, PumpStep, Dispatch, BudgetSpent, CheckAll,
      CheckAwaited, LeavePump
<1> QED BY <1>1, <1>8, <1>9 DEF Next, vars

(* The ready queue's entries.                                              *)
ReadyEntry == [fiber : Fiber, val : Value \cup {NoVal}]

LEMMA SpawnTypes ==
    ASSUME FiberTypes, SpawnFiber
    PROVE  /\ nSpawned + 1 \in Fiber /\ nSpawned' \in 0..MaxFibers
           /\ Entry(nSpawned + 1, NoVal) \in ReadyEntry
           /\ ready' \in Seq(ReadyEntry)
           /\ gen' \in [Fiber -> {"none", "start", "running", "yield", "recv",
                                  "send", "closed"}]
<1>1. nSpawned + 1 \in Fiber /\ nSpawned + 1 \in 0..MaxFibers
  BY ConstantsAssumption DEF SpawnFiber, FiberTypes, Fiber
<1>2. Entry(nSpawned + 1, NoVal) \in ReadyEntry
  BY <1>1 DEF Entry, ReadyEntry
<1>3. ready' \in Seq(ReadyEntry)
  BY <1>2, AppendFibers DEF SpawnFiber, FiberTypes, ReadyEntry
<1> QED BY <1>1, <1>2, <1>3 DEF SpawnFiber, FiberTypes

(* A step preserves the types of the fibers.  Bookkeeping is what types    *)
(* got: a fiber that stands at a take is resumed with a value.             *)
LEMMA FiberTypeStep == IInv /\ [Next]_vars => FiberTypes'
<1> SUFFICES ASSUME IInv, [Next]_vars PROVE FiberTypes'
  OBVIOUS
<1>0. FiberTypes /\ ChannelTypes /\ Bookkeeping
  BY DEF IInv, TypeOK
<1> USE ConstantsAssumption
<1>1. CASE UNCHANGED <<nSpawned, ready, gen, outcome, ops, got>>
  BY <1>0, <1>1 DEF FiberTypes
<1>2. CASE MainSpawn
  BY <1>0, <1>2, SpawnTypes DEF MainSpawn, FiberTypes, ReadyEntry
<1>3. CASE Dispatch
  <2>1. Head(ready) \in ReadyEntry /\ Tail(ready) \in Seq(ReadyEntry)
    BY <1>0, <1>3, HeadTailProperties DEF Dispatch, FiberTypes, ReadyEntry
  <2>2. Head(ready) \in Elements(ready)
    BY <1>0, <1>3, TailElements DEF Dispatch, FiberTypes
  <2>3. gen[Head(ready).fiber] = "recv" => Head(ready).val \in Value
    BY <2>2, <1>0 DEF Bookkeeping
  <2>4. CASE Done(Head(ready).fiber)
    BY <2>1, <2>4, <1>0, <1>3 DEF Dispatch, FiberTypes, ReadyEntry
  <2>5. CASE ~Done(Head(ready).fiber)
    <3> DEFINE g == Head(ready).fiber
    <3>1. g \in Fiber /\ got[g] \in Seq(Value)
      BY <2>1, <1>0 DEF ReadyEntry, FiberTypes
    <3>2. gen[g] = "recv" => Append(got[g], Head(ready).val) \in Seq(Value)
      BY <3>1, <2>3, AppendElements
    <3>3. got' \in [Fiber -> Seq(Value)]
      BY <3>1, <3>2, <2>5, <1>0, <1>3 DEF Dispatch, FiberTypes
    <3>4. gen' \in [Fiber -> {"none", "start", "running", "yield", "recv",
                              "send", "closed"}]
      BY <3>1, <2>5, <1>0, <1>3 DEF Dispatch, FiberTypes
    <3> QED BY <2>1, <3>3, <3>4, <1>0, <1>3 DEF Dispatch, FiberTypes, ReadyEntry
  <2> QED BY <2>4, <2>5
<1>4. ASSUME NEW f \in Fiber, Operate(f) PROVE ops' \in 0..MaxOps
  BY <1>0, <1>4 DEF Operate, FiberTypes
<1>5. ASSUME NEW f \in Fiber, NEW c \in Channel, GiveToReceiver(f, c)
      PROVE  FiberTypes'
  <2>1. NewValue(f, c) \in Value
    BY <1>0, <1>5 DEF GiveToReceiver, Operate, NewValue, Value, FiberTypes
  <2>2. Head(recvW[c]) \in Fiber
    BY <1>0, <1>5, HeadTailProperties DEF GiveToReceiver, ChannelTypes
  <2>3. Entry(Head(recvW[c]), NewValue(f, c)) \in ReadyEntry
    BY <2>1, <2>2 DEF Entry, ReadyEntry
  <2>4. ready' \in Seq(ReadyEntry)
    BY <2>3, <1>0, <1>5, AppendFibers DEF GiveToReceiver, FiberTypes, ReadyEntry
  <2> QED BY <2>4, <1>0, <1>4, <1>5 DEF GiveToReceiver, FiberTypes, ReadyEntry
<1>6. ASSUME NEW f \in Fiber, NEW c \in Channel, GiveToBuffer(f, c)
      PROVE  FiberTypes'
  BY <1>0, <1>4, <1>6 DEF GiveToBuffer, FiberTypes
<1>7. ASSUME NEW f \in Fiber, NEW c \in Channel, ParkSender(f, c)
      PROVE  FiberTypes'
  BY <1>0, <1>4, <1>7 DEF ParkSender, FiberTypes
<1>8. ASSUME NEW f \in Fiber, NEW c \in Channel, TakeFromBuffer(f, c)
      PROVE  FiberTypes'
  <2>1. Head(buf[c]) \in Value
    BY <1>0, <1>8, HeadTailProperties DEF TakeFromBuffer, ChannelTypes
  <2>2. Append(got[f], Head(buf[c])) \in Seq(Value)
    BY <2>1, <1>0, AppendElements DEF FiberTypes
  <2>3. got' \in [Fiber -> Seq(Value)] /\ ops' \in 0..MaxOps
    BY <2>2, <1>0, <1>4, <1>8 DEF TakeFromBuffer, FiberTypes
  <2>4. ready' \in Seq(ReadyEntry)
    <3>1. CASE sendW[c] = << >>
      BY <3>1, <1>0, <1>8 DEF TakeFromBuffer, FiberTypes, ReadyEntry
    <3>2. CASE sendW[c] # << >>
      <4>1. Head(sendW[c]) \in [fiber : Fiber, value : Value]
        BY <3>2, <1>0, HeadTailProperties DEF ChannelTypes
      <4>2. Entry(Head(sendW[c]).fiber, NoVal) \in ReadyEntry
        BY <4>1 DEF Entry, ReadyEntry
      <4>3. ready \in Seq(ReadyEntry)
        BY <1>0 DEF FiberTypes, ReadyEntry
      <4>4. ready' = Append(ready, Entry(Head(sendW[c]).fiber, NoVal))
        BY <3>2, <1>8 DEF TakeFromBuffer
      <4> QED BY <4>2, <4>3, <4>4, AppendFibers
    <3> QED BY <3>1, <3>2
  <2> QED BY <2>3, <2>4, <1>0, <1>8 DEF TakeFromBuffer, FiberTypes, ReadyEntry
<1>9. ASSUME NEW f \in Fiber, NEW c \in Channel, ParkReceiver(f, c)
      PROVE  FiberTypes'
  BY <1>0, <1>4, <1>9 DEF ParkReceiver, FiberTypes
<1>10. ASSUME NEW f \in Fiber, Yield(f) PROVE FiberTypes'
  <2>1. Entry(f, NoVal) \in ReadyEntry
    BY DEF Entry, ReadyEntry
  <2>2. ready' \in Seq(ReadyEntry)
    BY <2>1, <1>0, <1>10, AppendFibers DEF Yield, FiberTypes, ReadyEntry
  <2> QED BY <2>2, <1>0, <1>10 DEF Yield, FiberTypes, ReadyEntry
<1>11. ASSUME NEW f \in Fiber, FiberSpawn(f) PROVE FiberTypes'
  BY <1>0, <1>4, <1>11, SpawnTypes DEF FiberSpawn, FiberTypes, ReadyEntry
<1>12. ASSUME NEW f \in Fiber, NEW how \in {"returned", "error"}, Finish(f, how)
       PROVE  FiberTypes'
  BY <1>0, <1>12 DEF Finish, FiberTypes
<1>13. CASE \/ StartRun \/ CallDrain \/ CallAwait \/ EndBody \/ FailBody \/ Quit
            \/ BudgetSpent \/ CheckAll \/ CheckAwaited
  BY <1>1, <1>13
  DEF StartRun, CallDrain, CallAwait, EnterPump, EndBody, FailBody, Quit, vars,
      BudgetSpent, CheckAll, CheckAwaited, LeavePump
<1>14. ASSUME NEW f \in Fiber, FiberStep(f) PROVE FiberTypes'
  BY <1>5, <1>6, <1>7, <1>8, <1>9, <1>10, <1>11, <1>12, <1>14
  DEF FiberStep, ChannelStep
<1> QED BY <1>1, <1>2, <1>3, <1>13, <1>14 DEF Next, MainStep, PumpStep, vars

LEMMA NewValueIsValue ==
    ASSUME FiberTypes, NEW f \in Fiber, NEW c \in Channel, Operate(f)
    PROVE  NewValue(f, c) \in Value
<1>1. ops + 1 \in 1..MaxOps
  BY ConstantsAssumption DEF Operate, FiberTypes
<1> QED BY <1>1 DEF NewValue, Value

-----------------------------------------------------------------------------
(* Where each action moves the fibers.                                     *)

LEMMA GiveToReceiverMoves ==
    ASSUME IInv, NEW f \in Fiber, NEW c \in Channel, GiveToReceiver(f, c)
    PROVE  \E g \in Receivers(c) :
             /\ g = Head(recvW[c]) /\ g \in Fiber
             /\ ready' = Append(ready, Entry(g, NewValue(f, c)))
             /\ Queued' = Queued \cup {g} /\ DistinctFibers(ready')
             /\ Receivers(c)' = Receivers(c) \ {g} /\ Distinct(recvW'[c])
             /\ \A d \in Channel \ {c} : Receivers(d)' = Receivers(d)
                                        /\ recvW'[d] = recvW[d]
             /\ \A d \in Channel : Senders(d)' = Senders(d)
             /\ Live' = Live /\ running' = running
<1> DEFINE g == Head(recvW[c])
<1>1. FiberTypes /\ ChannelTypes /\ OnePlace
  BY DEF IInv, TypeOK
<1>2. recvW[c] \in Seq(Fiber) /\ recvW[c] # << >> /\ Distinct(recvW[c])
  BY <1>1 DEF GiveToReceiver, ChannelTypes, OnePlace
<1>3. /\ g \in Fiber /\ g \in Receivers(c)
      /\ Elements(Tail(recvW[c])) = Receivers(c) \ {g} /\ Distinct(Tail(recvW[c]))
  BY <1>2, TailElements DEF Receivers
<1>4. recvW' = [recvW EXCEPT ![c] = Tail(recvW[c])] /\ recvW \in [Channel -> Seq(Fiber)]
  BY <1>1 DEF GiveToReceiver, ChannelTypes
<1>5. recvW'[c] = Tail(recvW[c]) /\ \A d \in Channel \ {c} : recvW'[d] = recvW[d]
  BY <1>4
<1>6. g \notin Queued
  BY <1>1, <1>3 DEF OnePlace, Parked
<1>7. NewValue(f, c) \in Value
  BY <1>1, ConstantsAssumption DEF GiveToReceiver, Operate, NewValue, Value, FiberTypes
<1>8. Entry(g, NewValue(f, c)) \in ReadyEntry /\ Entry(g, NewValue(f, c)).fiber = g
  BY <1>3, <1>7 DEF Entry, ReadyEntry
<1>9. ready' = Append(ready, Entry(g, NewValue(f, c)))
  BY DEF GiveToReceiver
<1>10. ready \in Seq(ReadyEntry) /\ DistinctFibers(ready)
  BY <1>1 DEF FiberTypes, ReadyEntry, OnePlace
<1>11. Queued' = Queued \cup {g} /\ DistinctFibers(ready')
  BY <1>6, <1>8, <1>9, <1>10, AppendFibers DEF Queued
<1>12. \A d \in Channel : Senders(d)' = Senders(d)
  BY DEF GiveToReceiver, Senders
<1>13. Live' = Live /\ running' = running
  BY DEF GiveToReceiver, Live, Born, Done
<1>14. Receivers(c)' = Receivers(c) \ {g} /\ Distinct(recvW'[c])
  BY <1>3, <1>5 DEF Receivers
<1>15. \A d \in Channel \ {c} : Receivers(d)' = Receivers(d)
  BY <1>5 DEF Receivers
<1> QED BY <1>3, <1>5, <1>9, <1>11, <1>12, <1>13, <1>14, <1>15

LEMMA ParkSenderMoves ==
    ASSUME IInv, NEW f \in Fiber, NEW c \in Channel, ParkSender(f, c)
    PROVE  /\ f \in Live /\ running = f /\ running' = None /\ Live' = Live
           /\ Senders(c)' = Senders(c) \cup {f} /\ DistinctFibers(sendW'[c])
           /\ \A d \in Channel \ {c} : Senders(d)' = Senders(d)
                                      /\ sendW'[d] = sendW[d]
           /\ \A d \in Channel : Receivers(d)' = Receivers(d)
<1>1. FiberTypes /\ ChannelTypes /\ OnePlace /\ Bookkeeping
  BY DEF IInv, TypeOK
<1>2. f \in Live /\ running = f
  BY <1>1 DEF ParkSender, Operate, Bookkeeping, Fiber, None
<1>3. f \notin Senders(c)
  BY <1>1, <1>2 DEF OnePlace, Parked
<1> DEFINE e == [fiber |-> f, value |-> NewValue(f, c)]
<1>4. e \in [fiber : Fiber, value : Value] /\ e.fiber = f
  BY <1>1, ConstantsAssumption DEF ParkSender, Operate, NewValue, Value, FiberTypes
<1>5. sendW[c] \in Seq([fiber : Fiber, value : Value]) /\ DistinctFibers(sendW[c])
  BY <1>1 DEF ChannelTypes, OnePlace
<1>6. /\ sendW' = [sendW EXCEPT ![c] = Append(sendW[c],
                     [fiber |-> f, value |-> NewValue(f, c)])]
      /\ sendW \in [Channel -> Seq([fiber : Fiber, value : Value])]
  BY <1>1 DEF ParkSender, ChannelTypes
<1>7. /\ sendW'[c] = Append(sendW[c], [fiber |-> f, value |-> NewValue(f, c)])
      /\ \A d \in Channel \ {c} : sendW'[d] = sendW[d]
  BY <1>6
<1>8. Senders(c)' = Senders(c) \cup {f} /\ DistinctFibers(sendW'[c])
  <2>1. sendW'[c] = Append(sendW[c], e)
    BY <1>7
  <2> DEFINE S == [fiber : Fiber, value : Value]
  <2>a. e \in S /\ sendW[c] \in Seq(S)
    BY <1>4, <1>5
  <2> HIDE DEF e, S
  <2>2. /\ FibersOf(Append(sendW[c], e)) = FibersOf(sendW[c]) \cup {e.fiber}
        /\ f \notin FibersOf(sendW[c]) => DistinctFibers(Append(sendW[c], e))
    BY <1>4, <1>5, <2>a, AppendFibers
  <2> QED BY <1>3, <1>4, <2>1, <2>2 DEF Senders
<1>9. \A d \in Channel \ {c} : Senders(d)' = Senders(d)
  BY <1>7 DEF Senders
<1>10. running' = None /\ Live' = Live /\ \A d \in Channel : Receivers(d)' = Receivers(d)
  BY DEF ParkSender, Receivers, Live, Born, Done
<1> QED BY <1>2, <1>7, <1>8, <1>9, <1>10

LEMMA ParkReceiverMoves ==
    ASSUME IInv, NEW f \in Fiber, NEW c \in Channel, ParkReceiver(f, c)
    PROVE  /\ f \in Live /\ running = f /\ running' = None /\ Live' = Live
           /\ Receivers(c)' = Receivers(c) \cup {f} /\ Distinct(recvW'[c])
           /\ \A d \in Channel \ {c} : Receivers(d)' = Receivers(d)
                                      /\ recvW'[d] = recvW[d]
           /\ \A d \in Channel : Senders(d)' = Senders(d)
<1>1. ChannelTypes /\ OnePlace /\ Bookkeeping
  BY DEF IInv, TypeOK
<1>2. f \in Live /\ running = f
  BY <1>1 DEF ParkReceiver, Operate, Bookkeeping, Fiber, None
<1>3. f \notin Receivers(c)
  BY <1>1, <1>2 DEF OnePlace, Parked
<1>4. recvW[c] \in Seq(Fiber) /\ Distinct(recvW[c])
  BY <1>1 DEF ChannelTypes, OnePlace
<1>5. recvW' = [recvW EXCEPT ![c] = Append(recvW[c], f)] /\ recvW \in [Channel -> Seq(Fiber)]
  BY <1>1 DEF ParkReceiver, ChannelTypes
<1>6. recvW'[c] = Append(recvW[c], f) /\ \A d \in Channel \ {c} : recvW'[d] = recvW[d]
  BY <1>5
<1>7. Receivers(c)' = Receivers(c) \cup {f} /\ Distinct(recvW'[c])
  BY <1>3, <1>4, <1>6, AppendElements DEF Receivers
<1>8. \A d \in Channel \ {c} : Receivers(d)' = Receivers(d)
  BY <1>6 DEF Receivers
<1>9. running' = None /\ Live' = Live /\ \A d \in Channel : Senders(d)' = Senders(d)
  BY DEF ParkReceiver, Senders, Live, Born, Done
<1> QED BY <1>2, <1>6, <1>7, <1>8, <1>9

LEMMA TakeWakesSender ==
    ASSUME IInv, NEW f \in Fiber, NEW c \in Channel, TakeFromBuffer(f, c),
           sendW[c] # << >>
    PROVE  \E g \in Senders(c) :
             /\ g \in Fiber /\ ready' = Append(ready, Entry(g, NoVal))
             /\ Queued' = Queued \cup {g} /\ DistinctFibers(ready')
             /\ Senders(c)' = Senders(c) \ {g} /\ DistinctFibers(sendW'[c])
             /\ \A d \in Channel \ {c} : Senders(d)' = Senders(d)
                                        /\ sendW'[d] = sendW[d]
             /\ \A d \in Channel : Receivers(d)' = Receivers(d)
             /\ Live' = Live /\ running' = running
<1> DEFINE g == Head(sendW[c]).fiber
<1>1. FiberTypes /\ ChannelTypes /\ OnePlace
  BY DEF IInv, TypeOK
<1>2. sendW[c] \in Seq([fiber : Fiber, value : Value]) /\ DistinctFibers(sendW[c])
  BY <1>1 DEF ChannelTypes, OnePlace
<1>3. /\ g \in Fiber /\ g \in Senders(c)
      /\ FibersOf(Tail(sendW[c])) = Senders(c) \ {g} /\ DistinctFibers(Tail(sendW[c]))
  <2>1. Head(sendW[c]) \in [fiber : Fiber, value : Value]
    BY <1>2, TailFibers
  <2>2. g \in Fiber
    BY <2>1
  <2> QED BY <1>2, <2>2, TailFibers DEF Senders
<1>4. /\ sendW' = [sendW EXCEPT ![c] = Tail(sendW[c])]
      /\ sendW \in [Channel -> Seq([fiber : Fiber, value : Value])]
      /\ ready' = Append(ready, Entry(g, NoVal))
  BY <1>1 DEF TakeFromBuffer, ChannelTypes
<1>5. sendW'[c] = Tail(sendW[c]) /\ \A d \in Channel \ {c} : sendW'[d] = sendW[d]
  BY <1>4
<1>6. g \notin Queued
  BY <1>1, <1>3 DEF OnePlace, Parked
<1>7. Entry(g, NoVal) \in ReadyEntry /\ Entry(g, NoVal).fiber = g
  BY <1>3 DEF Entry, ReadyEntry
<1>8. ready \in Seq(ReadyEntry) /\ DistinctFibers(ready)
  BY <1>1 DEF FiberTypes, ReadyEntry, OnePlace
<1>9. Queued' = Queued \cup {g} /\ DistinctFibers(ready')
  BY <1>4, <1>6, <1>7, <1>8, AppendFibers DEF Queued
<1>10. Senders(c)' = Senders(c) \ {g} /\ DistinctFibers(sendW'[c])
  BY <1>3, <1>5 DEF Senders
<1>11. \A d \in Channel \ {c} : Senders(d)' = Senders(d)
  BY <1>5 DEF Senders
<1>12. Live' = Live /\ running' = running /\ \A d \in Channel : Receivers(d)' = Receivers(d)
  BY DEF TakeFromBuffer, Receivers, Live, Born, Done
<1> QED BY <1>3, <1>4, <1>5, <1>9, <1>10, <1>11, <1>12

LEMMA YieldMoves ==
    ASSUME IInv, NEW f \in Fiber, Yield(f)
    PROVE  /\ f \in Live /\ running = f /\ running' = None /\ Live' = Live
           /\ Queued' = Queued \cup {f} /\ DistinctFibers(ready')
<1>1. FiberTypes /\ OnePlace /\ Bookkeeping
  BY DEF IInv, TypeOK
<1>2. f \in Live /\ running = f
  BY <1>1 DEF Yield, Bookkeeping, Fiber, None
<1>3. f \notin Queued
  BY <1>1, <1>2 DEF OnePlace
<1>4. Entry(f, NoVal) \in ReadyEntry /\ Entry(f, NoVal).fiber = f
  BY DEF Entry, ReadyEntry
<1>5. /\ ready \in Seq(ReadyEntry) /\ DistinctFibers(ready)
      /\ ready' = Append(ready, Entry(f, NoVal))
  BY <1>1 DEF Yield, FiberTypes, ReadyEntry, OnePlace
<1>6. Queued' = Queued \cup {f} /\ DistinctFibers(ready')
  BY <1>3, <1>4, <1>5, AppendFibers DEF Queued
<1> QED BY <1>2, <1>6 DEF Yield, Live, Born, Done

LEMMA SpawnMoves ==
    ASSUME IInv, SpawnFiber, UNCHANGED outcome
    PROVE  \E g \in Fiber \ Born :
             /\ g = nSpawned + 1 /\ g \notin Live /\ Born' = Born \cup {g}
             /\ ready' = Append(ready, Entry(g, NoVal))
             /\ Live' = Live \cup {g}
             /\ Queued' = Queued \cup {g} /\ DistinctFibers(ready')
             /\ g \notin Queued
             /\ \A c \in Channel : g \notin Parked(c)
<1> DEFINE g == nSpawned + 1
<1>1. FiberTypes /\ OnePlace /\ Bookkeeping
  BY DEF IInv, TypeOK
<1>2. g \in Fiber \ Born /\ Born' = Born \cup {g} /\ nSpawned \in Nat
  BY <1>1, SpawnTypes, ConstantsAssumption DEF SpawnFiber, FiberTypes, Born
<1>3. Live' = Live \cup {g} /\ g \notin Live
  BY <1>1, <1>2 DEF Live, Done, Bookkeeping
<1>4. g \notin Queued /\ \A c \in Channel : g \notin Parked(c)
  BY <1>1, <1>2, <1>3 DEF OnePlace
<1>5. Entry(g, NoVal) \in ReadyEntry /\ Entry(g, NoVal).fiber = g
  BY <1>2 DEF Entry, ReadyEntry
<1>6. /\ ready \in Seq(ReadyEntry) /\ DistinctFibers(ready)
      /\ ready' = Append(ready, Entry(g, NoVal))
  BY <1>1 DEF SpawnFiber, FiberTypes, ReadyEntry, OnePlace
<1>7. Queued' = Queued \cup {g} /\ DistinctFibers(ready')
  BY <1>4, <1>5, <1>6, AppendFibers DEF Queued
<1> QED BY <1>2, <1>3, <1>4, <1>6, <1>7

LEMMA DispatchMoves ==
    ASSUME IInv, Dispatch
    PROVE  \E g \in Queued :
             /\ g = Head(ready).fiber /\ g \in Live /\ g \in Fiber
             /\ running = None /\ running' = g /\ Live' = Live
             /\ ready \in Seq(ReadyEntry) /\ ready # << >> /\ ready' = Tail(ready)
             /\ gen' = [gen EXCEPT ![g] = "running"]
             /\ Queued' = Queued \ {g} /\ DistinctFibers(ready')
<1> DEFINE g == Head(ready).fiber
<1>1. FiberTypes /\ OnePlace
  BY DEF IInv, TypeOK
<1>2. ready \in Seq(ReadyEntry) /\ DistinctFibers(ready) /\ ready # << >>
      /\ ready' = Tail(ready)
  BY <1>1 DEF Dispatch, FiberTypes, ReadyEntry, OnePlace
<1>3. Head(ready) \in ReadyEntry /\ g \in Queued
      /\ FibersOf(Tail(ready)) = Queued \ {g} /\ DistinctFibers(Tail(ready))
  BY <1>2, TailFibers DEF Queued
<1>4. g \in Fiber
  BY <1>3 DEF ReadyEntry
<1>5. g \in Live
  BY <1>1, <1>3, <1>4 DEF OnePlace
<1>6. ~Done(g)
  BY <1>5 DEF Live
<1>7. running = None /\ running' = g /\ Live' = Live /\ gen' = [gen EXCEPT ![g] = "running"]
  BY <1>6 DEF Dispatch, Pumping, Live, Born, Done
<1>8. Queued' = Queued \ {g} /\ DistinctFibers(ready')
  BY <1>2, <1>3 DEF Queued
<1> QED BY <1>2, <1>3, <1>4, <1>5, <1>7, <1>8

-----------------------------------------------------------------------------
(* Steps that move no fiber: the main program's (but its spawns), and the  *)
(* ends of pump.                                                           *)
StandStill == \/ UNCHANGED vars \/ StartRun \/ CallDrain \/ CallAwait \/ EndBody
              \/ FailBody \/ BudgetSpent \/ CheckAll \/ CheckAwaited

LEMMA StandStillFrame ==
    ASSUME StandStill
    PROVE  UNCHANGED <<nSpawned, ready, gen, outcome, running, ops, got, chanVars>>
BY DEF StandStill, StartRun, CallDrain, CallAwait, EnterPump, EndBody, FailBody,
       BudgetSpent, CheckAll, CheckAwaited, LeavePump, vars

(* The disjuncts of a step, flattened.                                     *)
LEMMA Steps ==
    ASSUME [Next]_vars
    PROVE  \/ StandStill \/ MainSpawn \/ Dispatch
           \/ \E f \in Fiber :
                \/ \E c \in Channel :
                     \/ GiveToReceiver(f, c) \/ GiveToBuffer(f, c) \/ ParkSender(f, c)
                     \/ TakeFromBuffer(f, c) \/ ParkReceiver(f, c)
                \/ Yield(f) \/ FiberSpawn(f)
                \/ \E how \in {"returned", "error"} : Finish(f, how)
BY DEF Next, MainStep, PumpStep, FiberStep, ChannelStep, Quit, StandStill

(* Spawning keeps every fiber in one place, from main or from a fiber.     *)
LEMMA SpawnOnePlace ==
    ASSUME IInv, SpawnFiber, UNCHANGED <<outcome, running, chanVars>>
    PROVE  OnePlace'
<1>1. OnePlace /\ ControlTypes /\ Bookkeeping
  BY DEF IInv, TypeOK
<1>2. PICK g \in Fiber \ Born :
             /\ g \notin Live /\ Live' = Live \cup {g}
             /\ Queued' = Queued \cup {g} /\ DistinctFibers(ready')
             /\ g \notin Queued
             /\ \A c \in Channel : g \notin Parked(c)
  BY SpawnMoves
<1>3. /\ \A c \in Channel : Receivers(c)' = Receivers(c) /\ Senders(c)' = Senders(c)
      /\ recvW' = recvW /\ sendW' = sendW /\ running' = running
  BY DEF chanVars, Receivers, Senders
<1>4. g # running
  BY <1>1, <1>2, NoneNoVal DEF Bookkeeping
<1> QED BY <1>1, <1>2, <1>3, <1>4 DEF OnePlace, Parked

LEMMA OnePlaceStep == IInv /\ [Next]_vars => OnePlace'
<1> SUFFICES ASSUME IInv, [Next]_vars PROVE OnePlace'
  OBVIOUS
<1>0. OnePlace
  BY DEF IInv
<1>1. CASE StandStill
  BY <1>0, <1>1, StandStillFrame
  DEF chanVars, OnePlace, Queued, Parked, Receivers, Senders, Live, Born, Done
<1>2. CASE MainSpawn
  BY <1>2, SpawnOnePlace DEF MainSpawn
<1>3. CASE Dispatch
  <2>1. PICK g \in Queued :
             /\ g \in Live /\ g \in Fiber
             /\ running = None /\ running' = g /\ Live' = Live
             /\ Queued' = Queued \ {g} /\ DistinctFibers(ready')
    BY <1>3, DispatchMoves
  <2>2. /\ \A c \in Channel : Receivers(c)' = Receivers(c) /\ Senders(c)' = Senders(c)
        /\ recvW' = recvW /\ sendW' = sendW
    BY <1>3 DEF Dispatch, chanVars, Receivers, Senders
  <2>3. \A c \in Channel : g \notin Parked(c)
    BY <1>0, <2>1 DEF OnePlace
  <2> QED BY <1>0, <2>1, <2>2, <2>3, NoneNoVal DEF OnePlace, Parked
<1>4. ASSUME NEW f \in Fiber, NEW c \in Channel, GiveToReceiver(f, c)
      PROVE  OnePlace'
  <2>1. PICK g \in Receivers(c) :
             /\ g \in Fiber
             /\ Queued' = Queued \cup {g} /\ DistinctFibers(ready')
             /\ Receivers(c)' = Receivers(c) \ {g} /\ Distinct(recvW'[c])
             /\ \A d \in Channel \ {c} : Receivers(d)' = Receivers(d)
                                        /\ recvW'[d] = recvW[d]
             /\ \A d \in Channel : Senders(d)' = Senders(d)
             /\ Live' = Live /\ running' = running
    BY <1>4, GiveToReceiverMoves
  <2>2. sendW' = sendW
    BY <1>4 DEF GiveToReceiver
  <2> QED BY <1>0, <2>1, <2>2 DEF OnePlace, Parked
<1>5. ASSUME NEW f \in Fiber, NEW c \in Channel, GiveToBuffer(f, c)
      PROVE  OnePlace'
  BY <1>0, <1>5 DEF GiveToBuffer, OnePlace, Queued, Parked, Receivers, Senders,
                    Live, Born, Done
<1>6. ASSUME NEW f \in Fiber, NEW c \in Channel, ParkSender(f, c)
      PROVE  OnePlace'
  <2>1. ready' = ready /\ Queued' = Queued /\ recvW' = recvW
    BY <1>6 DEF ParkSender, Queued
  <2> QED BY <1>0, <1>6, <2>1, ParkSenderMoves, NoneNoVal DEF OnePlace, Parked
<1>7. ASSUME NEW f \in Fiber, NEW c \in Channel, TakeFromBuffer(f, c)
      PROVE  OnePlace'
  <2>1. CASE sendW[c] = << >>
    BY <1>0, <1>7, <2>1 DEF TakeFromBuffer, OnePlace, Queued, Parked, Receivers,
                            Senders, Live, Born, Done
  <2>2. CASE sendW[c] # << >>
    <3>1. PICK g \in Senders(c) :
             /\ g \in Fiber
             /\ Queued' = Queued \cup {g} /\ DistinctFibers(ready')
             /\ Senders(c)' = Senders(c) \ {g} /\ DistinctFibers(sendW'[c])
             /\ \A d \in Channel \ {c} : Senders(d)' = Senders(d)
                                        /\ sendW'[d] = sendW[d]
             /\ \A d \in Channel : Receivers(d)' = Receivers(d)
             /\ Live' = Live /\ running' = running
      BY <1>7, <2>2, TakeWakesSender
    <3>2. recvW' = recvW
      BY <1>7 DEF TakeFromBuffer
    <3> QED BY <1>0, <3>1, <3>2 DEF OnePlace, Parked
  <2> QED BY <2>1, <2>2
<1>8. ASSUME NEW f \in Fiber, NEW c \in Channel, ParkReceiver(f, c)
      PROVE  OnePlace'
  <2>1. ready' = ready /\ Queued' = Queued /\ sendW' = sendW
    BY <1>8 DEF ParkReceiver, Queued
  <2> QED BY <1>0, <1>8, <2>1, ParkReceiverMoves, NoneNoVal DEF OnePlace, Parked
<1>9. ASSUME NEW f \in Fiber, Yield(f) PROVE OnePlace'
  <2>1. /\ recvW' = recvW /\ sendW' = sendW
        /\ \A c \in Channel : Receivers(c)' = Receivers(c) /\ Senders(c)' = Senders(c)
    BY <1>9 DEF Yield, chanVars, Receivers, Senders
  <2>2. f \notin Queued /\ \A c \in Channel : f \notin Parked(c)
    BY <1>0, <1>9, YieldMoves DEF OnePlace
  <2> QED BY <1>0, <1>9, <2>1, <2>2, YieldMoves, NoneNoVal DEF OnePlace, Parked
<1>10. ASSUME NEW f \in Fiber, FiberSpawn(f) PROVE OnePlace'
  BY <1>10, SpawnOnePlace DEF FiberSpawn
<1>11. ASSUME NEW f \in Fiber, NEW how \in {"returned", "error"}, Finish(f, how)
       PROVE  OnePlace'
  <2>1. /\ recvW' = recvW /\ sendW' = sendW /\ ready' = ready /\ Queued' = Queued
        /\ \A c \in Channel : Receivers(c)' = Receivers(c) /\ Senders(c)' = Senders(c)
        /\ running = f /\ running' = None
    BY <1>11 DEF Finish, chanVars, Queued, Receivers, Senders
  <2>2. Live' = Live \ {f}
    BY <1>11 DEF Finish, Live, Born, Done, IInv, TypeOK, FiberTypes
  <2> QED BY <1>0, <2>1, <2>2, NoneNoVal DEF OnePlace, Parked
<1> QED BY <1>1, <1>2, <1>3, <1>4, <1>5, <1>6, <1>7, <1>8, <1>9, <1>10, <1>11, Steps

-----------------------------------------------------------------------------
(* Bookkeeping, in two halves: control, then resumption.                   *)
ControlBook ==
    /\ LatchHeld
    /\ running # None => running \in Live
    /\ \A f \in Fiber \ Born : outcome[f] = "none"
    /\ pc = "awaiting" => awaited \in Born
    /\ inScheduler => verdict = "none"

ResumeBook ==
    /\ \A e \in Elements(ready) :
         IF gen[e.fiber] = "recv" THEN e.val \in Value ELSE e.val = NoVal
    /\ \A c \in Channel :
         /\ \A f \in Receivers(c) : gen[f] = "recv"
         /\ \A f \in Senders(c) : gen[f] = "send"

LEMMA ControlBookStep == IInv /\ [Next]_vars => ControlBook'
<1> SUFFICES ASSUME IInv, [Next]_vars PROVE ControlBook'
  OBVIOUS
<1>0. ControlBook /\ ControlTypes
  BY DEF IInv, TypeOK, ControlBook, Bookkeeping
<1>t. Born \subseteq Fiber /\ None \notin Fiber /\ outcome \in [Fiber -> {"none", "returned", "error"}]
  BY ConstantsAssumption DEF IInv, TypeOK, FiberTypes, Born, Fiber, None
<1>1. CASE StandStill
  <2>1. UNCHANGED <<nSpawned, outcome, running>> /\ Born' = Born /\ Live' = Live
    BY <1>1, StandStillFrame DEF Born, Live, Done
  <2>2. CASE UNCHANGED vars
    BY <1>0, <2>1, <2>2 DEF vars, mainVars, ControlBook, LatchHeld
  <2>3. CASE StartRun \/ FailBody
    BY <1>0, <2>1, <2>3 DEF StartRun, FailBody, ControlBook, LatchHeld
  <2>4. CASE CallDrain \/ CallAwait \/ EndBody
    BY <1>0, <2>1, <2>4 DEF CallDrain, CallAwait, EndBody, EnterPump, ControlBook, LatchHeld
  <2>5. CASE BudgetSpent \/ CheckAll \/ CheckAwaited
    <3>1. \E how \in {"ok", "error", "deadlock", "budget"} : \E errs : LeavePump(how, errs)
      BY <2>5 DEF BudgetSpent, CheckAll, CheckAwaited
    <3>2. PICK how \in {"ok", "error", "deadlock", "budget"} : \E errs : LeavePump(how, errs)
      BY <3>1
    <3>3. PICK errs : LeavePump(how, errs)
      BY <3>2
    <3>4. running = None
      BY <2>5 DEF BudgetSpent, CheckAll, CheckAwaited, Pumping
    <3> QED BY <1>0, <2>1, <3>3, <3>4 DEF LeavePump, ControlBook, LatchHeld
  <2> QED BY <1>1, <2>2, <2>3, <2>4, <2>5 DEF StandStill
<1>2. CASE MainSpawn
  <2>1. PICK g \in Fiber \ Born : /\ Born' = Born \cup {g} /\ Live' = Live \cup {g}
    BY <1>2, SpawnMoves DEF MainSpawn
  <2> QED BY <1>0, <1>2, <2>1 DEF MainSpawn, ControlBook, LatchHeld
<1>3. CASE Dispatch
  <2>1. PICK g \in Live : running' = g /\ Live' = Live
    BY <1>3, DispatchMoves
  <2>2. UNCHANGED mainVars /\ inScheduler' = inScheduler /\ inScheduler
        /\ Born' = Born /\ outcome' = outcome
    BY <1>3 DEF Dispatch, Pumping, Born
  <2> QED BY <1>0, <2>1, <2>2 DEF mainVars, ControlBook, LatchHeld
<1>4. ASSUME NEW f \in Fiber, FiberStep(f), ~FiberSpawn(f) PROVE ControlBook'
  <2>1. /\ UNCHANGED <<mainVars, inScheduler>> /\ running = f /\ running' \in {f, None}
    BY <1>4, FiberStepFrame
  <2>2. CASE \E how \in {"returned", "error"} : Finish(f, how)
    <3>1. /\ \A g \in Fiber \ {f} : outcome'[g] = outcome[g]
          /\ Born' = Born /\ running' = None
      BY <2>2, <1>t DEF Finish, Born
    <3>2. f \in Born
      BY <1>0, <1>t, <2>1 DEF ControlBook, Live
    <3> QED BY <1>0, <2>1, <3>1, <3>2 DEF mainVars, ControlBook, LatchHeld
  <2>3. CASE ~ \E how \in {"returned", "error"} : Finish(f, how)
    <3>1. outcome' = outcome /\ nSpawned' = nSpawned
      BY <2>3, <1>4 DEF FiberStep, ChannelStep, GiveToReceiver, GiveToBuffer,
                        ParkSender, TakeFromBuffer, ParkReceiver, Yield
    <3>2. Born' = Born /\ Live' = Live
      BY <3>1 DEF Born, Live, Done
    <3> QED BY <1>0, <2>1, <3>1, <3>2 DEF mainVars, ControlBook, LatchHeld
  <2> QED BY <2>2, <2>3
<1>5. ASSUME NEW f \in Fiber, FiberSpawn(f) PROVE ControlBook'
  <2>1. PICK g \in Fiber \ Born : /\ Born' = Born \cup {g} /\ Live' = Live \cup {g}
    BY <1>5, SpawnMoves DEF FiberSpawn
  <2> QED BY <1>0, <1>5, <2>1 DEF FiberSpawn, mainVars, ControlBook, LatchHeld
<1> QED BY <1>1, <1>2, <1>3, <1>4, <1>5, Steps DEF FiberStep, ChannelStep

(* Whoever waits is a fiber.                                               *)
LEMMA ParkedAreFibers ==
    ASSUME ChannelTypes
    PROVE  \A c \in Channel : Receivers(c) \subseteq Fiber /\ Senders(c) \subseteq Fiber
<1> TAKE c \in Channel
<1> DEFINE S == [fiber : Fiber, value : Value]
<1>1. recvW[c] \in Seq(Fiber) /\ sendW[c] \in Seq(S)
  BY DEF ChannelTypes
<1>2. \A e \in S : e.fiber \in Fiber
  OBVIOUS
<1> HIDE DEF S
<1>3. ASSUME NEW i \in DOMAIN recvW[c] PROVE recvW[c][i] \in Fiber
  BY <1>1, LenProperties, ElementOfSeq
<1>4. ASSUME NEW i \in DOMAIN sendW[c] PROVE sendW[c][i].fiber \in Fiber
  BY <1>1, <1>2, LenProperties, ElementOfSeq
<1> QED BY <1>3, <1>4 DEF Receivers, Senders, Elements, FibersOf

LEMMA QueuedAreFibers ==
    ASSUME FiberTypes
    PROVE  Queued \subseteq Fiber
<1>1. ready \in Seq(ReadyEntry) /\ \A e \in ReadyEntry : e.fiber \in Fiber
  BY DEF FiberTypes, ReadyEntry
<1>2. ASSUME NEW i \in DOMAIN ready PROVE ready[i].fiber \in Fiber
  BY <1>1, LenProperties, ElementOfSeq
<1> QED BY <1>2 DEF Queued, FibersOf

(* A fiber whose generator moved is neither queued nor parked afterwards,  *)
(* unless the same step put it there.                                      *)
LEMMA ResumeBookStep == IInv /\ [Next]_vars => ResumeBook'
<1> SUFFICES ASSUME IInv, [Next]_vars PROVE ResumeBook'
  OBVIOUS
<1>0. ResumeBook /\ OnePlace /\ FiberTypes /\ ChannelTypes
  BY DEF IInv, TypeOK, ResumeBook, Bookkeeping
<1>e. /\ ready \in Seq(ReadyEntry)
      /\ \A e \in Elements(ready) : e.fiber \in Queued
  BY <1>0 DEF FiberTypes, ReadyEntry, Elements, Queued, FibersOf
<1>r. \A f \in Fiber, v \in Value \cup {NoVal} :
         /\ Entry(f, v) \in ReadyEntry
         /\ Entry(f, v).fiber = f /\ Entry(f, v).val = v
         /\ Elements(Append(ready, Entry(f, v))) = Elements(ready) \cup {Entry(f, v)}
  <2> TAKE f \in Fiber, v \in Value \cup {NoVal}
  <2>1. Entry(f, v) \in ReadyEntry /\ Entry(f, v).fiber = f /\ Entry(f, v).val = v
    BY DEF Entry, ReadyEntry
  <2> QED BY <2>1, <1>e, AppendElements
<1>1. CASE StandStill
  <2>1. /\ ready' = ready /\ gen' = gen
        /\ \A c \in Channel : Receivers(c)' = Receivers(c) /\ Senders(c)' = Senders(c)
    BY <1>1, StandStillFrame DEF chanVars, Receivers, Senders
  <2> QED BY <1>0, <2>1 DEF ResumeBook
<1>2. ASSUME SpawnFiber, UNCHANGED <<outcome, chanVars>> PROVE ResumeBook'
  <2>1. PICK g \in Fiber \ Born :
             /\ g = nSpawned + 1 /\ g \notin Queued
             /\ ready' = Append(ready, Entry(g, NoVal))
             /\ \A c \in Channel : g \notin Parked(c)
    BY <1>2, SpawnMoves
  <2>2. gen'[g] = "start" /\ \A f \in Fiber \ {g} : gen'[f] = gen[f]
    BY <1>0, <1>2, <2>1 DEF SpawnFiber, FiberTypes
  <2>3. \A c \in Channel : Receivers(c)' = Receivers(c) /\ Senders(c)' = Senders(c)
                          /\ Receivers(c) \subseteq Fiber /\ Senders(c) \subseteq Fiber
    BY <1>0, <1>2, ParkedAreFibers DEF chanVars, Receivers, Senders
  <2>4. \A e \in Elements(ready) : e.fiber \in Fiber \ {g}
    BY <1>e, <2>1, QueuedAreFibers, <1>0
  <2>5. ASSUME NEW e \in Elements(ready')
        PROVE  IF gen'[e.fiber] = "recv" THEN e.val \in Value ELSE e.val = NoVal
    <3>1. e \in Elements(ready) \/ e = Entry(g, NoVal)
      BY <1>r, <2>1, <2>5
    <3>2. CASE e \in Elements(ready)
      BY <3>2, <1>0, <2>2, <2>4 DEF ResumeBook
    <3>3. CASE e = Entry(g, NoVal)
      BY <3>3, <1>r, <2>2
    <3> QED BY <3>1, <3>2, <3>3
  <2>6. ASSUME NEW c \in Channel
        PROVE  /\ \A f \in Receivers(c)' : gen'[f] = "recv"
               /\ \A f \in Senders(c)' : gen'[f] = "send"
    <3>1. /\ \A f \in Receivers(c) : f \in Fiber \ {g} /\ gen[f] = "recv"
          /\ \A f \in Senders(c) : f \in Fiber \ {g} /\ gen[f] = "send"
      BY <1>0, <2>1, <2>3 DEF ResumeBook, Parked
    <3> QED BY <2>2, <2>3, <3>1
  <2> QED BY <2>5, <2>6 DEF ResumeBook
<1>3. CASE MainSpawn
  BY <1>2, <1>3 DEF MainSpawn
<1>4. CASE Dispatch
  <2>1. PICK g \in Queued :
             /\ g \in Fiber /\ Queued' = Queued \ {g}
             /\ ready # << >> /\ ready' = Tail(ready)
             /\ gen' = [gen EXCEPT ![g] = "running"]
    BY <1>4, DispatchMoves
  <2>2. \A f \in Fiber \ {g} : gen'[f] = gen[f]
    BY <1>0, <2>1 DEF FiberTypes
  <2>3. \A c \in Channel : /\ Receivers(c)' = Receivers(c) /\ Senders(c)' = Senders(c)
                          /\ Receivers(c) \subseteq Fiber /\ Senders(c) \subseteq Fiber
                          /\ g \notin Parked(c)
    BY <1>0, <1>4, ParkedAreFibers DEF Dispatch, chanVars, Receivers, Senders, OnePlace
  <2>4. \A e \in Elements(ready') : e \in Elements(ready) /\ e.fiber \in Queued'
    BY <1>e, <2>1, TailElements DEF Elements, Queued, FibersOf
  <2>5. \A e \in Elements(ready') : e \in Elements(ready) /\ e.fiber \in Fiber \ {g}
    BY <2>1, <2>4, QueuedAreFibers, <1>0
  <2> QED BY <1>0, <2>2, <2>3, <2>5 DEF ResumeBook, Parked
<1>5. ASSUME NEW f \in Fiber, NEW c \in Channel, GiveToReceiver(f, c)
      PROVE  ResumeBook'
  <2>1. PICK g \in Receivers(c) :
             /\ g \in Fiber
             /\ ready' = Append(ready, Entry(g, NewValue(f, c)))
             /\ Receivers(c)' = Receivers(c) \ {g}
             /\ \A d \in Channel \ {c} : Receivers(d)' = Receivers(d)
             /\ \A d \in Channel : Senders(d)' = Senders(d)
    BY <1>5, GiveToReceiverMoves
  <2>2. NewValue(f, c) \in Value /\ gen' = gen
    <3>1. ops + 1 \in 1..MaxOps
      BY <1>0, <1>5, ConstantsAssumption DEF GiveToReceiver, Operate, FiberTypes
    <3> QED BY <3>1, <1>5 DEF GiveToReceiver, NewValue, Value
  <2> QED BY <1>0, <1>r, <2>1, <2>2 DEF ResumeBook
<1>6. ASSUME NEW f \in Fiber, NEW c \in Channel, GiveToBuffer(f, c)
      PROVE  ResumeBook'
  BY <1>0, <1>6 DEF GiveToBuffer, ResumeBook, Receivers, Senders
<1>7. ASSUME NEW f \in Fiber, NEW c \in Channel,
             ParkSender(f, c) \/ ParkReceiver(f, c)
      PROVE  ResumeBook'
  <2>1. f \in Live /\ running = f /\ ready' = ready
    BY <1>7, ParkSenderMoves, ParkReceiverMoves DEF ParkSender, ParkReceiver
  <2>2. \A g \in Fiber \ {f} : gen'[g] = gen[g]
    BY <1>0, <1>7 DEF ParkSender, ParkReceiver, FiberTypes
  <2>3. f \notin Queued /\ \A d \in Channel : f \notin Parked(d)
    BY <1>0, <2>1 DEF OnePlace
  <2>4. \A e \in Elements(ready) : e.fiber \in Fiber \ {f}
    BY <1>e, <2>3, QueuedAreFibers, <1>0
  <2>5. \A d \in Channel : Receivers(d) \subseteq Fiber /\ Senders(d) \subseteq Fiber
    BY <1>0, ParkedAreFibers
  <2>6. CASE ParkSender(f, c)
    <3>1. gen'[f] = "send"
      BY <1>0, <2>6 DEF ParkSender, FiberTypes
    <3> QED BY <1>0, <2>1, <2>2, <2>3, <2>4, <2>5, <2>6, <3>1, ParkSenderMoves
            DEF ResumeBook, Parked
  <2>7. CASE ParkReceiver(f, c)
    <3>1. gen'[f] = "recv"
      BY <1>0, <2>7 DEF ParkReceiver, FiberTypes
    <3> QED BY <1>0, <2>1, <2>2, <2>3, <2>4, <2>5, <2>7, <3>1, ParkReceiverMoves
            DEF ResumeBook, Parked
  <2> QED BY <1>7, <2>6, <2>7
<1>8. ASSUME NEW f \in Fiber, NEW c \in Channel, TakeFromBuffer(f, c)
      PROVE  ResumeBook'
  <2>1. gen' = gen
    BY <1>8 DEF TakeFromBuffer
  <2>2. CASE sendW[c] = << >>
    BY <1>0, <1>8, <2>1, <2>2 DEF TakeFromBuffer, ResumeBook, Receivers, Senders
  <2>3. CASE sendW[c] # << >>
    <3>1. PICK g \in Senders(c) :
             /\ g \in Fiber /\ ready' = Append(ready, Entry(g, NoVal))
             /\ Senders(c)' = Senders(c) \ {g}
             /\ \A d \in Channel \ {c} : Senders(d)' = Senders(d)
             /\ \A d \in Channel : Receivers(d)' = Receivers(d)
      BY <1>8, <2>3, TakeWakesSender
    <3> QED BY <1>0, <1>r, <2>1, <3>1 DEF ResumeBook
  <2> QED BY <2>2, <2>3
<1>9. ASSUME NEW f \in Fiber, Yield(f) \/ \E how \in {"returned", "error"} : Finish(f, how)
      PROVE  ResumeBook'
  <2>1. running = f /\ gen'[f] \in {"yield", "closed"}
        /\ \A g \in Fiber \ {f} : gen'[g] = gen[g]
    BY <1>0, <1>9 DEF Yield, Finish, FiberTypes
  <2>2. f \notin Queued /\ \A d \in Channel : f \notin Parked(d)
    BY <1>0, <2>1 DEF OnePlace
  <2>3. \A d \in Channel : Receivers(d)' = Receivers(d) /\ Senders(d)' = Senders(d)
                          /\ Receivers(d) \subseteq Fiber /\ Senders(d) \subseteq Fiber
    BY <1>0, <1>9, ParkedAreFibers DEF Yield, Finish, chanVars, Receivers, Senders
  <2>4. \A e \in Elements(ready) : e.fiber \in Fiber \ {f}
    BY <1>e, <2>2, QueuedAreFibers, <1>0
  <2>5. ready' = ready \/ ready' = Append(ready, Entry(f, NoVal))
    BY <1>9 DEF Yield, Finish
  <2>6. \A e \in Elements(ready') : e \in Elements(ready) \/ e = Entry(f, NoVal)
    <3>1. Elements(Append(ready, Entry(f, NoVal))) = Elements(ready) \cup {Entry(f, NoVal)}
      BY <1>r
    <3>2. CASE ready' = ready
      BY <3>2
    <3>3. CASE ready' = Append(ready, Entry(f, NoVal))
      BY <3>1, <3>3
    <3> QED BY <2>5, <3>2, <3>3
  <2> QED BY <1>0, <1>r, <2>1, <2>2, <2>3, <2>4, <2>6, NoneNoVal DEF ResumeBook, Parked
<1>10. ASSUME NEW f \in Fiber, FiberSpawn(f) PROVE ResumeBook'
  BY <1>2, <1>10 DEF FiberSpawn
<1> QED BY <1>1, <1>3, <1>4, <1>5, <1>6, <1>7, <1>8, <1>9, <1>10, Steps

-----------------------------------------------------------------------------
(* Fibers wait on a channel only while they must.                          *)
LEMMA WaitersStep == IInv /\ [Next]_vars => WaitersJustified'
<1> SUFFICES ASSUME IInv, [Next]_vars, NEW d \in Channel
             PROVE  WaitsOnlyIfMust(d)'
  BY DEF WaitersJustified
<1>0. WaitsOnlyIfMust(d) /\ ChannelTypes /\ FiberTypes
  BY DEF IInv, TypeOK, WaitersJustified
<1>t. /\ buf[d] \in Seq(Value) /\ Len(buf[d]) \in Nat /\ recvW[d] \in Seq(Fiber)
      /\ Cap[d] \in Nat /\ Cap[d] >= 1
      /\ buf[d] = << >> <=> Len(buf[d]) = 0
  BY <1>0, ConstantsAssumption, LenProperties, EmptySeq DEF ChannelTypes
<1>1. CASE buf'[d] = buf[d] /\ recvW'[d] = recvW[d] /\ sendW'[d] = sendW[d]
  BY <1>0, <1>1 DEF WaitsOnlyIfMust
<1>2. ASSUME NEW f \in Fiber, GiveToReceiver(f, d) PROVE WaitsOnlyIfMust(d)'
  BY <1>0, <1>2 DEF GiveToReceiver, WaitsOnlyIfMust
<1>3. ASSUME NEW f \in Fiber, GiveToBuffer(f, d) PROVE WaitsOnlyIfMust(d)'
  <2>1. /\ recvW' = recvW /\ sendW' = sendW /\ recvW[d] = << >> /\ Len(buf[d]) < Cap[d]
        /\ buf'[d] = Append(buf[d], NewValue(f, d))
    BY <1>0, <1>3 DEF GiveToBuffer, ChannelTypes
  <2>2. Len(buf'[d]) = Len(buf[d]) + 1
    BY <1>0, <1>t, <1>3, <2>1, NewValueIsValue, AppendProperties DEF GiveToBuffer
  <2>3. sendW'[d] = << >> /\ recvW'[d] = << >>
    BY <1>0, <1>t, <2>1 DEF WaitsOnlyIfMust
  <2>4. Len(buf'[d]) <= Cap[d]
    BY <1>t, <2>1, <2>2
  <2> QED BY <2>3, <2>4 DEF WaitsOnlyIfMust
<1>4. ASSUME NEW f \in Fiber, ParkSender(f, d) PROVE WaitsOnlyIfMust(d)'
  <2>1. buf' = buf /\ recvW' = recvW /\ recvW[d] = << >> /\ Len(buf[d]) >= Cap[d]
    BY <1>4 DEF ParkSender
  <2>2. Len(buf[d]) = Cap[d]
    BY <1>0, <1>t, <2>1 DEF WaitsOnlyIfMust
  <2> QED BY <2>1, <2>2, <1>0 DEF WaitsOnlyIfMust
<1>5. ASSUME NEW f \in Fiber, TakeFromBuffer(f, d) PROVE WaitsOnlyIfMust(d)'
  <2>1. recvW' = recvW /\ buf[d] # << >> /\ recvW[d] = << >>
    BY <1>0, <1>5 DEF TakeFromBuffer, WaitsOnlyIfMust
  <2>2. Tail(buf[d]) \in Seq(Value) /\ Len(Tail(buf[d])) = Len(buf[d]) - 1
    BY <1>t, <2>1, HeadTailProperties
  <2>3. CASE sendW[d] = << >>
    <3>1. sendW' = sendW /\ buf'[d] = Tail(buf[d])
      BY <1>0, <1>5, <2>3 DEF TakeFromBuffer, ChannelTypes
    <3>2. Len(buf'[d]) <= Cap[d]
      BY <1>0, <1>t, <2>2, <3>1 DEF WaitsOnlyIfMust
    <3> QED BY <2>1, <2>3, <3>1, <3>2 DEF WaitsOnlyIfMust
  <2>4. CASE sendW[d] # << >>
    <3>1. buf'[d] = Append(Tail(buf[d]), Head(sendW[d]).value)
      BY <1>0, <1>5, <2>4 DEF TakeFromBuffer, ChannelTypes
    <3>2. Head(sendW[d]) \in [fiber : Fiber, value : Value]
      BY <1>0, <2>4, HeadTailProperties DEF ChannelTypes
    <3>3. Head(sendW[d]).value \in Value
      BY <3>2
    <3>4. Len(buf'[d]) = Len(buf[d])
      BY <1>t, <2>2, <3>1, <3>3, AppendProperties
    <3> QED BY <1>0, <1>t, <2>1, <2>4, <3>4 DEF WaitsOnlyIfMust
  <2> QED BY <2>3, <2>4
<1>6. ASSUME NEW f \in Fiber, ParkReceiver(f, d) PROVE WaitsOnlyIfMust(d)'
  BY <1>0, <1>t, <1>6 DEF ParkReceiver, WaitsOnlyIfMust
<1>7. ASSUME NEW f \in Fiber, NEW c \in Channel \ {d},
             \/ GiveToReceiver(f, c) \/ GiveToBuffer(f, c) \/ ParkSender(f, c)
             \/ TakeFromBuffer(f, c) \/ ParkReceiver(f, c)
      PROVE  buf'[d] = buf[d] /\ recvW'[d] = recvW[d] /\ sendW'[d] = sendW[d]
  <2>1. CASE GiveToReceiver(f, c) BY <2>1, <1>0 DEF GiveToReceiver, ChannelTypes
  <2>2. CASE GiveToBuffer(f, c) BY <2>2, <1>0 DEF GiveToBuffer, ChannelTypes
  <2>3. CASE ParkSender(f, c) BY <2>3, <1>0 DEF ParkSender, ChannelTypes
  <2>4. CASE TakeFromBuffer(f, c) BY <2>4, <1>0 DEF TakeFromBuffer, ChannelTypes
  <2>5. CASE ParkReceiver(f, c) BY <2>5, <1>0 DEF ParkReceiver, ChannelTypes
  <2> QED BY <1>7, <2>1, <2>2, <2>3, <2>4, <2>5
<1>8. CASE \/ StandStill \/ MainSpawn \/ Dispatch
           \/ \E f \in Fiber : \/ Yield(f) \/ FiberSpawn(f)
                             \/ \E how \in {"returned", "error"} : Finish(f, how)
  <2>1. UNCHANGED chanVars
    BY <1>8, StandStillFrame DEF MainSpawn, Dispatch, Yield, FiberSpawn, Finish
  <2> QED BY <1>1, <2>1 DEF chanVars
<1> QED BY <1>1, <1>2, <1>3, <1>4, <1>5, <1>6, <1>7, <1>8, Steps

-----------------------------------------------------------------------------
(* Algebra of the values pending on a channel.                             *)
SendEntry == [fiber : Fiber, value : Value]

LEMMA ConcatAppend ==
    ASSUME NEW S, NEW s \in Seq(S), NEW t \in Seq(S), NEW x \in S
    PROVE  s \o Append(t, x) = Append(s \o t, x)
<1>1. /\ s \o t \in Seq(S) /\ Append(t, x) \in Seq(S)
      /\ Len(s) \in Nat /\ Len(t) \in Nat
      /\ Len(s \o t) = Len(s) + Len(t) /\ Len(Append(t, x)) = Len(t) + 1
  BY ConcatProperties, AppendProperties, LenProperties
<1>2. /\ s \o Append(t, x) \in Seq(S) /\ Append(s \o t, x) \in Seq(S)
      /\ Len(s \o Append(t, x)) = Len(s) + Len(t) + 1
      /\ Len(Append(s \o t, x)) = Len(s) + Len(t) + 1
  BY <1>1, ConcatProperties, AppendProperties
<1>3. ASSUME NEW i \in 1..(Len(s) + Len(t) + 1)
      PROVE  (s \o Append(t, x))[i] = Append(s \o t, x)[i]
  BY <1>1, <1>2, ConcatProperties, AppendProperties
<1> QED BY <1>2, <1>3, SeqEqual

LEMMA ConcatAppendValue ==
    \A s, t \in Seq(Value) : \A x \in Value : s \o Append(t, x) = Append(s \o t, x)
BY ConcatAppend

(* A value that leaves at the head moves from the right operand's head to  *)
(* the left operand's end.                                                 *)
LEMMA ConcatShift ==
    ASSUME NEW S, NEW s \in Seq(S), NEW t \in Seq(S), t # << >>
    PROVE  s \o t = Append(s, Head(t)) \o Tail(t)
<1>1. /\ Head(t) \in S /\ Tail(t) \in Seq(S) /\ Len(Tail(t)) = Len(t) - 1
      /\ Len(s) \in Nat /\ Len(t) \in Nat /\ Len(t) >= 1 /\ Head(t) = t[1]
      /\ \A i \in 1..(Len(t) - 1) : Tail(t)[i] = t[i + 1]
  BY HeadTailProperties, LenProperties, EmptySeq
<1>2. Append(s, Head(t)) \in Seq(S) /\ Len(Append(s, Head(t))) = Len(s) + 1
  BY <1>1, AppendProperties
<1>3. /\ s \o t \in Seq(S) /\ Append(s, Head(t)) \o Tail(t) \in Seq(S)
      /\ Len(s \o t) = Len(s) + Len(t)
      /\ Len(Append(s, Head(t)) \o Tail(t)) = Len(s) + Len(t)
  BY <1>1, <1>2, ConcatProperties
<1>4. ASSUME NEW i \in 1..(Len(s) + Len(t))
      PROVE  (s \o t)[i] = (Append(s, Head(t)) \o Tail(t))[i]
  <2>1. (s \o t)[i] = IF i <= Len(s) THEN s[i] ELSE t[i - Len(s)]
    BY ConcatProperties
  <2>2. (Append(s, Head(t)) \o Tail(t))[i] =
           IF i <= Len(s) + 1 THEN Append(s, Head(t))[i] ELSE Tail(t)[i - (Len(s) + 1)]
    BY <1>1, <1>2, ConcatProperties
  <2>3. CASE i <= Len(s) + 1
    BY <1>1, <2>1, <2>2, <2>3, AppendProperties
  <2>4. CASE i > Len(s) + 1
    <3>1. i - (Len(s) + 1) \in 1..(Len(t) - 1)
      BY <1>1, <2>4
    <3>2. Tail(t)[i - (Len(s) + 1)] = t[i - Len(s)]
      BY <3>1, <1>1
    <3> QED BY <1>1, <2>1, <2>2, <2>4, <3>2
  <2> QED BY <1>1, <2>3, <2>4
<1> QED BY <1>3, <1>4, SeqEqual

(* The values of the parked senders, as senders come and go.               *)
LEMMA ValuesOfQueue ==
    ASSUME NEW q \in Seq(SendEntry)
    PROVE  /\ ValuesOf(q) \in Seq(Value)
           /\ q = << >> => ValuesOf(q) = << >>
           /\ \A e \in SendEntry : ValuesOf(Append(q, e)) = Append(ValuesOf(q), e.value)
           /\ q # << >> => /\ ValuesOf(q) # << >>
                           /\ Head(ValuesOf(q)) = Head(q).value
                           /\ Tail(ValuesOf(q)) = ValuesOf(Tail(q))
<1>t. \A e \in SendEntry : e.value \in Value
  BY DEF SendEntry
<1>1. ASSUME NEW r \in Seq(SendEntry)
      PROVE  /\ ValuesOf(r) \in Seq(Value) /\ Len(ValuesOf(r)) = Len(r)
             /\ \A i \in 1..Len(r) : ValuesOf(r)[i] = r[i].value
  <2>1. DOMAIN r = 1..Len(r) /\ Len(r) \in Nat /\ \A i \in 1..Len(r) : r[i] \in SendEntry
    BY LenProperties, ElementOfSeq
  <2>2. ValuesOf(r) = [i \in 1..Len(r) |-> r[i].value]
    BY <2>1 DEF ValuesOf
  <2>3. \A i \in 1..Len(r) : r[i].value \in Value
    BY <1>t, <2>1
  <2> QED BY <2>1, <2>2, <2>3
<1>2. q = << >> => ValuesOf(q) = << >>
  BY <1>1, EmptySeq
<1>3. ASSUME NEW e \in SendEntry
      PROVE  ValuesOf(Append(q, e)) = Append(ValuesOf(q), e.value)
  <2>1. /\ Append(q, e) \in Seq(SendEntry) /\ Len(Append(q, e)) = Len(q) + 1
        /\ Len(q) \in Nat /\ Append(q, e)[Len(q) + 1] = e
        /\ \A i \in 1..Len(q) : Append(q, e)[i] = q[i]
    BY AppendProperties, LenProperties
  <2>2. /\ Append(ValuesOf(q), e.value) \in Seq(Value)
        /\ Len(Append(ValuesOf(q), e.value)) = Len(q) + 1
        /\ Append(ValuesOf(q), e.value)[Len(q) + 1] = e.value
        /\ \A i \in 1..Len(q) : Append(ValuesOf(q), e.value)[i] = ValuesOf(q)[i]
    BY <1>1, <1>t, AppendProperties
  <2>3. /\ ValuesOf(Append(q, e)) \in Seq(Value)
        /\ Len(ValuesOf(Append(q, e))) = Len(q) + 1
        /\ \A i \in 1..(Len(q) + 1) : ValuesOf(Append(q, e))[i] = Append(q, e)[i].value
    BY <1>1, <2>1
  <2>4. \A i \in 1..Len(q) : ValuesOf(q)[i] = q[i].value
    BY <1>1
  <2>5. ASSUME NEW i \in 1..(Len(q) + 1)
        PROVE  ValuesOf(Append(q, e))[i] = Append(ValuesOf(q), e.value)[i]
    <3>1. CASE i = Len(q) + 1
      BY <2>1, <2>2, <2>3, <3>1
    <3>2. CASE i \in 1..Len(q)
      BY <2>1, <2>2, <2>3, <2>4, <3>2
    <3>3. i = Len(q) + 1 \/ i \in 1..Len(q)
      BY <2>1
    <3> QED BY <3>1, <3>2, <3>3
  <2> QED BY <2>2, <2>3, <2>5, SeqEqual
<1>4. ASSUME q # << >>
      PROVE  /\ ValuesOf(q) # << >>
             /\ Head(ValuesOf(q)) = Head(q).value
             /\ Tail(ValuesOf(q)) = ValuesOf(Tail(q))
  <2>1. /\ Tail(q) \in Seq(SendEntry) /\ Len(Tail(q)) = Len(q) - 1
        /\ Len(q) \in Nat /\ Len(q) >= 1 /\ Head(q) = q[1]
        /\ \A i \in 1..(Len(q) - 1) : Tail(q)[i] = q[i + 1]
    BY <1>4, HeadTailProperties, LenProperties, EmptySeq
  <2>2. ValuesOf(q) # << >>
    BY <1>1, <2>1, EmptySeq
  <2>3. /\ Tail(ValuesOf(q)) \in Seq(Value) /\ Len(Tail(ValuesOf(q))) = Len(q) - 1
        /\ Head(ValuesOf(q)) = ValuesOf(q)[1]
        /\ \A i \in 1..(Len(q) - 1) : Tail(ValuesOf(q))[i] = ValuesOf(q)[i + 1]
    BY <1>1, <2>2, HeadTailProperties
  <2>4. /\ ValuesOf(Tail(q)) \in Seq(Value) /\ Len(ValuesOf(Tail(q))) = Len(q) - 1
        /\ \A i \in 1..(Len(q) - 1) : ValuesOf(Tail(q))[i] = Tail(q)[i].value
    BY <1>1, <2>1
  <2>5. \A i \in 1..Len(q) : ValuesOf(q)[i] = q[i].value
    BY <1>1
  <2>6. ASSUME NEW i \in 1..(Len(q) - 1)
        PROVE  Tail(ValuesOf(q))[i] = ValuesOf(Tail(q))[i]
    <3>1. i + 1 \in 1..Len(q)
      BY <2>1
    <3> QED BY <3>1, <2>1, <2>3, <2>4, <2>5
  <2>7. Tail(ValuesOf(q)) = ValuesOf(Tail(q))
    BY <2>3, <2>4, <2>6, SeqEqual
  <2>8. Head(ValuesOf(q)) = Head(q).value
    BY <2>1, <2>3, <2>5
  <2> QED BY <2>2, <2>7, <2>8
<1> QED BY <1>1, <1>2, <1>3, <1>4

LEMMA HeadTailConcat ==
    ASSUME NEW S, NEW s \in Seq(S), NEW t \in Seq(S), s # << >>
    PROVE  s \o t # << >> /\ Head(s \o t) = Head(s) /\ Tail(s \o t) = Tail(s) \o t
<1>1. /\ Tail(s) \in Seq(S) /\ Len(Tail(s)) = Len(s) - 1
      /\ Len(s) \in Nat /\ Len(t) \in Nat /\ Len(s) >= 1 /\ Head(s) = s[1]
      /\ \A i \in 1..(Len(s) - 1) : Tail(s)[i] = s[i + 1]
  BY HeadTailProperties, LenProperties, EmptySeq
<1>2. /\ s \o t \in Seq(S) /\ Len(s \o t) = Len(s) + Len(t)
      /\ \A i \in 1..(Len(s) + Len(t)) :
            (s \o t)[i] = IF i <= Len(s) THEN s[i] ELSE t[i - Len(s)]
  BY ConcatProperties
<1>3. s \o t # << >>
  BY <1>1, <1>2, EmptySeq
<1>4. /\ Tail(s \o t) \in Seq(S) /\ Len(Tail(s \o t)) = Len(s) + Len(t) - 1
      /\ Head(s \o t) = (s \o t)[1]
      /\ \A i \in 1..(Len(s) + Len(t) - 1) : Tail(s \o t)[i] = (s \o t)[i + 1]
  BY <1>2, <1>3, HeadTailProperties
<1>5. /\ Tail(s) \o t \in Seq(S) /\ Len(Tail(s) \o t) = Len(s) + Len(t) - 1
      /\ \A i \in 1..(Len(s) + Len(t) - 1) :
            (Tail(s) \o t)[i] = IF i <= Len(s) - 1 THEN Tail(s)[i] ELSE t[i - (Len(s) - 1)]
  BY <1>1, ConcatProperties
<1>6. ASSUME NEW i \in 1..(Len(s) + Len(t) - 1)
      PROVE  Tail(s \o t)[i] = (Tail(s) \o t)[i]
  <2>1. i + 1 \in 1..(Len(s) + Len(t))
    BY <1>1
  <2>2. Tail(s \o t)[i] = IF i + 1 <= Len(s) THEN s[i + 1] ELSE t[(i + 1) - Len(s)]
    BY <1>2, <1>4, <2>1
  <2>3. CASE i <= Len(s) - 1
    BY <1>1, <1>5, <2>2, <2>3
  <2>4. CASE i > Len(s) - 1
    <3>1. (i + 1) - Len(s) = i - (Len(s) - 1)
      BY <1>1
    <3> QED BY <1>1, <1>5, <2>2, <2>4, <3>1
  <2> QED BY <1>1, <2>3, <2>4
<1>7. Tail(s \o t) = Tail(s) \o t
  BY <1>4, <1>5, <1>6, SeqEqual
<1>8. Head(s \o t) = Head(s)
  BY <1>1, <1>2, <1>4
<1> QED BY <1>3, <1>7, <1>8

(* What each channel operation does to the pending values of its channel:  *)
(* a parked sender's value counts as pending from the moment it gives.     *)
LEMMA PendingTypes ==
    ASSUME ChannelTypes, NEW c \in Channel
    PROVE  /\ buf[c] \in Seq(Value) /\ sendW[c] \in Seq(SendEntry)
           /\ Pending(c) \in Seq(Value)
           /\ sendW[c] = << >> => Pending(c) = buf[c]
<1>1. buf[c] \in Seq(Value) /\ sendW[c] \in Seq(SendEntry)
  BY DEF ChannelTypes, SendEntry
<1>2. ValuesOf(sendW[c]) \in Seq(Value)
      /\ (sendW[c] = << >> => ValuesOf(sendW[c]) = << >>)
  BY <1>1, ValuesOfQueue
<1> QED BY <1>1, <1>2, ConcatProperties, ConcatEmptySeq DEF Pending

LEMMA GivePends ==
    ASSUME IInv, NEW f \in Fiber, NEW c \in Channel,
           GiveToBuffer(f, c) \/ ParkSender(f, c)
    PROVE  Pending(c)' = Append(Pending(c), NewValue(f, c))
<1>0. ChannelTypes /\ FiberTypes /\ WaitsOnlyIfMust(c)
  BY DEF IInv, TypeOK, WaitersJustified
<1>1. /\ buf[c] \in Seq(Value) /\ sendW[c] \in Seq(SendEntry)
      /\ sendW[c] = << >> => Pending(c) = buf[c]
  BY <1>0, PendingTypes
<1>2. NewValue(f, c) \in Value
  BY <1>0, NewValueIsValue DEF GiveToBuffer, ParkSender
<1>3. CASE GiveToBuffer(f, c)
  <2>1. /\ sendW' = sendW /\ Len(buf[c]) < Cap[c]
        /\ buf'[c] = Append(buf[c], NewValue(f, c))
    BY <1>0, <1>3 DEF GiveToBuffer, ChannelTypes
  <2>2. sendW[c] = << >>
    BY <1>0, <1>1, <2>1, LenProperties, ConstantsAssumption DEF WaitsOnlyIfMust
  <2>3. ValuesOf(sendW[c]) = << >>
    BY <1>1, <2>2, ValuesOfQueue
  <2>4. Pending(c)' = buf'[c] \o ValuesOf(sendW[c])
    BY <2>1 DEF Pending
  <2>5. buf'[c] \in Seq(Value)
    BY <1>1, <1>2, <2>1, AppendProperties
  <2> QED BY <1>1, <2>1, <2>2, <2>3, <2>4, <2>5, ConcatEmptySeq
<1>4. CASE ParkSender(f, c)
  <2> DEFINE e == [fiber |-> f, value |-> NewValue(f, c)]
  <2>1. e \in SendEntry /\ e.value = NewValue(f, c)
    BY <1>2 DEF SendEntry
  <2>2. buf' = buf /\ sendW'[c] = Append(sendW[c], e)
    BY <1>0, <1>4 DEF ParkSender, ChannelTypes
  <2>3. Pending(c)' = buf[c] \o ValuesOf(Append(sendW[c], e))
    BY <2>2 DEF Pending
  <2> HIDE DEF e
  <2>4. ValuesOf(Append(sendW[c], e)) = Append(ValuesOf(sendW[c]), NewValue(f, c))
        /\ ValuesOf(sendW[c]) \in Seq(Value)
    BY <1>1, <2>1, ValuesOfQueue
  <2>5. buf[c] \o Append(ValuesOf(sendW[c]), NewValue(f, c))
          = Append(buf[c] \o ValuesOf(sendW[c]), NewValue(f, c))
    BY <1>1, <1>2, <2>4, ConcatAppendValue
  <2>6. Pending(c) = buf[c] \o ValuesOf(sendW[c])
    BY DEF Pending
  <2> QED BY <2>3, <2>4, <2>5, <2>6
<1> QED BY <1>3, <1>4

LEMMA TakeUnpends ==
    ASSUME IInv, NEW f \in Fiber, NEW c \in Channel, TakeFromBuffer(f, c)
    PROVE  /\ Pending(c) # << >> /\ Head(Pending(c)) = Head(buf[c])
           /\ Pending(c)' = Tail(Pending(c))
<1>0. ChannelTypes
  BY DEF IInv, TypeOK
<1>1. /\ buf[c] \in Seq(Value) /\ sendW[c] \in Seq(SendEntry) /\ buf[c] # << >>
      /\ sendW[c] = << >> => Pending(c) = buf[c]
  BY <1>0, PendingTypes DEF TakeFromBuffer
<1>2. CASE sendW[c] = << >>
  <2>1. sendW' = sendW /\ buf'[c] = Tail(buf[c])
    BY <1>0, <1>2 DEF TakeFromBuffer, ChannelTypes
  <2>2. Pending(c)' = Tail(buf[c]) \o ValuesOf(sendW[c])
    BY <2>1 DEF Pending
  <2>3. ValuesOf(sendW[c]) = << >> /\ Tail(buf[c]) \in Seq(Value)
    BY <1>1, <1>2, ValuesOfQueue, HeadTailProperties
  <2> QED BY <1>1, <1>2, <2>2, <2>3, ConcatEmptySeq
<1>3. CASE sendW[c] # << >>
  <2> DEFINE vs == ValuesOf(sendW[c])
  <2>1. /\ sendW'[c] = Tail(sendW[c])
        /\ buf'[c] = Append(Tail(buf[c]), Head(sendW[c]).value)
    BY <1>0, <1>3 DEF TakeFromBuffer, ChannelTypes
  <2>2. /\ vs \in Seq(Value) /\ vs # << >> /\ Head(vs) = Head(sendW[c]).value
        /\ Tail(vs) = ValuesOf(Tail(sendW[c]))
    BY <1>1, <1>3, ValuesOfQueue
  <2>3. Pending(c)' = Append(Tail(buf[c]), Head(vs)) \o Tail(vs)
    BY <2>1, <2>2 DEF Pending
  <2>4. Pending(c) = buf[c] \o vs
    BY DEF Pending
  <2> HIDE DEF vs
  <2>5. Tail(buf[c]) \in Seq(Value)
    BY <1>1, HeadTailProperties
  <2>6. Pending(c)' = Tail(buf[c]) \o vs
    BY <2>2, <2>3, <2>5, ConcatShift
  <2>7. /\ buf[c] \o vs # << >> /\ Head(buf[c] \o vs) = Head(buf[c])
        /\ Tail(buf[c] \o vs) = Tail(buf[c]) \o vs
    BY <1>1, <2>2, HeadTailConcat
  <2> QED BY <2>4, <2>6, <2>7
<1> QED BY <1>2, <1>3

(* Steps that leave a channel's values alone.                              *)
LEMMA OtherChannels ==
    ASSUME IInv, NEW c \in Channel, NEW d \in Channel \ {c}, NEW f \in Fiber,
           \/ GiveToReceiver(f, c) \/ GiveToBuffer(f, c) \/ ParkSender(f, c)
           \/ TakeFromBuffer(f, c) \/ ParkReceiver(f, c)
    PROVE  UNCHANGED <<buf[d], recvW[d], sendW[d], given[d], taken[d], Pending(d)>>
<1>0. ChannelTypes
  BY DEF IInv, TypeOK
<1>1. CASE GiveToReceiver(f, c) BY <1>0, <1>1 DEF GiveToReceiver, ChannelTypes, Pending
<1>2. CASE GiveToBuffer(f, c) BY <1>0, <1>2 DEF GiveToBuffer, ChannelTypes, Pending
<1>3. CASE ParkSender(f, c) BY <1>0, <1>3 DEF ParkSender, ChannelTypes, Pending
<1>4. CASE TakeFromBuffer(f, c) BY <1>0, <1>4 DEF TakeFromBuffer, ChannelTypes, Pending
<1>5. CASE ParkReceiver(f, c) BY <1>0, <1>5 DEF ParkReceiver, ChannelTypes, Pending
<1> QED BY <1>1, <1>2, <1>3, <1>4, <1>5

LEMMA FIFOStep == IInv /\ [Next]_vars => ChannelFIFO'
<1> SUFFICES ASSUME IInv, [Next]_vars, NEW d \in Channel
             PROVE  given'[d] = taken'[d] \o Pending(d)'
  BY DEF ChannelFIFO
<1>0. given[d] = taken[d] \o Pending(d) /\ ChannelTypes /\ FiberTypes /\ WaitsOnlyIfMust(d)
  BY DEF IInv, TypeOK, ChannelFIFO, WaitersJustified
<1>t. taken[d] \in Seq(Value) /\ Pending(d) \in Seq(Value) /\ buf[d] \in Seq(Value)
  BY <1>0, PendingTypes DEF ChannelTypes
<1>1. ASSUME NEW f \in Fiber, GiveToReceiver(f, d)
      PROVE  given'[d] = taken'[d] \o Pending(d)'
  <2>1. /\ given'[d] = Append(given[d], NewValue(f, d))
        /\ taken'[d] = Append(taken[d], NewValue(f, d))
        /\ buf' = buf /\ sendW' = sendW
    BY <1>0, <1>1 DEF GiveToReceiver, ChannelTypes
  <2>2. Pending(d)' = Pending(d) /\ Pending(d) = << >>
    BY <1>0, <1>1, <2>1, PendingTypes DEF GiveToReceiver, WaitsOnlyIfMust, Pending
  <2>3. NewValue(f, d) \in Value
    BY <1>0, <1>1, NewValueIsValue DEF GiveToReceiver
  <2>4. given[d] = taken[d]
    BY <1>0, <1>t, <2>2, ConcatEmptySeq
  <2>5. taken'[d] \in Seq(Value)
    BY <1>t, <2>1, <2>3, AppendProperties
  <2> QED BY <2>1, <2>2, <2>4, <2>5, ConcatEmptySeq
<1>2. ASSUME NEW f \in Fiber, GiveToBuffer(f, d) \/ ParkSender(f, d)
      PROVE  given'[d] = taken'[d] \o Pending(d)'
  <2>1. given'[d] = Append(given[d], NewValue(f, d)) /\ taken' = taken
    BY <1>0, <1>2 DEF GiveToBuffer, ParkSender, ChannelTypes
  <2>2. NewValue(f, d) \in Value
    BY <1>0, <1>2, NewValueIsValue DEF GiveToBuffer, ParkSender
  <2>3. Pending(d)' = Append(Pending(d), NewValue(f, d))
    BY <1>2, GivePends
  <2>4. taken[d] \o Append(Pending(d), NewValue(f, d))
          = Append(taken[d] \o Pending(d), NewValue(f, d))
    BY <1>t, <2>2, ConcatAppendValue
  <2> QED BY <1>0, <2>1, <2>3, <2>4
<1>3. ASSUME NEW f \in Fiber, TakeFromBuffer(f, d)
      PROVE  given'[d] = taken'[d] \o Pending(d)'
  <2>1. given' = given /\ taken'[d] = Append(taken[d], Head(buf[d]))
    BY <1>0, <1>3 DEF TakeFromBuffer, ChannelTypes
  <2>2. /\ Pending(d) # << >> /\ Head(Pending(d)) = Head(buf[d])
        /\ Pending(d)' = Tail(Pending(d))
    BY <1>3, TakeUnpends
  <2>3. taken[d] \o Pending(d) = Append(taken[d], Head(Pending(d))) \o Tail(Pending(d))
    BY <1>t, <2>2, ConcatShift
  <2> QED BY <1>0, <2>1, <2>2, <2>3
<1>4. ASSUME NEW f \in Fiber, ParkReceiver(f, d)
      PROVE  given'[d] = taken'[d] \o Pending(d)'
  BY <1>0, <1>4 DEF ParkReceiver, Pending
<1>5. ASSUME NEW f \in Fiber, NEW c \in Channel \ {d},
             \/ GiveToReceiver(f, c) \/ GiveToBuffer(f, c) \/ ParkSender(f, c)
             \/ TakeFromBuffer(f, c) \/ ParkReceiver(f, c)
      PROVE  given'[d] = taken'[d] \o Pending(d)'
  BY <1>0, <1>5, OtherChannels
<1>6. CASE \/ StandStill \/ MainSpawn \/ Dispatch
           \/ \E f \in Fiber : \/ Yield(f) \/ FiberSpawn(f)
                             \/ \E how \in {"returned", "error"} : Finish(f, how)
  <2>1. UNCHANGED chanVars
    BY <1>6, StandStillFrame DEF MainSpawn, Dispatch, Yield, FiberSpawn, Finish
  <2> QED BY <1>0, <2>1 DEF chanVars, Pending
<1> QED BY <1>1, <1>2, <1>3, <1>4, <1>5, <1>6, Steps

-----------------------------------------------------------------------------
(* The verdicts a pump hands to the main program tell the truth.           *)
LEMMA VerdictStep == IInv /\ [Next]_vars => DeadlockIsReal' /\ NoSilentFailure'
<1> SUFFICES ASSUME IInv, [Next]_vars PROVE DeadlockIsReal' /\ NoSilentFailure'
  OBVIOUS
<1>0. /\ ControlBook /\ OnePlace /\ WaitersJustified /\ DeadlockIsReal /\ NoSilentFailure
      /\ FiberTypes /\ ChannelTypes
  BY DEF IInv, TypeOK, ControlBook, Bookkeeping
<1>t. Born \subseteq Fiber
  BY <1>0, ConstantsAssumption DEF FiberTypes, Born, Fiber
<1>1. ASSUME StandStill
      PROVE  /\ ready' = ready /\ running' = running /\ Live' = Live /\ Born' = Born
             /\ buf' = buf /\ recvW' = recvW /\ sendW' = sendW /\ outcome' = outcome
             /\ \A c \in Channel : Receivers(c)' = Receivers(c) /\ Senders(c)' = Senders(c)
  BY <1>1, StandStillFrame DEF chanVars, Live, Born, Done, Receivers, Senders
<1>2. CASE UNCHANGED vars
  BY <1>0, <1>2 DEF vars, chanVars, mainVars, DeadlockIsReal, NoSilentFailure, Live,
                    Born, Done, Receivers, Senders, Parked
<1>3. CASE verdict' \notin {"ok", "deadlock"}
  BY <1>3 DEF DeadlockIsReal, NoSilentFailure
<1>4. CASE CheckAll \/ CheckAwaited
  <2>1. StandStill /\ ready = << >> /\ running = None
    BY <1>4 DEF StandStill, CheckAll, CheckAwaited, Pumping
  <2>2. Queued = {}
    BY <2>1 DEF Queued, FibersOf
  <2>3. \A f \in Live : \E c \in Channel : f \in Parked(c)
    BY <1>0, <1>t, <2>1, <2>2, NoneNoVal DEF OnePlace, Live
  <2>4. ASSUME NEW c \in Channel
        PROVE  /\ Receivers(c) # {} => recvW[c] # << >>
               /\ Senders(c) # {} => sendW[c] # << >>
    BY DEF Receivers, Senders, Elements, FibersOf
  <2>5. \A f \in Live : \E c \in Channel :
           \/ f \in Receivers(c) /\ buf[c] = << >> /\ sendW[c] = << >>
           \/ f \in Senders(c) /\ Len(buf[c]) = Cap[c] /\ recvW[c] = << >>
    <3> SUFFICES ASSUME NEW f \in Live, NEW c \in Channel, f \in Parked(c)
                 PROVE  \/ f \in Receivers(c) /\ buf[c] = << >> /\ sendW[c] = << >>
                        \/ f \in Senders(c) /\ Len(buf[c]) = Cap[c] /\ recvW[c] = << >>
      BY <2>3
    <3> QED BY <1>0, <2>4 DEF Parked, WaitersJustified, WaitsOnlyIfMust
  <2>6. verdict' = "deadlock" => Live # {}
    <3>1. CASE CheckAll
      BY <3>1 DEF CheckAll, LeavePump
    <3>2. CASE CheckAwaited
      <4>1. verdict' = "deadlock" => ~Done(awaited)
        BY <3>2 DEF CheckAwaited, LeavePump
      <4>2. awaited \in Born
        BY <1>0, <3>2 DEF CheckAwaited, ControlBook
      <4> QED BY <4>1, <4>2 DEF Live
    <3> QED BY <1>4, <3>1, <3>2
  <2>7. DeadlockIsReal'
    BY <1>1, <2>1, <2>5, <2>6 DEF DeadlockIsReal
  <2>8. (pc' = "idle" /\ verdict' = "ok") =>
           (\A f \in Born : outcome[f] = "returned") /\ Live = {}
    <3>1. CASE CheckAll
      <4> SUFFICES ASSUME verdict' = "ok"
                   PROVE  (\A f \in Born : outcome[f] = "returned") /\ Live = {}
        OBVIOUS
      <4>1. (~ \E f \in Born : Failed(f)) /\ Live = {}
        BY <3>1 DEF CheckAll, LeavePump
      <4> QED BY <1>0, <1>t, <4>1 DEF Live, Done, Failed, FiberTypes
    <3>2. CASE CheckAwaited
      BY <3>2 DEF CheckAwaited, LeavePump
    <3> QED BY <1>4, <3>1, <3>2
  <2>9. Live = {} => \A c \in Channel : Parked(c) = {}
    BY <1>0, <2>1, ParkedAreFibers DEF OnePlace, Parked
  <2>10. \A c \in Channel : Parked(c)' = Parked(c)
    BY <1>1, <2>1 DEF Parked
  <2>11. NoSilentFailure'
    BY <1>1, <2>1, <2>8, <2>9, <2>10 DEF NoSilentFailure
  <2> QED BY <2>7, <2>11
<1>5. CASE EndBody /\ verdict' = "ok"
  <2>1. StandStill /\ nSpawned = 0 /\ pc = "body"
    BY <1>5 DEF StandStill, EndBody, EnterPump
  <2>2. Born = {} /\ Live = {} /\ running = None
    BY <1>0, <2>1 DEF Born, Live, ControlBook, LatchHeld
  <2>3. Queued = {} /\ \A c \in Channel : Parked(c) = {}
    BY <1>0, <2>2, ParkedAreFibers, QueuedAreFibers DEF OnePlace, Parked
  <2>4. ready = << >>
    <3>1. ready \in Seq(ReadyEntry)
      BY <1>0 DEF FiberTypes, ReadyEntry
    <3>2. ready # << >> => Head(ready).fiber \in Queued
      BY <3>1, TailFibers DEF Queued
    <3> QED BY <2>3, <3>2
  <2>5. \A c \in Channel : Parked(c)' = Parked(c)
    BY <1>1, <2>1 DEF Parked
  <2> QED BY <1>1, <1>5, <2>1, <2>2, <2>3, <2>4, <2>5 DEF DeadlockIsReal, NoSilentFailure
<1>6. CASE \/ StartRun \/ MainSpawn \/ CallDrain \/ CallAwait \/ FailBody
           \/ (EndBody /\ verdict' # "ok") \/ BudgetSpent
  BY <1>3, <1>6 DEF StartRun, MainSpawn, CallDrain, CallAwait, EnterPump, FailBody,
                    EndBody, BudgetSpent, LeavePump
<1>7. CASE Dispatch
  BY <1>0, <1>3, <1>7 DEF Dispatch, Pumping, mainVars, ControlBook
<1>8. ASSUME NEW f \in Fiber, FiberStep(f) PROVE DeadlockIsReal' /\ NoSilentFailure'
  <2>1. UNCHANGED mainVars /\ running = f
    BY <1>8, FiberStepFrame
  <2>2. verdict' = "none"
    BY <1>0, <2>1, NoneNoVal DEF mainVars, ControlBook, LatchHeld
  <2> QED BY <1>3, <2>2
<1> QED BY <1>2, <1>4, <1>5, <1>6, <1>7, <1>8 DEF Next, MainStep, PumpStep, Quit

-----------------------------------------------------------------------------
(* The inductive invariant holds of every behaviour: together these facts  *)
(* say what any interleaving of main program, pump and fibers preserves.   *)
THEOREM Invariance == Spec => []IInv
<1>1. Init => IInv
  BY InitIInv
<1>2. IInv /\ [Next]_vars => IInv'
  <2> SUFFICES ASSUME IInv, [Next]_vars PROVE IInv'
    OBVIOUS
  <2>1. TypeOK'
    BY FiberTypeStep, ChannelTypeStep, ControlTypeStep DEF TypeOK
  <2>2. LatchHeld' /\ Bookkeeping'
    BY ControlBookStep, ResumeBookStep DEF ControlBook, ResumeBook, Bookkeeping
  <2>3. OnePlace' /\ WaitersJustified' /\ ChannelFIFO' /\ DeadlockIsReal' /\ NoSilentFailure'
    BY OnePlaceStep, WaitersStep, FIFOStep, VerdictStep
  <2> QED BY <2>1, <2>2, <2>3 DEF IInv
<1> QED BY <1>1, <1>2, PTL DEF Spec

(* The state stays well typed (the arrays and flags of the Interpreter and *)
(* its channels hold what the code puts there).                            *)
THEOREM TypeCorrect == Spec => []TypeOK
<1>1. IInv => TypeOK
  BY DEF IInv
<1> QED BY <1>1, Invariance, PTL

(* No fiber is ever lost, queued twice, or both queued and parked.         *)
THEOREM FibersInOnePlace == Spec => []OnePlace
<1>1. IInv => OnePlace
  BY DEF IInv
<1> QED BY <1>1, Invariance, PTL

(* No receiver waits beside a value, no sender waits beside a free slot.   *)
THEOREM NobodyWaitsInVain == Spec => []WaitersJustified
<1>1. IInv => WaitersJustified
  BY DEF IInv
<1> QED BY <1>1, Invariance, PTL

(* Values leave every channel in the order they were given, none lost, for *)
(* any capacity.                                                           *)
THEOREM DeliveryIsFIFO == Spec => []ChannelFIFO
<1>1. IInv => ChannelFIFO
  BY DEF IInv
<1> QED BY <1>1, Invariance, PTL

(* drain, await and the end of a program report a deadlock only when the   *)
(* parked fibers are really stuck.                                         *)
THEOREM DeadlockVerdictSound == Spec => []DeadlockIsReal
<1>1. IInv => DeadlockIsReal
  BY DEF IInv
<1> QED BY <1>1, Invariance, PTL

(* A run that returns normally hides no failed or unfinished fiber.        *)
THEOREM CleanReturnSound == Spec => []NoSilentFailure
<1>1. IInv => NoSilentFailure
  BY DEF IInv
<1> QED BY <1>1, Invariance, PTL

(* A finished fiber is never run again and its outcome never changes.      *)
THEOREM OutcomesAreSettled == Spec => OutcomeSettled
<1>1. IInv /\ [Next]_vars => [Settled]_vars
  <2> SUFFICES ASSUME IInv, [Next]_vars, NEW f \in Fiber, Done(f)
               PROVE  outcome'[f] = outcome[f] /\ got'[f] = got[f] /\ running' # f
    BY DEF Settled
  <2>0. ControlBook /\ FiberTypes /\ f \notin Live /\ running # f
    BY NoneNoVal DEF IInv, TypeOK, ControlBook, Bookkeeping, Live
  <2>1. CASE StandStill \/ MainSpawn
    BY <2>0, <2>1, StandStillFrame DEF MainSpawn
  <2>2. CASE Dispatch
    <3>1. PICK g \in Live : g = Head(ready).fiber /\ running' = g
      BY <2>2, DispatchMoves
    <3> QED BY <2>0, <2>2, <3>1 DEF Dispatch, FiberTypes
  <2>3. ASSUME NEW g \in Fiber, FiberStep(g)
        PROVE  outcome'[f] = outcome[f] /\ got'[f] = got[f] /\ running' # f
    <3>1. running = g /\ running' \in {g, None} /\ f # g
      BY <2>0, <2>3, FiberStepFrame
    <3>2. ASSUME NEW c \in Channel,
                 \/ GiveToReceiver(g, c) \/ GiveToBuffer(g, c) \/ ParkSender(g, c)
                 \/ TakeFromBuffer(g, c) \/ ParkReceiver(g, c)
          PROVE  outcome'[f] = outcome[f] /\ got'[f] = got[f]
      BY <2>0, <3>1, <3>2 DEF GiveToReceiver, GiveToBuffer, ParkSender,
                              TakeFromBuffer, ParkReceiver, FiberTypes
    <3>3. ASSUME \/ Yield(g) \/ FiberSpawn(g)
                 \/ \E how \in {"returned", "error"} : Finish(g, how)
          PROVE  outcome'[f] = outcome[f] /\ got'[f] = got[f]
      BY <2>0, <3>1, <3>3 DEF Yield, FiberSpawn, Finish, FiberTypes
    <3> QED BY <2>3, <3>1, <3>2, <3>3, NoneNoVal DEF FiberStep, ChannelStep
  <2> QED BY <2>1, <2>2, <2>3, Steps DEF FiberStep, ChannelStep
<1> QED BY <1>1, Invariance, PTL DEF Spec, OutcomeSettled

-----------------------------------------------------------------------------
(* Bounded channels with parked senders implement unbounded queues: every  *)
(* step of the scheduler is one step of ChannelContract, or none.          *)
LEMMA ContractStep == IInv /\ [Next]_vars => [Contract!Next]_(Contract!vars)
<1> SUFFICES ASSUME IInv, [Next]_vars PROVE [Contract!Next]_(Contract!vars)
  OBVIOUS
<1> DEFINE P == [c \in Channel |-> Pending(c)]
<1>0. ChannelTypes /\ FiberTypes /\ WaitersJustified
  BY DEF IInv, TypeOK
<1>1. ASSUME NEW f \in Fiber, NEW c \in Channel, GiveToReceiver(f, c)
      PROVE  Contract!HandOver(c, NewValue(f, c))
  <2>1. /\ recvW[c] # << >> /\ recvW' = [recvW EXCEPT ![c] = Tail(@)]
        /\ taken' = [taken EXCEPT ![c] = Append(@, NewValue(f, c))]
        /\ buf' = buf /\ sendW' = sendW
    BY <1>1 DEF GiveToReceiver
  <2>2. P' = P
    BY <2>1 DEF Pending
  <2>3. Pending(c) = << >>
    BY <1>0, <2>1, PendingTypes DEF WaitersJustified, WaitsOnlyIfMust
  <2> QED BY <2>1, <2>2, <2>3 DEF Contract!HandOver
<1>2. ASSUME NEW f \in Fiber, NEW c \in Channel, GiveToBuffer(f, c) \/ ParkSender(f, c)
      PROVE  Contract!Offer(c, NewValue(f, c))
  <2>1. recvW[c] = << >> /\ recvW' = recvW /\ taken' = taken
    BY <1>2 DEF GiveToBuffer, ParkSender
  <2>2. Pending(c)' = Append(Pending(c), NewValue(f, c))
    BY <1>2, GivePends
  <2>3. \A d \in Channel \ {c} : Pending(d)' = Pending(d)
    BY <1>2, OtherChannels
  <2>4. P' = [P EXCEPT ![c] = Append(@, NewValue(f, c))]
    BY <2>2, <2>3
  <2> QED BY <2>1, <2>4 DEF Contract!Offer
<1>3. ASSUME NEW f \in Fiber, NEW c \in Channel, TakeFromBuffer(f, c)
      PROVE  Contract!Fetch(c)
  <2>1. recvW' = recvW /\ taken' = [taken EXCEPT ![c] = Append(@, Head(buf[c]))]
    BY <1>3 DEF TakeFromBuffer
  <2>2. /\ Pending(c) # << >> /\ Head(Pending(c)) = Head(buf[c])
        /\ Pending(c)' = Tail(Pending(c))
    BY <1>3, TakeUnpends
  <2>3. \A d \in Channel \ {c} : Pending(d)' = Pending(d)
    BY <1>3, OtherChannels
  <2>4. P' = [P EXCEPT ![c] = Tail(@)]
    BY <2>2, <2>3
  <2> QED BY <2>1, <2>2, <2>4 DEF Contract!Fetch
<1>4. ASSUME NEW f \in Fiber, NEW c \in Channel, ParkReceiver(f, c)
      PROVE  Contract!Wait(c, f)
  <2>1. /\ buf[c] = << >> /\ recvW' = [recvW EXCEPT ![c] = Append(@, f)]
        /\ taken' = taken /\ buf' = buf /\ sendW' = sendW
    BY <1>4 DEF ParkReceiver
  <2>2. sendW[c] = << >>
    BY <1>0, <2>1, LenProperties, EmptySeq, ConstantsAssumption
    DEF WaitersJustified, WaitsOnlyIfMust
  <2>3. Pending(c) = << >> /\ P' = P
    BY <1>0, <2>1, <2>2, PendingTypes DEF Pending
  <2> QED BY <2>1, <2>3 DEF Contract!Wait
<1>5. CASE \/ StandStill \/ MainSpawn \/ Dispatch
           \/ \E f \in Fiber : \/ Yield(f) \/ FiberSpawn(f)
                             \/ \E how \in {"returned", "error"} : Finish(f, how)
  <2>1. UNCHANGED chanVars
    BY <1>5, StandStillFrame DEF MainSpawn, Dispatch, Yield, FiberSpawn, Finish
  <2>2. P' = P /\ recvW' = recvW /\ taken' = taken
    BY <2>1 DEF chanVars, Pending
  <2> QED BY <2>2 DEF Contract!vars
<1>6. ASSUME NEW f \in Fiber, NEW c \in Channel,
             \/ GiveToReceiver(f, c) \/ GiveToBuffer(f, c) \/ ParkSender(f, c)
             \/ TakeFromBuffer(f, c) \/ ParkReceiver(f, c)
      PROVE  Contract!Next
  <2>1. Operate(f) => NewValue(f, c) \in Value
    BY <1>0, NewValueIsValue
  <2> QED BY <1>1, <1>2, <1>3, <1>4, <1>6, <2>1
          DEF Contract!Next, GiveToReceiver, GiveToBuffer, ParkSender
<1> QED BY <1>5, <1>6, Steps

(* CONCURRENCY.md's promise about channels, for every program, capacity    *)
(* and number of fibers.                                                   *)
THEOREM ChannelsImplementContract == Spec => ChannelsKeepContract
<1>1. Init => Contract!Init
  <2>1. ASSUME Init, NEW c \in Channel PROVE Pending(c) = << >>
    BY <2>1 DEF Init, Pending, ValuesOf
  <2> QED BY <2>1 DEF Init, Contract!Init
<1>2. IInv /\ [Next]_vars => [Contract!Next]_(Contract!vars)
  BY ContractStep
<1> QED BY <1>1, <1>2, Invariance, PTL DEF Spec, ChannelsKeepContract, Contract!Spec

-----------------------------------------------------------------------------
(* What the channels hand on reaches one fiber, once, and from each sender *)
(* in its order.                                                           *)

(* The entries of the ready queue that bring a value, and the values that  *)
(* have left a channel.                                                    *)
Coming == {e \in Elements(ready) : e.val # NoVal}
Left(c) == Elements(taken[c])

(* Gives are numbered in their order, and belong to their channel.         *)
Stamped == \A c \in Channel :
    /\ \A i \in DOMAIN given[c] : given[c][i][2] = c /\ given[c][i][3] <= ops
    /\ \A i, j \in DOMAIN given[c] : i < j => given[c][i][3] < given[c][j][3]

(* What left a channel is on its way or bound, and nothing else is.        *)
Kept ==
    /\ \A e \in Coming : e.val \in Left(e.val[2])
    /\ \A f \in Fiber : \A i \in DOMAIN got[f] : got[f][i] \in Left(got[f][i][2])
    /\ \A c \in Channel : \A v \in Left(c) :
         \/ \E e \in Coming : e.val = v
         \/ \E f \in Fiber : \E i \in DOMAIN got[f] : got[f][i] = v

(* No value is in two places.                                              *)
Once ==
    /\ \A d, e \in Coming : d.val = e.val => d = e
    /\ \A e \in Coming, f \in Fiber : \A i \in DOMAIN got[f] : got[f][i] # e.val
    /\ \A f, g \in Fiber : \A i \in DOMAIN got[f], j \in DOMAIN got[g] :
         got[f][i] = got[g][j] => f = g /\ i = j

(* A fiber binds a channel's values in the order of the gives, and what is *)
(* on its way to the fiber comes after what it has.                        *)
InTurn ==
    /\ \A f \in Fiber : \A i, j \in DOMAIN got[f] :
         i < j /\ got[f][i][2] = got[f][j][2] => got[f][i][3] < got[f][j][3]
    /\ \A e \in Coming : \A i \in DOMAIN got[e.fiber] :
         got[e.fiber][i][2] = e.val[2] => got[e.fiber][i][3] < e.val[3]

Delivered == Stamped /\ Kept /\ Once /\ InTurn

-----------------------------------------------------------------------------
(* A step as delivery sees it: it does not; a value is handed to a waiting *)
(* receiver; one is taken from the buffer; one that was handed is bound.   *)
Newest(c, v) == v \in Value /\ v[2] = c /\ \A x \in Left(c) : x[3] < v[3]
Leaves(c, v) ==
    /\ Left(c)' = Left(c) \cup {v}
    /\ \A d \in Channel \ {c} : Left(d)' = Left(d)
Binds(f, v) ==
    /\ \A g \in Fiber \ {f} : got'[g] = got[g]
    /\ \E n \in Nat : /\ DOMAIN got'[f] = DOMAIN got[f] \cup {n} /\ got'[f][n] = v
                      /\ \A i \in DOMAIN got[f] : i \in Nat /\ i < n /\ got'[f][i] = got[f][i]

Elsewhere == Coming' = Coming /\ got' = got /\ \A c \in Channel : Left(c)' = Left(c)
Handed(g, c, v) == Newest(c, v) /\ Leaves(c, v) /\ Coming' = Coming \cup {Entry(g, v)} /\ got' = got
Taken(f, c, v) ==
    /\ Newest(c, v) /\ Leaves(c, v) /\ Coming' = Coming /\ Binds(f, v)
    /\ \A e \in Coming : e.fiber # f
Resumed(e) ==
    /\ Coming' = Coming \ {e} /\ Binds(e.fiber, e.val) /\ \A c \in Channel : Left(c)' = Left(c)
    /\ \A d \in Coming \ {e} : d.fiber # e.fiber

Moves ==
    \/ Elsewhere
    \/ \E g \in Fiber, c \in Channel, v \in Value : Handed(g, c, v) \/ Taken(g, c, v)
    \/ \E e \in Coming : Resumed(e)

(* What has come or is coming is a value, of a channel, with a number.     *)
LEMMA Values ==
    ASSUME TypeOK
    PROVE  /\ \A v \in Value : v[2] \in Channel /\ v[3] \in Nat
           /\ \A e \in Coming : e \in ReadyEntry /\ e.fiber \in Fiber /\ e.val \in Value
           /\ \A f \in Fiber : \A i \in DOMAIN got[f] : i \in Nat /\ got[f][i] \in Value
           /\ \A c \in Channel : Left(c) \subseteq Value
<1>1. \A v \in Value : v[2] \in Channel /\ v[3] \in Nat
  BY ConstantsAssumption DEF Value
<1>2. ASSUME NEW e \in Coming PROVE e \in ReadyEntry /\ e.fiber \in Fiber /\ e.val \in Value
  <2>1. ready \in Seq(ReadyEntry) /\ e \in Elements(ready) /\ e.val # NoVal
    BY DEF TypeOK, FiberTypes, ReadyEntry, Coming
  <2>2. e \in ReadyEntry
    BY <2>1, LenProperties, ElementOfSeq DEF Elements
  <2> QED BY <2>1, <2>2 DEF ReadyEntry
<1>3. ASSUME NEW f \in Fiber, NEW i \in DOMAIN got[f] PROVE i \in Nat /\ got[f][i] \in Value
  <2>1. got[f] \in Seq(Value)
    BY DEF TypeOK, FiberTypes
  <2> QED BY <2>1, LenProperties, ElementOfSeq
<1>4. ASSUME NEW c \in Channel PROVE Left(c) \subseteq Value
  <2>1. taken[c] \in Seq(Value)
    BY DEF TypeOK, ChannelTypes
  <2> QED BY <2>1, LenProperties, ElementOfSeq DEF Left, Elements
<1> QED BY <1>1, <1>2, <1>3, <1>4

(* The numbers of the gives keep their order.                              *)
LEMMA StampStep ==
    ASSUME IInv, Stamped, [Next]_vars
    PROVE  Stamped'
<1>t. /\ TypeOK /\ ops \in Nat
      /\ \A c \in Channel : given[c] \in Seq(Value) /\ DOMAIN given[c] = 1..Len(given[c])
                            /\ Len(given[c]) \in Nat
  <2>1. TypeOK /\ ops \in Nat
    BY ConstantsAssumption DEF IInv, TypeOK, FiberTypes
  <2>2. \A c \in Channel : given[c] \in Seq(Value)
    BY <2>1 DEF TypeOK, ChannelTypes
  <2> QED BY <2>1, <2>2, LenProperties
<1>1. CASE given' = given /\ ops' \in Nat /\ ops <= ops'
  <2>1. ASSUME NEW c \in Channel, NEW i \in DOMAIN given[c]
        PROVE  given[c][i][2] = c /\ given[c][i][3] <= ops'
    <3>1. given[c][i] \in Value
      BY <1>t, ElementOfSeq
    <3>2. given[c][i][3] \in Nat /\ given[c][i][3] <= ops /\ given[c][i][2] = c
      BY <1>t, <3>1, Values DEF Stamped
    <3> QED BY <1>1, <1>t, <3>2
  <2> QED BY <1>1, <2>1 DEF Stamped
<1>2. ASSUME NEW f \in Fiber, NEW c \in Channel, Operate(f),
             given' = [given EXCEPT ![c] = Append(@, NewValue(f, c))]
      PROVE  Stamped'
  <2> DEFINE v == NewValue(f, c)
             n == Len(given[c])
  <2>1. v \in Value /\ v[2] = c /\ v[3] = ops + 1 /\ ops' = ops + 1
    BY <1>2, <1>t, NewValueIsValue DEF TypeOK, NewValue, Operate
  <2>2. given'[c] = Append(given[c], v) /\ \A d \in Channel \ {c} : given'[d] = given[d]
    BY <1>2 , <1>t DEF TypeOK, ChannelTypes
  <2> HIDE DEF v
  <2>3. /\ DOMAIN given'[c] = 1..(n + 1) /\ given'[c][n + 1] = v
        /\ \A i \in 1..n : given'[c][i] = given[c][i]
    <3>1. Append(given[c], v) \in Seq(Value) /\ Len(Append(given[c], v)) = n + 1
      BY <1>t, <2>1, AppendProperties
    <3> QED BY <1>t, <2>1, <2>2, <3>1, LenProperties, AppendProperties
  <2>4. n \in Nat /\ DOMAIN given[c] = 1..n
    BY <1>t
  <2> HIDE DEF n
  <2>5. ASSUME NEW d \in Channel, NEW i \in DOMAIN given[d]
        PROVE  /\ given[d][i][2] = d /\ given[d][i][3] \in Nat
               /\ given[d][i][3] <= ops /\ given[d][i][3] <= ops'
    <3>1. given[d][i] \in Value
      BY <1>t, ElementOfSeq
    <3>2. given[d][i][3] \in Nat /\ given[d][i][3] <= ops /\ given[d][i][2] = d
      BY <1>t, <3>1, Values DEF Stamped
    <3>3. \A m \in Nat : m <= ops => m <= ops + 1
      BY <1>t
    <3> QED BY <2>1, <3>2, <3>3
  <2>6. ASSUME NEW d \in Channel, NEW i \in DOMAIN given'[d]
        PROVE  given'[d][i][2] = d /\ given'[d][i][3] <= ops'
    <3>1. CASE d # c
      BY <2>2, <2>5, <2>6, <3>1
    <3>2. CASE d = c /\ i \in 1..n
      <4>1. given'[c][i] = given[c][i] /\ i \in DOMAIN given[c]
        BY <2>3, <2>4, <3>2
      <4> QED BY <2>5, <3>2, <4>1
    <3>3. CASE d = c /\ i = n + 1
      <4>1. v[3] <= ops'
        BY <1>t, <2>1
      <4> QED BY <2>1, <2>3, <3>3, <4>1
    <3> QED BY <2>3, <2>4, <3>1, <3>2, <3>3
  <2>7. ASSUME NEW d \in Channel, NEW i \in DOMAIN given'[d], NEW j \in DOMAIN given'[d], i < j
        PROVE  given'[d][i][3] < given'[d][j][3]
    <3>1. CASE d # c
      BY <2>2, <2>7, <3>1 DEF Stamped
    <3>2. CASE d = c /\ j \in 1..n
      <4>1. i \in 1..n
        BY <2>3, <2>4, <2>7, <3>2
      <4> QED BY <2>3, <2>4, <2>7, <3>2, <4>1 DEF Stamped
    <3>3. CASE d = c /\ j = n + 1
      <4>1. i \in 1..n
        BY <2>3, <2>4, <2>7, <3>3
      <4>2. given[c][i][3] <= ops /\ given[c][i][3] \in Nat
        BY <2>4, <2>5, <4>1
      <4> QED BY <1>t, <2>1, <2>3, <3>3, <4>1, <4>2
    <3> QED BY <2>3, <2>4, <3>1, <3>2, <3>3
  <2> QED BY <2>6, <2>7 DEF Stamped
<1>3. ASSUME NEW f \in Fiber, NEW c \in Channel,
             GiveToReceiver(f, c) \/ GiveToBuffer(f, c) \/ ParkSender(f, c)
      PROVE  Stamped'
  BY <1>2, <1>3 DEF GiveToReceiver, GiveToBuffer, ParkSender
<1>4. ASSUME NEW f \in Fiber, NEW c \in Channel, TakeFromBuffer(f, c) \/ ParkReceiver(f, c)
      PROVE  Stamped'
  BY <1>1, <1>4, <1>t DEF TakeFromBuffer, ParkReceiver, Operate
<1>5. ASSUME NEW f \in Fiber, FiberSpawn(f)
      PROVE  Stamped'
  BY <1>1, <1>5, <1>t DEF FiberSpawn, Operate, chanVars
<1>6. CASE StandStill \/ MainSpawn \/ Dispatch
  BY <1>1, <1>6, <1>t, StandStillFrame DEF MainSpawn, Dispatch, chanVars
<1>7. ASSUME NEW f \in Fiber, Yield(f) \/ \E how \in {"returned", "error"} : Finish(f, how)
      PROVE  Stamped'
  BY <1>1, <1>7, <1>t DEF Yield, Finish, chanVars
<1> QED BY <1>3, <1>4, <1>5, <1>6, <1>7, Steps

-----------------------------------------------------------------------------
(* What is on a channel is newer than what has left it, and what is given  *)
(* next is newer than both.                                                *)
LEMMA NewestNext ==
    ASSUME IInv, Stamped, NEW c \in Channel
    PROVE  /\ \A x \in Left(c) : x[2] = c /\ x[3] <= ops /\ x[3] \in Nat
           /\ Pending(c) # << >> => Newest(c, Head(Pending(c)))
<1> DEFINE t == taken[c]
           p == Pending(c)
           n == Len(t)
<1>1. /\ TypeOK /\ t \in Seq(Value) /\ p \in Seq(Value) /\ given[c] = t \o p
      /\ n \in Nat /\ DOMAIN t = 1..n
  <2>1. TypeOK /\ ChannelTypes /\ given[c] = t \o p
    BY DEF IInv, TypeOK, ChannelFIFO
  <2>2. t \in Seq(Value) /\ p \in Seq(Value)
    BY <2>1, PendingTypes DEF ChannelTypes
  <2> QED BY <2>1, <2>2, LenProperties
<1> HIDE DEF t, p, n
<1>2. /\ t \o p \in Seq(Value) /\ Len(t \o p) = n + Len(p)
      /\ \A i \in 1..n : i \in DOMAIN given[c] /\ given[c][i] = t[i]
      /\ p # << >> => n + 1 \in DOMAIN given[c] /\ given[c][n + 1] = Head(p) /\ Head(p) \in Value
  <2>1. /\ t \o p \in Seq(Value) /\ Len(t \o p) = n + Len(p)
        /\ \A i \in 1..(n + Len(p)) : (t \o p)[i] = IF i <= n THEN t[i] ELSE p[i - n]
    BY <1>1, ConcatProperties DEF n
  <2>2. Len(p) \in Nat /\ (p # << >> => Len(p) # 0 /\ Head(p) = p[1] /\ Head(p) \in Value)
    BY <1>1, LenProperties, HeadTailProperties, EmptySeq
  <2>3. DOMAIN given[c] = 1..(n + Len(p))
    BY <1>1, <2>1, LenProperties
  <2>4. \A i \in 1..n : i \in DOMAIN given[c] /\ given[c][i] = t[i]
    BY <1>1, <2>1, <2>2, <2>3
  <2>5. p # << >> => n + 1 \in DOMAIN given[c] /\ given[c][n + 1] = Head(p)
    <3>1. SUFFICES ASSUME p # << >> PROVE n + 1 \in 1..(n + Len(p)) /\ (t \o p)[n + 1] = p[1]
      BY <1>1, <2>2, <2>3
    <3>2. n + 1 \in 1..(n + Len(p)) /\ ~(n + 1 <= n) /\ (n + 1) - n = 1
      BY <1>1, <2>2, <3>1
    <3> QED BY <2>1, <3>2
  <2> QED BY <2>1, <2>2, <2>4, <2>5
<1>3. ASSUME NEW x \in Left(c)
      PROVE  \E i \in 1..n : given[c][i] = x
  BY <1>1, <1>2 DEF Left, Elements, t
<1>4. ASSUME NEW x \in Left(c)
      PROVE  x[2] = c /\ x[3] <= ops /\ x[3] \in Nat
  <2>1. PICK i \in 1..n : given[c][i] = x
    BY <1>3
  <2>2. x \in Value
    BY <1>1, Values
  <2> QED BY <1>1, <1>2, <2>1, <2>2, Values DEF Stamped
<1>5. ASSUME p # << >> PROVE Newest(c, Head(p))
  <2>1. ASSUME NEW x \in Left(c) PROVE x[3] < Head(p)[3]
    <3>1. PICK i \in 1..n : given[c][i] = x
      BY <1>3
    <3>2. i < n + 1 /\ i \in DOMAIN given[c] /\ n + 1 \in DOMAIN given[c]
      BY <1>1, <1>2, <1>5, <3>1
    <3> QED BY <1>2, <1>5, <3>1, <3>2 DEF Stamped
  <2>2. Head(p)[2] = c
    BY <1>2, <1>5 DEF Stamped
  <2> QED BY <1>2, <1>5, <2>1, <2>2 DEF Newest
<1> QED BY <1>4, <1>5 DEF p

(* Appending to what a fiber has bound.                                    *)
LEMMA BindsOneMore ==
    ASSUME TypeOK, NEW f \in Fiber, NEW v \in Value, got' = [got EXCEPT ![f] = Append(@, v)]
    PROVE  Binds(f, v)
<1> DEFINE n == Len(got[f])
<1>1. /\ got \in [Fiber -> Seq(Value)] /\ got[f] \in Seq(Value) /\ n \in Nat
      /\ DOMAIN got[f] = 1..n
  <2>1. got \in [Fiber -> Seq(Value)]
    BY DEF TypeOK, FiberTypes
  <2> QED BY <2>1, LenProperties
<1>2. got'[f] = Append(got[f], v) /\ \A g \in Fiber \ {f} : got'[g] = got[g]
  BY <1>1
<1>3. /\ Append(got[f], v) \in Seq(Value) /\ Len(Append(got[f], v)) = n + 1
      /\ \A i \in 1..n : Append(got[f], v)[i] = got[f][i]
      /\ Append(got[f], v)[n + 1] = v
  BY <1>1, AppendProperties
<1>4. DOMAIN got'[f] = 1..(n + 1)
  BY <1>2, <1>3, LenProperties
<1> HIDE DEF n
<1>5. DOMAIN got'[f] = DOMAIN got[f] \cup {n + 1}
  BY <1>1, <1>4
<1>6. \A i \in DOMAIN got[f] : i \in Nat /\ i < n + 1 /\ got'[f][i] = got[f][i]
  BY <1>1, <1>2, <1>3
<1>7. n + 1 \in Nat /\ got'[f][n + 1] = v
  BY <1>1, <1>2, <1>3
<1> QED BY <1>2, <1>5, <1>6, <1>7 DEF Binds

(* Appending to what has left a channel.                                   *)
LEMMA LeavesOneMore ==
    ASSUME TypeOK, NEW c \in Channel, NEW v \in Value, taken' = [taken EXCEPT ![c] = Append(@, v)]
    PROVE  Leaves(c, v)
<1>1. taken \in [Channel -> Seq(Value)] /\ taken[c] \in Seq(Value)
  BY DEF TypeOK, ChannelTypes
<1>2. Elements(Append(taken[c], v)) = Elements(taken[c]) \cup {v}
  BY <1>1, AppendElements
<1> QED BY <1>1, <1>2 DEF Leaves, Left

(* An entry that joins the queue comes, if it brings a value.              *)
LEMMA ComesOneMore ==
    ASSUME TypeOK, NEW g \in Fiber, NEW v \in Value \cup {NoVal},
           ready' = Append(ready, Entry(g, v))
    PROVE  Coming' = IF v = NoVal THEN Coming ELSE Coming \cup {Entry(g, v)}
<1>1. ready \in Seq(ReadyEntry) /\ Entry(g, v) \in ReadyEntry /\ Entry(g, v).val = v
  BY DEF TypeOK, FiberTypes, ReadyEntry, Entry
<1>2. Elements(ready') = Elements(ready) \cup {Entry(g, v)}
  BY <1>1, AppendElements
<1> QED BY <1>1, <1>2 DEF Coming

(* The pump passes on the head of the queue, and its value if it has one.  *)
LEMMA DispatchResumes ==
    ASSUME IInv, Dispatch
    PROVE  Elsewhere \/ \E e \in Coming : Resumed(e)
<1>1. TypeOK /\ OnePlace /\ ResumeBook
  BY DEF IInv, Bookkeeping, ResumeBook
<1> DEFINE h == Head(ready)
<1>2. /\ ready \in Seq(ReadyEntry) /\ ready # << >> /\ ready' = Tail(ready)
      /\ h.fiber \in Fiber /\ h.fiber \in Live
  BY DispatchMoves
<1>3. /\ h \in ReadyEntry /\ h \in Elements(ready) /\ h.fiber \notin FibersOf(Tail(ready))
      /\ Elements(ready) = Elements(ready') \cup {h}
  BY <1>1, <1>2, TailElements, TailFibers DEF OnePlace
<1>4. \A e \in Elements(ready') : e.fiber # h.fiber
  BY <1>2, <1>3 DEF Elements, FibersOf
<1>5. Elements(ready') = Elements(ready) \ {h}
  BY <1>3, <1>4
<1>6. \A c \in Channel : Left(c)' = Left(c)
  BY DEF Dispatch, chanVars, Left
<1>7. got' = IF gen[h.fiber] = "recv" THEN [got EXCEPT ![h.fiber] = Append(@, h.val)] ELSE got
  BY <1>2 DEF Dispatch, Live
<1> HIDE DEF h
<1>8. CASE gen[h.fiber] = "recv"
  <2>1. h.val \in Value /\ h \in Coming
    BY <1>1, <1>3, <1>8, NoneNoVal DEF ResumeBook, Coming
  <2>2. Binds(h.fiber, h.val)
    BY <1>1, <1>2, <1>7, <1>8, <2>1, BindsOneMore DEF h
  <2>3. Coming' = Coming \ {h} /\ \A d \in Coming \ {h} : d.fiber # h.fiber
    BY <1>4, <1>5 DEF Coming
  <2> QED BY <1>6, <2>1, <2>2, <2>3 DEF Resumed
<1>9. CASE gen[h.fiber] # "recv"
  <2>1. h.val = NoVal
    BY <1>1, <1>3, <1>9 DEF ResumeBook
  <2> QED BY <1>5, <1>6, <1>7, <1>9, <2>1 DEF Elsewhere, Coming
<1> QED BY <1>8, <1>9

(* Every step is one of the moves.                                         *)
LEMMA StepMoves ==
    ASSUME IInv, Stamped, [Next]_vars
    PROVE  Moves
<1>0. TypeOK /\ OnePlace /\ Bookkeeping /\ NoVal \notin Value
  BY NoneNoVal DEF IInv
<1>1. ASSUME SpawnFiber, UNCHANGED <<got, chanVars>>
      PROVE  Elsewhere
  <2>1. PICK h \in Fiber : ready' = Append(ready, Entry(h, NoVal))
    <3>1. nSpawned + 1 \in Fiber
      BY <1>0, <1>1, ConstantsAssumption DEF SpawnFiber, TypeOK, FiberTypes, Fiber
    <3> QED BY <1>1, <3>1 DEF SpawnFiber
  <2>2. Coming' = Coming
    BY <1>0, <2>1, ComesOneMore
  <2> QED BY <1>1, <2>2 DEF Elsewhere, chanVars, Left
<1>2. CASE StandStill \/ \E f \in Fiber, how \in {"returned", "error"} : Finish(f, how)
  <2>1. UNCHANGED <<ready, got, chanVars>>
    BY <1>2, StandStillFrame DEF Finish
  <2> QED BY <2>1 DEF Moves, Elsewhere, chanVars, Left, Coming
<1>3. ASSUME NEW f \in Fiber, Yield(f) PROVE Elsewhere
  <2>1. ready' = Append(ready, Entry(f, NoVal)) /\ UNCHANGED <<got, chanVars>>
    BY <1>3 DEF Yield
  <2>2. Coming' = Coming
    BY <1>0, <2>1, ComesOneMore
  <2> QED BY <2>1, <2>2 DEF Elsewhere, chanVars, Left
<1>4. ASSUME NEW f \in Fiber, NEW c \in Channel,
             GiveToBuffer(f, c) \/ ParkSender(f, c) \/ ParkReceiver(f, c)
      PROVE  Elsewhere
  <2>1. UNCHANGED <<ready, got, taken>>
    BY <1>4 DEF GiveToBuffer, ParkSender, ParkReceiver
  <2> QED BY <2>1 DEF Elsewhere, Left, Coming
<1>5. ASSUME NEW f \in Fiber, NEW c \in Channel, GiveToReceiver(f, c)
      PROVE  \E g \in Fiber : Handed(g, c, NewValue(f, c))
  <2> DEFINE v == NewValue(f, c)
  <2>1. v \in Value /\ v[2] = c /\ v[3] = ops + 1
    BY <1>0, <1>5, NewValueIsValue DEF TypeOK, GiveToReceiver, NewValue
  <2>2. PICK g \in Fiber : ready' = Append(ready, Entry(g, v))
    BY <1>5, GiveToReceiverMoves
  <2>3. got' = got /\ taken' = [taken EXCEPT ![c] = Append(@, v)]
    BY <1>5 DEF GiveToReceiver
  <2> HIDE DEF v
  <2>4. Coming' = Coming \cup {Entry(g, v)}
    BY <1>0, <2>1, <2>2, ComesOneMore
  <2>5. Leaves(c, v)
    BY <1>0, <2>1, <2>3, LeavesOneMore
  <2>6. Newest(c, v)
    <3>1. ops \in Nat
      BY <1>0, ConstantsAssumption DEF TypeOK, FiberTypes
    <3> QED BY <2>1, <3>1, NewestNext DEF Newest
  <2> QED BY <2>2, <2>3, <2>4, <2>5, <2>6 DEF Handed, v
<1>6. ASSUME NEW f \in Fiber, NEW c \in Channel, TakeFromBuffer(f, c)
      PROVE  \E v \in Value : Taken(f, c, v)
  <2> DEFINE v == Head(Pending(c))
  <2>1. Pending(c) # << >> /\ v = Head(buf[c])
    BY <1>6, TakeUnpends
  <2>2. Newest(c, v) /\ v \in Value
    BY <2>1, NewestNext DEF Newest
  <2>3. /\ got' = [got EXCEPT ![f] = Append(@, v)]
        /\ taken' = [taken EXCEPT ![c] = Append(@, v)]
    BY <1>6, <2>1 DEF TakeFromBuffer
  <2> HIDE DEF v
  <2>4. Leaves(c, v) /\ Binds(f, v)
    BY <1>0, <2>2, <2>3, LeavesOneMore, BindsOneMore
  <2>5. Coming' = Coming
    <3>1. CASE sendW[c] = << >>
      BY <1>6, <3>1 DEF TakeFromBuffer, Coming
    <3>2. CASE sendW[c] # << >>
      <4>1. PICK g \in Fiber : ready' = Append(ready, Entry(g, NoVal))
        BY <1>6, <3>2, TakeWakesSender
      <4> QED BY <1>0, <4>1, ComesOneMore
    <3> QED BY <3>1, <3>2
  <2>6. ASSUME NEW e \in Coming, e.fiber = f PROVE FALSE
    <3>1. f \in Queued /\ running = f
      BY <1>6, <2>6 DEF Coming, Elements, Queued, FibersOf, TakeFromBuffer, Operate
    <3> QED BY <1>0, <3>1 DEF OnePlace
  <2> QED BY <2>2, <2>4, <2>5, <2>6 DEF Taken
<1>7. CASE MainSpawn \/ \E f \in Fiber : FiberSpawn(f)
  BY <1>1, <1>7 DEF MainSpawn, FiberSpawn, SpawnFiber, Moves
<1>8. ASSUME NEW f \in Fiber, NEW c \in Channel
      PROVE  /\ GiveToReceiver(f, c) => Moves
             /\ TakeFromBuffer(f, c) => Moves
  <2>1. GiveToReceiver(f, c) => Moves
    <3> SUFFICES ASSUME GiveToReceiver(f, c) PROVE Moves
      OBVIOUS
    <3>1. NewValue(f, c) \in Value
      BY <1>0, NewValueIsValue DEF TypeOK, GiveToReceiver
    <3> QED BY <1>5, <3>1 DEF Moves
  <2>2. TakeFromBuffer(f, c) => Moves
    BY <1>6 DEF Moves
  <2> QED BY <2>1, <2>2
<1>9. CASE Dispatch
  BY <1>9, DispatchResumes DEF Moves
<1>10. Elsewhere => Moves
  BY DEF Moves
<1> QED BY <1>2, <1>3, <1>4, <1>7, <1>8, <1>9, <1>10, Steps

-----------------------------------------------------------------------------
(* What is newest in a channel has neither come nor is it coming.          *)
LEMMA NewestIsNowhere ==
    ASSUME TypeOK, Kept, NEW c \in Channel, NEW v \in Value, Newest(c, v)
    PROVE  /\ v \notin Left(c)
           /\ \A e \in Coming : e.val # v
           /\ \A f \in Fiber : \A i \in DOMAIN got[f] : got[f][i] # v
<1>1. v[3] \in Nat /\ v[2] = c
  BY Values DEF Newest
<1>2. v \notin Left(c)
  BY <1>1 DEF Newest
<1> QED BY <1>1, <1>2 DEF Kept

(* Each move keeps what left the channels, in one place, and in turn.      *)
LEMMA KeptStep ==
    ASSUME TypeOK, Kept, Moves
    PROVE  Kept'
<1>v. \A v \in Value : v[2] \in Channel
  BY Values
<1>c. \A e \in Coming : e.fiber \in Fiber /\ e.val \in Value /\ e.val \in Left(e.val[2])
  BY Values DEF Kept
<1>g. \A f \in Fiber : \A i \in DOMAIN got[f] :
        got[f][i] \in Value /\ got[f][i] \in Left(got[f][i][2])
  BY Values DEF Kept
<1>l. \A c \in Channel : Left(c) \subseteq Value
  BY Values
<1>1. CASE Elsewhere
  BY <1>1, <1>v, <1>c, <1>g DEF Elsewhere, Kept
<1>2. ASSUME NEW g \in Fiber, NEW c \in Channel, NEW v \in Value, Handed(g, c, v)
      PROVE  Kept'
  <2>1. /\ v[2] = c /\ Leaves(c, v) /\ Coming' = Coming \cup {Entry(g, v)} /\ got' = got
        /\ Entry(g, v).val = v
    BY <1>2 DEF Handed, Newest, Entry
  <2>2. \A d \in Channel : Left(d) \subseteq Left(d)'
    BY <2>1 DEF Leaves
  <2>3. \A e \in Coming' : e.val \in Left(e.val[2])'
    BY <1>c, <1>v, <2>1, <2>2 DEF Leaves
  <2>4. \A f \in Fiber : \A i \in DOMAIN got'[f] : got'[f][i] \in Elements(taken'[got'[f][i][2]])
    BY <1>g, <1>v, <2>1, <2>2 DEF Left
  <2>5. ASSUME NEW d \in Channel, NEW x \in Left(d)'
        PROVE  \/ \E e \in Coming' : e.val = x
               \/ \E f \in Fiber : \E i \in DOMAIN got'[f] : got'[f][i] = x
    <3>1. CASE x = v
      BY <2>1, <3>1
    <3>2. CASE x # v
      <4>1. x \in Left(d)
        BY <2>1, <2>5, <3>2 DEF Leaves
      <4> QED BY <2>1, <4>1 DEF Kept
    <3> QED BY <3>1, <3>2
  <2> QED BY <2>3, <2>4, <2>5 DEF Kept, Left
<1>3. ASSUME NEW f \in Fiber, NEW v \in Value, Binds(f, v), v[2] \in Channel,
             v \in Left(v[2])',
             \A d \in Channel : Left(d) \subseteq Left(d)' /\ Left(d)' \subseteq Left(d) \cup {v},
             Coming' \subseteq Coming, \A e \in Coming \ Coming' : e.val = v
      PROVE  Kept'
  <2>1. PICK n \in Nat : /\ DOMAIN got'[f] = DOMAIN got[f] \cup {n} /\ got'[f][n] = v
                         /\ \A i \in DOMAIN got[f] : i \in Nat /\ i < n /\ got'[f][i] = got[f][i]
    BY <1>3 DEF Binds
  <2>2. \A g \in Fiber \ {f} : got'[g] = got[g]
    BY <1>3 DEF Binds
  <2>3. \A e \in Coming' : e.val \in Left(e.val[2])'
    BY <1>c, <1>v, <1>3
  <2>4. ASSUME NEW g \in Fiber, NEW i \in DOMAIN got'[g]
        PROVE  got'[g][i] \in Elements(taken'[got'[g][i][2]])
    <3>1. CASE g = f /\ i = n
      BY <1>3, <2>1, <3>1 DEF Left
    <3>2. CASE ~(g = f /\ i = n)
      <4>1. i \in DOMAIN got[g] /\ got'[g][i] = got[g][i]
        BY <2>1, <2>2, <2>4, <3>2
      <4> QED BY <1>g, <1>v, <1>3, <4>1 DEF Left
    <3> QED BY <3>1, <3>2
  <2>5. ASSUME NEW d \in Channel, NEW x \in Left(d)'
        PROVE  \/ \E e \in Coming' : e.val = x
               \/ \E g \in Fiber : \E i \in DOMAIN got'[g] : got'[g][i] = x
    <3>1. CASE x = v
      BY <2>1, <3>1
    <3>2. CASE x # v
      <4>1. \/ \E e \in Coming : e.val = x
            \/ \E g \in Fiber : \E i \in DOMAIN got[g] : got[g][i] = x
        BY <1>3, <2>5, <3>2 DEF Kept
      <4>2. (\E e \in Coming : e.val = x) => \E e \in Coming' : e.val = x
        BY <1>3, <3>2
      <4>3. ASSUME NEW g \in Fiber, NEW i \in DOMAIN got[g], got[g][i] = x
            PROVE  i \in DOMAIN got'[g] /\ got'[g][i] = x
        BY <2>1, <2>2, <4>3
      <4> QED BY <4>1, <4>2, <4>3
    <3> QED BY <3>1, <3>2
  <2> QED BY <2>3, <2>4, <2>5 DEF Kept, Left
<1>4. ASSUME NEW f \in Fiber, NEW c \in Channel, NEW v \in Value, Taken(f, c, v)
      PROVE  Kept'
  <2>1. v[2] = c /\ Leaves(c, v) /\ Binds(f, v) /\ Coming' = Coming
    BY <1>4 DEF Taken, Newest
  <2>2. /\ v \in Left(c)'
        /\ \A d \in Channel : Left(d) \subseteq Left(d)' /\ Left(d)' \subseteq Left(d) \cup {v}
    BY <2>1 DEF Leaves
  <2> QED BY <1>3, <2>1, <2>2
<1>5. ASSUME NEW e \in Coming, Resumed(e)
      PROVE  Kept'
  <2>1. /\ Binds(e.fiber, e.val) /\ Coming' = Coming \ {e}
        /\ \A d \in Channel : Left(d)' = Left(d)
    BY <1>5 DEF Resumed
  <2>2. e.fiber \in Fiber /\ e.val \in Value /\ e.val[2] \in Channel /\ e.val \in Left(e.val[2])'
    BY <1>c, <1>v, <2>1
  <2>3. \A d \in Channel : Left(d) \subseteq Left(d)' /\ Left(d)' \subseteq Left(d) \cup {e.val}
    BY <2>1
  <2>4. Coming' \subseteq Coming /\ \A d \in Coming \ Coming' : d.val = e.val
    BY <2>1
  <2> QED BY <1>3, <2>1, <2>2, <2>3, <2>4
<1> QED BY <1>1, <1>2, <1>4, <1>5 DEF Moves

LEMMA OnceStep ==
    ASSUME TypeOK, Kept, Once, Moves
    PROVE  Once'
<1>c. \A e \in Coming : e.fiber \in Fiber /\ e.val \in Value
  BY Values
<1>1. CASE Elsewhere
  BY <1>1 DEF Elsewhere, Once
<1>2. ASSUME NEW g \in Fiber, NEW c \in Channel, NEW v \in Value, Handed(g, c, v)
      PROVE  Once'
  <2>1. /\ Coming' = Coming \cup {Entry(g, v)} /\ got' = got /\ Entry(g, v).val = v
        /\ Newest(c, v)
    BY <1>2 DEF Handed, Entry
  <2>2. /\ \A e \in Coming : e.val # v
        /\ \A f \in Fiber : \A i \in DOMAIN got[f] : got[f][i] # v
    BY <2>1, NewestIsNowhere
  <2> QED BY <2>1, <2>2 DEF Once
<1>3. ASSUME NEW f \in Fiber, NEW v \in Value, Binds(f, v), Coming' \subseteq Coming,
             \A e \in Coming' : e.val # v,
             \A g \in Fiber : \A i \in DOMAIN got[g] : got[g][i] # v
      PROVE  Once'
  <2>1. PICK n \in Nat : /\ DOMAIN got'[f] = DOMAIN got[f] \cup {n} /\ got'[f][n] = v
                         /\ \A i \in DOMAIN got[f] : i \in Nat /\ i < n /\ got'[f][i] = got[f][i]
    BY <1>3 DEF Binds
  <2>2. \A g \in Fiber \ {f} : got'[g] = got[g]
    BY <1>3 DEF Binds
  <2>3. ASSUME NEW g \in Fiber, NEW i \in DOMAIN got'[g]
        PROVE  (g = f /\ i = n) \/ (i \in DOMAIN got[g] /\ got'[g][i] = got[g][i])
    BY <2>1, <2>2, <2>3
  <2>4. \A d, e \in Coming' : d.val = e.val => d = e
    BY <1>3 DEF Once
  <2>5. ASSUME NEW e \in Coming', NEW g \in Fiber, NEW i \in DOMAIN got'[g]
        PROVE  got'[g][i] # e.val
    BY <1>3, <2>1, <2>3 DEF Once
  <2>6. ASSUME NEW g \in Fiber, NEW h \in Fiber, NEW i \in DOMAIN got'[g], NEW j \in DOMAIN got'[h],
               got'[g][i] = got'[h][j]
        PROVE  g = h /\ i = j
    <3>1. CASE (g = f /\ i = n) /\ (h = f /\ j = n)
      BY <3>1
    <3>2. CASE ~(g = f /\ i = n) /\ (h = f /\ j = n)
      BY <1>3, <2>1, <2>3, <2>6, <3>2
    <3>3. CASE (g = f /\ i = n) /\ ~(h = f /\ j = n)
      BY <1>3, <2>1, <2>3, <2>6, <3>3
    <3>4. CASE ~(g = f /\ i = n) /\ ~(h = f /\ j = n)
      <4>1. /\ i \in DOMAIN got[g] /\ got'[g][i] = got[g][i]
            /\ j \in DOMAIN got[h] /\ got'[h][j] = got[h][j]
        BY <2>3, <3>4
      <4>2. got[g][i] = got[h][j]
        BY <2>6, <4>1
      <4>3. \A i1 \in DOMAIN got[g], j1 \in DOMAIN got[h] :
              got[g][i1] = got[h][j1] => g = h /\ i1 = j1
        BY DEF Once
      <4> QED BY <4>1, <4>2, <4>3
    <3> QED BY <3>1, <3>2, <3>3, <3>4
  <2> QED BY <2>4, <2>5, <2>6 DEF Once
<1>4. ASSUME NEW f \in Fiber, NEW c \in Channel, NEW v \in Value, Taken(f, c, v)
      PROVE  Once'
  <2>1. Newest(c, v) /\ Binds(f, v) /\ Coming' = Coming
    BY <1>4 DEF Taken
  <2>2. /\ \A e \in Coming : e.val # v
        /\ \A g \in Fiber : \A i \in DOMAIN got[g] : got[g][i] # v
    BY <2>1, NewestIsNowhere
  <2> QED BY <1>3, <2>1, <2>2
<1>5. ASSUME NEW e \in Coming, Resumed(e)
      PROVE  Once'
  <2>1. Binds(e.fiber, e.val) /\ Coming' = Coming \ {e}
    BY <1>5 DEF Resumed
  <2>2. /\ \A d \in Coming' : d.val # e.val
        /\ \A g \in Fiber : \A i \in DOMAIN got[g] : got[g][i] # e.val
    BY <2>1 DEF Once
  <2>3. Coming' \subseteq Coming
    BY <2>1
  <2> QED BY <1>3, <1>c, <2>1, <2>2, <2>3
<1> QED BY <1>1, <1>2, <1>4, <1>5 DEF Moves

LEMMA InTurnStep ==
    ASSUME TypeOK, Kept, InTurn, Moves
    PROVE  InTurn'
<1>c. \A e \in Coming : e.fiber \in Fiber /\ e.val \in Value
  BY Values
<1>g. \A f \in Fiber : \A i \in DOMAIN got[f] : i \in Nat /\ got[f][i] \in Left(got[f][i][2])
  BY Values DEF Kept
<1>1. CASE Elsewhere
  BY <1>1 DEF Elsewhere, InTurn
<1>2. ASSUME NEW g \in Fiber, NEW c \in Channel, NEW v \in Value, Handed(g, c, v)
      PROVE  InTurn'
  <2>1. /\ Coming' = Coming \cup {Entry(g, v)} /\ got' = got
        /\ Entry(g, v).val = v /\ Entry(g, v).fiber = g /\ Newest(c, v)
    BY <1>2 DEF Handed, Entry
  <2>2. \A i \in DOMAIN got[g] : got[g][i][2] = v[2] => got[g][i][3] < v[3]
    BY <1>g, <2>1 DEF Newest
  <2> QED BY <2>1, <2>2 DEF InTurn
<1>3. ASSUME NEW f \in Fiber, NEW v \in Value, Binds(f, v), Coming' \subseteq Coming,
             \A e \in Coming' : e.fiber # f,
             \A i \in DOMAIN got[f] : got[f][i][2] = v[2] => got[f][i][3] < v[3]
      PROVE  InTurn'
  <2>1. PICK n \in Nat : /\ DOMAIN got'[f] = DOMAIN got[f] \cup {n} /\ got'[f][n] = v
                         /\ \A i \in DOMAIN got[f] : i \in Nat /\ i < n /\ got'[f][i] = got[f][i]
    BY <1>3 DEF Binds
  <2>2. \A g \in Fiber \ {f} : got'[g] = got[g]
    BY <1>3 DEF Binds
  <2>3. ASSUME NEW g \in Fiber, NEW i \in DOMAIN got'[g], NEW j \in DOMAIN got'[g], i < j,
               got'[g][i][2] = got'[g][j][2]
        PROVE  got'[g][i][3] < got'[g][j][3]
    <3>1. CASE g # f
      BY <2>2, <2>3, <3>1 DEF InTurn
    <3>2. CASE g = f /\ j = n
      <4>1. i \in DOMAIN got[f] /\ got'[f][i] = got[f][i]
        BY <2>1, <2>3, <3>2
      <4> QED BY <1>3, <2>1, <2>3, <3>2, <4>1
    <3>3. CASE g = f /\ j # n
      <4>1. j \in DOMAIN got[f] /\ got'[f][j] = got[f][j] /\ j < n /\ j \in Nat
        BY <2>1, <2>3, <3>3
      <4>2. i # n
        BY <2>3, <4>1
      <4>3. i \in DOMAIN got[f] /\ got'[f][i] = got[f][i]
        BY <2>1, <2>3, <3>3, <4>2
      <4> QED BY <2>3, <3>3, <4>1, <4>3 DEF InTurn
    <3> QED BY <3>1, <3>2, <3>3
  <2>4. ASSUME NEW e \in Coming', NEW i \in DOMAIN got'[e.fiber], got'[e.fiber][i][2] = e.val[2]
        PROVE  got'[e.fiber][i][3] < e.val[3]
    <3>1. e \in Coming /\ got'[e.fiber] = got[e.fiber]
      BY <1>3, <1>c, <2>2, <2>4
    <3> QED BY <2>4, <3>1 DEF InTurn
  <2> QED BY <2>3, <2>4 DEF InTurn
<1>4. ASSUME NEW f \in Fiber, NEW c \in Channel, NEW v \in Value, Taken(f, c, v)
      PROVE  InTurn'
  <2>1. Newest(c, v) /\ Binds(f, v) /\ Coming' = Coming /\ \A e \in Coming : e.fiber # f
    BY <1>4 DEF Taken
  <2>2. \A i \in DOMAIN got[f] : got[f][i][2] = v[2] => got[f][i][3] < v[3]
    BY <1>g, <2>1 DEF Newest
  <2> QED BY <1>3, <2>1, <2>2
<1>5. ASSUME NEW e \in Coming, Resumed(e)
      PROVE  InTurn'
  <2>1. /\ Binds(e.fiber, e.val) /\ Coming' = Coming \ {e}
        /\ \A d \in Coming \ {e} : d.fiber # e.fiber
    BY <1>5 DEF Resumed
  <2>2. \A i \in DOMAIN got[e.fiber] :
          got[e.fiber][i][2] = e.val[2] => got[e.fiber][i][3] < e.val[3]
    BY DEF InTurn
  <2>3. Coming' \subseteq Coming /\ \A d \in Coming' : d.fiber # e.fiber
    BY <2>1
  <2> QED BY <1>3, <1>c, <2>1, <2>2, <2>3
<1> QED BY <1>1, <1>2, <1>4, <1>5 DEF Moves

-----------------------------------------------------------------------------
(* At first nothing has moved.                                             *)
LEMMA InitDelivered == Init => Delivered
<1> SUFFICES ASSUME Init PROVE Delivered
  OBVIOUS
<1>1. DOMAIN ready = {} /\ \A f \in Fiber : DOMAIN got[f] = {}
  BY DEF Init
<1>2. \A c \in Channel : DOMAIN given[c] = {} /\ DOMAIN taken[c] = {}
  BY DEF Init
<1>3. Coming = {} /\ \A c \in Channel : Left(c) = {}
  BY <1>1, <1>2 DEF Coming, Left, Elements
<1> QED BY <1>1, <1>2, <1>3 DEF Delivered, Stamped, Kept, Once, InTurn

(* Delivery's invariant holds of every behaviour.                          *)
THEOREM DeliveryInvariant == Spec => [](IInv /\ Delivered)
<1>1. IInv /\ Delivered /\ [Next]_vars => Delivered'
  <2> SUFFICES ASSUME IInv, Delivered, [Next]_vars PROVE Delivered'
    OBVIOUS
  <2>1. TypeOK /\ Moves
    BY StepMoves DEF IInv, Delivered
  <2> QED BY <2>1, StampStep, KeptStep, OnceStep, InTurnStep DEF Delivered
<1> QED BY <1>1, InitDelivered, Invariance, PTL DEF Spec

(* Two lists of places, each with a value of its own, have as many values. *)
LEMMA AsMany ==
    ASSUME NEW S, NEW T, IsFiniteSet(S), NEW m \in [S -> T],
           \A x, y \in S : m[x] = m[y] => x = y,
           \A t \in T : \E x \in S : m[x] = t
    PROVE  Cardinality(T) = Cardinality(S)
<1>1. m \in Bijection(S, T)
  BY DEF Bijection, Injection, Surjection, IsInjective
<1> QED BY <1>1, FS_Bijection DEF ExistsBijection

(* The ready queue and what fibers have bound are finite.                  *)
LEMMA PlacesAreFinite ==
    ASSUME TypeOK
    PROVE  IsFiniteSet(InTransit) /\ IsFiniteSet(Bound)
<1>1. ready \in Seq(ReadyEntry) /\ got \in [Fiber -> Seq(Value)] /\ MaxFibers \in Nat
  BY ConstantsAssumption DEF TypeOK, FiberTypes, ReadyEntry
<1>2. IsFiniteSet(InTransit)
  <2>1. IsFiniteSet(DOMAIN ready)
    BY <1>1, LenProperties, FS_Interval
  <2>2. InTransit \in SUBSET (DOMAIN ready)
    BY DEF InTransit
  <2> QED BY <2>1, <2>2, FS_Subset
<1> DEFINE Of(f) == {<<f, i>> : i \in DOMAIN got[f]}
           All == {Of(f) : f \in Fiber}
<1>3. ASSUME NEW f \in Fiber PROVE IsFiniteSet(Of(f))
  <2> DEFINE m == [i \in DOMAIN got[f] |-> <<f, i>>]
  <2>1. IsFiniteSet(DOMAIN got[f])
    <3> DEFINE n == Len(got[f])
    <3>1. DOMAIN got[f] = 1..n /\ n \in Nat
      BY <1>1, LenProperties
    <3> HIDE DEF n
    <3>2. IsFiniteSet(1..n)
      BY <3>1, FS_Interval
    <3> QED BY <3>1, <3>2
  <2>2. m \in Surjection(DOMAIN got[f], Of(f))
    BY DEF Surjection
  <2> QED BY <2>1, <2>2, FS_Surjection
<1>4. IsFiniteSet(Fiber)
  BY <1>1, FS_Interval DEF Fiber
<1>5. IsFiniteSet(All)
  <2> DEFINE m == [f \in Fiber |-> Of(f)]
  <2>1. m \in Surjection(Fiber, All)
    BY DEF Surjection
  <2> QED BY <1>4, <2>1, FS_Surjection
<1>6. Bound = UNION All
  BY DEF Bound
<1>7. \A T \in All : IsFiniteSet(T)
  BY <1>3
<1> HIDE DEF All
<1> QED BY <1>2, <1>5, <1>6, <1>7, FS_UNION

(* Every value that left a channel was bound by one take, once, or is on   *)
(* its way to one fiber; nothing is lost and nothing delivered twice       *)
(* (interpreter.js:713-734, 806-823).                                      *)
THEOREM DeliveredExactlyOnce == Spec => []ExactlyOnce
<1>1. IInv /\ Delivered => ExactlyOnce
  <2> SUFFICES ASSUME IInv, Delivered PROVE ExactlyOnce
    OBVIOUS
  <2> DEFINE left == UNION {{taken[c][i] : i \in DOMAIN taken[c]} : c \in Channel}
             here == {ready[i].val : i \in InTransit}
             bound == {got[b[1]][b[2]] : b \in Bound}
  <2>0. TypeOK /\ OnePlace /\ Kept /\ Once
    BY DEF IInv, Delivered
  <2>1. left = UNION {Left(c) : c \in Channel}
    BY DEF Left, Elements
  <2>2. here = {e.val : e \in Coming}
    BY DEF InTransit, Coming, Elements
  <2>3. /\ \A b \in Bound : \E f \in Fiber : \E i \in DOMAIN got[f] : b = <<f, i>>
        /\ \A f \in Fiber : \A i \in DOMAIN got[f] : <<f, i>> \in Bound
    BY DEF Bound
  <2>4. /\ \A v \in bound : \E f \in Fiber : \E i \in DOMAIN got[f] : got[f][i] = v
        /\ \A f \in Fiber : \A i \in DOMAIN got[f] : got[f][i] \in bound
    <3>1. ASSUME NEW v \in bound
          PROVE  \E f \in Fiber : \E i \in DOMAIN got[f] : got[f][i] = v
      <4>1. PICK b \in Bound : v = got[b[1]][b[2]]
        OBVIOUS
      <4>2. PICK f \in Fiber : \E i \in DOMAIN got[f] : b = <<f, i>>
        BY <2>3
      <4>3. PICK i \in DOMAIN got[f] : b = <<f, i>>
        BY <4>2
      <4> QED BY <4>1, <4>3
    <3>2. ASSUME NEW f \in Fiber, NEW i \in DOMAIN got[f] PROVE got[f][i] \in bound
      <4>1. <<f, i>> \in Bound /\ got[<<f, i>>[1]][<<f, i>>[2]] = got[f][i]
        BY <2>3
      <4> QED BY <4>1
    <3> QED BY <3>1, <3>2
  <2>5. here \cup bound = left
    <3>1. ASSUME NEW v \in here PROVE v \in left
      <4>1. PICK e \in Coming : v = e.val
        BY <2>2
      <4>2. v[2] \in Channel /\ v \in Left(v[2])
        BY <2>0, <4>1, Values DEF Kept
      <4> QED BY <2>1, <4>2
    <3>2. ASSUME NEW v \in bound PROVE v \in left
      <4>1. PICK f \in Fiber : \E i \in DOMAIN got[f] : got[f][i] = v
        BY <2>4
      <4>2. PICK i \in DOMAIN got[f] : got[f][i] = v
        BY <4>1
      <4>3. v[2] \in Channel /\ v \in Left(v[2])
        BY <2>0, <4>2, Values DEF Kept
      <4> QED BY <2>1, <4>3
    <3>3. ASSUME NEW v \in left PROVE v \in here \cup bound
      <4>1. PICK c \in Channel : v \in Left(c)
        BY <2>1
      <4>2. CASE \E e \in Coming : e.val = v
        BY <2>2, <4>2
      <4>3. CASE \E f \in Fiber : \E i \in DOMAIN got[f] : got[f][i] = v
        BY <2>4, <4>3
      <4> QED BY <2>0, <4>1, <4>2, <4>3 DEF Kept
    <3> QED BY <3>1, <3>2, <3>3
  <2>6. here \cap bound = {}
    <3>1. SUFFICES ASSUME NEW v \in here, v \in bound PROVE FALSE
      OBVIOUS
    <3>2. PICK e \in Coming : v = e.val
      BY <2>2
    <3> QED BY <2>0, <2>4, <3>1, <3>2 DEF Once
  <2>7. Cardinality(bound) = Cardinality(Bound)
    <3> DEFINE m == [b \in Bound |-> got[b[1]][b[2]]]
    <3>1. m \in [Bound -> bound] /\ \A v \in bound : \E b \in Bound : m[b] = v
      OBVIOUS
    <3>2. \A a, b \in Bound : m[a] = m[b] => a = b
      <4> TAKE a \in Bound, b \in Bound
      <4>1. PICK f \in Fiber : \E i \in DOMAIN got[f] : a = <<f, i>>
        BY <2>3
      <4>2. PICK i \in DOMAIN got[f] : a = <<f, i>>
        BY <4>1
      <4>3. PICK g \in Fiber : \E j \in DOMAIN got[g] : b = <<g, j>>
        BY <2>3
      <4>4. PICK j \in DOMAIN got[g] : b = <<g, j>>
        BY <4>3
      <4>5. m[a] = got[f][i] /\ m[b] = got[g][j]
        BY <4>2, <4>4
      <4>6. got[f][i] = got[g][j] => f = g /\ i = j
        BY <2>0 DEF Once
      <4> QED BY <4>2, <4>4, <4>5, <4>6
    <3> HIDE DEF m, bound
    <3> QED BY <2>0, <3>1, <3>2, PlacesAreFinite, AsMany
  <2>8. Cardinality(here) = Cardinality(InTransit)
    <3> DEFINE m == [i \in InTransit |-> ready[i].val]
    <3>1. m \in [InTransit -> here] /\ \A v \in here : \E i \in InTransit : m[i] = v
      OBVIOUS
    <3>2. \A i, j \in InTransit : m[i] = m[j] => i = j
      <4> TAKE i \in InTransit, j \in InTransit
      <4>1. /\ i \in DOMAIN ready /\ j \in DOMAIN ready
            /\ ready[i] \in Coming /\ ready[j] \in Coming
        BY DEF InTransit, Coming, Elements
      <4>2. ready[i].val = ready[j].val => ready[i] = ready[j]
        BY <2>0, <4>1 DEF Once
      <4>3. ready[i] = ready[j] => i = j
        BY <2>0, <4>1 DEF OnePlace, DistinctFibers
      <4> QED BY <4>2, <4>3
    <3> HIDE DEF m, here
    <3> QED BY <2>0, <3>1, <3>2, PlacesAreFinite, AsMany
  <2> QED BY <2>5, <2>6, <2>7, <2>8 DEF ExactlyOnce
<1> QED BY <1>1, DeliveryInvariant, PTL

(* One receiver binds the values of one sender on one channel in the order *)
(* of the gives, by whichever of the three paths they came                 *)
(* (interpreter.js:713-734).                                               *)
THEOREM ReceivedInOrder == Spec => []ReceiverOrder
<1>1. Delivered => ReceiverOrder
  BY DEF Delivered, InTurn, ReceiverOrder
<1> QED BY <1>1, DeliveryInvariant, PTL

-----------------------------------------------------------------------------
(* The ready queue grows at its end, by one, and shrinks at its head.      *)
LEMMA QueueMoves ==
    ASSUME IInv, [Next]_vars
    PROVE  ready' = ready \/ Dispatch \/ \E e \in ReadyEntry : ready' = Append(ready, e)
<1>0. TypeOK /\ \A f \in Fiber, v \in Value \cup {NoVal} : Entry(f, v) \in ReadyEntry
  BY DEF IInv, ReadyEntry, Entry
<1>1. ASSUME SpawnFiber PROVE \E e \in ReadyEntry : ready' = Append(ready, e)
  <2>1. nSpawned + 1 \in Fiber
    BY <1>0, <1>1, ConstantsAssumption DEF SpawnFiber, TypeOK, FiberTypes, Fiber
  <2> QED BY <1>0, <1>1, <2>1 DEF SpawnFiber
<1>2. ASSUME NEW f \in Fiber, NEW c \in Channel, GiveToReceiver(f, c)
      PROVE  \E e \in ReadyEntry : ready' = Append(ready, e)
  <2>1. NewValue(f, c) \in Value
    BY <1>0, <1>2, NewValueIsValue DEF TypeOK, GiveToReceiver
  <2> QED BY <1>0, <1>2, <2>1, GiveToReceiverMoves
<1>3. ASSUME NEW f \in Fiber, NEW c \in Channel, TakeFromBuffer(f, c)
      PROVE  ready' = ready \/ \E e \in ReadyEntry : ready' = Append(ready, e)
  <2>1. CASE sendW[c] = << >>
    BY <1>3, <2>1 DEF TakeFromBuffer
  <2>2. CASE sendW[c] # << >>
    BY <1>0, <1>3, <2>2, TakeWakesSender
  <2> QED BY <2>1, <2>2
<1>4. ASSUME NEW f \in Fiber, NEW c \in Channel,
             GiveToBuffer(f, c) \/ ParkSender(f, c) \/ ParkReceiver(f, c)
      PROVE  ready' = ready
  BY <1>4 DEF GiveToBuffer, ParkSender, ParkReceiver
<1>5. ASSUME NEW f \in Fiber, Yield(f) PROVE \E e \in ReadyEntry : ready' = Append(ready, e)
  BY <1>0, <1>5 DEF Yield
<1>6. CASE StandStill \/ \E f \in Fiber, how \in {"returned", "error"} : Finish(f, how)
  BY <1>6, StandStillFrame DEF Finish
<1>7. CASE MainSpawn \/ \E f \in Fiber : FiberSpawn(f)
  BY <1>1, <1>7 DEF MainSpawn, FiberSpawn
<1> QED BY <1>2, <1>3, <1>4, <1>5, <1>6, <1>7, Steps

(* Whoever is queued before and after a step has nobody new before it.     *)
LEMMA BehindNobodyNew ==
    ASSUME IInv, [Next]_vars, NEW f \in Fiber, f \in Queued, f \in Queued'
    PROVE  Behind(f)' \subseteq Behind(f)
<1> DEFINE n == Len(ready)
<1>1. /\ ready \in Seq(ReadyEntry) /\ DistinctFibers(ready) /\ n \in Nat /\ DOMAIN ready = 1..n
  <2>1. ready \in Seq(ReadyEntry) /\ DistinctFibers(ready)
    BY DEF IInv, TypeOK, FiberTypes, ReadyEntry, OnePlace
  <2> QED BY <2>1, LenProperties
<1>2. PICK p \in 1..n : ready[p].fiber = f
  BY <1>1 DEF Queued, FibersOf
<1>3. CASE ready' = ready
  BY <1>3 DEF Behind
<1>4. ASSUME NEW e \in ReadyEntry, ready' = Append(ready, e)
      PROVE  Behind(f)' \subseteq Behind(f)
  <2>1. /\ DOMAIN ready' = 1..(n + 1) /\ \A i \in 1..n : ready'[i] = ready[i]
    <3>1. Append(ready, e) \in Seq(ReadyEntry) /\ Len(Append(ready, e)) = n + 1
      BY <1>1, AppendProperties
    <3> QED BY <1>1, <1>4, <3>1, LenProperties, AppendProperties
  <2> HIDE DEF n
  <2>2. SUFFICES ASSUME NEW i \in 1..(n + 1), \A j \in 1..i : ready'[j].fiber # f
                 PROVE  i \in 1..n /\ \A j \in 1..i : ready[j].fiber # f
    BY <1>1, <2>1 DEF Behind
  <2>3. ~(p \in 1..i)
    BY <1>1, <1>2, <2>1, <2>2
  <2>4. i \in 1..n
    BY <1>1, <1>2, <2>2, <2>3
  <2>5. \A j \in 1..i : j \in 1..n
    BY <1>1, <2>4
  <2> QED BY <2>1, <2>2, <2>4, <2>5
<1>5. CASE Dispatch
  <2>1. ready # << >> /\ ready' = Tail(ready)
    BY <1>5, DispatchMoves
  <2>2. /\ n # 0 /\ DOMAIN ready' = 1..(n - 1) /\ \A i \in 1..(n - 1) : ready'[i] = ready[i + 1]
    <3>1. n # 0
      BY <1>1, <1>2
    <3>2. Tail(ready) \in Seq(ReadyEntry) /\ Len(Tail(ready)) = n - 1
          /\ \A i \in 1..(n - 1) : Tail(ready)[i] = ready[i + 1]
      BY <1>1, <2>1, HeadTailProperties
    <3> QED BY <2>1, <3>1, <3>2, LenProperties
  <2> HIDE DEF n
  <2>3. PICK q \in 1..(n - 1) : ready[q + 1].fiber = f
    BY <2>2 DEF Queued, FibersOf
  <2>4. ready[1].fiber # f
    <3>1. q + 1 \in 1..n /\ 1 \in 1..n /\ q + 1 # 1
      BY <1>1, <2>2, <2>3
    <3> QED BY <1>1, <2>3, <3>1 DEF DistinctFibers
  <2>5. SUFFICES ASSUME NEW i \in 1..(n - 1), \A j \in 1..i : ready'[j].fiber # f
                 PROVE  i \in 1..n /\ \A j \in 1..i : ready[j].fiber # f
    BY <1>1, <2>2 DEF Behind
  <2>6. ASSUME NEW j \in 1..i PROVE ready[j].fiber # f
    <3>1. CASE j = 1
      BY <2>4, <3>1
    <3>2. CASE j # 1
      <4>1. j - 1 \in 1..i /\ j - 1 \in 1..(n - 1) /\ (j - 1) + 1 = j
        BY <1>1, <2>5, <3>2
      <4> QED BY <2>2, <2>5, <4>1
    <3> QED BY <3>1, <3>2
  <2>7. i \in 1..n
    BY <1>1, <2>5
  <2> QED BY <2>6, <2>7
<1> QED BY <1>3, <1>4, <1>5, QueueMoves

(* The ready queue is fair: no step puts another fiber before one that is  *)
(* queued (interpreter.js:810).                                            *)
THEOREM NobodyOvertakes == Spec => NoOvertaking
<1> DEFINE Fair == \A f \in Fiber :
             (f \in Queued /\ f \in Queued') => Cardinality(Behind(f)') <= Cardinality(Behind(f))
<1>1. IInv /\ [Next]_vars => Fair
  <2> SUFFICES ASSUME IInv, [Next]_vars, NEW f \in Fiber, f \in Queued, f \in Queued'
               PROVE  Cardinality(Behind(f)') <= Cardinality(Behind(f))
    OBVIOUS
  <2>1. IsFiniteSet(Behind(f))
    <3>1. ready \in Seq(ReadyEntry)
      BY DEF IInv, TypeOK, FiberTypes, ReadyEntry
    <3>2. IsFiniteSet(DOMAIN ready) /\ Behind(f) \in SUBSET (DOMAIN ready)
      BY <3>1, LenProperties, FS_Interval DEF Behind
    <3> QED BY <3>2, FS_Subset
  <2>2. Behind(f)' \in SUBSET Behind(f)
    BY BehindNobodyNew
  <2> QED BY <2>1, <2>2, FS_Subset
<1>2. IInv /\ [Next]_vars => [Fair]_vars
  BY <1>1
<1> QED BY <1>2, Invariance, PTL DEF Spec, NoOvertaking
=============================================================================
