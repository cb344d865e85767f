--------------------------- MODULE MemoMesh_proofs ---------------------------
(* Proofs about MemoMesh, for every set of agents, pathways and bounds:    *)
(* when no program is careless, promotion is invisible.                    *)
EXTENDS MemoMesh, SequenceTheorems, TLAPS

Careful == Careless = {}

(* The part of the invariant that is about the calls under way.            *)
StackOK(st) ==
    /\ st \in Seq(Frame) /\ Len(st) <= MaxDepth
    /\ \A i, j \in DOMAIN st : (i < j /\ ~st[j].pure) => ~st[i].pure
    /\ \A i \in DOMAIN st : st[i].pure => Current(st[i].saw) /\ IsCode(st[i].saw)

(* The part that is about the calls without a frame as yet.                *)
FillingOK == filling \in Seq(Unfilled) /\ Len(filling) <= MaxFilling

LEMMA TypeFacts ==
    ASSUME TypeOK
    PROVE  /\ frames \in Seq(Frame)
           /\ \A i \in DOMAIN frames : frames[i] \in Frame
           /\ DOMAIN frames = 1..Len(frames)
           /\ Len(frames) \in Nat
BY DEF TypeOK

(* A function on 1..n is a sequence of length n.                           *)
LEMMA FunctionIsSeq ==
    ASSUME NEW S, NEW n \in Nat, NEW f \in [1..n -> S]
    PROVE  f \in Seq(S) /\ Len(f) = n
OBVIOUS

(* After markImpure the stack is as it was, and no call on it is pure.     *)
LEMMA TaintedFacts ==
    ASSUME TypeOK
    PROVE  /\ Tainted \in Seq(Frame) /\ Len(Tainted) = Len(frames)
           /\ DOMAIN Tainted = DOMAIN frames
           /\ \A i \in DOMAIN Tainted : ~Tainted[i].pure
<1>1. /\ DOMAIN frames = 1..Len(frames) /\ Len(frames) \in Nat
      /\ \A i \in DOMAIN frames : frames[i] \in Frame
  BY TypeFacts
<1>2. \A i \in DOMAIN frames :
        [frames[i] EXCEPT !.pure = FALSE, !.saw = {}] \in Frame
  BY <1>1 DEF Frame, Saw
<1>3. /\ DOMAIN Tainted = 1..Len(frames)
      /\ \A i \in 1..Len(frames) : Tainted[i] \in Frame /\ ~Tainted[i].pure
  BY <1>1, <1>2 DEF Tainted, Frame
<1>4. Tainted \in Seq(Frame) /\ Len(Tainted) = Len(frames)
  <2>1. Tainted \in [1..Len(frames) -> Frame]
    BY <1>1, <1>2 DEF Tainted
  <2> QED BY <1>1, <2>1, FunctionIsSeq
<1> QED BY <1>1, <1>3, <1>4

(* Code that is still there has been seen: the stack stays in order.       *)
LEMMA SeesFacts ==
    ASSUME NEW st, StackOK(st), NEW k \in Nat, NEW pairs,
           pairs \in Saw, k \in DOMAIN st /\ st[k].pure => Current(pairs) /\ IsCode(pairs)
    PROVE  StackOK(Sees(st, k, pairs)) /\ Len(Sees(st, k, pairs)) = Len(st)
<1>1. CASE k \in DOMAIN st /\ st[k].pure
  <2>0. st[k] \in Frame /\ k \in 1..Len(st)
    BY <1>1 DEF StackOK
  <2>1. st[k].saw \cup pairs \in Saw
    BY <2>0 DEF Frame, Saw
  <2> DEFINE f == [st[k] EXCEPT !.saw = @ \cup pairs]
             new == Sees(st, k, pairs)
  <2>2. f \in Frame /\ f.pure = st[k].pure /\ f.saw = st[k].saw \cup pairs
    BY <2>0, <2>1 DEF Frame
  <2>3. new = [st EXCEPT ![k] = f]
    BY <1>1 DEF Sees
  <2>4. Current(f.saw) /\ IsCode(f.saw)
    BY <1>1, <2>2 DEF StackOK, Current, IsCode
  <2> HIDE DEF f
  <2>5. /\ new \in Seq(Frame) /\ Len(new) = Len(st) /\ DOMAIN new = DOMAIN st
        /\ new[k] = f /\ \A i \in DOMAIN st : i # k => new[i] = st[i]
    BY <2>0, <2>2, <2>3, ExceptSeq DEF StackOK
  <2> HIDE DEF new
  <2>6. \A i, j \in DOMAIN new : (i < j /\ ~new[j].pure) => ~new[i].pure
    BY <2>2, <2>5, <1>1 DEF StackOK
  <2>7. \A i \in DOMAIN new : new[i].pure => Current(new[i].saw) /\ IsCode(new[i].saw)
    BY <2>2, <2>4, <2>5 DEF StackOK
  <2>8. StackOK(new) /\ Len(new) = Len(st)
    BY <2>5, <2>6, <2>7 DEF StackOK
  <2> QED BY <2>8 DEF new
<1>2. CASE ~(k \in DOMAIN st /\ st[k].pure)
  BY <1>2 DEF Sees
<1> QED BY <1>1, <1>2

-----------------------------------------------------------------------------
(* The rest of the invariant, entry by entry.                              *)
MemoOK(r) ==
    /\ r.epoch <= epoch
    /\ r.epoch = epoch => \A saw \in r.cache : Current(saw) /\ IsCode(saw)
    /\ r.impure => r.cache = {}

LEMMA Parts ==
    ASSUME IInv
    PROVE  StackOK(frames) /\ \A a \in Agent : memo[a] \in Rec /\ MemoOK(memo[a])
BY DEF IInv, TypeOK, StackOK, MemoOK, TaintReachesCallers, PureCallsAreStill,
       EpochsBehind, CacheIsFresh, ImpureStaysOut

(* A step that rebinds nothing is judged by its stack, its memo and its    *)
(* answer.                                                                 *)
LEMMA Calm ==
    ASSUME IInv, UNCHANGED <<bind, epoch>>, StackOK(frames'), FillingOK',
           memo' \in [Agent -> Rec], \A a \in Agent : MemoOK(memo'[a]),
           served' \in Saw, Current(served')
    PROVE  IInv'
<1>1. TypeOK'
  BY DEF IInv, TypeOK, StackOK, FillingOK
<1>2. ServedIsFresh'
  BY DEF ServedIsFresh, Current
<1>3. TaintReachesCallers' /\ PureCallsAreStill'
  BY DEF StackOK, TaintReachesCallers, PureCallsAreStill, Current, IsCode
<1>4. EpochsBehind' /\ CacheIsFresh' /\ ImpureStaysOut'
  BY DEF MemoOK, EpochsBehind, CacheIsFresh, ImpureStaysOut, Current, IsCode
<1> QED BY <1>1, <1>2, <1>3, <1>4 DEF IInv

(* A step that rebinds leaves nobody pure, and either drops the caches or  *)
(* spares the agents.                                                      *)
LEMMA Rebound ==
    ASSUME IInv, bind' \in [Name -> Val], frames' \in Seq(Frame),
           Len(frames') <= MaxDepth, \A i \in DOMAIN frames' : ~frames'[i].pure,
           served' = {}, memo' = memo, FillingOK',
           \/ Bump
           \/ epoch' = epoch /\ \A x \in Name : bind[x] \in Agent => bind'[x] = bind[x]
    PROVE  IInv'
<1>0. /\ epoch \in 0..MaxEpoch /\ MaxEpoch \in Nat /\ memo \in [Agent -> Rec]
      /\ \A a \in Agent : memo[a].epoch \in 0..MaxEpoch /\ memo[a].cache \subseteq Saw
                           /\ memo[a].epoch <= epoch
  BY MemoAssumption DEF IInv, TypeOK, Rec, EpochsBehind
<1>1. TypeOK'
  BY <1>0 DEF TypeOK, Bump, Saw, FillingOK
<1>2. ServedIsFresh'
  BY DEF ServedIsFresh, Current
<1>3. TaintReachesCallers' /\ PureCallsAreStill'
  BY DEF TaintReachesCallers, PureCallsAreStill
<1>4. EpochsBehind' /\ ImpureStaysOut'
  BY <1>0 DEF IInv, EpochsBehind, ImpureStaysOut, Bump
<1>5. CacheIsFresh'
  <2>1. CASE Bump
    BY <1>0, <2>1 DEF Bump, CacheIsFresh
  <2>2. CASE epoch' = epoch /\ \A x \in Name : bind[x] \in Agent => bind'[x] = bind[x]
    <3> SUFFICES ASSUME NEW a \in Agent, memo[a].epoch = epoch,
                        NEW saw \in memo[a].cache, NEW p \in saw
                 PROVE  bind'[p[1]] = p[2] /\ p[2] \in Agent
      BY <2>2 DEF CacheIsFresh, Current, IsCode
    <3>1. bind[p[1]] = p[2] /\ p[2] \in Agent
      BY DEF IInv, CacheIsFresh, Current, IsCode
    <3>2. p \in Name \X Val
      BY <1>0 DEF Saw
    <3> QED BY <2>2, <3>1, <3>2
  <2> QED BY <2>1, <2>2
<1> QED BY <1>1, <1>2, <1>3, <1>4, <1>5 DEF IInv

(* If the top call is not pure, none is.                                   *)
LEMMA NoOneIsPure ==
    ASSUME IInv, frames = << >> \/ ~Top.pure
    PROVE  \A i \in DOMAIN frames : ~frames[i].pure
<1>1. DOMAIN frames = 1..Len(frames) /\ Len(frames) \in Nat
  BY TypeFacts DEF IInv
<1>2. frames = << >> => Len(frames) = 0
  OBVIOUS
<1> QED BY <1>1, <1>2 DEF IInv, TaintReachesCallers, Top, Depth

(* The step of a write, inside an agent or not.                            *)
LEMMA WriteTaints ==
    ASSUME IInv,
           \/ frames' = IF frames # << >> /\ Top.pure THEN Tainted ELSE frames
           \/ frames' = Tainted
           \/ frames = << >> /\ frames' = frames
    PROVE  /\ frames' \in Seq(Frame) /\ Len(frames') <= MaxDepth
           /\ \A i \in DOMAIN frames' : ~frames'[i].pure
<1>1. TypeOK /\ frames \in Seq(Frame) /\ Len(frames) <= MaxDepth
  BY DEF IInv, TypeOK
<1>2. CASE frames' = Tainted
  BY <1>1, <1>2, TaintedFacts
<1>3. CASE frames' = frames /\ (frames = << >> \/ ~Top.pure)
  BY <1>1, <1>3, NoOneIsPure
<1> QED BY <1>2, <1>3

(* Whatever happens, a call whose defaults are evaluated is put on the end *)
(* of filling, within its bound, and some are taken off that end.          *)
LEMMA FillingStays ==
    ASSUME IInv, Next
    PROVE  FillingOK'
<1>0. /\ filling \in Seq(Unfilled) /\ Len(filling) <= MaxFilling
      /\ frames \in Seq(Frame) /\ Len(frames) <= MaxDepth
      /\ MaxDepth \in Nat /\ MaxFilling \in Nat
  BY MemoAssumption DEF IInv, TypeOK
<1>1. CASE UNCHANGED filling
  BY <1>0, <1>1 DEF FillingOK
<1>2. ASSUME NEW a \in Agent, NEW way, CallFills(a, way)
      PROVE  FillingOK'
  <2>1. [agent |-> a, at |-> Depth] \in Unfilled
    BY <1>0 DEF Unfilled, Depth
  <2>2. filling' = Append(filling, [agent |-> a, at |-> Depth]) /\ Len(filling) < MaxFilling
    BY <1>2 DEF CallFills
  <2> QED BY <1>0, <2>1, <2>2, AppendProperties DEF FillingOK
<1>3. ASSUME Filled
      PROVE  FillingOK'
  <2>1. filling' = SubSeq(filling, 1, Len(filling) - 1) /\ filling # << >>
    BY <1>3 DEF Filled, Filling, Front
  <2> QED BY <1>0, <2>1, SubSeqProperties DEF FillingOK
<1>4. ASSUME NEW k, NEW n \in 0..Len(filling), Throw(k, n)
      PROVE  FillingOK'
  BY <1>0, <1>4, SubSeqProperties DEF Throw, FillingOK
<1>5. CASE Rebinding
  BY <1>1, <1>5 DEF Rebinding, Declare, Destructure, Weave, Assign, AssignElsewhere,
                    Decay, Prune
<1>6. CASE Running
  BY <1>1, <1>2, <1>3, <1>4, <1>6 DEF Running, Read, CallHit, CallTooDeep, CallRun,
                                      Effect, Return
<1> QED BY <1>5, <1>6 DEF Next

-----------------------------------------------------------------------------
(* Rebinding keeps the invariant, one action at a time.                    *)
LEMMA RebindingKeeps ==
    ASSUME IInv, Careful, Rebinding, FillingOK'
    PROVE  IInv'
<1>0. bind \in [Name -> Val] /\ Unbound \in Val /\ Unbound \notin Agent
  BY MemoAssumption DEF IInv, TypeOK, Val
<1>1. ASSUME NEW x \in Name, NEW v \in Val, Declare(x, v)
      PROVE  IInv'
  <2>1. bind' \in [Name -> Val]
    BY <1>0, <1>1 DEF Declare
  <2>2. \/ Bump
        \/ epoch' = epoch /\ \A y \in Name : bind[y] \in Agent => bind'[y] = bind[y]
    BY <1>0, <1>1 DEF Declare, Careful
  <2> QED BY <1>1, <2>1, <2>2, WriteTaints, Rebound DEF Declare, Idle
<1>2. ASSUME NEW x \in Name, NEW v \in Val, Destructure(x, v)
      PROVE  IInv'
  <2>1. bind' \in [Name -> Val]
    BY <1>0, <1>2 DEF Destructure
  <2> QED BY <1>2, <2>1, WriteTaints, Rebound DEF Destructure, Idle
<1>3. ASSUME NEW x \in Name, NEW v \in Val, Weave(x, v)
      PROVE  IInv'
  <2>1. bind' \in [Name -> Val]
    BY <1>0, <1>3 DEF Weave
  <2>2. epoch' = epoch /\ \A y \in Name : bind[y] \in Agent => bind'[y] = bind[y]
    BY <1>0, <1>3 DEF Weave, Careful
  <2> QED BY <1>3, <2>1, <2>2, WriteTaints, Rebound DEF Weave, Idle
<1>4. ASSUME NEW x \in Name, NEW v \in Val, Assign(x, v)
      PROVE  IInv'
  <2>1. bind' \in [Name -> Val]
    BY <1>0, <1>4 DEF Assign
  <2>2. \/ Bump
        \/ epoch' = epoch /\ \A y \in Name : bind[y] \in Agent => bind'[y] = bind[y]
    BY <1>0, <1>4 DEF Assign
  <2> QED BY <1>4, <2>1, <2>2, WriteTaints, Rebound DEF Assign
<1>5. ASSUME AssignElsewhere
      PROVE  IInv'
  <2>1. IInv /\ TypeOK
    BY DEF IInv
  <2>2. epoch \in 0..MaxEpoch /\ MaxEpoch \in Nat /\ memo \in [Agent -> Rec]
    BY <2>1, MemoAssumption DEF TypeOK
  <2>3. TypeOK' /\ ServedIsFresh'
    BY <1>5, <2>1, <2>2 DEF AssignElsewhere, Bump, TypeOK, ServedIsFresh, Current, Saw,
                                  FillingOK
  <2>4. TaintReachesCallers' /\ PureCallsAreStill' /\ ImpureStaysOut'
    BY <1>5, <2>1 DEF AssignElsewhere, IInv, TaintReachesCallers, PureCallsAreStill,
                      ImpureStaysOut, Current, IsCode
  <2>5. EpochsBehind' /\ CacheIsFresh'
    <3>1. \A a \in Agent : memo[a].epoch \in Nat /\ memo[a].epoch <= epoch
      BY <2>1, <2>2 DEF IInv, EpochsBehind, Rec
    <3> QED BY <1>5, <2>2, <3>1 DEF AssignElsewhere, Bump, EpochsBehind, CacheIsFresh
  <2> QED BY <2>3, <2>4, <2>5 DEF IInv
<1>6. ASSUME NEW x \in Name, Decay(x)
      PROVE  IInv'
  <2>1. bind' \in [Name -> Val]
    BY <1>0, <1>6 DEF Decay
  <2>2. \/ Bump
        \/ epoch' = epoch /\ \A y \in Name : bind[y] \in Agent => bind'[y] = bind[y]
    BY <1>0, <1>6 DEF Decay
  <2> QED BY <1>6, <2>1, <2>2, WriteTaints, Rebound DEF Decay
<1>7. ASSUME NEW cold \in SUBSET Global, Prune(cold)
      PROVE  IInv'
  <2>1. bind' \in [Name -> Val]
    BY <1>0, <1>7 DEF Prune
  <2> QED BY <1>7, <2>1, WriteTaints, Rebound DEF Prune
<1> QED BY <1>1, <1>2, <1>3, <1>4, <1>5, <1>6, <1>7 DEF Rebinding

-----------------------------------------------------------------------------
(* Counting a call spoils no entry, and looking at the stack keeps it.     *)
LEMMA CountedFacts ==
    ASSUME IInv, NEW a \in Agent
    PROVE  /\ Counted(a) \in Rec /\ MemoOK(Counted(a))
           /\ \A saw \in Counted(a).cache : saw \in Saw /\ Current(saw) /\ IsCode(saw)
<1>1. memo[a] \in Rec /\ MemoOK(memo[a]) /\ epoch \in 0..MaxEpoch /\ PromoteAt \in Nat
  BY Parts, MemoAssumption DEF IInv, TypeOK
<1>2. /\ Counted(a).epoch = epoch /\ Counted(a).impure = memo[a].impure
      /\ Counted(a).cache = IF memo[a].epoch # epoch THEN {} ELSE memo[a].cache
      /\ Counted(a) \in Rec
  <2> DEFINE r == memo[a]
             n == IF r.calls > PromoteAt THEN r.calls ELSE r.calls + 1
             c == IF r.epoch # epoch THEN {} ELSE r.cache
  <2>1. /\ r.calls \in 0..(PromoteAt + 1) /\ r.impure \in BOOLEAN
        /\ r.epoch \in 0..MaxEpoch /\ r.cache \in SUBSET Saw
        /\ r = [calls |-> r.calls, impure |-> r.impure, epoch |-> r.epoch,
                cache |-> r.cache]
    BY <1>1 DEF Rec
  <2>2. n \in 0..(PromoteAt + 1) /\ c \in SUBSET Saw
    BY <1>1, <2>1
  <2>3. Counted(a) = [calls |-> n, impure |-> r.impure, epoch |-> epoch, cache |-> c]
    BY <2>1 DEF Counted
  <2> QED BY <1>1, <2>1, <2>2, <2>3 DEF Rec
<1>3. \A saw \in Counted(a).cache : saw \in Saw /\ Current(saw) /\ IsCode(saw)
  BY <1>1, <1>2 DEF MemoOK, Rec
<1>4. MemoOK(Counted(a))
  BY <1>1, <1>2, <1>3 DEF MemoOK
<1> QED BY <1>2, <1>3, <1>4

LEMMA LooksFacts ==
    ASSUME IInv, NEW pairs \in Saw,
           frames # << >> /\ Top.pure => Current(pairs) /\ IsCode(pairs)
    PROVE  StackOK(Looks(pairs)) /\ Len(Looks(pairs)) = Depth
<1>1. StackOK(frames) /\ DOMAIN frames = 1..Len(frames) /\ Len(frames) \in Nat
  BY Parts, TypeFacts DEF IInv
<1>2. Depth \in DOMAIN frames => frames # << >>
  BY <1>1 DEF Depth
<1> QED BY <1>1, <1>2, SeesFacts DEF Looks, Depth, Top

(* What the calls above k saw is current, when k is still held to be pure. *)
LEMMA PoppedFacts ==
    ASSUME IInv, NEW k \in Nat, k <= Depth
    PROVE  StackOK(Popped(k))
<1> DEFINE st == SubSeq(frames, 1, k)
           pairs == UNION {frames[i].saw : i \in (k + 1)..Depth}
<1>1. /\ StackOK(frames) /\ DOMAIN frames = 1..Depth /\ Depth \in Nat
      /\ \A i \in 1..Depth : frames[i] \in Frame
      /\ MaxDepth \in Nat
  BY Parts, TypeFacts, MemoAssumption DEF IInv, Depth
<1>2. /\ st \in Seq(Frame) /\ Len(st) = k
      /\ \A i \in 1..k : st[i] = frames[i]
      /\ DOMAIN st = 1..k
  BY <1>1, SubSeqProperties
<1>3. pairs \in Saw
  BY <1>1 DEF Frame, Saw
<1> HIDE DEF st
<1>4. StackOK(st)
  BY <1>1, <1>2 DEF StackOK, Depth
<1>5. ASSUME k \in DOMAIN st, st[k].pure
      PROVE  Current(pairs) /\ IsCode(pairs)
  <2>1. \A i \in (k + 1)..Depth : frames[i].pure
    BY <1>1, <1>2, <1>5 DEF StackOK, Frame
  <2>2. \A i \in (k + 1)..Depth : Current(frames[i].saw) /\ IsCode(frames[i].saw)
    BY <1>1, <2>1 DEF StackOK
  <2> QED BY <2>2 DEF Current, IsCode
<1>6. StackOK(Sees(st, k, pairs))
  BY <1>3, <1>4, <1>5, SeesFacts
<1> QED BY <1>6 DEF Popped, st

LEMMA TaintedOK ==
    ASSUME IInv
    PROVE  StackOK(Tainted)
<1>1. TypeOK /\ Len(frames) <= MaxDepth
  BY DEF IInv, TypeOK
<1> QED BY <1>1, TaintedFacts DEF StackOK

LEMMA NamedFacts ==
    ASSUME IInv
    PROVE  Named \subseteq Name
<1>1. CASE Filling
  <2>1. filling[Len(filling)] \in Unfilled
    BY <1>1 DEF Filling, IInv, TypeOK
  <2> QED BY <1>1, <2>1, MemoAssumption DEF Named, Unfilled, Last
<1>2. CASE ~Filling /\ frames # << >>
  <2>1. Top.agent \in Agent
    BY <1>2, TypeFacts DEF IInv, Frame, Top, Depth
  <2> QED BY <1>2, <2>1, MemoAssumption DEF Named
<1>3. CASE ~Filling /\ frames = << >>
  BY <1>3 DEF Named
<1> QED BY <1>1, <1>2, <1>3

-----------------------------------------------------------------------------
(* What agents do keeps the invariant, one action at a time.               *)
LEMMA RunningKeeps ==
    ASSUME IInv, Careful, Running, FillingOK'
    PROVE  IInv'
<1>0. /\ bind \in [Name -> Val] /\ served \in Saw /\ memo \in [Agent -> Rec]
      /\ StackOK(frames) /\ DOMAIN frames = 1..Depth /\ Depth \in Nat
      /\ frames # << >> => Depth \in 1..Depth /\ Top \in Frame
      /\ \A a \in Agent : memo[a] \in Rec /\ MemoOK(memo[a])
      /\ {} \in Saw /\ Current({}) /\ IsCode({})
      /\ MaxDepth \in Nat
  BY Parts, TypeFacts, MemoAssumption DEF IInv, TypeOK, Depth, Top, Saw, Current, IsCode
<1>1. ASSUME NEW x \in Name, Read(x)
      PROVE  IInv'
  <2> DEFINE outer == bind[x] \in Data /\ Top.pure /\ Free(x)
             pairs == {<<x, bind[x]>>}
  <2>1. CASE outer
    BY <1>0, <1>1, <2>1, TaintedOK, Calm DEF Read
  <2>2. CASE ~outer
    <3>1. pairs \in Saw /\ Current(pairs)
      BY <1>0 DEF Saw, Current
    <3>2. Top.pure => IsCode(pairs)
      BY <1>0, <1>1, <2>2 DEF Read, Careful, Val, IsCode
    <3>3. StackOK(Looks(pairs))
      BY <3>1, <3>2, LooksFacts
    <3> QED BY <1>0, <1>1, <2>2, <3>3, Calm DEF Read
  <2> QED BY <2>1, <2>2
<1>2. ASSUME Effect
      PROVE  IInv'
  BY <1>0, <1>2, TaintedOK, Calm DEF Effect
<1>3. ASSUME NEW a \in Agent, NEW way \in Ways(a), NEW entry \in Saw,
             entry = {} \/ entry \in Counted(a).cache
      PROVE  /\ Current(entry) /\ IsCode(entry)
             /\ StackOK(Looks(way \cup entry)) /\ Len(Looks(way \cup entry)) = Depth
             /\ [memo EXCEPT ![a] = Counted(a)] \in [Agent -> Rec]
             /\ \A b \in Agent : MemoOK([memo EXCEPT ![a] = Counted(a)][b])
  <2>1. Current(entry) /\ IsCode(entry)
    BY <1>0, <1>3, CountedFacts
  <2>2. way \in Saw /\ Current(way) /\ IsCode(way)
    <3>1. CASE way = {}
      BY <1>0, <3>1
    <3>2. CASE way # {}
      <4>1. PICK x \in Named : bind[x] = a /\ way = {<<x, a>>}
        BY <3>2 DEF Ways
      <4>2. x \in Name
        BY <4>1, NamedFacts
      <4> QED BY <4>1, <4>2 DEF Saw, Val, Current, IsCode
    <3> QED BY <3>1, <3>2
  <2>3. way \cup entry \in Saw /\ Current(way \cup entry) /\ IsCode(way \cup entry)
    BY <2>1, <2>2 DEF Saw, Current, IsCode
  <2>4. Counted(a) \in Rec /\ MemoOK(Counted(a))
    BY CountedFacts
  <2> QED BY <1>0, <2>1, <2>3, <2>4, LooksFacts
<1>4. ASSUME NEW a \in Agent, NEW way \in Ways(a), CallHit(a, way)
      PROVE  IInv'
  <2>1. PICK entry \in Counted(a).cache :
          /\ memo' = [memo EXCEPT ![a] = Counted(a)]
          /\ frames' = Looks(way \cup entry)
          /\ served' = entry
    BY <1>4 DEF CallHit
  <2>2. UNCHANGED <<bind, epoch>>
    BY <1>4 DEF CallHit
  <2>3. entry \in Saw
    BY <2>1, CountedFacts
  <2> QED BY <1>3, <2>1, <2>2, <2>3, Calm
<1>5. ASSUME NEW a \in Agent, NEW way \in Ways(a), CallTooDeep(a, way) \/ CallFills(a, way)
      PROVE  IInv'
  <2>1. way \cup {} = way
    OBVIOUS
  <2>2. /\ memo' = [memo EXCEPT ![a] = Counted(a)] /\ frames' = Looks(way)
        /\ served' = {} /\ UNCHANGED <<bind, epoch>>
    BY <1>5 DEF CallTooDeep, CallFills
  <2> QED BY <1>0, <1>3, <2>1, <2>2, Calm
<1>6. ASSUME NEW st, StackOK(st), Len(st) = Depth, Depth < MaxDepth,
             NEW a \in Agent, NEW prim \in BOOLEAN
      PROVE  StackOK(Append(st, Framed(a, prim)))
  <2> DEFINE f == Framed(a, prim)
  <2>1. f \in Frame /\ f.pure /\ Current(f.saw) /\ IsCode(f.saw)
    BY <1>0 DEF Frame, Framed
  <2> HIDE DEF f
  <2>2. st \in Seq(Frame) /\ DOMAIN st = 1..Depth
    BY <1>6 DEF StackOK
  <2>3. /\ Append(st, f) \in Seq(Frame) /\ Len(Append(st, f)) = Depth + 1
        /\ DOMAIN Append(st, f) = 1..(Depth + 1)
        /\ Append(st, f)[Depth + 1] = f
        /\ \A i \in 1..Depth : Append(st, f)[i] = st[i]
    BY <1>0, <1>6, <2>1, <2>2, AppendProperties
  <2>4. StackOK(Append(st, f))
    BY <1>0, <1>6, <2>1, <2>2, <2>3 DEF StackOK
  <2> QED BY <2>4 DEF f
<1>7. ASSUME NEW a \in Agent, NEW way \in Ways(a), NEW prim \in BOOLEAN,
             CallRun(a, way, prim)
      PROVE  IInv'
  <2>1. way \cup {} = way
    OBVIOUS
  <2>2. StackOK(Looks(way)) /\ Len(Looks(way)) = Depth /\ Depth < MaxDepth
    BY <1>0, <1>3, <1>7, <2>1 DEF CallRun
  <2>3. /\ memo' = [memo EXCEPT ![a] = Counted(a)]
        /\ frames' = Append(Looks(way), Framed(a, prim))
        /\ served' = {} /\ UNCHANGED <<bind, epoch>>
    BY <1>7 DEF CallRun
  <2>4. StackOK(frames')
    BY <1>6, <2>2, <2>3
  <2> QED BY <1>0, <1>3, <2>3, <2>4, Calm
<1>8. ASSUME Filled
      PROVE  IInv'
  <2>1. Last(filling).agent \in Agent
    <3>1. filling \in Seq(Unfilled) /\ filling # << >>
      BY <1>8 DEF Filled, Filling, IInv, TypeOK
    <3>2. filling[Len(filling)] \in Unfilled
      BY <3>1
    <3> QED BY <3>2 DEF Last, Unfilled
  <2>2. StackOK(frames')
    BY <1>0, <1>6, <1>8, <2>1 DEF Filled, Depth
  <2> QED BY <1>0, <1>8, <2>2, Calm DEF Filled
<1>9. ASSUME NEW primitive \in BOOLEAN, Return(primitive)
      PROVE  IInv'
  <2> DEFINE r == memo[Top.agent]
  <2>0. frames # << >> /\ Depth \in DOMAIN frames /\ Top \in Frame
        /\ Top.agent \in Agent /\ Top.saw \in Saw /\ Depth - 1 \in Nat
    BY <1>0, <1>9 DEF Return, Frame
  <2>1. StackOK(frames')
    BY <1>0, <1>9, <2>0, PoppedFacts DEF Return
  <2>2. Top.pure => Current(Top.saw) /\ IsCode(Top.saw)
    BY <1>0, <2>0 DEF StackOK, Top
  <2>3. r \in Rec /\ MemoOK(r) /\ Stained(r) \in Rec /\ MemoOK(Stained(r))
    BY <1>0, <2>0 DEF Rec, Stained, MemoOK
  <2>4. /\ [r EXCEPT !.cache = @ \cup {Top.saw}] \in Rec
        /\ Top.pure /\ ~r.impure => MemoOK([r EXCEPT !.cache = @ \cup {Top.saw}])
    BY <2>0, <2>2, <2>3 DEF Rec, MemoOK
  <2>5. PICK new \in Rec : MemoOK(new) /\ memo' = [memo EXCEPT ![Top.agent] = new]
    BY <1>9, <2>3, <2>4 DEF Return
  <2>6. memo' \in [Agent -> Rec] /\ \A a \in Agent : MemoOK(memo'[a])
    BY <1>0, <2>0, <2>5
  <2> QED BY <1>0, <1>9, <2>1, <2>6, Calm DEF Return
<1>10. ASSUME NEW k \in 0..Depth, NEW n \in 0..Len(filling), Throw(k, n)
       PROVE  IInv'
  <2>1. StackOK(frames')
    BY <1>0, <1>10, PoppedFacts DEF Throw
  <2>2. \A a \in Agent : /\ Stained(memo[a]) \in Rec
                         /\ MemoOK(Stained(memo[a]))
    BY <1>0 DEF Rec, Stained, MemoOK
  <2>3. memo' \in [Agent -> Rec] /\ \A a \in Agent : MemoOK(memo'[a])
    BY <1>0, <1>10, <2>2 DEF Throw
  <2> QED BY <1>0, <1>10, <2>1, <2>3, Calm DEF Throw
<1> QED BY <1>1, <1>2, <1>4, <1>5, <1>7, <1>8, <1>9, <1>10 DEF Running

-----------------------------------------------------------------------------
(* Before the program starts nothing is cached and no call is under way.   *)
LEMMA InitHolds == Init => IInv
<1> SUFFICES ASSUME Init PROVE IInv
  OBVIOUS
<1>1. /\ MaxDepth \in Nat /\ MaxEpoch \in Nat /\ PromoteAt \in Nat /\ MaxFilling \in Nat
  BY MemoAssumption
<1>2. << >> \in Seq(Frame) /\ << >> \in Seq(Unfilled) /\ Len(<< >>) = 0 /\ DOMAIN << >> = {}
  OBVIOUS
<1>3. TypeOK
  BY <1>1, <1>2 DEF Init, TypeOK, Rec, Saw
<1>4. ServedIsFresh /\ TaintReachesCallers /\ PureCallsAreStill
  BY <1>2 DEF Init, ServedIsFresh, Current, TaintReachesCallers, PureCallsAreStill
<1>5. EpochsBehind /\ CacheIsFresh /\ ImpureStaysOut
  BY DEF Init, EpochsBehind, CacheIsFresh, ImpureStaysOut
<1> QED BY <1>3, <1>4, <1>5 DEF IInv

LEMMA StutterKeeps == IInv /\ UNCHANGED vars => IInv'
BY DEF IInv, vars, TypeOK, ServedIsFresh, TaintReachesCallers, PureCallsAreStill,
       EpochsBehind, CacheIsFresh, ImpureStaysOut, Current, IsCode

(* When no program is careless, the invariant of promotion holds for every *)
(* set of agents, pathways and values, every promoteAt and every depth of  *)
(* the stack (callValue and everything that moves this.epoch).             *)
THEOREM PromotionInvariant ==
    ASSUME Careful
    PROVE  Spec => []IInv
<1>1. IInv /\ [Next]_vars => IInv'
  BY FillingStays, RebindingKeeps, RunningKeeps, StutterKeeps DEF Next
<1> QED BY <1>1, InitHolds, PTL DEF Spec

(* So an answer from the cache never depended on a binding that has been   *)
(* changed since (interpreter.js:953).                                     *)
THEOREM PromotionIsInvisible ==
    ASSUME Careful
    PROVE  Spec => []ServedIsFresh
<1>1. IInv => ServedIsFresh
  BY DEF IInv
<1> QED BY <1>1, PromotionInvariant, PTL
=============================================================================
