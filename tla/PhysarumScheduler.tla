-------------------------- MODULE PhysarumScheduler --------------------------
(***************************************************************************)
(* scheduleRun of src/builtins.js: batches of items are dealt to the       *)
(* workers of a pool by the conductance law, the workers run in parallel,  *)
(* what they did teaches the pool, and the items of workers that failed    *)
(* are dealt once more, to the others.                                     *)
(*                                                                         *)
(* A round is runSettled of src/myxo-concurrent.js: it ends with all       *)
(* outcomes at once, in the order of the workers (GatherBarrier), or, when *)
(* a worker hangs, by its timeout.  How a worker does is up to its         *)
(* environment.                                                            *)
(***************************************************************************)
EXTENDS Physarum

CONSTANTS
    Quality,                  \* qualities measured
    Fails, Malforms, Hangs,   \* a worker's other ways
    BatchSizes,               \* sizes of batches; bound: a program keeps to one
    MaxTurns                  \* bound: changes of a worker's ways

ASSUME SchedulerAssumption ==
    /\ Quality \subseteq Nat /\ BatchSizes \subseteq Nat \ {0} /\ MaxTurns \in Nat
    /\ Cardinality({Fails, Malforms, Hangs}) = 3 /\ {Fails, Malforms, Hangs} \cap Nat = {}

Way == Quality \cup {Fails, Malforms, Hangs}

VARIABLES
    cond, credit,   \* the pool
    way,            \* how each worker does at present
    turns,          \* changes of that so far
    round,          \* 0 between batches, else 1 or 2
    size,           \* of the batch
    todo,           \* items of this round not yet dealt
    fresh,          \* the credit of the second round
    chunks,         \* the items each worker has in this round
    done,           \* how often each item's result was filled in
    gone,           \* workers that failed in the first round
    outcome         \* of the last batch: none, returned, threw

pool == <<cond, credit>>
batch == <<round, size, todo, fresh, chunks, done, gone, outcome>>
vars == <<pool, way, turns, batch>>

Nothing == [w \in Tube |-> << >>]

Init ==
    /\ cond = [w \in Tube |-> Unit] /\ credit = [w \in Tube |-> 0]
    /\ way \in [Tube -> Quality \cup {Fails}] /\ turns = 0
    /\ round = 0 /\ size = 0 /\ todo = << >> /\ fresh = << >> /\ chunks = Nothing /\ done = << >>
    /\ gone = {} /\ outcome = "none"

-----------------------------------------------------------------------------
(* A batch is scheduled: its first round is dealt with the pool's credit.  *)
Schedule(m) ==
    /\ round = 0 /\ size \in {0, m}
    /\ round' = 1 /\ size' = m
    /\ todo' = [k \in 1..m |-> k]
    /\ done' = [k \in 1..m |-> 0] /\ gone' = {} /\ outcome' = "none"
    /\ UNCHANGED <<pool, way, turns, fresh, chunks>>

(* Bug: the credit of a batch is not carried over to the next.             *)
DealItem_Bug ==
    /\ todo # << >>
    /\ LET now == Accrued(cond, [w \in Tube |-> 0])
       IN chunks' = [chunks EXCEPT ![Richest(now)] = Append(@, Head(todo))]
    /\ todo' = Tail(todo)
    /\ UNCHANGED <<pool, way, turns, round, size, fresh, done, gone, outcome>>

(* distribute: an item goes to the worker that has most credit.            *)
DealItem ==
    /\ todo # << >>
    /\ LET purse == IF round = 1 THEN credit ELSE fresh
           c == [w \in DOMAIN purse |-> cond[w]]
           now == Accrued(c, purse)
           left == Relative(Paid(c, now, Richest(now)))
       IN /\ chunks' = [chunks EXCEPT ![Richest(now)] = Append(@, Head(todo))]
          /\ credit' = IF round = 1 THEN left ELSE credit
          /\ fresh' = IF round = 1 THEN fresh ELSE left
    /\ todo' = Tail(todo)
    /\ UNCHANGED <<cond, way, turns, round, size, done, gone, outcome>>

(* The round is dealt and runs.                                            *)
Under(r) == round \in r /\ todo = << >>
Busy == {w \in Tube : chunks[w] # << >>}
Failed == {w \in Busy : way[w] = Fails}

(* Outcomes are read in the workers' order, up to the first bad one.       *)
Read == {w \in Busy : \A v \in Busy : v <= w => way[v] # Malforms}
Hung == \E w \in Busy : way[w] = Hangs

Learned == [w \in Tube |->
    IF w \notin Read THEN cond[w]
    ELSE IF way[w] = Fails THEN Decay(cond[w]) ELSE Learn(cond[w], way[w])]

Holds(w, k) == \E p \in DOMAIN chunks[w] : chunks[w][p] = k
Filled == [k \in DOMAIN done |->
    done[k] + Cardinality({w \in Read \ Failed : Holds(w, k)})]

Leave(how) ==
    /\ round' = 0 /\ outcome' = how /\ chunks' = Nothing /\ fresh' = << >>
    /\ UNCHANGED todo

(* Timed out, or a worker broke its contract: schedule throws.             *)
RoundBreaks ==
    /\ Under({1, 2})
    /\ Hung \/ Read # Busy
    /\ IF Hung THEN UNCHANGED <<cond, done>> ELSE cond' = Learned /\ done' = Filled
    /\ Leave("threw")
    /\ UNCHANGED <<credit, way, turns, size, gone>>

(* Bug: a round of which a worker failed is taken for complete.            *)
RoundEnds_Bug ==
    /\ Under({1, 2}) /\ ~Hung /\ Read = Busy
    /\ cond' = Learned /\ done' = Filled
    /\ Leave("returned")
    /\ UNCHANGED <<credit, way, turns, size, gone>>

RoundEnds ==
    /\ Under({1, 2}) /\ ~Hung /\ Read = Busy
    /\ Failed = {}
    /\ cond' = Learned /\ done' = Filled
    /\ Leave("returned")
    /\ UNCHANGED <<credit, way, turns, size, gone>>

(* Every worker failed, or one failed again: schedule throws.              *)
NobodyLeft ==
    /\ Under({1, 2}) /\ ~Hung /\ Read = Busy
    /\ Failed # {} /\ (round = 2 \/ Failed = Tube)
    /\ cond' = Learned /\ done' = Filled
    /\ Leave("threw")
    /\ UNCHANGED <<credit, way, turns, size, gone>>

Flatten(S) == LET upto[w \in 0..Tubes] ==
                    IF w = 0 THEN << >>
                    ELSE IF w \in S THEN upto[w - 1] \o chunks[w] ELSE upto[w - 1]
              IN upto[Tubes]

(* Bug: all items are dealt again, not only those of the failed workers.   *)
Reroute_Bug ==
    /\ Under({1}) /\ ~Hung /\ Read = Busy
    /\ Failed # {} /\ Failed # Tube
    /\ cond' = Learned /\ done' = Filled
    /\ round' = 2 /\ gone' = Failed
    /\ todo' = [k \in 1..size |-> k] /\ chunks' = Nothing
    /\ fresh' = [w \in Tube \ Failed |-> 0]
    /\ UNCHANGED <<credit, way, turns, size, outcome>>

(* The items of failed workers go to the others, with fresh credit.        *)
Reroute ==
    /\ Under({1}) /\ ~Hung /\ Read = Busy
    /\ Failed # {} /\ Failed # Tube
    /\ cond' = Learned /\ done' = Filled
    /\ round' = 2 /\ gone' = Failed
    /\ todo' = Flatten(Failed) /\ chunks' = Nothing
    /\ fresh' = [w \in Tube \ Failed |-> 0]
    /\ UNCHANGED <<credit, way, turns, size, outcome>>

(* A worker gets faster, slower, worse, or recovers.                       *)
Turn(w, h) ==
    /\ turns < MaxTurns /\ way[w] # h
    /\ turns' = turns + 1
    /\ way' = [way EXCEPT ![w] = h]
    /\ UNCHANGED <<pool, batch>>

Round == RoundBreaks \/ RoundEnds \/ NobodyLeft \/ Reroute
Next ==
    \/ \E m \in BatchSizes : Schedule(m)
    \/ DealItem \/ Round
    \/ \E w \in Tube, h \in Way : Turn(w, h)

Spec == Init /\ [][Next]_vars

(* A batch under way goes on, and the program schedules the next.          *)
Proceeds == DealItem \/ Round \/ \E m \in BatchSizes : Schedule(m)
FairSpec == Spec /\ WF_vars(Proceeds)
-----------------------------------------------------------------------------
TypeOK ==
    /\ cond \in [Tube -> Nat] /\ credit \in [Tube -> Nat]
    /\ way \in [Tube -> Way] /\ turns \in 0..MaxTurns
    /\ todo \in Seq(1..size) /\ DOMAIN fresh \subseteq Tube /\ fresh \in [DOMAIN fresh -> Nat]
    /\ round \in 0..2 /\ size \in BatchSizes \cup {0}
    /\ chunks \in [Tube -> Seq(1..size)]
    /\ done \in [1..size -> Nat]
    /\ gone \subseteq Tube /\ outcome \in {"none", "returned", "threw"}

(* Under way, every item is in one place: dealt to one worker, still to be *)
(* dealt, or done; and the second round goes round the damage.             *)
Times(seq, k) == Cardinality({p \in DOMAIN seq : seq[p] = k})
EachInOnePlace == round # 0 => \A k \in 1..size :
    \/ done[k] = 1 /\ Times(todo, k) = 0 /\ \A w \in Tube : Times(chunks[w], k) = 0
    \/ done[k] = 0 /\ Times(todo, k) = 1 /\ \A w \in Tube : Times(chunks[w], k) = 0
    \/ /\ done[k] = 0 /\ Times(todo, k) = 0
       /\ \E w \in Tube : /\ Times(chunks[w], k) = 1
                          /\ \A v \in Tube \ {w} : Times(chunks[v], k) = 0
RoutesAround == round = 2 => Busy \cap gone = {}
IInv == TypeOK /\ EachInOnePlace /\ RoutesAround

(* A batch that returns has every item's result, each filled in once, from *)
(* one worker (CONCURRENCY.md:145-146).                                    *)
EveryItemOnce == outcome = "returned" => \A k \in 1..size : done[k] = 1

(* Every worker is sampled again and again by a program that keeps         *)
(* scheduling, even batches of one item, so that one that has recovered    *)
(* can climb back (builtins.js:64-68).                                     *)
KeepsScheduling == []<>(round = 1)
NeverStarved == KeepsScheduling => \A w \in Tube : []<>(round = 1 /\ w \in Busy)

(* A worker that is and stays faster than another ends higher              *)
(* (CONCURRENCY.md:146).                                                   *)
Faster(v, w) == way[v] \in Quality /\ way[w] \in Quality /\ way[v] > way[w]
FasterEndsHigher == KeepsScheduling =>
    \A v, w \in Tube : <>[]Faster(v, w) => <>[](cond[v] > cond[w])
=============================================================================
