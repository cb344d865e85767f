--------------------------- MODULE LaneLocks_proofs ---------------------------
(***************************************************************************)
(* With one sweeper, without --force, and when sessions do not outlive the *)
(* hours of clear-stale, the lane locks keep the book of lanes, for every  *)
(* set of sessions, lanes and batches.                                     *)
(***************************************************************************)
EXTENDS LaneLocks, SequenceTheorems, TLAPS

(* The conditions under which unlinking by name is safe.                   *)
Orderly ==
    /\ Forcing = {} /\ ~LongSessions
    /\ \A v, w \in Sweeper : v = w

LEMMA WrittenOrNot ==
    ASSUME NEW s \in Session, NEW w \in BOOLEAN
    PROVE  /\ [by |-> s, written |-> w] \in [by : Session, written : BOOLEAN]
           /\ [by |-> s, written |-> w] # None
<1>1. [by |-> s, written |-> w] \in [by : Session, written : BOOLEAN]
  OBVIOUS
<1>2. None \notin [by : Session, written : BOOLEAN]
  BY LaneAssumption
<1> QED BY <1>1, <1>2

(* What a session does and holds depends on no lock but those in its name. *)
LEMMA OthersUndisturbed ==
    ASSUME TypeOK, NEW s \in Session, SessionOK(s),
           task'[s] = task[s], holds'[s] = holds[s],
           \A p \in Path : Owner(p) = s => lock'[p] = lock[p]
    PROVE  SessionOK(s)'
<1> DEFINE t == task[s]
<1>1. t.batch \in Seq(Path) /\ holds[s] \subseteq Path
  <2>1. t \in Task /\ holds[s] \subseteq Path
    BY DEF TypeOK
  <2>2. t.batch \in Batches \cup {<< >>} /\ << >> \in Seq(Path)
    BY <2>1 DEF Task
  <2> QED BY <2>1, <2>2, LaneAssumption
<1>2. \A i \in DOMAIN t.batch : t.batch[i] \in Path
  BY <1>1
<1>0. [by |-> s, written |-> TRUE] # None /\ [by |-> s, written |-> FALSE] # None
  BY WrittenOrNot
<1>3. \A p \in Path : Mine(s, p) => Owner(p) = s /\ lock'[p] = lock[p] /\ Mine(s, p)'
  BY <1>0 DEF Mine, Owner
<1>4. \A p \in Path : lock[p] = [by |-> s, written |-> FALSE] =>
          Owner(p) = s /\ lock'[p] = lock[p]
  BY <1>0 DEF Owner
<1>5. \A p \in Path : Owner(p) = s => Owner(p)' = s
  BY DEF Owner
<1>6. Lane(s)' = Lane(s)
  BY DEF Lane
<1>7. t.doing # "look" => Lane(s) \in Path
  BY <1>2 DEF SessionOK, InStep, Lane
<1>8. InStep(s)'
  BY <1>4, <1>5, <1>6, <1>7 DEF SessionOK, InStep
<1>9. ClaimedAnew(s)'
  BY <1>2, <1>3, <1>6 DEF SessionOK, ClaimedAnew
<1>10. \A p \in holds'[s] : Mine(s, p)'
  BY <1>1, <1>3 DEF SessionOK
<1> QED BY <1>8, <1>9, <1>10 DEF SessionOK

(* A step of one living session that changes only locks of its own and     *)
(* free ones.                                                              *)
LEMMA OneSessionMoves ==
    ASSUME IInv, NEW s \in Alive, TypeOK', SessionOK(s)',
           dead' = dead, sweep' = sweep,
           \A o \in Session \ {s} : task'[o] = task[o] /\ holds'[o] = holds[o],
           \A p \in Path : lock'[p] = lock[p] \/ Owner(p) \in {None, s}
    PROVE  IInv'
<1>1. ASSUME NEW o \in Alive', o # s PROVE SessionOK(o)'
  <2>1. o \in Alive /\ o \in Session /\ o # None
    BY LaneAssumption DEF Alive
  <2>2. \A p \in Path : Owner(p) = o => lock'[p] = lock[p]
    BY <1>1, <2>1
  <2>3. TypeOK /\ SessionOK(o)
    BY <2>1 DEF IInv
  <2> QED BY <1>1, <2>1, <2>2, <2>3, OthersUndisturbed
<1>2. \A o \in dead' : holds'[o] = {}
  BY DEF IInv, TypeOK, Alive
<1>3. SweepsTheDead'
  <2> SUFFICES ASSUME NEW w \in Sweeper, sweep[w].aim # None
               PROVE  Owner(sweep[w].aim)' \in dead
    BY DEF SweepsTheDead
  <2>1. sweep[w].aim \in Path /\ Owner(sweep[w].aim) \in dead
    BY DEF IInv, TypeOK, SweepsTheDead
  <2>2. Owner(sweep[w].aim) \notin {None, s}
    BY <2>1, LaneAssumption DEF IInv, TypeOK, Alive
  <2>3. lock'[sweep[w].aim] = lock[sweep[w].aim]
    BY <2>1, <2>2
  <2> QED BY <2>1, <2>3 DEF Owner
<1> QED BY <1>1, <1>2, <1>3 DEF IInv

-----------------------------------------------------------------------------
LEMMA InitIInv == Init => IInv
<1> SUFFICES ASSUME Init PROVE IInv
  OBVIOUS
<1>1. Idle \in Task
  BY DEF Idle, Command, Task
<1>2. TypeOK
  BY <1>1, LaneAssumption DEF Init, TypeOK
<1>3. \A s \in Session : task[s] = Idle /\ holds[s] = {}
  BY DEF Init
<1>4. \A s \in Session : SessionOK(s)
  BY <1>3 DEF SessionOK, InStep, ClaimedAnew, Idle, Command
<1> QED BY <1>2, <1>4 DEF Init, IInv, Alive, SweepsTheDead

LEMMA StartKeeps ==
    ASSUME IInv, NEW s \in Session, NEW op \in {"claim", "release"}, NEW batch \in Batches,
           Start(s, op, batch)
    PROVE  IInv'
<1> DEFINE t == [op |-> op, batch |-> batch, at |-> 1, held |-> {}, doing |-> "look"]
<1>1. TypeOK /\ s \in Alive /\ task[s] = Idle
  BY DEF IInv, Start, Alive
<1>2. task' = [task EXCEPT ![s] = t]
  BY DEF Start, Command
<1>3. t \in Task
  BY DEF Task
<1>4. UNCHANGED <<lock, sweep, holds, dead>> /\ commands' \in 0..MaxCommands
  BY <1>1, LaneAssumption DEF Start, TypeOK
<1>5. TypeOK'
  <2>1. Twice(batch) \subseteq Path
    BY LaneAssumption DEF Twice, Lanes
  <2>2. doubled' \in [Session -> SUBSET Path]
    BY <1>1, <2>1 DEF Start, TypeOK
  <2> QED BY <1>1, <1>2, <1>3, <1>4, <2>2 DEF TypeOK
<1>6. task'[s] = t /\ \A o \in Session \ {s} : task'[o] = task[o]
  BY <1>1, <1>2 DEF TypeOK
<1>7. SessionOK(s)'
  <2>1. \A p \in holds[s] : Mine(s, p)'
    BY <1>1, <1>4 DEF IInv, SessionOK, Mine
  <2>2. batch \in Seq(Path)
    BY LaneAssumption
  <2>3. \A i \in DOMAIN batch : ~(i < 1)
    BY <2>2
  <2>4. task'[s].doing = "look" /\ task'[s].op # "rollback" /\ task'[s].at = 1
        /\ task'[s].batch = batch
    BY <1>6
  <2> QED BY <1>4, <2>1, <2>3, <2>4 DEF SessionOK, InStep, ClaimedAnew
<1> QED BY <1>1, <1>4, <1>5, <1>6, <1>7, OneSessionMoves


(* How a command moves on.                                                 *)
LEMMA OnMoves ==
    ASSUME TypeOK, NEW s \in Session, NEW doing \in {"look", "write", "unlink"}, On(s, doing)
    PROVE  /\ task' \in [Session -> Task]
           /\ task'[s].doing = doing /\ task'[s].at = task[s].at
           /\ task'[s].op = task[s].op /\ task'[s].batch = task[s].batch
           /\ task'[s].held = task[s].held
           /\ \A o \in Session \ {s} : task'[o] = task[o]
BY DEF TypeOK, Task, On

LEMMA NextLaneMoves ==
    ASSUME TypeOK, NEW s \in Session, NextLane(s)
    PROVE  /\ task' \in [Session -> Task]
           /\ task'[s].doing = "look" /\ task'[s].at = task[s].at + 1
           /\ task'[s].op = task[s].op /\ task'[s].batch = task[s].batch
           /\ task'[s].held = task[s].held
           /\ \A o \in Session \ {s} : task'[o] = task[o]
<1> DEFINE t == [task[s] EXCEPT !.at = task[s].at + 1, !.doing = "look"]
<1>1. task[s] \in Task /\ task[s].at \in Nat \ {0}
  BY DEF TypeOK, Task
<1>2. task' = [task EXCEPT ![s] = t]
  BY DEF NextLane, TypeOK
<1>3. t \in Task
  <2>1. task[s].at + 1 \in Nat \ {0}
    BY <1>1
  <2> QED BY <1>1, <2>1 DEF Task
<1>5. t.doing = "look" /\ t.at = task[s].at + 1
  BY <1>1 DEF Task
<1>4. t.op = task[s].op /\ t.batch = task[s].batch /\ t.held = task[s].held
  BY <1>1 DEF Task
<1> HIDE DEF t
<1> QED BY <1>2, <1>3, <1>4, <1>5 DEF TypeOK

LEMMA ExitMoves ==
    ASSUME TypeOK, NEW s \in Session, Exit(s)
    PROVE  /\ task' \in [Session -> Task]
           /\ task'[s].doing = "look" /\ task'[s].op = "none"
           /\ \A o \in Session \ {s} : task'[o] = task[o]
BY DEF TypeOK, Task, Exit, Idle, Command

(* A command that is not at its end has a lane before it.                  *)
LEMMA LaneBefore ==
    ASSUME TypeOK, NEW s \in Session
    PROVE  /\ task[s].batch \in Seq(Path) /\ task[s].at \in Nat \ {0}
           /\ ~AtEnd(s) => task[s].at \in DOMAIN task[s].batch /\ Lane(s) \in Path
           /\ AtEnd(s) => \A i \in DOMAIN task[s].batch : i < task[s].at
           /\ \A i \in DOMAIN task[s].batch : i \in Int /\ task[s].batch[i] \in Path
<1>1. task[s] \in Task
  BY DEF TypeOK
<1>2. task[s].batch \in Batches \cup {<< >>} /\ << >> \in Seq(Path)
  BY <1>1 DEF Task
<1>3. task[s].batch \in Seq(Path) /\ task[s].at \in Nat \ {0}
  BY <1>1, <1>2, LaneAssumption DEF Task
<1> QED BY <1>3 DEF AtEnd, Lane

LEMMA CreateKeeps ==
    ASSUME IInv, NEW s \in Session, Create(s)
    PROVE  IInv'
<1> DEFINE p == Lane(s)
<1>1. TypeOK /\ s \in Alive /\ SessionOK(s)
  BY DEF IInv, Create, At, Alive
<1>2. p \in Path /\ task[s].at \in DOMAIN task[s].batch /\ lock[p] = None
  BY <1>1, LaneBefore DEF Create, At
<1>3. [by |-> s, written |-> FALSE] \in [by : Session, written : BOOLEAN]
  BY WrittenOrNot
<1>4. /\ lock'[p] = [by |-> s, written |-> FALSE]
      /\ \A q \in Path \ {p} : lock'[q] = lock[q]
      /\ lock' \in [Path -> [by : Session, written : BOOLEAN] \cup {None}]
  BY <1>1, <1>2, <1>3 DEF Create, TypeOK
<1>5. UNCHANGED <<sweep, holds, doubled, dead, commands>> /\ On(s, "write") /\ task[s].op = "claim"
  BY DEF Create, At
<1>6. /\ task' \in [Session -> Task]
      /\ task'[s].doing = "write" /\ task'[s].at = task[s].at
      /\ task'[s].op = task[s].op /\ task'[s].batch = task[s].batch
      /\ task'[s].held = task[s].held
      /\ \A o \in Session \ {s} : task'[o] = task[o]
  BY <1>1, <1>5, OnMoves
<1>7. TypeOK'
  BY <1>1, <1>4, <1>5, <1>6 DEF TypeOK
<1>8. \A q \in Path : Mine(s, q) => q # p /\ Mine(s, q)'
  <2>1. [by |-> s, written |-> TRUE] # None
    BY WrittenOrNot
  <2> QED BY <1>2, <1>4, <2>1 DEF Mine
<1>9. p \notin holds[s] /\ holds[s] \subseteq Path
  BY <1>1, <1>2, <1>8 DEF SessionOK, TypeOK
<1>10. Lane(s)' = p
  BY <1>6 DEF Lane
<1>11. InStep(s)'
  BY <1>2, <1>4, <1>5, <1>6, <1>10 DEF InStep
<1>12. ClaimedAnew(s)'
  BY <1>1, <1>5, <1>6, <1>8, <1>9, <1>10, LaneBefore DEF ClaimedAnew, SessionOK
<1>13. SessionOK(s)'
  BY <1>1, <1>5, <1>8, <1>9, <1>11, <1>12 DEF SessionOK
<1>14. \A q \in Path : lock'[q] = lock[q] \/ Owner(q) \in {None, s}
  BY <1>2, <1>4 DEF Owner
<1> QED BY <1>1, <1>5, <1>6, <1>7, <1>13, <1>14, OneSessionMoves

LEMMA WriteKeeps ==
    ASSUME IInv, NEW s \in Session, Write(s)
    PROVE  IInv'
<1> DEFINE p == Lane(s)
<1>1. TypeOK /\ s \in Alive /\ SessionOK(s)
  BY DEF IInv, Write, At, Alive
<1>2. /\ p \in Path /\ task[s].at \in DOMAIN task[s].batch
      /\ task[s].doing = "write" /\ task[s].op = "claim"
      /\ lock[p] = [by |-> s, written |-> FALSE] /\ p \notin holds[s]
  BY <1>1, LaneBefore DEF Write, At, SessionOK, InStep, ClaimedAnew
<1>3. [by |-> s, written |-> TRUE] \in [by : Session, written : BOOLEAN]
  BY WrittenOrNot
<1>4. /\ lock'[p] = [by |-> s, written |-> TRUE]
      /\ \A q \in Path \ {p} : lock'[q] = lock[q]
      /\ lock' \in [Path -> [by : Session, written : BOOLEAN] \cup {None}]
  BY <1>1, <1>2, <1>3 DEF Write, TypeOK
<1>5. UNCHANGED <<sweep, holds, doubled, dead, commands>> /\ NextLane(s)
  BY DEF Write
<1>6. /\ task' \in [Session -> Task]
      /\ task'[s].doing = "look" /\ task'[s].at = task[s].at + 1
      /\ task'[s].op = task[s].op /\ task'[s].batch = task[s].batch
      /\ task'[s].held = task[s].held
      /\ \A o \in Session \ {s} : task'[o] = task[o]
  BY <1>1, <1>5, NextLaneMoves
<1>7. TypeOK'
  BY <1>1, <1>4, <1>5, <1>6 DEF TypeOK
<1>8. \A q \in Path : q = p \/ Mine(s, q) => lock'[q] = [by |-> s, written |-> TRUE]
  BY <1>4 DEF Mine
<1>9. InStep(s)'
  BY <1>6 DEF InStep
<1>10. ASSUME NEW i \in DOMAIN task[s].batch, i < task[s].at + 1,
              task[s].batch[i] \notin task[s].held
       PROVE  /\ lock'[task[s].batch[i]] = [by |-> s, written |-> TRUE]
              /\ task[s].batch[i] \notin holds[s]
  <2>1. i \in Int /\ task[s].at \in Nat /\ task[s].batch[i] \in Path
    BY <1>1, LaneBefore
  <2>2. CASE i = task[s].at
    BY <1>2, <1>8, <2>2 DEF Lane
  <2>3. CASE i < task[s].at
    <3>1. Mine(s, task[s].batch[i]) /\ task[s].batch[i] \notin holds[s]
      BY <1>1, <1>2, <1>10, <2>3 DEF SessionOK, ClaimedAnew
    <3> QED BY <1>8, <2>1, <3>1
  <2> QED BY <1>10, <2>1, <2>2, <2>3
<1>11. ClaimedAnew(s)'
  BY <1>2, <1>5, <1>6, <1>10 DEF ClaimedAnew, Mine
<1>12. SessionOK(s)'
  BY <1>1, <1>5, <1>8, <1>9, <1>11 DEF SessionOK, TypeOK, Mine
<1>13. \A q \in Path : lock'[q] = lock[q] \/ Owner(q) \in {None, s}
  BY <1>2, <1>4 DEF Owner
<1> QED BY <1>1, <1>5, <1>6, <1>7, <1>12, <1>13, OneSessionMoves


LEMMA TakenKeeps ==
    ASSUME IInv, NEW s \in Session, Taken(s)
    PROVE  IInv'
<1> DEFINE p == Lane(s)
           t == [task[s] EXCEPT !.at = task[s].at + 1, !.held = task[s].held \cup {p}]
<1>1. TypeOK /\ s \in Alive /\ SessionOK(s)
  BY DEF IInv, Taken, At, Alive
<1>2. /\ p \in Path /\ task[s].at \in DOMAIN task[s].batch
      /\ task[s].doing = "look" /\ task[s].op = "claim"
  BY <1>1, LaneBefore DEF Taken, At
<1>3. UNCHANGED <<lock, sweep, holds, doubled, dead, commands>> /\ task' = [task EXCEPT ![s] = t]
  BY <1>1 DEF Taken, TypeOK
<1>4. task[s] \in Task /\ task[s].at + 1 \in Nat \ {0} /\ task[s].held \cup {p} \subseteq Path
  BY <1>1, <1>2 DEF TypeOK, Task
<1>5. t \in Task
  BY <1>4 DEF Task
<1>6. /\ t.doing = task[s].doing /\ t.at = task[s].at + 1 /\ t.op = task[s].op
      /\ t.batch = task[s].batch /\ t.held = task[s].held \cup {p}
  BY <1>4 DEF Task
<1> HIDE DEF t
<1>7. task'[s] = t /\ \A o \in Session \ {s} : task'[o] = task[o]
  BY <1>1, <1>3 DEF TypeOK
<1>8. TypeOK'
  BY <1>1, <1>3, <1>5 DEF TypeOK
<1>9. InStep(s)'
  BY <1>2, <1>6, <1>7 DEF InStep
<1>10. ASSUME NEW i \in DOMAIN task[s].batch, i < task[s].at + 1,
              task[s].batch[i] \notin task[s].held \cup {p}
       PROVE  Mine(s, task[s].batch[i]) /\ task[s].batch[i] \notin holds[s]
  <2>1. i \in Int /\ task[s].at \in Nat /\ i # task[s].at
    BY <1>1, <1>10, LaneBefore DEF Lane
  <2> QED BY <1>1, <1>2, <1>10, <2>1 DEF SessionOK, ClaimedAnew
<1>11. ClaimedAnew(s)'
  BY <1>2, <1>3, <1>6, <1>7, <1>10 DEF ClaimedAnew, Mine
<1>12. SessionOK(s)'
  BY <1>1, <1>3, <1>9, <1>11 DEF SessionOK, Mine
<1> QED BY <1>1, <1>3, <1>7, <1>8, <1>12, OneSessionMoves

(* The batch that is granted is new to everybody, and locked.              *)
LEMMA GrantedAnew ==
    ASSUME IInv, NEW s \in Session, ClaimEnds(s), task[s].held = {}
    PROVE  /\ Lanes(task[s].batch) \subseteq Path
           /\ \A p \in Lanes(task[s].batch) : Mine(s, p)
           /\ \A o \in Session : holds[o] \cap Lanes(task[s].batch) = {}
<1>1. TypeOK /\ s \in Alive /\ SessionOK(s) /\ task[s].op = "claim"
  BY DEF IInv, ClaimEnds, Alive
<1>2. \A i \in DOMAIN task[s].batch : i < task[s].at /\ task[s].batch[i] \in Path
  BY <1>1, LaneBefore DEF ClaimEnds
<1>3. \A p \in Lanes(task[s].batch) : p \in Path /\ Mine(s, p) /\ p \notin holds[s]
  BY <1>1, <1>2 DEF Lanes, SessionOK, ClaimedAnew
<1>4. ASSUME NEW o \in Session, o # s, NEW p \in Lanes(task[s].batch), p \in holds[o]
      PROVE  FALSE
  <2>1. o \in Alive
    BY <1>4 DEF IInv, Alive
  <2>2. Mine(o, p)
    BY <1>4, <2>1 DEF IInv, SessionOK
  <2> QED BY <1>3, <1>4, <2>2 DEF Mine
<1> QED BY <1>3, <1>4

LEMMA ClaimEndsKeeps ==
    ASSUME IInv, NEW s \in Session, ClaimEnds(s)
    PROVE  IInv'
<1>1. /\ TypeOK /\ s \in Alive /\ SessionOK(s) /\ task[s].op = "claim"
      /\ UNCHANGED <<lock, sweep, doubled, dead, commands>>
  BY DEF IInv, ClaimEnds, Alive
<1>2. CASE task[s].held = {}
  <2>1. Exit(s) /\ holds' = [holds EXCEPT ![s] = @ \cup Lanes(task[s].batch)]
    BY <1>2 DEF ClaimEnds
  <2>2. /\ task' \in [Session -> Task]
        /\ task'[s].doing = "look" /\ task'[s].op = "none"
        /\ \A o \in Session \ {s} : task'[o] = task[o]
    BY <1>1, <2>1, ExitMoves
  <2>3. Lanes(task[s].batch) \subseteq Path /\ \A p \in Lanes(task[s].batch) : Mine(s, p)
    BY <1>2, GrantedAnew
  <2>4. /\ holds' \in [Session -> SUBSET Path]
        /\ holds'[s] = holds[s] \cup Lanes(task[s].batch)
        /\ \A o \in Session \ {s} : holds'[o] = holds[o]
    BY <1>1, <2>1, <2>3 DEF TypeOK
  <2>5. TypeOK'
    BY <1>1, <2>2, <2>4 DEF TypeOK
  <2>6. \A p \in holds'[s] : Mine(s, p)'
    BY <1>1, <2>3, <2>4 DEF SessionOK, Mine
  <2>7. SessionOK(s)'
    BY <2>2, <2>6 DEF SessionOK, InStep, ClaimedAnew
  <2> QED BY <1>1, <2>2, <2>4, <2>5, <2>7, OneSessionMoves
<1>3. CASE task[s].held # {}
  <2> DEFINE t == [task[s] EXCEPT !.op = "rollback", !.at = 1]
  <2>1. holds' = holds /\ task' = [task EXCEPT ![s] = t]
    BY <1>1, <1>3 DEF ClaimEnds, TypeOK
  <2>2. task[s] \in Task
    BY <1>1 DEF TypeOK
  <2>3. t \in Task
    <3>1. 1 \in Nat \ {0}
      OBVIOUS
    <3> QED BY <2>2, <3>1 DEF Task
  <2>4. /\ t.op = "rollback" /\ t.doing = task[s].doing
        /\ t.batch = task[s].batch /\ t.held = task[s].held
    BY <2>2 DEF Task
  <2> HIDE DEF t
  <2>5. task'[s] = t /\ \A o \in Session \ {s} : task'[o] = task[o]
    BY <1>1, <2>1 DEF TypeOK
  <2>6. TypeOK'
    BY <1>1, <2>1, <2>3 DEF TypeOK
  <2>7. /\ task[s].at \notin DOMAIN task[s].batch
        /\ \A i \in DOMAIN task[s].batch : i < task[s].at
    BY <1>1, LaneBefore DEF ClaimEnds, AtEnd
  <2>8. task[s].doing = "look"
    BY <1>1, <2>7 DEF SessionOK, InStep
  <2>9. InStep(s)' /\ ClaimedAnew(s)'
    BY <1>1, <2>1, <2>4, <2>5, <2>7, <2>8 DEF SessionOK, InStep, ClaimedAnew
  <2>10. SessionOK(s)'
    BY <1>1, <2>1, <2>9 DEF SessionOK, Mine
  <2> QED BY <1>1, <2>1, <2>5, <2>6, <2>10, OneSessionMoves
<1> QED BY <1>2, <1>3

(* A lock that reads as one's own is.                                      *)
LEMMA OwnLock ==
    ASSUME NEW s \in Session, NEW p \in Path, Reads(p) = s
    PROVE  Owner(p) = s
BY LaneAssumption DEF Reads, Owner

LEMMA LooksKeep ==
    ASSUME IInv, Orderly, NEW s \in Session, RollbackLook(s) \/ ReleaseLook(s)
    PROVE  IInv'
<1>1. /\ TypeOK /\ s \in Alive /\ SessionOK(s)
      /\ UNCHANGED <<lock, sweep, holds, doubled, dead, commands>>
      /\ task[s].op \in {"rollback", "release"}
  BY DEF IInv, RollbackLook, ReleaseLook, At, Alive
<1>2. Lane(s) \in Path /\ task[s].at \in DOMAIN task[s].batch
  BY <1>1, LaneBefore DEF RollbackLook, ReleaseLook, At
<1>3. CASE NextLane(s)
  <2>1. /\ task' \in [Session -> Task]
        /\ task'[s].doing = "look" /\ task'[s].at = task[s].at + 1
        /\ task'[s].op = task[s].op /\ task'[s].batch = task[s].batch
        /\ task'[s].held = task[s].held
        /\ \A o \in Session \ {s} : task'[o] = task[o]
    BY <1>1, <1>3, NextLaneMoves
  <2>2. TypeOK'
    BY <1>1, <2>1 DEF TypeOK
  <2>3. SessionOK(s)'
    BY <1>1, <2>1 DEF SessionOK, InStep, ClaimedAnew, Mine
  <2> QED BY <1>1, <2>1, <2>2, <2>3, OneSessionMoves
<1>4. CASE ~NextLane(s)
  <2>1. /\ On(s, "unlink") /\ Reads(Lane(s)) = s
        /\ task[s].op = "rollback" => Lane(s) \notin task[s].held
    BY <1>4 DEF RollbackLook, ReleaseLook, At, Orderly
  <2>2. Owner(Lane(s)) = s
    BY <1>2, <2>1, OwnLock
  <2>3. task[s].op # "release" => Lane(s) \notin holds[s]
    BY <1>1, <1>2, <2>1 DEF SessionOK, ClaimedAnew, Lane
  <2>4. /\ task' \in [Session -> Task]
        /\ task'[s].doing = "unlink" /\ task'[s].at = task[s].at
        /\ task'[s].op = task[s].op /\ task'[s].batch = task[s].batch
        /\ task'[s].held = task[s].held
        /\ \A o \in Session \ {s} : task'[o] = task[o]
    BY <1>1, <2>1, OnMoves
  <2>5. TypeOK'
    BY <1>1, <2>4 DEF TypeOK
  <2>6. Lane(s)' = Lane(s) /\ Owner(Lane(s))' = s
    BY <1>1, <2>2, <2>4 DEF Lane, Owner
  <2>7. InStep(s)' /\ ClaimedAnew(s)'
    BY <1>1, <1>2, <2>3, <2>4, <2>6 DEF SessionOK, InStep, ClaimedAnew
  <2>8. SessionOK(s)'
    BY <1>1, <2>7 DEF SessionOK, Mine
  <2> QED BY <1>1, <2>4, <2>5, <2>8, OneSessionMoves
<1> QED BY <1>3, <1>4


LEMMA RollbackUnlinkKeeps ==
    ASSUME IInv, NEW s \in Session, RollbackUnlink(s)
    PROVE  IInv'
<1> DEFINE p == Lane(s)
<1>1. /\ TypeOK /\ s \in Alive /\ SessionOK(s)
      /\ UNCHANGED <<sweep, holds, doubled, dead, commands>> /\ NextLane(s)
  BY DEF IInv, RollbackUnlink, At, Alive
<1>2. p \in Path /\ Owner(p) = s /\ p \notin holds[s] /\ task[s].op = "rollback"
  BY <1>1, LaneBefore DEF RollbackUnlink, At, SessionOK, InStep, ClaimedAnew
<1>3. /\ lock' \in [Path -> [by : Session, written : BOOLEAN] \cup {None}]
      /\ \A q \in Path \ {p} : lock'[q] = lock[q]
  BY <1>1 DEF RollbackUnlink, TypeOK
<1>4. /\ task' \in [Session -> Task]
      /\ task'[s].doing = "look" /\ task'[s].at = task[s].at + 1
      /\ task'[s].op = task[s].op /\ task'[s].batch = task[s].batch
      /\ task'[s].held = task[s].held
      /\ \A o \in Session \ {s} : task'[o] = task[o]
  BY <1>1, NextLaneMoves
<1>5. TypeOK'
  BY <1>1, <1>3, <1>4 DEF TypeOK
<1>6. \A q \in holds'[s] : Mine(s, q)'
  BY <1>1, <1>2, <1>3 DEF SessionOK, Mine, TypeOK
<1>7. SessionOK(s)'
  BY <1>1, <1>2, <1>4, <1>6 DEF SessionOK, InStep, ClaimedAnew
<1>8. \A q \in Path : lock'[q] = lock[q] \/ Owner(q) \in {None, s}
  BY <1>2, <1>3
<1> QED BY <1>1, <1>4, <1>5, <1>7, <1>8, OneSessionMoves

LEMMA ReleaseUnlinkKeeps ==
    ASSUME IInv, NEW s \in Session, ReleaseUnlink(s)
    PROVE  IInv'
<1> DEFINE p == Lane(s)
<1>1. /\ TypeOK /\ s \in Alive /\ SessionOK(s)
      /\ UNCHANGED <<sweep, dead, commands>>
  BY DEF IInv, ReleaseUnlink, At, Alive
<1>2. p \in Path /\ Owner(p) = s /\ task[s].op = "release"
  BY <1>1, LaneBefore DEF ReleaseUnlink, At, SessionOK, InStep
<1>3. /\ lock' \in [Path -> [by : Session, written : BOOLEAN] \cup {None}]
      /\ \A q \in Path \ {p} : lock'[q] = lock[q]
  BY <1>1 DEF ReleaseUnlink, TypeOK
<1>4. NextLane(s)
  BY <1>2, LaneAssumption DEF ReleaseUnlink, Owner
<1>5. /\ task' \in [Session -> Task]
      /\ task'[s].doing = "look" /\ task'[s].at = task[s].at + 1
      /\ task'[s].op = task[s].op /\ task'[s].batch = task[s].batch
      /\ task'[s].held = task[s].held
      /\ \A o \in Session \ {s} : task'[o] = task[o]
  BY <1>1, <1>4, NextLaneMoves
<1>6. /\ holds' \in [Session -> SUBSET Path]
      /\ holds'[s] = holds[s] \ {p}
      /\ \A o \in Session \ {s} : holds'[o] = holds[o]
      /\ doubled' \in [Session -> SUBSET Path]
  BY <1>1 DEF ReleaseUnlink, TypeOK
<1>7. TypeOK'
  BY <1>1, <1>3, <1>5, <1>6 DEF TypeOK
<1>8. \A q \in holds'[s] : Mine(s, q)'
  BY <1>1, <1>3, <1>6 DEF SessionOK, Mine, TypeOK
<1>9. SessionOK(s)'
  BY <1>2, <1>5, <1>8 DEF SessionOK, InStep, ClaimedAnew
<1>10. \A q \in Path : lock'[q] = lock[q] \/ Owner(q) \in {None, s}
  BY <1>2, <1>3
<1> QED BY <1>1, <1>5, <1>6, <1>7, <1>9, <1>10, OneSessionMoves

LEMMA CommandEndsKeeps ==
    ASSUME IInv, NEW s \in Session, CommandEnds(s)
    PROVE  IInv'
<1>1. /\ TypeOK /\ s \in Alive /\ SessionOK(s)
      /\ UNCHANGED <<lock, sweep, holds, doubled, dead, commands>> /\ Exit(s)
  BY DEF IInv, CommandEnds, Alive
<1>2. /\ task' \in [Session -> Task]
      /\ task'[s].doing = "look" /\ task'[s].op = "none"
      /\ \A o \in Session \ {s} : task'[o] = task[o]
  BY <1>1, ExitMoves
<1>3. TypeOK'
  BY <1>1, <1>2 DEF TypeOK
<1>4. SessionOK(s)'
  BY <1>1, <1>2 DEF SessionOK, InStep, ClaimedAnew, Mine
<1> QED BY <1>1, <1>2, <1>3, <1>4, OneSessionMoves

LEMMA DieKeeps ==
    ASSUME IInv, NEW s \in Session, Die(s)
    PROVE  IInv'
<1>1. /\ TypeOK /\ UNCHANGED <<lock, sweep, doubled, commands>> /\ Exit(s)
      /\ dead' = dead \cup {s}
  BY DEF IInv, Die
<1>2. /\ task' \in [Session -> Task]
      /\ \A o \in Session \ {s} : task'[o] = task[o]
  BY <1>1, ExitMoves
<1>3. /\ holds' \in [Session -> SUBSET Path] /\ holds'[s] = {}
      /\ \A o \in Session \ {s} : holds'[o] = holds[o]
  BY <1>1 DEF Die, TypeOK
<1>4. TypeOK'
  BY <1>1, <1>2, <1>3 DEF TypeOK
<1>5. ASSUME NEW o \in Alive' PROVE SessionOK(o)'
  <2>1. o \in Session \ {s} /\ SessionOK(o)
    BY <1>1 DEF IInv, Alive
  <2> QED BY <1>1, <1>2, <1>3, <2>1, OthersUndisturbed
<1>6. \A o \in dead' : holds'[o] = {}
  BY <1>1, <1>3 DEF IInv, TypeOK
<1>7. SweepsTheDead'
  BY <1>1 DEF IInv, SweepsTheDead, Owner
<1> QED BY <1>4, <1>5, <1>6, <1>7 DEF IInv

-----------------------------------------------------------------------------
(* A sweep leaves the sessions alone, and the locks of the living.         *)
LEMMA SweepsTouchTheDead ==
    ASSUME IInv, TypeOK', UNCHANGED <<task, holds, dead>>,
           \A p \in Path : lock'[p] = lock[p] \/ Owner(p) \in dead,
           SweepsTheDead'
    PROVE  IInv'
<1>1. ASSUME NEW o \in Alive' PROVE SessionOK(o)'
  <2>1. o \in Session /\ o \notin dead /\ TypeOK /\ SessionOK(o)
    BY DEF IInv, Alive
  <2>2. \A p \in Path : Owner(p) = o => lock'[p] = lock[p]
    BY <2>1
  <2> QED BY <2>1, <2>2, OthersUndisturbed
<1> QED BY <1>1 DEF IInv

LEMMA SweepStartKeeps ==
    ASSUME IInv, NEW w \in Sweeper, SweepStart(w)
    PROVE  IInv'
<1> DEFINE r == [sweep[w] EXCEPT !.todo = {p \in Path : lock[p] # None}]
<1>1. TypeOK /\ UNCHANGED <<lock, task, holds, doubled, dead>>
  BY DEF IInv, SweepStart
<1>2. /\ r \in [todo : SUBSET Path, aim : Path \cup {None}]
      /\ r.aim = sweep[w].aim /\ sweep' = [sweep EXCEPT ![w] = r]
  BY <1>1 DEF SweepStart, TypeOK
<1> HIDE DEF r
<1>3. commands' \in 0..MaxCommands
  BY <1>1, LaneAssumption DEF SweepStart, TypeOK
<1>4. TypeOK'
  BY <1>1, <1>2, <1>3 DEF TypeOK
<1>5. SweepsTheDead'
  BY <1>1, <1>2 DEF IInv, TypeOK, SweepsTheDead, Owner
<1> QED BY <1>1, <1>4, <1>5, SweepsTouchTheDead

LEMMA SweepLookKeeps ==
    ASSUME IInv, Orderly, NEW w \in Sweeper, NEW p \in Path, SweepLook(w, p)
    PROVE  IInv'
<1>1. TypeOK /\ UNCHANGED <<lock, task, holds, doubled, dead, commands>>
  BY DEF IInv, SweepLook
<1>2. PICK aim \in Path \cup {None} :
         /\ aim # None => Owner(aim) \in dead
         /\ sweep' = [sweep EXCEPT ![w].todo = @ \ {p}, ![w].aim = aim]
  <2>1. CASE sweep' = [sweep EXCEPT ![w].todo = @ \ {p}]
    <3>1. sweep' = [sweep EXCEPT ![w].todo = @ \ {p}, ![w].aim = None]
      BY <1>1, <2>1 DEF SweepLook, TypeOK
    <3> QED BY <3>1
  <2>2. CASE MayBeOld(p) /\ sweep' = [sweep EXCEPT ![w].todo = @ \ {p}, ![w].aim = p]
    <3>1. Owner(p) \in dead
      BY <2>2 DEF Orderly, MayBeOld, Reads, Owner
    <3> QED BY <2>2, <3>1
  <2> QED BY <2>1, <2>2 DEF SweepLook
<1> DEFINE r == [sweep[w] EXCEPT !.todo = sweep[w].todo \ {p}, !.aim = aim]
<1>3. /\ r \in [todo : SUBSET Path, aim : Path \cup {None}]
      /\ r.aim = aim /\ sweep' = [sweep EXCEPT ![w] = r]
  BY <1>1, <1>2 DEF TypeOK
<1> HIDE DEF r
<1>4. TypeOK'
  BY <1>1, <1>3 DEF TypeOK
<1>5. SweepsTheDead'
  BY <1>1, <1>2, <1>3 DEF IInv, TypeOK, SweepsTheDead, Owner
<1> QED BY <1>1, <1>4, <1>5, SweepsTouchTheDead

LEMMA SweepUnlinkKeeps ==
    ASSUME IInv, Orderly, NEW w \in Sweeper, SweepUnlink(w)
    PROVE  IInv'
<1>1. /\ TypeOK /\ UNCHANGED <<task, holds, doubled, dead, commands>>
      /\ sweep[w].aim \in Path /\ Owner(sweep[w].aim) \in dead
  BY DEF IInv, SweepUnlink, TypeOK, SweepsTheDead
<1>2. /\ lock' \in [Path -> [by : Session, written : BOOLEAN] \cup {None}]
      /\ \A q \in Path : lock'[q] = lock[q] \/ q = sweep[w].aim
  BY <1>1 DEF SweepUnlink, TypeOK
<1>3. PICK todo \in SUBSET Path :
         sweep' = [sweep EXCEPT ![w].aim = None, ![w].todo = todo]
  <2>1. (IF lock[sweep[w].aim] = None THEN {} ELSE sweep[w].todo) \in SUBSET Path
    BY <1>1 DEF TypeOK
  <2> QED BY <1>1, <2>1 DEF SweepUnlink, TypeOK
<1> DEFINE r == [sweep[w] EXCEPT !.aim = None, !.todo = todo]
<1>4. /\ r \in [todo : SUBSET Path, aim : Path \cup {None}]
      /\ r.aim = None /\ sweep' = [sweep EXCEPT ![w] = r]
  BY <1>1, <1>3 DEF TypeOK
<1> HIDE DEF r
<1>5. TypeOK'
  BY <1>1, <1>2, <1>4 DEF TypeOK
<1>6. SweepsTheDead'
  BY <1>1, <1>4 DEF Orderly, SweepsTheDead, TypeOK
<1> QED BY <1>1, <1>2, <1>5, <1>6, SweepsTouchTheDead

-----------------------------------------------------------------------------
LEMMA NextKeeps ==
    ASSUME IInv, Orderly, [Next]_vars
    PROVE  IInv'
<1>1. CASE UNCHANGED vars
  BY <1>1 DEF IInv, TypeOK, Alive, SessionOK, InStep, ClaimedAnew, Mine, Lane,
              SweepsTheDead, Owner, vars
<1>2. ASSUME NEW s \in Session, NEW op \in {"claim", "release"}, NEW batch \in Batches,
             Start(s, op, batch)
      PROVE  IInv'
  BY <1>2, StartKeeps
<1>3. ASSUME NEW s \in Session,
             \/ Create(s) \/ Write(s) \/ Taken(s) \/ ClaimEnds(s)
             \/ RollbackLook(s) \/ RollbackUnlink(s)
             \/ ReleaseLook(s) \/ ReleaseUnlink(s) \/ CommandEnds(s) \/ Die(s)
      PROVE  IInv'
  BY <1>3, CreateKeeps, WriteKeeps, TakenKeeps, ClaimEndsKeeps, LooksKeep,
     RollbackUnlinkKeeps, ReleaseUnlinkKeeps, CommandEndsKeeps, DieKeeps
<1>4. ASSUME NEW w \in Sweeper, SweepStart(w) \/ SweepUnlink(w) PROVE IInv'
  BY <1>4, SweepStartKeeps, SweepUnlinkKeeps
<1>5. ASSUME NEW w \in Sweeper, NEW p \in Path, SweepLook(w, p) PROVE IInv'
  BY <1>5, SweepLookKeeps
<1> QED BY <1>1, <1>2, <1>3, <1>4, <1>5 DEF Next

(* What a session is doing agrees with the locks in its name, for every    *)
(* set of sessions, lanes and batches (lane.js:49-79, 97-105, 124-131).    *)
THEOREM LaneInvariant == ASSUME Orderly PROVE Spec => []IInv
<1>1. IInv /\ [Next]_vars => IInv'
  BY NextKeeps
<1> QED BY InitIInv, <1>1, PTL DEF Spec

(* Two sessions are never told they hold the same lane, and what one was   *)
(* told it holds is locked in its name (lane.js:3-4).                      *)
THEOREM HoldersAreLocked == ASSUME Orderly PROVE Spec => []HoldersHaveLocks
<1>1. IInv => HoldersHaveLocks
  <2> SUFFICES ASSUME IInv, NEW s \in Alive, NEW p \in holds[s]
               PROVE  lock[p] # None /\ lock[p].by = s /\ lock[p].written
    BY DEF HoldersHaveLocks
  <2>1. lock[p] = [by |-> s, written |-> TRUE]
    BY DEF IInv, SessionOK, Mine
  <2>2. lock[p] # None
    BY <2>1, WrittenOrNot DEF Alive
  <2> QED BY <2>1, <2>2
<1> QED BY LaneInvariant, <1>1, PTL

-----------------------------------------------------------------------------
LEMMA StepsOfTheBook ==
    ASSUME IInv, Orderly, [Next]_vars
    PROVE  [Book!Next]_holds
<1>1. ASSUME NEW s \in Session, ClaimEnds(s) PROVE [Book!Next]_holds
  <2>1. CASE task[s].held # {}
    BY <1>1, <2>1 DEF ClaimEnds
  <2>2. CASE task[s].held = {}
    <3>1. /\ Lanes(task[s].batch) \in SUBSET Path
          /\ \A o \in Session : holds[o] \cap Lanes(task[s].batch) = {}
      BY <1>1, <2>2, GrantedAnew
    <3>2. Book!Grant(s, Lanes(task[s].batch))
      BY <1>1, <2>2, <3>1 DEF ClaimEnds, Book!Grant
    <3> QED BY <3>1, <3>2 DEF Book!Next
  <2> QED BY <2>1, <2>2
<1>2. ASSUME NEW s \in Session, ReleaseUnlink(s) PROVE [Book!Next]_holds
  <2> DEFINE mine == {Lane(s)} \cap holds[s]
  <2>1. mine \in SUBSET Path /\ mine \subseteq holds[s]
    BY DEF IInv, TypeOK
  <2>2. holds' = [holds EXCEPT ![s] = @ \ mine]
    BY <1>2 DEF ReleaseUnlink, IInv, TypeOK
  <2>3. Book!GiveBack(s, mine)
    BY <2>1, <2>2 DEF Book!GiveBack
  <2> QED BY <2>1, <2>3 DEF Book!Next
<1>3. ASSUME NEW s \in Session, Die(s) PROVE [Book!Next]_holds
  <2>1. holds[s] \in SUBSET Path /\ holds' = [holds EXCEPT ![s] = @ \ holds[s]]
    BY <1>3 DEF Die, IInv, TypeOK
  <2>2. Book!GiveBack(s, holds[s])
    BY <2>1 DEF Book!GiveBack
  <2> QED BY <2>1, <2>2 DEF Book!Next
<1>4. CASE UNCHANGED holds
  BY <1>4
<1> QED BY <1>1, <1>2, <1>3, <1>4
    DEF Next, vars, Start, Create, Write, Taken, RollbackLook, RollbackUnlink,
        ReleaseLook, CommandEnds, SweepStart, SweepLook, SweepUnlink

(* Claims and releases, made of many steps on many files, look like single *)
(* steps on a book that grants whole batches of free lanes (lane.js:71).   *)
THEOREM LocksKeepTheBook == ASSUME Orderly PROVE Spec => KeepsTheBook
<1>1. Init => Book!Init
  BY DEF Init, Book!Init
<1>2. IInv /\ [Next]_vars => [Book!Next]_holds
  BY StepsOfTheBook
<1> QED BY LaneInvariant, <1>1, <1>2, PTL DEF Spec, KeepsTheBook, Book!Spec

-----------------------------------------------------------------------------
(***************************************************************************)
(* What is left behind.  Here nothing needs to be orderly: whoever breaks  *)
(* or sweeps whose locks, they only become fewer.                          *)
(***************************************************************************)

(* Session s is about to be told of p, or to give it back.                 *)
Underway(s, p) ==
    \/ /\ task[s].op = "claim"
       /\ \E i \in DOMAIN task[s].batch : task[s].batch[i] = p /\
              (i < task[s].at \/ (i = task[s].at /\ task[s].doing = "write"))
    \/ /\ task[s].op = "rollback" /\ p \notin task[s].held
       /\ \E i \in DOMAIN task[s].batch : task[s].batch[i] = p /\ i >= task[s].at

Known(s, p) == p \in holds[s] \cup doubled[s]
Accounted(s) ==
    /\ \A p \in Path : Owner(p) = s =>
           /\ Known(s, p) \/ Underway(s, p)
           /\ lock[p].written \/ (task[s].doing = "write" /\ Lane(s) = p)
           /\ p \in task[s].held /\ task[s].op \in {"claim", "rollback"} => Known(s, p)
    /\ task[s].op \in {"claim", "rollback"} => Twice(task[s].batch) \subseteq doubled[s]
    /\ task[s].op = "claim" => \A p \in task[s].held :
           \E i \in DOMAIN task[s].batch : task[s].batch[i] = p /\ i < task[s].at
    /\ task[s].doing = "write" => task[s].op = "claim" /\ task[s].at \in DOMAIN task[s].batch

(* A claim creates a file only after it was found missing.                 *)
LEMMA TwiceFacts ==
    ASSUME NEW batch \in Seq(Path), NEW i \in DOMAIN batch, NEW j \in DOMAIN batch,
           i # j, batch[i] = batch[j]
    PROVE  batch[i] \in Twice(batch)
BY DEF Twice, Lanes

LEMMA OthersAccounted ==
    ASSUME TypeOK, NEW s \in Session, Accounted(s),
           task'[s] = task[s], holds'[s] = holds[s], doubled'[s] = doubled[s],
           \A p \in Path : lock'[p] = lock[p] \/ Owner(p)' # s
    PROVE  Accounted(s)'
<1>1. \A p \in Path : Owner(p)' = s => Owner(p) = s /\ lock'[p] = lock[p]
  BY DEF Owner
<1>2. Lane(s)' = Lane(s) /\ \A p \in Path : Underway(s, p)' <=> Underway(s, p)
  BY DEF Lane, Underway
<1>3. \A p \in Path : Known(s, p)' <=> Known(s, p)
  BY DEF Known
<1>4. \A p \in Path : Owner(p)' = s =>
           /\ Known(s, p)' \/ Underway(s, p)'
           /\ lock'[p].written \/ (task'[s].doing = "write" /\ Lane(s)' = p)
           /\ p \in task'[s].held /\ task'[s].op \in {"claim", "rollback"} => Known(s, p)'
  BY <1>1, <1>2, <1>3 DEF Accounted
<1>5. task'[s].op \in {"claim", "rollback"} => Twice(task'[s].batch) \subseteq doubled'[s]
  BY DEF Accounted
<1> QED BY <1>4, <1>5 DEF Accounted

Counted == TypeOK /\ \A s \in Alive : Accounted(s)

(* A step of one session that creates no lock in another's name.           *)
LEMMA OneAccounts ==
    ASSUME Counted, TypeOK', NEW s \in Session, s \notin dead' => Accounted(s)',
           dead' = dead \/ dead' = dead \cup {s},
           \A o \in Session \ {s} :
               task'[o] = task[o] /\ holds'[o] = holds[o] /\ doubled'[o] = doubled[o],
           \A p \in Path : lock'[p] = lock[p] \/ Owner(p)' \in {None, s}
    PROVE  Counted'
<1>1. ASSUME NEW o \in Alive', o # s PROVE Accounted(o)'
  <2>1. o \in Session \ {s} /\ Accounted(o) /\ TypeOK /\ o # None
    BY <1>1, LaneAssumption DEF Counted, Alive
  <2>2. \A p \in Path : lock'[p] = lock[p] \/ Owner(p)' # o
    BY <2>1
  <2> QED BY <2>1, <2>2, OthersAccounted
<1> QED BY <1>1 DEF Counted, Alive

LEMMA InitCounted == Init => Counted
<1> SUFFICES ASSUME Init PROVE Counted
  OBVIOUS
<1>1. TypeOK
  BY InitIInv DEF IInv
<1>2. ASSUME NEW s \in Session PROVE Accounted(s)
  <2>1. task[s] = Idle /\ \A p \in Path : Owner(p) # s
    BY LaneAssumption DEF Init, Owner
  <2> QED BY <2>1 DEF Accounted, Idle, Command
<1> QED BY <1>1, <1>2 DEF Counted, Alive

LEMMA StartCounted ==
    ASSUME Counted, NEW s \in Session, NEW op \in {"claim", "release"}, NEW batch \in Batches,
           Start(s, op, batch)
    PROVE  Counted'
<1> DEFINE t == [op |-> op, batch |-> batch, at |-> 1, held |-> {}, doing |-> "look"]
<1>1. TypeOK /\ s \in Alive /\ Accounted(s) /\ task[s] = Idle
  BY DEF Counted, Start, Alive
<1>2. /\ UNCHANGED <<lock, sweep, holds, dead>> /\ commands' \in 0..MaxCommands
      /\ task' = [task EXCEPT ![s] = t]
  BY <1>1, LaneAssumption DEF Start, Command, TypeOK
<1>3. /\ doubled' \in [Session -> SUBSET Path] /\ doubled[s] \subseteq doubled'[s]
      /\ op = "claim" => Twice(batch) \subseteq doubled'[s]
      /\ \A o \in Session \ {s} : doubled'[o] = doubled[o]
  <2>1. Twice(batch) \subseteq Path
    BY LaneAssumption DEF Twice, Lanes
  <2> QED BY <1>1, <2>1 DEF Start, TypeOK
<1>4. t \in Task
  BY DEF Task
<1>5. TypeOK'
  BY <1>1, <1>2, <1>3, <1>4 DEF TypeOK
<1>6. task'[s] = t /\ \A o \in Session \ {s} : task'[o] = task[o]
  BY <1>1, <1>2 DEF TypeOK
<1>7. \A p \in Path : Owner(p)' = s => Known(s, p)' /\ lock'[p].written
  BY <1>1, <1>2, <1>3 DEF Accounted, Owner, Known, Underway, Idle, Command
<1>8. Accounted(s)'
  BY <1>3, <1>6, <1>7 DEF Accounted
<1> QED BY <1>2, <1>3, <1>5, <1>6, <1>8, OneAccounts

LEMMA CreateCounted ==
    ASSUME Counted, NEW s \in Session, Create(s)
    PROVE  Counted'
<1> DEFINE p == Lane(s)
<1>1. TypeOK /\ s \in Alive /\ Accounted(s) /\ task[s].op = "claim" /\ task[s].doing = "look"
  BY DEF Counted, Create, At, Alive
<1>2. p \in Path /\ task[s].at \in DOMAIN task[s].batch /\ task[s].batch \in Seq(Path)
  BY <1>1, LaneBefore DEF Create, At
<1>3. /\ lock'[p] = [by |-> s, written |-> FALSE]
      /\ \A q \in Path \ {p} : lock'[q] = lock[q]
      /\ lock' \in [Path -> [by : Session, written : BOOLEAN] \cup {None}]
  BY <1>1, <1>2, WrittenOrNot DEF Create, TypeOK
<1>4. UNCHANGED <<sweep, holds, doubled, dead, commands>> /\ On(s, "write")
  BY DEF Create
<1>5. /\ task' \in [Session -> Task]
      /\ task'[s].doing = "write" /\ task'[s].at = task[s].at
      /\ task'[s].op = task[s].op /\ task'[s].batch = task[s].batch
      /\ task'[s].held = task[s].held
      /\ \A o \in Session \ {s} : task'[o] = task[o]
  BY <1>1, <1>4, OnMoves
<1>6. TypeOK'
  BY <1>1, <1>3, <1>4, <1>5 DEF TypeOK
<1>7. Lane(s)' = p /\ \A q \in Path : Known(s, q)' <=> Known(s, q)
  BY <1>4, <1>5 DEF Lane, Known
<1>8. p \in task[s].held => Known(s, p)
  <2>1. p \in task[s].held => \E i \in DOMAIN task[s].batch : task[s].batch[i] = p /\ i < task[s].at
    BY <1>1 DEF Accounted
  <2>2. p \in task[s].held => p \in Twice(task[s].batch)
    BY <1>2, <2>1, TwiceFacts DEF Lane
  <2> QED BY <1>1, <2>2 DEF Accounted, Known
<1>9. Underway(s, p)'
  BY <1>1, <1>2, <1>5 DEF Underway, Lane
<1>10. \A q \in Path \ {p} : Owner(q)' = s => Owner(q) = s /\ (Underway(s, q) => Underway(s, q)')
  BY <1>1, <1>3, <1>5 DEF Owner, Underway
<1>11. \A q \in Path : Owner(q)' = s =>
           /\ Known(s, q)' \/ Underway(s, q)'
           /\ lock'[q].written \/ (task'[s].doing = "write" /\ Lane(s)' = q)
           /\ q \in task'[s].held /\ task'[s].op \in {"claim", "rollback"} => Known(s, q)'
  BY <1>1, <1>3, <1>5, <1>7, <1>8, <1>9, <1>10 DEF Accounted
<1>12. Accounted(s)'
  BY <1>1, <1>2, <1>4, <1>5, <1>11 DEF Accounted
<1>13. \A q \in Path : lock'[q] = lock[q] \/ Owner(q)' \in {None, s}
  BY <1>3 DEF Owner
<1> QED BY <1>4, <1>5, <1>6, <1>12, <1>13, OneAccounts

(* Also when the file was unlinked meanwhile.                              *)
LEMMA WriteCounted ==
    ASSUME Counted, NEW s \in Session, Write(s)
    PROVE  Counted'
<1> DEFINE p == Lane(s)
<1>1. TypeOK /\ s \in Alive /\ Accounted(s) /\ task[s].op = "claim" /\ task[s].doing = "write"
  BY DEF Counted, Write, At, Alive
<1>2. p \in Path /\ task[s].at \in DOMAIN task[s].batch /\ task[s].batch \in Seq(Path)
      /\ task[s].at \in Nat /\ \A i \in DOMAIN task[s].batch : i \in Int
  BY <1>1, LaneBefore DEF Write, At
<1>3. /\ lock' \in [Path -> [by : Session, written : BOOLEAN] \cup {None}]
      /\ \A q \in Path : lock'[q] = lock[q] \/ (Owner(q) = s /\ lock'[q] = [by |-> s, written |-> TRUE])
      /\ lock'[p] # [by |-> s, written |-> FALSE]
  <2>1. [by |-> s, written |-> TRUE] # None /\ [by |-> s, written |-> FALSE] # None
        /\ [by |-> s, written |-> TRUE] \in [by : Session, written : BOOLEAN]
    BY WrittenOrNot
  <2> QED BY <1>1, <1>2, <2>1 DEF Write, TypeOK, Owner
<1>4. UNCHANGED <<sweep, holds, doubled, dead, commands>> /\ NextLane(s)
  BY DEF Write
<1>5. /\ task' \in [Session -> Task]
      /\ task'[s].doing = "look" /\ task'[s].at = task[s].at + 1
      /\ task'[s].op = task[s].op /\ task'[s].batch = task[s].batch
      /\ task'[s].held = task[s].held
      /\ \A o \in Session \ {s} : task'[o] = task[o]
  BY <1>1, <1>4, NextLaneMoves
<1>6. TypeOK'
  BY <1>1, <1>3, <1>4, <1>5 DEF TypeOK
<1>7. \A q \in Path : Known(s, q)' <=> Known(s, q)
  BY <1>4 DEF Known
<1>8. \A q \in Path : Owner(q)' = s => Owner(q) = s
  BY <1>3 DEF Owner
<1>9. \A q \in Path : Underway(s, q) => Underway(s, q)'
  BY <1>1, <1>2, <1>5 DEF Underway
<1>10. \A q \in Path : Owner(q)' = s => lock'[q].written
  <2> SUFFICES ASSUME NEW q \in Path, Owner(q)' = s PROVE lock'[q].written
    OBVIOUS
  <2>1. CASE lock'[q] = [by |-> s, written |-> TRUE]
    BY <2>1
  <2>2. CASE lock'[q] = lock[q] /\ q # p
    BY <1>1, <1>8, <2>2 DEF Accounted
  <2>3. CASE q = p
    <3>1. lock'[p] \in [by : Session, written : BOOLEAN] /\ lock'[p].by = s
      BY <1>2, <1>3, <2>3, LaneAssumption DEF Owner
    <3>2. lock'[p] = [by |-> s, written |-> lock'[p].written] /\ lock'[p].written \in BOOLEAN
      BY <3>1
    <3> QED BY <1>3, <2>3, <3>2
  <2> QED BY <1>3, <2>1, <2>2, <2>3
<1>11. \A q \in Path : Owner(q)' = s =>
           /\ Known(s, q)' \/ Underway(s, q)'
           /\ q \in task'[s].held /\ task'[s].op \in {"claim", "rollback"} => Known(s, q)'
  BY <1>1, <1>5, <1>7, <1>8, <1>9 DEF Accounted
<1>12. Accounted(s)'
  BY <1>1, <1>2, <1>4, <1>5, <1>10, <1>11 DEF Accounted
<1>13. \A q \in Path : lock'[q] = lock[q] \/ Owner(q)' \in {None, s}
  BY <1>3 DEF Owner
<1> QED BY <1>4, <1>5, <1>6, <1>12, <1>13, OneAccounts

(* A lane met again is one the batch names twice.                          *)
LEMMA TakenCounted ==
    ASSUME Counted, NEW s \in Session, Taken(s)
    PROVE  Counted'
<1> DEFINE p == Lane(s)
           t == [task[s] EXCEPT !.at = task[s].at + 1, !.held = task[s].held \cup {p}]
<1>1. TypeOK /\ s \in Alive /\ Accounted(s) /\ task[s].op = "claim" /\ task[s].doing = "look"
  BY DEF Counted, Taken, At, Alive
<1>2. /\ p \in Path /\ task[s].at \in DOMAIN task[s].batch /\ task[s].batch \in Seq(Path)
      /\ task[s].at \in Nat /\ \A i \in DOMAIN task[s].batch : i \in Int
  BY <1>1, LaneBefore DEF Taken, At
<1>3. UNCHANGED <<lock, sweep, holds, doubled, dead, commands>> /\ task' = [task EXCEPT ![s] = t]
  BY <1>1 DEF Taken, TypeOK
<1>4. task[s] \in Task /\ task[s].at + 1 \in Nat \ {0} /\ task[s].held \cup {p} \subseteq Path
  BY <1>1, <1>2 DEF TypeOK, Task
<1>5. t \in Task
  BY <1>4 DEF Task
<1>6. /\ t.doing = "look" /\ t.at = task[s].at + 1 /\ t.op = "claim"
      /\ t.batch = task[s].batch /\ t.held = task[s].held \cup {p}
  BY <1>1, <1>4 DEF Task
<1> HIDE DEF t
<1>7. task'[s] = t /\ \A o \in Session \ {s} : task'[o] = task[o]
  BY <1>1, <1>3 DEF TypeOK
<1>8. TypeOK'
  BY <1>1, <1>3, <1>5 DEF TypeOK
<1>9. \A q \in Path : (Known(s, q)' <=> Known(s, q)) /\ (Owner(q)' = s <=> Owner(q) = s)
  BY <1>3 DEF Known, Owner
<1>10. \A q \in Path : Underway(s, q) => Underway(s, q)'
  BY <1>1, <1>2, <1>6, <1>7 DEF Underway
<1>11. Owner(p) = s => Known(s, p)
  <2>1. ASSUME Underway(s, p) PROVE p \in Twice(task[s].batch)
    <3>1. PICK i \in DOMAIN task[s].batch : task[s].batch[i] = p /\ i < task[s].at
      BY <1>1, <2>1 DEF Underway
    <3> QED BY <1>2, <3>1, TwiceFacts DEF Lane
  <2> QED BY <1>1, <1>2, <2>1 DEF Accounted, Known
<1>12. \A q \in Path : Owner(q)' = s =>
           /\ Known(s, q)' \/ Underway(s, q)'
           /\ lock'[q].written
           /\ q \in task'[s].held => Known(s, q)'
  BY <1>1, <1>3, <1>6, <1>7, <1>9, <1>10, <1>11 DEF Accounted
<1>13. \A q \in task'[s].held :
           \E i \in DOMAIN task[s].batch : task[s].batch[i] = q /\ i < task[s].at + 1
  <2>1. task[s].batch[task[s].at] = p /\ task[s].at < task[s].at + 1
    BY <1>2 DEF Lane
  <2>2. \A i \in DOMAIN task[s].batch : i < task[s].at => i < task[s].at + 1
    BY <1>2
  <2>3. \A q \in task[s].held :
            \E i \in DOMAIN task[s].batch : task[s].batch[i] = q /\ i < task[s].at
    BY <1>1 DEF Accounted
  <2> QED BY <1>2, <1>6, <1>7, <2>1, <2>2, <2>3
<1>14. Twice(task'[s].batch) \subseteq doubled'[s]
  BY <1>1, <1>3, <1>6, <1>7 DEF Accounted
<1>15. Accounted(s)'
  BY <1>6, <1>7, <1>12, <1>13, <1>14 DEF Accounted
<1> QED BY <1>3, <1>7, <1>8, <1>15, OneAccounts

LEMMA ClaimEndsCounted ==
    ASSUME Counted, NEW s \in Session, ClaimEnds(s)
    PROVE  Counted'
<1>1. /\ TypeOK /\ s \in Alive /\ Accounted(s) /\ task[s].op = "claim" /\ AtEnd(s)
      /\ UNCHANGED <<lock, sweep, doubled, dead, commands>>
  BY DEF Counted, ClaimEnds, Alive
<1>2. /\ task[s].batch \in Seq(Path) /\ task[s].at \in Nat
      /\ \A i \in DOMAIN task[s].batch : i < task[s].at /\ i \in Int /\ i >= 1
      /\ task[s].at \notin DOMAIN task[s].batch
      /\ Lanes(task[s].batch) \subseteq Path
  BY <1>1, LaneBefore DEF AtEnd, Lanes
<1>3. \A q \in Path : (Owner(q)' = s <=> Owner(q) = s) /\ lock'[q] = lock[q]
  BY <1>1 DEF Owner
<1>4. CASE task[s].held = {}
  <2>1. Exit(s) /\ holds' = [holds EXCEPT ![s] = @ \cup Lanes(task[s].batch)]
    BY <1>4 DEF ClaimEnds
  <2>2. /\ task' \in [Session -> Task]
        /\ task'[s].doing = "look" /\ task'[s].op = "none"
        /\ \A o \in Session \ {s} : task'[o] = task[o]
    BY <1>1, <2>1, ExitMoves
  <2>3. /\ holds' \in [Session -> SUBSET Path]
        /\ holds'[s] = holds[s] \cup Lanes(task[s].batch)
        /\ \A o \in Session \ {s} : holds'[o] = holds[o]
    BY <1>1, <1>2, <2>1 DEF TypeOK
  <2>4. TypeOK'
    BY <1>1, <2>2, <2>3 DEF TypeOK
  <2>5. \A q \in Path : Known(s, q) \/ Underway(s, q) => Known(s, q)'
    BY <1>1, <2>3 DEF Known, Underway, Lanes
  <2>6. ASSUME NEW q \in Path, Owner(q)' = s PROVE Known(s, q)' /\ lock'[q].written
    <3>1. lock[q].written \/ task[s].doing = "write"
      BY <1>1, <1>3, <2>6 DEF Accounted
    <3>2. task[s].doing # "write"
      BY <1>1, <1>2 DEF Accounted
    <3> QED BY <1>1, <1>3, <2>5, <2>6, <3>1, <3>2 DEF Accounted
  <2>7. Accounted(s)'
    BY <2>2, <2>6 DEF Accounted
  <2> QED BY <1>1, <2>2, <2>3, <2>4, <2>7, OneAccounts
<1>5. CASE task[s].held # {}
  <2> DEFINE t == [task[s] EXCEPT !.op = "rollback", !.at = 1]
  <2>1. task' = [task EXCEPT ![s] = t] /\ holds' = holds
    BY <1>1, <1>5 DEF ClaimEnds, TypeOK
  <2>2. task[s] \in Task /\ 1 \in Nat \ {0}
    BY <1>1 DEF TypeOK
  <2>3. t \in Task
    BY <2>2 DEF Task
  <2>4. /\ t.op = "rollback" /\ t.doing = task[s].doing /\ t.at = 1
        /\ t.batch = task[s].batch /\ t.held = task[s].held
    BY <2>2 DEF Task
  <2> HIDE DEF t
  <2>5. task'[s] = t /\ \A o \in Session \ {s} : task'[o] = task[o]
    BY <1>1, <2>1 DEF TypeOK
  <2>6. TypeOK'
    BY <1>1, <2>1, <2>3 DEF TypeOK
  <2>7. task[s].doing # "write"
    BY <1>1, <1>2 DEF Accounted
  <2>8. \A q \in Path : Known(s, q)' <=> Known(s, q)
    BY <1>1, <2>1 DEF Known
  <2>9. ASSUME NEW q \in Path, Owner(q) = s PROVE Known(s, q) \/ Underway(s, q)'
    <3>1. CASE q \in task[s].held
      BY <1>1, <2>9, <3>1 DEF Accounted
    <3>2. CASE q \notin task[s].held /\ Underway(s, q)
      BY <1>1, <1>2, <2>4, <2>5, <3>2 DEF Underway
    <3> QED BY <1>1, <2>9, <3>1, <3>2 DEF Accounted
  <2>10. ASSUME NEW q \in Path, Owner(q)' = s
         PROVE  /\ Known(s, q)' \/ Underway(s, q)'
                /\ lock'[q].written
                /\ q \in task'[s].held => Known(s, q)'
    BY <1>1, <1>3, <2>4, <2>5, <2>7, <2>8, <2>9, <2>10 DEF Accounted
  <2>11. Accounted(s)'
    BY <1>1, <2>4, <2>5, <2>7, <2>10 DEF Accounted
  <2> QED BY <1>1, <2>1, <2>5, <2>6, <2>11, OneAccounts
<1> QED BY <1>4, <1>5

LEMMA LooksCounted ==
    ASSUME Counted, NEW s \in Session, RollbackLook(s) \/ ReleaseLook(s)
    PROVE  Counted'
<1>1. /\ TypeOK /\ s \in Alive /\ Accounted(s) /\ task[s].doing = "look"
      /\ UNCHANGED <<lock, sweep, holds, doubled, dead, commands>>
      /\ task[s].op = "release" \/ (task[s].op = "rollback" /\ RollbackLook(s))
  BY DEF Counted, RollbackLook, ReleaseLook, At, Alive
<1>2. /\ Lane(s) \in Path /\ task[s].at \in DOMAIN task[s].batch /\ task[s].at \in Nat
      /\ \A i \in DOMAIN task[s].batch : i \in Int
  BY <1>1, LaneBefore DEF RollbackLook, ReleaseLook, At
<1>3. /\ On(s, "unlink") \/ NextLane(s)
      /\ ~On(s, "unlink") /\ task[s].op = "rollback" => Reads(Lane(s)) # s \/ Lane(s) \in task[s].held
  BY <1>1 DEF RollbackLook, ReleaseLook
<1>4. /\ task' \in [Session -> Task]
      /\ task'[s].doing \in {"look", "unlink"}
      /\ task'[s].op = task[s].op /\ task'[s].batch = task[s].batch
      /\ task'[s].held = task[s].held
      /\ \A o \in Session \ {s} : task'[o] = task[o]
      /\ task'[s].at = (IF On(s, "unlink") THEN task[s].at ELSE task[s].at + 1)
  <2>1. CASE On(s, "unlink")
    BY <1>1, <2>1, OnMoves
  <2>2. CASE ~On(s, "unlink")
    BY <1>1, <1>3, <2>2, NextLaneMoves
  <2> QED BY <2>1, <2>2
<1>5. TypeOK'
  BY <1>1, <1>4 DEF TypeOK
<1>6. \A q \in Path : (Known(s, q)' <=> Known(s, q)) /\ (Owner(q)' = s <=> Owner(q) = s)
  BY <1>1 DEF Known, Owner
<1>7. ASSUME NEW q \in Path, Owner(q) = s PROVE Known(s, q) \/ Underway(s, q)'
  <2>1. Known(s, q) \/ Underway(s, q)
    BY <1>1, <1>7 DEF Accounted
  <2>2. CASE task[s].op = "release"
    BY <2>1, <2>2 DEF Underway
  <2>3. CASE task[s].op = "rollback" /\ On(s, "unlink")
    BY <1>4, <2>1, <2>3 DEF Underway
  <2>4. CASE task[s].op = "rollback" /\ ~On(s, "unlink") /\ q = Lane(s)
    <3>1. lock[q].written /\ lock[q] # None
      BY <1>1, <1>7, LaneAssumption DEF Accounted, Owner
    <3>2. Reads(q) = s
      BY <1>7, <3>1 DEF Reads, Owner
    <3> QED BY <1>1, <1>3, <1>7, <2>4, <3>2 DEF Accounted
  <2>5. CASE task[s].op = "rollback" /\ ~On(s, "unlink") /\ q # Lane(s)
    BY <1>2, <1>4, <2>1, <2>5 DEF Underway, Lane
  <2> QED BY <1>1, <2>2, <2>3, <2>4, <2>5
<1>8. ASSUME NEW q \in Path, Owner(q)' = s
      PROVE  /\ Known(s, q)' \/ Underway(s, q)'
             /\ lock'[q].written
             /\ q \in task'[s].held /\ task'[s].op \in {"claim", "rollback"} => Known(s, q)'
  BY <1>1, <1>4, <1>6, <1>7, <1>8 DEF Accounted
<1>9. Accounted(s)'
  BY <1>1, <1>4, <1>8 DEF Accounted
<1> QED BY <1>1, <1>4, <1>5, <1>9, OneAccounts

(* Whosever lock it is by now, it is none of one's own after.              *)
LEMMA UnlinkCounted ==
    ASSUME Counted, NEW s \in Session, RollbackUnlink(s) \/ ReleaseUnlink(s)
    PROVE  Counted'
<1> DEFINE p == Lane(s)
<1>1. /\ TypeOK /\ s \in Alive /\ Accounted(s) /\ task[s].doing = "unlink"
      /\ lock' = [lock EXCEPT ![p] = None] /\ UNCHANGED <<sweep, dead, commands>>
      /\ \/ task[s].op = "rollback" /\ NextLane(s) /\ UNCHANGED <<holds, doubled>>
         \/ /\ task[s].op = "release" /\ (Exit(s) \/ NextLane(s))
            /\ holds' = [holds EXCEPT ![s] = @ \ {p}]
            /\ doubled' = [doubled EXCEPT ![s] = @ \ {p}]
  BY DEF Counted, RollbackUnlink, ReleaseUnlink, At, Alive
<1>2. /\ p \in Path /\ task[s].at \in DOMAIN task[s].batch /\ task[s].at \in Nat
      /\ \A i \in DOMAIN task[s].batch : i \in Int
  BY <1>1, LaneBefore DEF RollbackUnlink, ReleaseUnlink, At
<1>3. /\ lock' \in [Path -> [by : Session, written : BOOLEAN] \cup {None}]
      /\ lock'[p] = None /\ \A q \in Path \ {p} : lock'[q] = lock[q]
  BY <1>1, <1>2 DEF TypeOK
<1>4. /\ task' \in [Session -> Task] /\ task'[s].doing = "look"
      /\ \/ task'[s].op = "none"
         \/ /\ task'[s].op = task[s].op /\ task'[s].batch = task[s].batch
            /\ task'[s].held = task[s].held /\ task'[s].at = task[s].at + 1
      /\ task[s].op = "rollback" => task'[s].op = "rollback"
      /\ \A o \in Session \ {s} : task'[o] = task[o]
  BY <1>1, ExitMoves, NextLaneMoves
<1>5. /\ holds' \in [Session -> SUBSET Path] /\ doubled' \in [Session -> SUBSET Path]
      /\ \A o \in Session \ {s} : holds'[o] = holds[o] /\ doubled'[o] = doubled[o]
      /\ holds[s] \ {p} \subseteq holds'[s] /\ doubled[s] \ {p} \subseteq doubled'[s]
      /\ task[s].op = "rollback" => doubled'[s] = doubled[s]
  BY <1>1 DEF TypeOK
<1>6. TypeOK'
  BY <1>1, <1>3, <1>4, <1>5 DEF TypeOK
<1>7. ASSUME NEW q \in Path, Owner(q)' = s
      PROVE  q # p /\ Owner(q) = s /\ lock'[q] = lock[q]
  BY <1>3, <1>7, LaneAssumption DEF Owner
<1>8. \A q \in Path \ {p} : Known(s, q) => Known(s, q)'
  BY <1>5 DEF Known
<1>9. \A q \in Path \ {p} : Underway(s, q) => Underway(s, q)'
  BY <1>1, <1>2, <1>4 DEF Underway, Lane
<1>10. ASSUME NEW q \in Path, Owner(q)' = s
       PROVE  /\ Known(s, q)' \/ Underway(s, q)'
              /\ lock'[q].written
              /\ q \in task'[s].held /\ task'[s].op \in {"claim", "rollback"} => Known(s, q)'
  BY <1>1, <1>4, <1>7, <1>8, <1>9, <1>10 DEF Accounted
<1>11. Accounted(s)'
  BY <1>1, <1>4, <1>5, <1>10 DEF Accounted
<1>12. \A q \in Path : lock'[q] = lock[q] \/ Owner(q)' \in {None, s}
  BY <1>3 DEF Owner
<1> QED BY <1>1, <1>4, <1>5, <1>6, <1>11, <1>12, OneAccounts

LEMMA CommandEndsCounted ==
    ASSUME Counted, NEW s \in Session, CommandEnds(s)
    PROVE  Counted'
<1>1. /\ TypeOK /\ s \in Alive /\ Accounted(s) /\ task[s].op \in {"rollback", "release"}
      /\ UNCHANGED <<lock, sweep, holds, doubled, dead, commands>> /\ Exit(s) /\ AtEnd(s)
  BY DEF Counted, CommandEnds, Alive
<1>2. /\ task' \in [Session -> Task]
      /\ task'[s].doing = "look" /\ task'[s].op = "none"
      /\ \A o \in Session \ {s} : task'[o] = task[o]
  BY <1>1, ExitMoves
<1>3. TypeOK'
  BY <1>1, <1>2 DEF TypeOK
<1>4. task[s].at \in Nat /\ \A i \in DOMAIN task[s].batch : i \in Int /\ ~(i >= task[s].at)
  BY <1>1, LaneBefore
<1>5. \A q \in Path : ~Underway(s, q)
  BY <1>1, <1>4 DEF Underway
<1>6. \A q \in Path : Owner(q)' = s => Known(s, q)' /\ lock'[q].written
  BY <1>1, <1>5 DEF Accounted, Owner, Known
<1>7. Accounted(s)'
  BY <1>2, <1>6 DEF Accounted
<1> QED BY <1>1, <1>2, <1>3, <1>7, OneAccounts

LEMMA DieCounted ==
    ASSUME Counted, NEW s \in Session, Die(s)
    PROVE  Counted'
<1>1. /\ TypeOK /\ UNCHANGED <<lock, sweep, doubled, commands>> /\ Exit(s)
      /\ dead' = dead \cup {s}
  BY DEF Counted, Die
<1>2. /\ task' \in [Session -> Task]
      /\ \A o \in Session \ {s} : task'[o] = task[o]
  BY <1>1, ExitMoves
<1>3. /\ holds' \in [Session -> SUBSET Path]
      /\ \A o \in Session \ {s} : holds'[o] = holds[o]
  BY <1>1 DEF Die, TypeOK
<1>4. TypeOK'
  BY <1>1, <1>2, <1>3 DEF TypeOK
<1> QED BY <1>1, <1>2, <1>3, <1>4, OneAccounts

(* A sweep only makes locks fewer.                                         *)
LEMMA SweepCounted ==
    ASSUME Counted, NEW w \in Sweeper,
           SweepStart(w) \/ SweepUnlink(w) \/ \E p \in Path : SweepLook(w, p)
    PROVE  Counted'
<1> DEFINE Look == [todo : SUBSET Path, aim : Path \cup {None}]
<1>1. /\ TypeOK /\ UNCHANGED <<task, holds, doubled, dead>>
      /\ sweep[w] \in Look /\ sweep \in [Sweeper -> Look]
  BY DEF Counted, SweepStart, SweepUnlink, SweepLook, TypeOK
<1>2. PICK r \in Look : sweep' = [sweep EXCEPT ![w] = r]
  <2>1. CASE SweepStart(w)
    <3> DEFINE r == [sweep[w] EXCEPT !.todo = {p \in Path : lock[p] # None}]
    <3>1. r \in Look /\ sweep' = [sweep EXCEPT ![w] = r]
      BY <1>1, <2>1 DEF SweepStart
    <3> QED BY <3>1
  <2>2. CASE SweepUnlink(w)
    <3> DEFINE rest == IF lock[sweep[w].aim] = None THEN {} ELSE sweep[w].todo
               r == [sweep[w] EXCEPT !.aim = None, !.todo = rest]
    <3>1. rest \in SUBSET Path
      BY <1>1
    <3>2. sweep' = [sweep EXCEPT ![w] = r]
      BY <1>1, <2>2 DEF SweepUnlink
    <3> HIDE DEF rest
    <3>3. r \in Look
      BY <1>1, <3>1
    <3> QED BY <3>2, <3>3
  <2>3. ASSUME NEW p \in Path, SweepLook(w, p)
        PROVE  \E r \in Look : sweep' = [sweep EXCEPT ![w] = r]
    <3> DEFINE less == sweep[w].todo \ {p}
               q == [sweep[w] EXCEPT !.todo = less]
               r == [sweep[w] EXCEPT !.todo = less, !.aim = p]
    <3>1. less \in SUBSET Path
      BY <1>1
    <3>2. sweep' = [sweep EXCEPT ![w] = q] \/ sweep' = [sweep EXCEPT ![w] = r]
      BY <1>1, <2>3 DEF SweepLook
    <3> HIDE DEF less
    <3>3. q \in Look /\ r \in Look
      BY <1>1, <3>1
    <3> QED BY <3>2, <3>3
  <2> QED BY <2>1, <2>2, <2>3
<1>3. lock' \in [Path -> [by : Session, written : BOOLEAN] \cup {None}]
      /\ \A q \in Path : lock'[q] = lock[q] \/ lock'[q] = None
  BY <1>1 DEF SweepStart, SweepUnlink, SweepLook, TypeOK
<1>4. commands' \in 0..MaxCommands
  <2>1. commands \in Nat /\ commands \in 0..MaxCommands /\ MaxCommands \in Nat
    BY <1>1, LaneAssumption DEF TypeOK
  <2>2. commands' = commands \/ (commands < MaxCommands /\ commands' = commands + 1)
    BY DEF SweepStart, SweepUnlink, SweepLook
  <2> QED BY <2>1, <2>2
<1>5. TypeOK'
  <2>1. sweep' \in [Sweeper -> Look]
    BY <1>1, <1>2
  <2> QED BY <1>1, <1>3, <1>4, <2>1 DEF TypeOK
<1>6. ASSUME NEW o \in Alive' PROVE Accounted(o)'
  <2>1. o \in Session /\ o # None /\ Accounted(o)
    BY <1>1, LaneAssumption DEF Counted, Alive
  <2>2. \A q \in Path : lock'[q] = lock[q] \/ Owner(q)' # o
    BY <1>3, <2>1 DEF Owner
  <2> QED BY <1>1, <2>1, <2>2, OthersAccounted
<1> QED BY <1>5, <1>6 DEF Counted

LEMMA StepCounted == Counted /\ [Next]_vars => Counted'
<1> SUFFICES ASSUME Counted, [Next]_vars PROVE Counted'
  OBVIOUS
<1>1. CASE UNCHANGED vars
  BY <1>1 DEF Counted, TypeOK, Alive, Accounted, Owner, Known, Underway, Lane, vars
<1>2. ASSUME NEW s \in Session, NEW op \in {"claim", "release"}, NEW batch \in Batches,
             Start(s, op, batch)
      PROVE  Counted'
  BY <1>2, StartCounted
<1>3. ASSUME NEW s \in Session,
             \/ Create(s) \/ Write(s) \/ Taken(s) \/ ClaimEnds(s)
             \/ RollbackLook(s) \/ RollbackUnlink(s)
             \/ ReleaseLook(s) \/ ReleaseUnlink(s) \/ CommandEnds(s) \/ Die(s)
      PROVE  Counted'
  BY <1>3, CreateCounted, WriteCounted, TakenCounted, ClaimEndsCounted, LooksCounted,
     UnlinkCounted, CommandEndsCounted, DieCounted
<1>4. ASSUME NEW w \in Sweeper,
             SweepStart(w) \/ SweepUnlink(w) \/ \E p \in Path : SweepLook(w, p)
      PROVE  Counted'
  BY <1>4, SweepCounted
<1> QED BY <1>1, <1>2, <1>3, <1>4 DEF Next

(* A session between commands has no locks but those it was told it holds, *)
(* or that its own batch named twice, whoever forces, sweeps or dies       *)
(* (lane.js:62-79, 97-105).                                                *)
THEOREM FailedBatchesHoldNothing == Spec => []NothingLeftBehind
<1>1. Counted => NothingLeftBehind
  <2> SUFFICES ASSUME Counted, NEW s \in Alive, task[s] = Idle, NEW p \in Path, Owner(p) = s
               PROVE  Known(s, p)
    BY DEF NothingLeftBehind, Known
  <2>1. Accounted(s) /\ ~Underway(s, p)
    BY DEF Counted, Underway, Idle, Command
  <2> QED BY <2>1 DEF Accounted
<1> QED BY InitCounted, StepCounted, <1>1, PTL DEF Spec
=============================================================================
