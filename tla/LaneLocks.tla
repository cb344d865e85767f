------------------------------ MODULE LaneLocks ------------------------------
(***************************************************************************)
(* The lane locks of src/tools/lane.js: sessions working in one repository *)
(* claim files in batches, all or nothing, by creating one lock file per   *)
(* lane; they release them, and locks of dead sessions are swept away.     *)
(*                                                                         *)
(* Every command is a process of its own, and a step is one operation on   *)
(* one file: between reading a lock and unlinking it anything may happen.  *)
(* The journal is left out: nothing depends on it.                         *)
(***************************************************************************)
EXTENDS Integers, Sequences, FiniteSets

CONSTANTS
    Session,       \* the names given with --by; one command of each at a time
    Sweeper,       \* processes of clear-stale
    Path,          \* lanes; different ones have different lock files
    Batches,       \* sequences of paths given to a command
    Forcing,       \* sessions that release with --force
    LongSessions,  \* whether a session may outlive the hours of clear-stale
    None,
    MaxCommands    \* bound: commands started

ASSUME LaneAssumption ==
    /\ Batches \subseteq Seq(Path) /\ Forcing \subseteq Session
    /\ LongSessions \in BOOLEAN /\ MaxCommands \in Nat
    /\ None \notin Path \cup Session \cup [by : Session, written : BOOLEAN]

VARIABLES
    lock,      \* the lock file of each lane, or None: [by, written]
    task,      \* the command each session runs
    sweep,     \* what each sweeper has still to look at, and its aim
    holds,     \* history: the lanes each session was told are its own
    doubled,   \* history: lanes claimed twice in one batch, by each session
    dead,      \* sessions that have died
    commands   \* commands started so far

vars == <<lock, task, sweep, holds, doubled, dead, commands>>

Command(op, batch) == [op |-> op, batch |-> batch, at |-> 1, held |-> {}, doing |-> "look"]
Idle == Command("none", << >>)
Task == [op : {"none", "claim", "rollback", "release"}, batch : Batches \cup {<< >>},
         at : Nat \ {0}, held : SUBSET Path, doing : {"look", "write", "unlink"}]

Init ==
    /\ lock = [p \in Path |-> None]
    /\ task = [s \in Session |-> Idle]
    /\ sweep = [w \in Sweeper |-> [todo |-> {}, aim |-> None]]
    /\ holds = [s \in Session |-> {}] /\ doubled = [s \in Session |-> {}]
    /\ dead = {} /\ commands = 0

(* readLock: the name in the lock file; a file that is not there, or not   *)
(* written yet, reads as null.                                             *)
Reads(p) == IF lock[p] # None /\ lock[p].written THEN lock[p].by ELSE None

Lane(s) == task[s].batch[task[s].at]
AtEnd(s) == task[s].at > Len(task[s].batch)
At(s, op, doing) ==
    /\ s \notin dead /\ task[s].op = op /\ task[s].doing = doing
    /\ op # "none" => ~AtEnd(s)

On(s, doing) == task' = [task EXCEPT ![s].doing = doing]
NextLane(s) == task' = [task EXCEPT ![s].at = @ + 1, ![s].doing = "look"]
Exit(s) == task' = [task EXCEPT ![s] = Idle]

-----------------------------------------------------------------------------
Lanes(batch) == {batch[i] : i \in DOMAIN batch}
Twice(batch) ==
    {p \in Lanes(batch) : \E i, j \in DOMAIN batch : i # j /\ batch[i] = p /\ batch[j] = p}

(* A command is started: claim, release, or release --all, which takes as  *)
(* its batch the lanes whose locks it could read.                          *)
Start(s, op, batch) ==
    /\ s \notin dead /\ task[s] = Idle
    /\ commands < MaxCommands /\ commands' = commands + 1
    /\ task' = [task EXCEPT ![s] = Command(op, batch)]
    /\ doubled' = [doubled EXCEPT ![s] = IF op = "claim" THEN @ \cup Twice(batch) ELSE @]
    /\ UNCHANGED <<lock, sweep, holds, dead>>

(* Bug: the file is written whether or not it is there.                    *)
Create_Bug(s) ==
    /\ At(s, "claim", "look")
    /\ lock' = [lock EXCEPT ![Lane(s)] = [by |-> s, written |-> FALSE]]
    /\ On(s, "write")
    /\ UNCHANGED <<sweep, holds, doubled, dead, commands>>

(* claim: an exclusive create, then the content.                           *)
Create(s) ==
    /\ At(s, "claim", "look")
    /\ lock[Lane(s)] = None
    /\ lock' = [lock EXCEPT ![Lane(s)] = [by |-> s, written |-> FALSE]]
    /\ On(s, "write")
    /\ UNCHANGED <<sweep, holds, doubled, dead, commands>>

(* What is written to a file that was unlinked meanwhile is lost.          *)
Write(s) ==
    /\ At(s, "claim", "write")
    /\ lock' = IF lock[Lane(s)] = [by |-> s, written |-> FALSE]
               THEN [lock EXCEPT ![Lane(s)] = [by |-> s, written |-> TRUE]] ELSE lock
    /\ NextLane(s)
    /\ UNCHANGED <<sweep, holds, doubled, dead, commands>>

(* EEXIST.                                                                 *)
Taken(s) ==
    /\ At(s, "claim", "look")
    /\ lock[Lane(s)] # None
    /\ task' = [task EXCEPT ![s].at = @ + 1, ![s].held = @ \cup {Lane(s)}]
    /\ UNCHANGED <<lock, sweep, holds, doubled, dead, commands>>

(* Bug: a failed batch ends without giving back what it did claim.         *)
ClaimEnds_Bug(s) ==
    /\ s \notin dead /\ task[s].op = "claim" /\ AtEnd(s)
    /\ Exit(s)
    /\ IF task[s].held = {}
       THEN holds' = [holds EXCEPT ![s] = @ \cup Lanes(task[s].batch)]
       ELSE UNCHANGED holds
    /\ UNCHANGED <<lock, sweep, doubled, dead, commands>>

(* The batch is done: all of it is claimed, or what is goes back.          *)
ClaimEnds(s) ==
    /\ s \notin dead /\ task[s].op = "claim" /\ AtEnd(s)
    /\ IF task[s].held = {}
       THEN Exit(s) /\ holds' = [holds EXCEPT ![s] = @ \cup Lanes(task[s].batch)]
       ELSE task' = [task EXCEPT ![s].op = "rollback", ![s].at = 1] /\ UNCHANGED holds
    /\ UNCHANGED <<lock, sweep, doubled, dead, commands>>

(* Bug: a lane that was taken is rolled back when it reads as one's own.   *)
RollbackLook_Bug(s) ==
    /\ At(s, "rollback", "look")
    /\ IF Reads(Lane(s)) = s THEN On(s, "unlink") ELSE NextLane(s)
    /\ UNCHANGED <<lock, sweep, holds, doubled, dead, commands>>

RollbackLook(s) ==
    /\ At(s, "rollback", "look")
    /\ IF Reads(Lane(s)) = s /\ Lane(s) \notin task[s].held
       THEN On(s, "unlink") ELSE NextLane(s)
    /\ UNCHANGED <<lock, sweep, holds, doubled, dead, commands>>

(* An error of unlink is swallowed here: the file is gone either way.      *)
RollbackUnlink(s) ==
    /\ At(s, "rollback", "unlink")
    /\ lock' = [lock EXCEPT ![Lane(s)] = None]
    /\ NextLane(s)
    /\ UNCHANGED <<sweep, holds, doubled, dead, commands>>

(* FREE, REFUSE, or the lock is one's own, or broken by force.             *)
ReleaseLook(s) ==
    /\ At(s, "release", "look")
    /\ IF Reads(Lane(s)) = s \/ (Reads(Lane(s)) # None /\ s \in Forcing)
       THEN On(s, "unlink") ELSE NextLane(s)
    /\ UNCHANGED <<lock, sweep, holds, doubled, dead, commands>>

(* Here nobody catches it: the rest of the batch stays locked.             *)
ReleaseUnlink(s) ==
    /\ At(s, "release", "unlink")
    /\ lock' = [lock EXCEPT ![Lane(s)] = None]
    /\ IF lock[Lane(s)] = None THEN Exit(s) ELSE NextLane(s)
    /\ holds' = [holds EXCEPT ![s] = @ \ {Lane(s)}]
    /\ doubled' = [doubled EXCEPT ![s] = @ \ {Lane(s)}]
    /\ UNCHANGED <<sweep, dead, commands>>

CommandEnds(s) ==
    /\ s \notin dead /\ task[s].op \in {"rollback", "release"} /\ AtEnd(s)
    /\ Exit(s)
    /\ UNCHANGED <<lock, sweep, holds, doubled, dead, commands>>

(* A session dies, in the middle of a command or not; its locks stay, one  *)
(* of them perhaps half written.                                           *)
Die(s) ==
    /\ s \notin dead
    /\ dead' = dead \cup {s}
    /\ holds' = [holds EXCEPT ![s] = {}]
    /\ Exit(s)
    /\ UNCHANGED <<lock, sweep, doubled, commands>>

-----------------------------------------------------------------------------
(* clear-stale: the files are listed once, then looked at one by one.      *)
SweepStart(w) ==
    /\ sweep[w].todo = {} /\ sweep[w].aim = None
    /\ commands < MaxCommands /\ commands' = commands + 1
    /\ sweep' = [sweep EXCEPT ![w].todo = {p \in Path : lock[p] # None}]
    /\ UNCHANGED <<lock, task, holds, doubled, dead>>

(* Locks that may be older than the hours given.                           *)
MayBeOld(p) == Reads(p) # None /\ (Reads(p) \in dead \/ LongSessions)

SweepLook(w, p) ==
    /\ p \in sweep[w].todo /\ sweep[w].aim = None
    /\ \/ sweep' = [sweep EXCEPT ![w].todo = @ \ {p}]
       \/ /\ MayBeOld(p)
          /\ sweep' = [sweep EXCEPT ![w].todo = @ \ {p}, ![w].aim = p]
    /\ UNCHANGED <<lock, task, holds, doubled, dead, commands>>

(* When the file is gone meanwhile, unlink throws and the sweep is over.   *)
SweepUnlink(w) ==
    /\ sweep[w].aim # None
    /\ lock' = [lock EXCEPT ![sweep[w].aim] = None]
    /\ sweep' = [sweep EXCEPT ![w].aim = None,
                              ![w].todo = IF lock[sweep[w].aim] = None THEN {} ELSE @]
    /\ UNCHANGED <<task, holds, doubled, dead, commands>>

Next ==
    \/ \E s \in Session :
         \/ \E op \in {"claim", "release"}, batch \in Batches : Start(s, op, batch)
         \/ Create(s) \/ Write(s) \/ Taken(s) \/ ClaimEnds(s)
         \/ RollbackLook(s) \/ RollbackUnlink(s)
         \/ ReleaseLook(s) \/ ReleaseUnlink(s) \/ CommandEnds(s) \/ Die(s)
    \/ \E w \in Sweeper : SweepStart(w) \/ SweepUnlink(w) \/ \E p \in Path : SweepLook(w, p)

Spec == Init /\ [][Next]_vars

-----------------------------------------------------------------------------
TypeOK ==
    /\ lock \in [Path -> [by : Session, written : BOOLEAN] \cup {None}]
    /\ task \in [Session -> Task]
    /\ sweep \in [Sweeper -> [todo : SUBSET Path, aim : Path \cup {None}]]
    /\ holds \in [Session -> SUBSET Path] /\ doubled \in [Session -> SUBSET Path]
    /\ dead \subseteq Session /\ commands \in 0..MaxCommands

Alive == Session \ dead
Owner(p) == IF lock[p] = None THEN None ELSE lock[p].by

(* What a session was told it holds is locked in its name: two sessions    *)
(* are never told so of one lane (lane.js:3-4).                            *)
HoldersHaveLocks == \A s \in Alive : \A p \in holds[s] :
    lock[p] # None /\ lock[p].by = s /\ lock[p].written

(* A session between commands has no locks but those it was told it holds: *)
(* a failed batch holds nothing, a released lane is free (lane.js:71).     *)
(* Only a lane that its own batch named twice may stay locked: the claim   *)
(* met its own lock there and took it for another's (lane.js:62-74).       *)
NothingLeftBehind == \A s \in Alive : task[s] = Idle =>
    \A p \in Path : Owner(p) = s => p \in holds[s] \cup doubled[s]

(* Why: what a session is doing agrees with the locks in its name.  A lock *)
(* about to be unlinked is still the one that was read, one about to be    *)
(* written is still empty; what this claim has created so far is locked,   *)
(* and is new to the session, so that a rollback takes nothing from it.    *)
Mine(s, p) == lock[p] = [by |-> s, written |-> TRUE]
InStep(s) ==
    /\ task[s].doing # "look" => task[s].at \in DOMAIN task[s].batch
    /\ task[s].doing = "unlink" => task[s].op \in {"rollback", "release"} /\ Owner(Lane(s)) = s
    /\ task[s].doing = "write" =>
           task[s].op = "claim" /\ lock[Lane(s)] = [by |-> s, written |-> FALSE]
ClaimedAnew(s) ==
    /\ task[s].doing # "look" /\ task[s].op # "release" => Lane(s) \notin holds[s]
    /\ task[s].op = "claim" => \A i \in DOMAIN task[s].batch :
           i < task[s].at /\ task[s].batch[i] \notin task[s].held =>
               Mine(s, task[s].batch[i]) /\ task[s].batch[i] \notin holds[s]
    /\ task[s].op = "rollback" => \A i \in DOMAIN task[s].batch :
           task[s].batch[i] \notin task[s].held => task[s].batch[i] \notin holds[s]
SessionOK(s) == InStep(s) /\ ClaimedAnew(s) /\ \A p \in holds[s] : Mine(s, p)

SweepsTheDead == \A w \in Sweeper : sweep[w].aim # None => Owner(sweep[w].aim) \in dead
IInv ==
    /\ TypeOK
    /\ \A s \in Alive : SessionOK(s)
    /\ \A s \in dead : holds[s] = {}
    /\ SweepsTheDead

(* Told from outside: a batch is granted at one moment, whole, and only    *)
(* when nobody alive holds any of its lanes (lane.js:3-6, 71).             *)
Book == INSTANCE LaneBook
KeepsTheBook == Book!Spec
=============================================================================
