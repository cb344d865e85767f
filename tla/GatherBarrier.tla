---------------------------- MODULE GatherBarrier ----------------------------
(***************************************************************************)
(* runSettled of src/myxo-concurrent.js and its workers,                   *)
(* src/myxo-par-worker.js: one thread per task, a shared counter the       *)
(* workers tick, and a parent that blocks in Atomics.wait until all have   *)
(* ticked or the deadline has passed.                                      *)
(*                                                                         *)
(* Threads interleave at every access to shared memory: the two loads of   *)
(* the counter in one pass of the loop, the wait (which compares and       *)
(* sleeps in one atomic step), the worker's post, add and notify.          *)
(***************************************************************************)
EXTENDS Integers, FiniteSets

CONSTANT N   \* the number of tasks

ASSUME TasksAssumption == N \in Nat \ {0}   \* no task: [] at once

Worker == 1..N

VARIABLES
    pc,         \* the parent: starting, test, load, wait, asleep, drain, done
    started,    \* workers created so far (the length of workers and ports)
    seen,       \* the parent's c
    late,       \* the clock has passed the deadline
    counter,    \* the shared counter
    worker,     \* each worker: absent, running, posted, ticked, over, dead
    answer,     \* what each worker posted: none, ok, error
    port,       \* its message: none, flying, here, read
    reading,    \* the port the drain looks at
    outcomes,   \* outcomes[i]: none, ok, error, missing
    verdict,    \* how the call ended: none, settled, timeout, failed
    terminated  \* the workers cleanup() has terminated

parentVars == <<started, seen, reading, outcomes, verdict, terminated>>
workerVars == <<counter, worker, answer, port>>
vars == <<pc, late, parentVars, workerVars>>

Init ==
    /\ pc = "starting" /\ started = 0 /\ seen = 0 /\ late = FALSE
    /\ counter = 0
    /\ worker = [w \in Worker |-> "absent"]
    /\ answer = [w \in Worker |-> "none"]
    /\ port = [w \in Worker |-> "none"]
    /\ reading = 1
    /\ outcomes = [w \in Worker |-> "none"]
    /\ verdict = "none"
    /\ terminated = {}

-----------------------------------------------------------------------------
(* The parent.                                                             *)

StartWorker ==
    /\ pc = "starting" /\ started < N
    /\ started' = started + 1
    /\ worker' = [worker EXCEPT ![started + 1] = "running"]
    /\ UNCHANGED <<pc, seen, late, counter, answer, port, reading, outcomes,
                   verdict, terminated>>

(* finally: cleanup() on every way out; it knows the workers started.      *)
Leave(how) ==
    /\ pc' = "done"
    /\ verdict' = how
    /\ terminated' = 1..started

(* new Worker throws: no thread to be had.                                 *)
StartFails ==
    /\ pc = "starting" /\ started < N
    /\ Leave("failed")
    /\ UNCHANGED <<started, seen, late, reading, outcomes, workerVars>>

EnterBarrier ==
    /\ pc = "starting" /\ started = N
    /\ pc' = "test"
    /\ UNCHANGED <<late, parentVars, workerVars>>

(* Operators named ..._Bug are what a plausible mistake would make of the  *)
(* definition that follows; no action uses them.                           *)

(* Bug: one worker short.                                                  *)
Test_Bug ==
    /\ pc = "test"
    /\ pc' = IF counter < N - 1 THEN "load" ELSE "drain"
    /\ UNCHANGED <<late, parentVars, workerVars>>

(* while (Atomics.load(counter) < n)                                       *)
Test ==
    /\ pc = "test"
    /\ pc' = IF counter < N THEN "load" ELSE "drain"
    /\ UNCHANGED <<late, parentVars, workerVars>>

(* Bug: the clock is not looked at again.                                  *)
Load_Bug ==
    /\ pc = "load"
    /\ seen' = counter
    /\ pc' = "wait"
    /\ UNCHANGED <<late, started, reading, outcomes, verdict, terminated,
                   workerVars>>

(* The second load of the pass, and the clock.                             *)
Load ==
    /\ pc = "load" /\ ~late
    /\ seen' = counter
    /\ pc' = "wait"
    /\ UNCHANGED <<late, started, reading, outcomes, verdict, terminated,
                   workerVars>>

(* Bug: what has arrived is returned.                                      *)
TimeOut_Bug ==
    /\ pc = "load" /\ late
    /\ Leave("settled")
    /\ UNCHANGED <<seen, late, started, reading, outcomes, workerVars>>

TimeOut ==
    /\ pc = "load" /\ late
    /\ Leave("timeout")
    /\ seen' = counter
    /\ UNCHANGED <<late, started, reading, outcomes, workerVars>>

(* Bug: the wait compares with the counter itself.                         *)
Wait_Bug ==
    /\ pc = "wait"
    /\ pc' = "asleep"
    /\ UNCHANGED <<late, parentVars, workerVars>>

(* Atomics.wait(counter, 0, c, slice): sleeps only if the counter still is *)
(* c, else returns at once.                                                *)
Wait ==
    /\ pc = "wait"
    /\ pc' = IF counter = seen THEN "asleep" ELSE "test"
    /\ UNCHANGED <<late, parentVars, workerVars>>

(* The slice of the wait (at most a second, at most what is left) is over. *)
SliceEnds ==
    /\ pc = "asleep"
    /\ pc' = "test"
    /\ UNCHANGED <<late, parentVars, workerVars>>

DeadlinePasses ==
    /\ pc \in {"test", "load", "wait", "asleep"} /\ ~late
    /\ late' = TRUE
    /\ UNCHANGED <<pc, parentVars, workerVars>>

(* The drain, one port after the other; it gives up on a port after        *)
(* DRAIN_SPINS looks.                                                      *)
Record(o) ==
    /\ outcomes' = [outcomes EXCEPT ![reading] = o]
    /\ reading' = reading + 1
    /\ UNCHANGED <<pc, late, started, seen, verdict, terminated, counter,
                   worker, answer>>

ReadPort ==
    /\ pc = "drain" /\ reading <= N
    /\ port[reading] = "here"
    /\ port' = [port EXCEPT ![reading] = "read"]
    /\ Record(answer[reading])

SpinsOut ==
    /\ pc = "drain" /\ reading <= N
    /\ port[reading] # "here"
    /\ Record("missing")
    /\ UNCHANGED port

Return ==
    /\ pc = "drain" /\ reading > N
    /\ Leave("settled")
    /\ UNCHANGED <<late, started, seen, reading, outcomes, workerVars>>

-----------------------------------------------------------------------------
(* A worker.                                                               *)

(* The agent returned data, or it or the loading of the interpreter threw: *)
(* the finally posts first.                                                *)
Post(w, how) ==
    /\ worker[w] = "running" /\ how \in {"ok", "error"}
    /\ worker' = [worker EXCEPT ![w] = "posted"]
    /\ answer' = [answer EXCEPT ![w] = how]
    /\ port' = [port EXCEPT ![w] = "flying"]
    /\ UNCHANGED <<pc, late, counter, parentVars>>

(* Atomics.add                                                             *)
Tick(w) ==
    /\ worker[w] = "posted"
    /\ worker' = [worker EXCEPT ![w] = "ticked"]
    /\ counter' = counter + 1
    /\ UNCHANGED <<pc, late, answer, port, parentVars>>

(* Atomics.notify wakes the parent if it sleeps.                           *)
Notify(w) ==
    /\ worker[w] = "ticked"
    /\ worker' = [worker EXCEPT ![w] = "over"]
    /\ pc' = IF pc = "asleep" THEN "test" ELSE pc
    /\ UNCHANGED <<late, counter, answer, port, parentVars>>

(* A hard death: out of memory while it computes or posts, or terminated   *)
(* by cleanup() wherever it is.                                            *)
Die(w) ==
    /\ \/ worker[w] \in {"running", "posted"}
       \/ worker[w] = "ticked" /\ w \in terminated
    /\ worker' = [worker EXCEPT ![w] = "dead"]
    /\ UNCHANGED <<pc, late, counter, answer, port, parentVars>>

(* The message becomes visible to receiveMessageOnPort.                    *)
Deliver(w) ==
    /\ port[w] = "flying"
    /\ port' = [port EXCEPT ![w] = "here"]
    /\ UNCHANGED <<pc, late, counter, worker, answer, parentVars>>

-----------------------------------------------------------------------------
ParentStep ==
    \/ StartWorker \/ StartFails \/ EnterBarrier
    \/ Test \/ Load \/ TimeOut \/ Wait
    \/ ReadPort \/ SpinsOut \/ Return

ClockStep == SliceEnds \/ DeadlinePasses

WorkerStep(w) ==
    \/ \E how \in {"ok", "error"} : Post(w, how)
    \/ Tick(w) \/ Notify(w) \/ Die(w) \/ Deliver(w)

Next == ParentStep \/ ClockStep \/ \E w \in Worker : WorkerStep(w)

Spec == Init /\ [][Next]_vars
-----------------------------------------------------------------------------
TypeOK ==
    /\ pc \in {"starting", "test", "load", "wait", "asleep", "drain", "done"}
    /\ started \in 0..N /\ seen \in 0..N /\ counter \in 0..N
    /\ late \in BOOLEAN
    /\ worker \in [Worker -> {"absent", "running", "posted", "ticked", "over",
                              "dead"}]
    /\ answer \in [Worker -> {"none", "ok", "error"}]
    /\ port \in [Worker -> {"none", "flying", "here", "read"}]
    /\ reading \in 1..(N + 1)
    /\ outcomes \in [Worker -> {"none", "ok", "error", "missing"}]
    /\ verdict \in {"none", "settled", "timeout", "failed"}
    /\ terminated \in SUBSET Worker

(* The barrier holds: once the parent drains, every worker has posted, so  *)
(* no port is given up while its task is still computing (the comment at   *)
(* myxo-concurrent.js:13-15; post before tick, myxo-par-worker.js:34-38).  *)
BarrierHolds == (pc = "drain" \/ verdict = "settled") =>
    \A w \in Worker : answer[w] # "none"

(* No wake-up is lost while the parent sleeps: if the counter has moved    *)
(* since the parent looked, the worker that moved it has yet to notify     *)
(* (myxo-concurrent.js:80-84).                                             *)
SleepIsWatched == (pc = "asleep" /\ counter # seen) =>
    \E w \in Worker : worker[w] = "ticked"

(* runSettled keeps what its callers rely on.                              *)
Settled == INSTANCE SettledRun WITH
    Task <- Worker,
    settled <- answer,
    outcomes <- [w \in Worker |-> IF verdict = "settled" THEN outcomes[w] ELSE "none"],
    verdict <- IF verdict \in {"timeout", "failed"} THEN "threw" ELSE verdict
KeepsPromise == Settled!Spec
=============================================================================
