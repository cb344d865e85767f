------------------------------ MODULE LiveGather ------------------------------
(***************************************************************************)
(* A live script that gathers: the worker thread of runLive is, between    *)
(* two calls of its tools, the parent of runSettled's threads.  Both waits *)
(* park the same thread, so a script that waits for its tasks calls no     *)
(* tool and does not end, while its host goes on: it may still be busy     *)
(* with a call the script gave up, and whatever ends the run ends the      *)
(* tasks where they are.  (Bound: it gathers at most once, after a call.)  *)
(***************************************************************************)
EXTENDS LiveBridge, GatherBarrier

Alive == Running /\ wpc # "ended"
Gathering == pc # "done" /\ (pc # "starting" \/ started > 0)

LiveGatherInit == LiveInit /\ Init

(* The worker's thread: in gather, where it may die too unless it sleeps,  *)
(* or in the rest of the script.                                           *)
OutsideGather == (IF Gathering THEN pc # "asleep" /\ WorkerDies ELSE ScriptStep) /\ UNCHANGED vars
InGather == Alive /\ wpc = "script" /\ (Gathering \/ n = 1) /\ ParentStep /\ UNCHANGED liveVars
ThreadStep == OutsideGather \/ InGather

(* The tasks' threads and the clock.                                       *)
Beside(step) == Alive /\ step /\ UNCHANGED liveVars
InHost(step) == step /\ UNCHANGED vars

LiveGatherNext ==
    \/ ThreadStep
    \/ Beside(ClockStep) \/ \E w \in Worker : Beside(WorkerStep(w))
    \/ InHost(HostStep) \/ InHost(Timeout)

(* Fairness: the script's thread and the host run on, every tool answers   *)
(* in the end, and time passes.  Nothing is assumed of the tasks, each of  *)
(* which may compute for ever or die, nor of the run's timer.              *)
LiveGatherSpec ==
    /\ LiveGatherInit /\ [][LiveGatherNext]_<<liveVars, vars>>
    /\ WF_vars(Beside(SliceEnds)) /\ WF_vars(Beside(DeadlinePasses))
    /\ WF_<<liveVars, vars>>(ThreadStep) /\ WF_liveVars(InHost(HostStep))
-----------------------------------------------------------------------------
(* A gather that has begun ends, whatever its tasks do, or the run does:   *)
(* it never hangs (myxo-concurrent.js:81-84).                              *)
GatherEnds == Gathering ~> (~Gathering \/ ~Alive)
=============================================================================
