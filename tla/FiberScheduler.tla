--------------------------- MODULE FiberScheduler ---------------------------
(***************************************************************************)
(* The cooperative fiber scheduler of src/interpreter.js together with the *)
(* builtins that drive it (channel, drain, await in src/builtins.js) and   *)
(* the end-of-program drain of Interpreter.run.                            *)
(*                                                                         *)
(* One JavaScript thread runs everything, so at any moment control is in   *)
(* exactly one of three hands: the main program (pc = "body"), the pump    *)
(* loop between two fibers (inScheduler, running = None), or one fiber     *)
(* (running \in Fiber).  A fiber keeps control over several actions, until *)
(* it suspends or finishes.  Successive calls of run() on one interpreter  *)
(* (the REPL) share the fibers, so the module models up to MaxRuns of them.*)
(***************************************************************************)
EXTENDS Integers, Sequences, FiniteSets

CONSTANTS
    MaxFibers,  \* bound: fibers ever spawned, numbered in spawn order
    Channel,    \* the channels the program has made
    Cap,        \* channel(capacity): a function Channel -> Nat \ {0}
    StepCap,    \* pump's cap (maxSteps, or 10000000)
    MaxOps,     \* bound: gives, takes and spawns the fibers perform
    MaxRuns     \* bound: calls of run() on this interpreter

ASSUME ConstantsAssumption ==
    /\ MaxFibers \in Nat /\ StepCap \in Nat
    /\ MaxOps \in Nat /\ MaxRuns \in Nat
    /\ Cap \in [Channel -> Nat \ {0}]

Fiber == 1..MaxFibers
None  == 0

(* A value carries who gave it, on which channel and as which of the       *)
(* fibers' operations, so that two gives never carry the same value.       *)
Value == Fiber \X Channel \X (1..MaxOps)
NoVal == << >>   \* the absent val of a ready entry that delivers nothing

VARIABLES
    nSpawned,    \* length of this.fibers; the fibers are 1..nSpawned
    ready,       \* this.ready: a sequence of [fiber, val]
    buf,         \* channel.buf
    recvW,       \* channel.recvW: parked receivers
    sendW,       \* channel.sendW: parked senders, [fiber, value]
    gen,         \* where each fiber's generator stands
    outcome,     \* fiber.done, .result and .error in one
    running,     \* the fiber inside gen.next, or None
    inScheduler, \* the re-entrancy latch
    steps,       \* pump's counter of dispatches
    pc,          \* the main program: where it is, and which call pumps
    awaited,     \* the argument of the await under way, or None
    verdict,     \* how the last pumping call (or run) ended
    runs,        \* calls of run() so far
    surfaced,    \* history: fibers whose error reached the main program
    ops,         \* history: operations performed by fibers, numbered
    given,       \* history: values given on each channel, in order
    taken,       \* history: values that left each channel, in order
    got          \* history: values each fiber bound with take, in order

chanVars == <<buf, recvW, sendW, given, taken>>
mainVars == <<pc, awaited, verdict, runs, surfaced>>
vars == <<nSpawned, ready, gen, outcome, running, inScheduler, steps, ops,
          got, chanVars, mainVars>>

Born     == 1..nSpawned
Done(f)  == outcome[f] # "none"
Failed(f) == outcome[f] = "error"
Live     == {f \in Born : ~Done(f)}
FibersOf(q)  == {q[i].fiber : i \in DOMAIN q}
Elements(q)  == {q[i] : i \in DOMAIN q}
Queued       == FibersOf(ready)
Receivers(c) == Elements(recvW[c])
Senders(c)   == FibersOf(sendW[c])
Parked(c)    == Receivers(c) \cup Senders(c)
Distinct(q)  == \A i, j \in DOMAIN q : q[i] = q[j] => i = j
DistinctFibers(q) == \A i, j \in DOMAIN q : q[i].fiber = q[j].fiber => i = j
Entry(f, v) == [fiber |-> f, val |-> v]
ValuesOf(q) == [i \in DOMAIN q |-> q[i].value]
Pending(c)  == buf[c] \o ValuesOf(sendW[c])

Init ==
    /\ nSpawned = 0
    /\ ready = << >>
    /\ buf = [c \in Channel |-> << >>]
    /\ recvW = [c \in Channel |-> << >>]
    /\ sendW = [c \in Channel |-> << >>]
    /\ gen = [f \in Fiber |-> "none"]
    /\ outcome = [f \in Fiber |-> "none"]
    /\ running = None
    /\ inScheduler = FALSE
    /\ steps = 0
    /\ pc = "idle"
    /\ awaited = None
    /\ verdict = "none"
    /\ runs = 0
    /\ surfaced = {}
    /\ ops = 0
    /\ given = [c \in Channel |-> << >>]
    /\ taken = [c \in Channel |-> << >>]
    /\ got = [f \in Fiber |-> << >>]

-----------------------------------------------------------------------------
(* The main program.                                                       *)

(* Operators named ..._Bug are what a plausible mistake would make of the  *)
(* definition that follows; no action uses them.  README.md says which     *)
(* property notices each.                                                  *)

(* Bug: run() clears the ready queue but keeps the fibers.                 *)
StartRun_Bug ==
    /\ pc = "idle" /\ runs < MaxRuns
    /\ runs' = runs + 1
    /\ pc' = "body"
    /\ verdict' = "none"
    /\ ready' = << >>
    /\ UNCHANGED <<nSpawned, gen, outcome, running, inScheduler, steps, ops,
                   got, chanVars, awaited, surfaced>>

(* run(ast): the next program (a REPL line) on the same interpreter.       *)
StartRun ==
    /\ pc = "idle" /\ runs < MaxRuns
    /\ runs' = runs + 1
    /\ pc' = "body"
    /\ verdict' = "none"
    /\ UNCHANGED <<nSpawned, ready, gen, outcome, running, inScheduler, steps,
                   ops, got, chanVars, awaited, surfaced>>

(* spawnFiber: the new fiber joins both this.fibers and the ready queue.   *)
SpawnFiber ==
    /\ nSpawned < MaxFibers
    /\ nSpawned' = nSpawned + 1
    /\ gen' = [gen EXCEPT ![nSpawned + 1] = "start"]
    /\ ready' = Append(ready, Entry(nSpawned + 1, NoVal))

MainSpawn ==
    /\ pc = "body"
    /\ SpawnFiber
    /\ verdict' = "none"
    /\ UNCHANGED <<outcome, running, inScheduler, steps, ops, got, chanVars,
                   pc, awaited, runs, surfaced>>

(* pump()'s prologue: the latch is taken and the counter starts afresh.    *)
EnterPump(caller, f) ==
    /\ ~inScheduler
    /\ inScheduler' = TRUE
    /\ steps' = 0
    /\ pc' = caller
    /\ awaited' = f
    /\ verdict' = "none"
    /\ UNCHANGED <<nSpawned, ready, gen, outcome, running, ops, got, chanVars,
                   runs, surfaced>>

CallDrain == pc = "body" /\ EnterPump("draining", None)

CallAwait == pc = "body" /\ \E f \in Born : EnterPump("awaiting", f)

(* The body falls off its end or reports at top level: with fibers, run()  *)
(* pumps them before it returns.                                           *)
EndBody ==
    /\ pc = "body"
    /\ \/ nSpawned > 0 /\ EnterPump("ending", None)
       \/ /\ nSpawned = 0
          /\ pc' = "idle" /\ verdict' = "ok"
          /\ UNCHANGED <<nSpawned, ready, gen, outcome, running, inScheduler,
                         steps, ops, got, chanVars, awaited, runs, surfaced>>

(* An uncaught error of the body leaves run() at once: no pump, no check.  *)
FailBody ==
    /\ pc = "body"
    /\ pc' = "idle" /\ verdict' = "failed"
    /\ UNCHANGED <<nSpawned, ready, gen, outcome, running, inScheduler, steps,
                   ops, got, chanVars, awaited, runs, surfaced>>

-----------------------------------------------------------------------------
(* The pump loop.                                                          *)

Pumping == inScheduler /\ running = None

(* Bugs: the budget is compared one step late; the value of the entry is   *)
(* not passed to gen.next; the steps are not counted.                      *)
Resume(f, bound, counted) ==
    /\ running' = f
    /\ gen' = [gen EXCEPT ![f] = "running"]
    /\ got' = IF gen[f] = "recv" /\ bound
              THEN [got EXCEPT ![f] = Append(@, Head(ready).val)]
              ELSE got
    /\ ready' = Tail(ready)
    /\ steps' = steps + counted
    /\ UNCHANGED <<nSpawned, outcome, inScheduler, ops, chanVars, mainVars>>
Dispatch_BugLosesValue ==
    /\ Pumping /\ ready # << >> /\ steps < StepCap
    /\ Resume(Head(ready).fiber, FALSE, 1)
Dispatch_BugUncounted ==
    /\ Pumping /\ ready # << >> /\ steps < StepCap
    /\ Resume(Head(ready).fiber, TRUE, 0)

(* this.ready.shift() and gen.next(val): a fiber parked in a take binds    *)
(* the value it is resumed with.  An entry of a finished fiber would be    *)
(* dropped, value and all.                                                 *)
Dispatch ==
    /\ Pumping /\ ready # << >> /\ steps < StepCap
    /\ LET f == Head(ready).fiber IN
         \/ Done(f) /\ UNCHANGED <<running, gen, got>>
         \/ /\ ~Done(f)
            /\ running' = f
            /\ gen' = [gen EXCEPT ![f] = "running"]
            /\ got' = IF gen[f] = "recv"
                      THEN [got EXCEPT ![f] = Append(@, Head(ready).val)]
                      ELSE got
    /\ ready' = Tail(ready)
    /\ steps' = steps + 1
    /\ UNCHANGED <<nSpawned, outcome, inScheduler, ops, chanVars, mainVars>>

(* Bug: an error that has surfaced is forgotten, so the fiber looks fine.  *)
LeavePump_Bug(how, errs) ==
    /\ inScheduler' = FALSE
    /\ awaited' = None
    /\ verdict' = how
    /\ surfaced' = surfaced \cup errs
    /\ outcome' = [f \in Fiber |-> IF f \in errs THEN "returned" ELSE outcome[f]]
    /\ pc' = IF pc = "ending" THEN "idle" ELSE "body"
    /\ UNCHANGED <<nSpawned, ready, gen, running, steps, ops, got, chanVars,
                   runs>>

(* How the call that pumped ends.  finally frees the latch on every path.  *)
(* A thrown error is rescued by the body (drain and await may sit in an    *)
(* attempt) or leaves run().                                               *)
LeavePump(how, errs) ==
    /\ inScheduler' = FALSE
    /\ awaited' = None
    /\ verdict' = how
    /\ surfaced' = surfaced \cup errs
    /\ \/ how = "ok" /\ pc' = IF pc = "ending" THEN "idle" ELSE "body"
       \/ how # "ok" /\ pc # "ending" /\ pc' = "body"
       \/ how # "ok" /\ pc' = "idle"
    /\ UNCHANGED <<nSpawned, ready, gen, outcome, running, steps, ops, got,
                   chanVars, runs>>

(* ++steps > cap: thrown before the shift, so the queue keeps its fibers.  *)
BudgetSpent ==
    /\ Pumping /\ ready # << >> /\ steps >= StepCap
    /\ LeavePump("budget", {})

(* Bug: only unfinished fibers are looked for; a failed one is done too.   *)
CheckAll_Bug ==
    /\ Pumping /\ ready = << >> /\ pc \in {"draining", "ending"}
    /\ LeavePump(IF Live # {} THEN "deadlock" ELSE "ok", {})

(* checkAllFibersDone, after a drain and at the end of the program: the    *)
(* error of the first failed fiber, then any deadlock.                     *)
CheckAll ==
    /\ Pumping /\ ready = << >> /\ pc \in {"draining", "ending"}
    /\ \/ \E f \in Born :
            /\ Failed(f) /\ \A g \in Born : Failed(g) => f <= g
            /\ LeavePump("error", {f})
       \/ /\ ~ \E f \in Born : Failed(f)
          /\ Live # {}
          /\ LeavePump("deadlock", {})
       \/ /\ ~ \E f \in Born : Failed(f)
          /\ Live = {}
          /\ LeavePump("ok", {})

(* Bug: await gives up while other fibers can still run.                   *)
CheckAwaited_Bug ==
    /\ Pumping /\ pc = "awaiting"
    /\ ~Done(awaited) /\ LeavePump("deadlock", {})

(* await: only the awaited fiber decides.                                  *)
CheckAwaited ==
    /\ Pumping /\ ready = << >> /\ pc = "awaiting"
    /\ \/ Failed(awaited) /\ LeavePump("error", {awaited})
       \/ ~Failed(awaited) /\ Done(awaited) /\ LeavePump("ok", {})
       \/ ~Done(awaited) /\ LeavePump("deadlock", {})

-----------------------------------------------------------------------------
(* The fiber that has control.                                             *)

Operate(f) ==
    /\ running = f /\ ops < MaxOps
    /\ ops' = ops + 1

NewValue(f, c) == <<f, c, ops + 1>>

(* Bug: the last receiver that came is woken.                              *)
GiveToReceiver_BugLast(f, c) ==
    /\ Operate(f)
    /\ recvW[c] # << >>
    /\ LET n == Len(recvW[c]) IN
         /\ ready' = Append(ready, Entry(recvW[c][n], NewValue(f, c)))
         /\ recvW' = [recvW EXCEPT ![c] = SubSeq(@, 1, n - 1)]
    /\ given' = [given EXCEPT ![c] = Append(@, NewValue(f, c))]
    /\ taken' = [taken EXCEPT ![c] = Append(@, NewValue(f, c))]
    /\ UNCHANGED <<nSpawned, buf, sendW, gen, outcome, running, inScheduler,
                   steps, got, mainVars>>

(* give, a receiver waiting: the value goes straight to the receiver.      *)
GiveToReceiver(f, c) ==
    /\ Operate(f)
    /\ recvW[c] # << >>
    /\ ready' = Append(ready, Entry(Head(recvW[c]), NewValue(f, c)))
    /\ recvW' = [recvW EXCEPT ![c] = Tail(@)]
    /\ given' = [given EXCEPT ![c] = Append(@, NewValue(f, c))]
    /\ taken' = [taken EXCEPT ![c] = Append(@, NewValue(f, c))]
    /\ UNCHANGED <<nSpawned, buf, sendW, gen, outcome, running, inScheduler,
                   steps, got, mainVars>>

(* give, room in the buffer.                                               *)
GiveToBuffer(f, c) ==
    /\ Operate(f)
    /\ recvW[c] = << >> /\ Len(buf[c]) < Cap[c]
    /\ buf' = [buf EXCEPT ![c] = Append(@, NewValue(f, c))]
    /\ given' = [given EXCEPT ![c] = Append(@, NewValue(f, c))]
    /\ UNCHANGED <<nSpawned, ready, recvW, sendW, taken, gen, outcome, running,
                   inScheduler, steps, got, mainVars>>

(* give on a full channel: the fiber suspends and pump parks it with its   *)
(* value; whoever frees a slot will buffer the value.                      *)
ParkSender(f, c) ==
    /\ Operate(f)
    /\ recvW[c] = << >> /\ Len(buf[c]) >= Cap[c]
    /\ sendW' = [sendW EXCEPT
                   ![c] = Append(@, [fiber |-> f, value |-> NewValue(f, c)])]
    /\ given' = [given EXCEPT ![c] = Append(@, NewValue(f, c))]
    /\ gen' = [gen EXCEPT ![f] = "send"]
    /\ running' = None
    /\ UNCHANGED <<nSpawned, ready, buf, recvW, taken, outcome, inScheduler,
                   steps, got, mainVars>>

(* Bug: the parked sender's value overtakes the buffer.                    *)
WakeSender(c) ==
    /\ sendW[c] # << >>
    /\ sendW' = [sendW EXCEPT ![c] = Tail(@)]
    /\ ready' = Append(ready, Entry(Head(sendW[c]).fiber, NoVal))
TakeFromBuffer_BugOvertakes(f, c) ==
    /\ Operate(f)
    /\ buf[c] # << >>
    /\ LET v == Head(ValuesOf(sendW[c]) \o buf[c]) IN
         /\ got' = [got EXCEPT ![f] = Append(@, v)]
         /\ taken' = [taken EXCEPT ![c] = Append(@, v)]
    /\ \/ WakeSender(c) /\ UNCHANGED buf
       \/ /\ sendW[c] = << >>
          /\ buf' = [buf EXCEPT ![c] = Tail(@)]
          /\ UNCHANGED <<ready, sendW>>
    /\ UNCHANGED <<nSpawned, recvW, given, gen, outcome, running, inScheduler,
                   steps, mainVars>>

(* take from a non-empty buffer; a freed slot admits a parked sender.      *)
TakeFromBuffer(f, c) ==
    /\ Operate(f)
    /\ buf[c] # << >>
    /\ got' = [got EXCEPT ![f] = Append(@, Head(buf[c]))]
    /\ taken' = [taken EXCEPT ![c] = Append(@, Head(buf[c]))]
    /\ \/ /\ sendW[c] = << >>
          /\ buf' = [buf EXCEPT ![c] = Tail(@)]
          /\ UNCHANGED <<ready, sendW>>
       \/ /\ sendW[c] # << >>
          /\ buf' = [buf EXCEPT ![c] = Append(Tail(@), Head(sendW[c]).value)]
          /\ sendW' = [sendW EXCEPT ![c] = Tail(@)]
          /\ ready' = Append(ready, Entry(Head(sendW[c]).fiber, NoVal))
    /\ UNCHANGED <<nSpawned, recvW, given, gen, outcome, running, inScheduler,
                   steps, mainVars>>

(* take from an empty buffer: the fiber suspends and pump parks it.        *)
ParkReceiver(f, c) ==
    /\ Operate(f)
    /\ buf[c] = << >>
    /\ recvW' = [recvW EXCEPT ![c] = Append(@, f)]
    /\ gen' = [gen EXCEPT ![f] = "recv"]
    /\ running' = None
    /\ UNCHANGED <<nSpawned, ready, buf, sendW, given, taken, outcome,
                   inScheduler, steps, got, mainVars>>

(* Bug: the fiber that yields goes to the front.                           *)
Yield_Bug(f) ==
    /\ running = f
    /\ ready' = <<Entry(f, NoVal)>> \o ready
    /\ gen' = [gen EXCEPT ![f] = "yield"]
    /\ running' = None
    /\ UNCHANGED <<nSpawned, outcome, inScheduler, steps, ops, got, chanVars,
                   mainVars>>

(* yield: to the back of the ready queue.                                  *)
Yield(f) ==
    /\ running = f
    /\ ready' = Append(ready, Entry(f, NoVal))
    /\ gen' = [gen EXCEPT ![f] = "yield"]
    /\ running' = None
    /\ UNCHANGED <<nSpawned, outcome, inScheduler, steps, ops, got, chanVars,
                   mainVars>>

(* spawn inside a fiber.                                                   *)
FiberSpawn(f) ==
    /\ Operate(f)
    /\ SpawnFiber
    /\ UNCHANGED <<outcome, running, inScheduler, steps, got, chanVars,
                   mainVars>>

(* The generator ends: it returns (a report, or the end of its body) or    *)
(* throws.                                                                 *)
(* A throw covers a failed statement, exhausted fuel, a channel operation  *)
(* in a called agent, and pump()'s refusal of a drain or await made inside *)
(* a fiber; if the fiber rescues it, it simply keeps control.              *)
Finish(f, how) ==
    /\ running = f
    /\ how \in {"returned", "error"}
    /\ outcome' = [outcome EXCEPT ![f] = how]
    /\ gen' = [gen EXCEPT ![f] = "closed"]
    /\ running' = None
    /\ UNCHANGED <<nSpawned, ready, inScheduler, steps, ops, got, chanVars,
                   mainVars>>

-----------------------------------------------------------------------------
ChannelStep(f) == \E c \in Channel :
    \/ GiveToReceiver(f, c) \/ GiveToBuffer(f, c) \/ ParkSender(f, c)
    \/ TakeFromBuffer(f, c) \/ ParkReceiver(f, c)

FiberStep(f) ==
    \/ ChannelStep(f) \/ Yield(f) \/ FiberSpawn(f)
    \/ \E how \in {"returned", "error"} : Finish(f, how)

(* The host makes no further call.                                         *)
Quit == pc = "idle" /\ runs = MaxRuns /\ UNCHANGED vars

MainStep == StartRun \/ MainSpawn \/ CallDrain \/ CallAwait \/ EndBody \/ FailBody
            \/ Quit

PumpStep == Dispatch \/ BudgetSpent \/ CheckAll \/ CheckAwaited

Next == MainStep \/ PumpStep \/ \E f \in Fiber : FiberStep(f)

Spec == Init /\ [][Next]_vars

(* Fairness: the one thread runs on.  The loop of pump() never rests, and  *)
(* the code of a fiber between two suspensions comes to an end (fuel       *)
(* bounds it when maxSteps is set).  Nothing is assumed of the main        *)
(* program.                                                                *)
FairSpec ==
    /\ Spec
    /\ WF_vars(PumpStep)
    /\ WF_vars(\E f \in Fiber : FiberStep(f))

-----------------------------------------------------------------------------
(* What the channels promise whatever their capacity and however often     *)
(* fibers park: ChannelContract, an unbounded queue per channel.           *)
Contract == INSTANCE ChannelContract WITH
    Party <- Fiber,
    pending <- [c \in Channel |-> Pending(c)],
    waiting <- recvW,
    delivered <- taken
ChannelsKeepContract == Contract!Spec

FiberTypes ==
    /\ nSpawned \in 0..MaxFibers
    /\ ready \in Seq([fiber : Fiber, val : Value \cup {NoVal}])
    /\ gen \in [Fiber -> {"none", "start", "running", "yield", "recv", "send",
                          "closed"}]
    /\ outcome \in [Fiber -> {"none", "returned", "error"}]
    /\ ops \in 0..MaxOps
    /\ got \in [Fiber -> Seq(Value)]

ChannelTypes ==
    /\ buf \in [Channel -> Seq(Value)]
    /\ recvW \in [Channel -> Seq(Fiber)]
    /\ sendW \in [Channel -> Seq([fiber : Fiber, value : Value])]
    /\ given \in [Channel -> Seq(Value)]
    /\ taken \in [Channel -> Seq(Value)]

ControlTypes ==
    /\ running \in Fiber \cup {None}
    /\ inScheduler \in BOOLEAN
    /\ steps \in 0..StepCap
    /\ pc \in {"idle", "body", "draining", "awaiting", "ending"}
    /\ awaited \in Fiber \cup {None}
    /\ verdict \in {"none", "ok", "error", "deadlock", "budget", "failed"}
    /\ runs \in 0..MaxRuns
    /\ surfaced \in SUBSET Fiber

TypeOK == FiberTypes /\ ChannelTypes /\ ControlTypes

-----------------------------------------------------------------------------
(* Every fiber that is neither running nor finished waits in exactly one   *)
(* place, once: the ready queue, or the receivers or senders of a single   *)
(* channel.  A fiber woken twice, or parked while queued, breaks it; so    *)
(* does one that nobody can ever reach again (interpreter.js:713-734,      *)
(* 811-823).                                                               *)
OnePlace ==
    /\ DistinctFibers(ready)
    /\ \A c \in Channel :
         /\ Distinct(recvW[c])
         /\ DistinctFibers(sendW[c])
         /\ Receivers(c) \cap Senders(c) = {}
         /\ Parked(c) \cap Queued = {}
         /\ \A d \in Channel \ {c} : Parked(c) \cap Parked(d) = {}
    /\ \A f \in Fiber :
         (f \in Queued \/ \E c \in Channel : f \in Parked(c)) <=> f \in Live \ {running}

(* Fibers wait on a channel only while they must: receivers only while no  *)
(* value is pending, senders only while the buffer is full, and a channel  *)
(* never holds more than its capacity (the wake-ups of give and take).     *)
WaitsOnlyIfMust(c) ==
    /\ recvW[c] # << >> => buf[c] = << >> /\ sendW[c] = << >>
    /\ sendW[c] # << >> => Len(buf[c]) = Cap[c]
    /\ Len(buf[c]) <= Cap[c]
WaitersJustified == \A c \in Channel : WaitsOnlyIfMust(c)

(* CONCURRENCY.md: delivery is FIFO.  The values that left a channel, then *)
(* the buffer, then the values of the parked senders are exactly the       *)
(* values given, in the order of the gives.                                *)
ChannelFIFO == \A c \in Channel : given[c] = taken[c] \o Pending(c)

(* CONCURRENCY.md: delivery is exactly-once.  Every value that left a      *)
(* channel was bound by one take, once, or is on its way in one entry of   *)
(* the ready queue; nothing else is delivered.                             *)
InTransit == {i \in DOMAIN ready : ready[i].val # NoVal}
Bound     == UNION {{<<f, i>> : i \in DOMAIN got[f]} : f \in Fiber}
ExactlyOnce ==
    LET left == UNION {{taken[c][i] : i \in DOMAIN taken[c]} : c \in Channel}
        here == {ready[i].val : i \in InTransit}
        bound == {got[b[1]][b[2]] : b \in Bound}
    IN /\ here \cup bound = left
       /\ here \cap bound = {}
       /\ Cardinality(bound) = Cardinality(Bound)
       /\ Cardinality(here) = Cardinality(InTransit)

(* A receiver binds the values of one sender on one channel in the order   *)
(* the sender gave them, whether they came through the buffer, by direct   *)
(* hand-off or from a parked sender.                                       *)
ReceiverOrder == \A f \in Fiber : \A i, j \in DOMAIN got[f] :
    (i < j /\ got[f][i][1] = got[f][j][1] /\ got[f][i][2] = got[f][j][2])
        => got[f][i][3] < got[f][j][3]

(* A deadlock is reported to the program only when there is one: nobody is *)
(* ready, nobody runs, and every unfinished fiber is parked on a channel   *)
(* that no parked fiber could unblock (interpreter.js:829, builtins:350).  *)
DeadlockIsReal == verdict = "deadlock" =>
    /\ Live # {} /\ ready = << >> /\ running = None
    /\ \A f \in Live : \E c \in Channel :
         \/ f \in Receivers(c) /\ buf[c] = << >> /\ sendW[c] = << >>
         \/ f \in Senders(c) /\ Len(buf[c]) = Cap[c] /\ recvW[c] = << >>

(* A run that returns normally leaves no failed, parked or queued fiber    *)
(* behind, even one an earlier run started (interpreter.js:214-217).       *)
NoSilentFailure == (pc = "idle" /\ verdict = "ok") =>
    /\ \A f \in Born : outcome[f] = "returned"
    /\ ready = << >> /\ \A c \in Channel : Parked(c) = {}

(* The latch is held exactly while a call of the main program pumps, on    *)
(* every way out of the pump, and a fiber runs only under it.              *)
LatchHeld ==
    /\ inScheduler <=> pc \in {"draining", "awaiting", "ending"}
    /\ running # None => inScheduler

(* What the invariants above rest on, and the code never states: the       *)
(* fiber that runs is alive, an unspawned one is untouched, a fiber is     *)
(* resumed with a value exactly when its generator stands at a take, and a *)
(* verdict is only read when nothing pumps.                                *)
Bookkeeping ==
    /\ running # None => running \in Live
    /\ \A f \in Fiber \ Born : outcome[f] = "none"
    /\ pc = "awaiting" => awaited \in Born
    /\ inScheduler => verdict = "none"
    /\ \A e \in Elements(ready) :
         IF gen[e.fiber] = "recv" THEN e.val \in Value ELSE e.val = NoVal
    /\ \A c \in Channel :
         /\ \A f \in Receivers(c) : gen[f] = "recv"
         /\ \A f \in Senders(c) : gen[f] = "send"

(* The inductive invariant.                                                *)
IInv ==
    /\ TypeOK /\ LatchHeld /\ Bookkeeping
    /\ OnePlace /\ WaitersJustified /\ ChannelFIFO
    /\ DeadlockIsReal /\ NoSilentFailure

(* The ready queue is fair: no queued fiber is ever overtaken, so one at   *)
(* position k is resumed after at most k - 1 others (interpreter.js:810).  *)
Behind(f) == {i \in DOMAIN ready : \A j \in 1..i : ready[j].fiber # f}
NoOvertaking == [][\A f \in Fiber :
    (f \in Queued /\ f \in Queued') => Cardinality(Behind(f)') <= Cardinality(Behind(f))]_vars

(* A fiber's outcome is settled once: later waking, pumping or draining    *)
(* never runs a finished fiber again nor changes what await sees.          *)
Settled == \A f \in Fiber : Done(f) =>
    /\ outcome'[f] = outcome[f] /\ got'[f] = got[f]
    /\ running' # f
OutcomeSettled == [][Settled]_vars

(* A runaway fiber errors and never hangs: every drain, await or program   *)
(* end that starts to pump hands control back (interpreter.js:804-809).    *)
PumpReturns == inScheduler ~> ~inScheduler
=============================================================================
