# Myxo, modelled and checked

Myxo (`src/`) is a small scripting language on Node.js: a synchronous
tree-walking interpreter with a capability fence, memoization of pure agents,
learning routers, and three kinds of concurrency (cooperative fibers, parallel
workers behind an Atomics barrier, and a live bridge to asynchronous tools).
This directory holds TLA+ specifications of its stateful parts, TLC
configurations that check them on small instances, and proofs checked by TLAPS.

## Inventory

| Part | State | Operations | What is hard | What makes it correct |
|---|---|---|---|---|
| Fiber scheduler and channels (`interpreter.js` 189-190, 667-834; `builtins.js` 335-351) | `fibers`, `ready`, `inScheduler`; per channel `buf`, `recvW`, `sendW` | `spawn`, `give`, `take`, `yield`, `pump`, `drain`, `await`, the drain at program end | interleaving of fibers, hand-off by three paths, step budget, several programs on one interpreter | exactly-once FIFO delivery, no lost wake-up, a deadlock verdict that is true, no failure lost, the pump always returns |
| Gather barrier (`myxo-concurrent.js`, `myxo-par-worker.js`) | shared counter, one port per worker, deadline | start workers, wait, time out, drain the ports, clean up | lost wake-up, hard worker death, late message, timeout racing the last tick | one outcome per task in task order, never hangs, always cleans up |
| Live bridge (`myxo-live.js`, `myxo-live-worker.js`) | `signal`, the port's queues, `settled`, timer | call, answer, wake, done, error, exit, timeout | promise settled once by four racing callbacks, handshake over shared memory, result that cannot be cloned | an answer reaches the call that asked, the audit survives, the promise settles |
| Capability fence (`interpreter.js` 836-928, 331-340; `myxo-run.js`) | manifest, `capSpent`, `capCalls`, `audit` | `needs`, a capability call | re-entrant natives, check before and count after, failing calls | limits hold, every call and refusal is on the ledger |
| Memoization (`interpreter.js` 929-1001, 246-253, 450-477) | `memo`, `frames`, `epoch` | call, taint, global write, declaration | taint through nested calls, invalidation | a hit returns what a fresh call would |
| Router and Physarum scheduler (`builtins.js` 33-155, 284-330) | `routes`, `pools`: `cond`, `credit` | `route`, `schedule`, failover | starvation, partial failure, a provider that calls its own route | every item once, in order; every provider explored; a denial is not routed around |
| Weaving (`interpreter.js` 322-335, 1045-1072) | `moduleCache`, `moduleInProgress`, `exportStack`, `dirStack` | `weave`, `expose` | cycles, modules that fail half way, errors and reports that unwind through them | a module is loaded once and stays so; the stacks mirror what is being run |
| Lane locks (`tools/lane.js`) | one lock file per path | claim, check, release, clear-stale | check-then-act between processes, partial claims | mutual exclusion, all or nothing |
| Receipts (`receipt.js`) | hash chain | chain, seal, verify | truncation, reordering | an edited ledger does not verify |
| MCP framing and server (`mcp-framing.js`, `mcp-server.js`) | `_buf`, the handlers under way | push, handle | lines split and merged by chunks, a line that is no JSON, handlers that end in any order | each request that comes through is answered once |
| Language server (`myxo-lsp.js`) | `docs`, the bytes not yet taken | open, change, close, ask, shut down | messages cut anywhere, broken headers and bodies between good ones | the server has the editor's texts; an answer is about the text that was asked about |
| Test runner (`myxo.js` 94-104, 199-234; `interpreter.js` 354-408) | `testResults`, `inTest` | test, expect, expect to fail | errors and failed expectations in modules, fibers, rescued blocks and routers | a green file has no failed expectation |
| Parser and formatter (`parser.js`, `format.js`) | the position in the tokens; the tree | parse, format | precedence, statements without end marks, words that are names elsewhere | what is printed is the program that was parsed |
| Statements and calls (`interpreter.js` 55-88, 203-355, 517-629, 929-1003) | Environments, the JavaScript stack | declare, assign, call, branch, report, fail, rescue | no hoisting: what a name means depends on when it is looked up | lexical scoping, unwinding to the right place |
| Plan analysis (`myxo-plan.js`) | the names visible so far, and in the whole scope | plan | code that runs at once and bodies that run later see different names | lists every foreign name that is called, and no own one |
| Lexer, polyglot bridge, `mcp-bridge.js`, std, evals, docs | none that outlives a call | | | |

The parts interact through the interpreter: builtins call back into it
(`callValue`), the fence and the memo layer sit on every call, fibers run the
same statements as the main program, tests, modules and routers are frames of one
recursion, the gather and live workers each run an interpreter of their own in a
thread (and a live script may itself gather), the servers run sources for others.

## Modules and the code

Operators whose name ends in `_Bug` are mistaken versions of the definition
after them; no action uses them. They are what a run's property was tried
against: with the mistake in place of the definition, TLC finds it violated.
The table that follows names, for each module, what its variables and actions
are in the code; `PROJECT.json` has the lines of every definition.

### `FiberScheduler`, `ChannelContract`

One JavaScript thread. `ready`, `inScheduler`, `buf`, `recvW`, `sendW` are the
fields of the same names, `gen`, `outcome` the fields of a fiber, `pc` where the
main program stands: in its own code (`body`) or inside `drain()`, `await(f)` or
the drain at the end of `run`. A fiber keeps control from `Dispatch`
(`gen.next`) to the action by which it suspends, returns or fails; `give` is
three actions (a receiver waits, the buffer has room, the giver parks), `take`
likewise. `StartRun` is the next program on the same interpreter: it keeps the
fibers and queue of the one before. A step of the pump that exceeds the budget
throws with the latch released. `given`, `taken`, `got` record what happened,
for the properties.
`ChannelContract` is what the channels promise: an unbounded FIFO queue of
pending values. `FiberScheduler` implements it with `pending` = the buffer
followed by the values of the parked senders.

### `GatherBarrier`, `SettledRun`

`runSettled` and its workers. The parent's loop is cut where other threads can
get in between: `Test` and `Load` are its two loads of the counter, `Wait` is
`Atomics.wait` (compare and sleep in one step), `SliceEnds` the end of one wait (at
most a second, at most what is left), `TimeOut` the deadline check. A worker posts, ticks and notifies in three steps, may die
before its tick, and a posted message becomes visible later (`Deliver`).
`SettledRun`, the abstraction: tasks settle independently; the call returns all
outcomes in task order, or throws and returns none.

### `LiveBridge`, `SyncTool`

The worker's `client.call` is cut at each access to shared memory (`CallTool`
clears the word, `PostCall`, `Park`, `Read`, `GiveUp`); the host is an event loop,
so each callback with its microtasks is one action (`Receive`, `Answer`, `Done`,
`ErrorOrExit`, `Timeout`). An answer may stay invisible for the whole spin
(`GiveUp`), a result may not clone (`AnswerUncloneable`). `SyncTool` is what a
script sees: ask, perform, reply, return. The bridge implements it up to the first
answer that is late or cannot be sent: after a late answer the next call is
handed that answer as its own (`myxo-live-worker.js:20-25` takes whatever is
oldest on the port), and a call whose result does not clone sleeps until the
timer.

### `LiveGather`

The two above in one run: a live script that gathers. Its thread is the worker of
`runLive` and the parent of `runSettled` at once: while it waits for its tasks it
calls no tool and does not end (`InGather`), and between calls it is the other way
round (`OutsideGather`). The host goes on meanwhile, perhaps with a call the
script has given up; whatever ends the run ends the tasks where they are. Nothing is
said twice: the module has no state of its own.

### `CapabilityFence`, `FencedRun`

`callValue` for a host capability, in three actions where the host function
separates them: admission or refusal (manifest, per-call ceiling, total), the
function under way (`running`, a stack, since it may call an agent back), and its
end with the charge and the ledger entry. `Needs` declares; the limit declared
last is in force. `underway` is what the calls under way will have cost, and
`overlap` the most of it there was when another was admitted: by so much, and
by no more, a budget may be passed. `FencedRun` extends it with the end of the run and
`receipt.js`: chain, seal, verification, and edits by somebody else. A hash is
what it is a hash of.

### `MemoMesh`

Hot promotion. `frames` and `memo` are the interpreter's; `saw` records which
bindings a call looked at, and a cached answer is `Current` while those still
stand. The bodies of agents are left open. `Declare`, `Destructure`, `Weave`,
`Assign`, `Decay`, `Prune` are the ways a pathway is rebound, each with the
effect on the epoch that the code gives it.

`Around` says which pathways are in the scopes around each agent, and so which
data is free in it (`Free`, the code's `isLocalEnv`). An agent with a default
(`Optional`) that is called with too few arguments has no frame until they are
evaluated (`CallFills`, `Filled`): `filling` holds such calls. What their defaults
read, call and throw is held against the frame of the caller, as in
`interpreter.js:955-976`.

`Careless` admits four things the caches do not notice: a flat weave over an
agent's pathway (`weave`, `interpreter.js:328`); redeclaring a pathway of an inner
scope that holds an agent (`redeclare`, `:250`, `:295`); an agent that depends on
there being no pathway, because it rescues the error (`:527`) or finds one of the
same name further out, until one is declared (`absence`); and a default that reads data of
a scope that is not around the caller (`default`, `:960`).

### `LaneLocks`, `LaneBook`

Every command of `lane.js` is a process and every operation on a file a step:
`Create` (exclusive), `Write`, `Taken`, `ClaimEnds`, `RollbackLook`/`RollbackUnlink`,
`ReleaseLook`/`ReleaseUnlink`, `SweepStart`, `SweepLook`, `SweepUnlink`; sessions
die anywhere. `doubled` keeps the lanes that a batch named twice, whose locks a failed
batch leaves behind (below). `LaneBook` grants a batch at one moment, whole, if all its lanes
are free.

### `Physarum`, `PhysarumScheduler`, `Router`

`Physarum` is the conductance law: accrual of credit with the exploratory share,
the richest is chosen and pays, quality is averaged in, with a floor.
Conductances are whole multiples of the floor, rounded down; credits are kept
relative to the lowest. `PhysarumScheduler` is `scheduleRun`: `Schedule`, `DealItem`
(`distribute`), then the round: `RoundEnds`, `RoundBreaks` (timeout, or a worker
broke its contract), `NobodyLeft`, `Reroute` (failed chunks dealt once more to the
others with fresh credit). `Router` is `routeCall`: `CallRoute` accrues, sorts and
asks the first (`calls` holds the order and the total each call took at its
start), then `Serve`, `FailOver`, `NoneLeft`, or `Deny` when the fence refused the
provider. A provider may call the route it serves (`AskAgain`), so that the outer call
goes on by an order that is no longer the credits'. One that asks again hands on what
it is told, a denial too: that its body could rescue it is left out. `MCPhysarum` puts both on the
law they share; a behaviour is about a pool or about a route.

### `Strands`

One file run by `myxo test`, with the modules it weaves. The interpreter is a
recursion; `stack` holds its frames (program, module, agent, attempt, provider of a
route, test, expect, pump, fiber) and `flying` what is being thrown: an error, a `fail`,
a failed expectation (`NxAssertError`), a report. Each statement is an action
(`Seed`, `Expose`, `WeaveCached`, `WeaveCircular`, `WeaveLoads`, `Raise`, `Enter`,
`Test`, `Expect`, `ExpectCall`, `ExpectOutside`, `Spawn`, `Pump`), and so is what each kind of
frame does when its code ends or something is thrown into it (`ModuleEnds`,
`ModuleThrows`, `Leaves`, `Rescue`, `FailsOver`, `Passes`, `TestEnds`, `TestThrows`,
`Matches`, `FiberEnds`, `Surface`, `BodyEnds`, `BodyThrows`, `RunEnds`). Which statement comes
next is open, so all programs within the bounds are run. Fibers run one after
another, each to its end: how they interleave is `FiberScheduler`'s.

### `Parser`, `Printer`, `Formatter`

`Parser` is the recursive descent from tokens to trees, `Printer` the way back.
What a statement consists of is a table in each (`Form`, `Layout`), written from
the two files separately: nothing makes them agree but the code. `Formatter`
takes one source through parse, print and parse again. `LostAmong` says of a tree in
which ways the printer loses something of it; `MeaningKept` says that these are all
the ways there are, and that each of them does lose it.

### `Preview`, `ScopedRun`

`Preview` is `planScript`, from a tree to the names it lists. The three functions of
`myxo-plan.js` that walk the tree are the three kinds of visit (`InBody`,
`InStatement`, `InExpr`): each says what it visits next and with which names, and
`Walk` goes on until nothing is left to visit, at most `MaxTree` deep. `ScopedRun` runs such a tree the
way the interpreter does: `scopes` are its Environments (`around` says which hold
its names, `outside` which of them are outside the agent it is a part of, `due` what it
has yet to declare), `stack` stands for the
JavaScript stack (the rest of a block or body, an `attempt` in wait, a statement
waiting for a value), `signal` for a value, `ReportSignal` or `MyxoError` on its way
out. A call is `CallAgent`, then the defaults of the parameters left over, then
`Begin` with the depth check; `Deliver` hands its value to the statement.
Which branch is taken, how many rounds a loop makes, which arm matches and whether
a host function throws is open. `foreign` records each call of a capability or of
a name bound to nothing, and whether the scopes around the running agent had made
all their declarations by then; `untried` what did not run.

The preview says what it takes a name for in a scope that is complete
(`myxo-plan.js:65-70`). `PreviewSees` holds it to that; a body called earlier may
well reach a capability that the preview takes for the agent declared later. The
scripts leave out what the preview is known not to see or to see wrongly:
a capability used as a value (its own footer says so), a `decay` of an own name, a
default that calls the capability of its own parameter's name (`myxo-plan.js:85`
adds the name first, `interpreter.js:960` binds it last); and, the other way
round, a name from `take` used in an agent (`scopeDecls`, `:56-63`, leaves it out
although `:102` has it).

`NoFalseAlarm` is the other half: a preview lists no name for nothing. That cannot be
told of a part that never ran, so it is about runs in which all of the script has run,
each agent made in it was called, and every call found an agent of the script's own or
a builtin: the preview listed no name then. It is so of scripts that are `InSight`, and of
others it is not: the preview walks a block, and an agent made in it, with the names declared
before the block (`:115-131`), and a default with the parameters up to its own (`:85`), while
such an agent may be called when more names are bound around it. `InSight` says, of what the
preview itself visits, that the agents made in a block, or in a default, call no such name, and
that no assignment gives a capability's name another value. Scripts that are not in sight are
among those of the run, which fails without that condition.

### `LanguageServer`, `McpServer`, `SourceTools`

`LanguageServer` has an editor at one end of a wire and `serve` at the other. A message
is a header, a blank line and a body in two pieces; `Arrives` brings any number of pieces,
`SkipHeader` drops a header without a length, and there is one action for each thing `handle`
does with a message (`DidOpen`, `DidChange`, `DidClose`, `Answer`, `Shutdown`, `Exit`,
`Refuse`, `Ignore`). Diagnostics, hover, completion and formatting are functions of a
text, and the text stands for them. `McpServer` is `MessageBuffer` with
`handleMessage`: `PushChunk` takes the lines of a chunk until one is no JSON,
`HandlerEnds` in any order. `SourceTools` puts `MCFormatter`, `ScopedRun` and the two
servers side by side for one run: a behaviour is about a source formatted, a script
previewed and run, a session of an editor, or a client of tools.

## Runs

| Run | Instance | What it shows |
|---|---|---|
| `fibers` | 3 fibers, one channel of capacity 1, 4 operations, step budget 3 | values exactly once, one sender's in order, verdicts true, no overtaking, an outcome stays, the channel contract implemented |
| `fibers_two_runs` | 2 fibers, 2 channels of capacity 1 and 2, 3 operations, 2 programs | the whole inductive invariant (each fiber in one place, waiters only where they must wait, FIFO) with left-over fibers of an earlier program, and that every pump returns |
| `live_gather` | 2 calls, a gather of 2 tasks between them | no early drain, no lost wake-up that matters, the gather always ends and implements `SettledRun`; parked worker served, calls return, tools look synchronous, one settlement, complete ledger |
| `live_audit` (violated) | 2 calls | the timer's audit is empty |
| `memo` | a global agent and an inner one with a default, one global and one inner pathway, nothing careless | no stale answer |
| `memo_weave` (violated) | the same, flat weaves allowed | a stale answer is served |
| `fenced_run` | one capability metered by count, one by value that calls back, amounts of 2 under limits of 2, 2 declarations, 3 calls, 1 edit | budgets but for what was under way, ledger, receipt |
| `lanes` | 3 sessions, 1 sweeper, 2 lanes alone, together in both orders, or one named twice, 5 commands | mutual exclusion, all or nothing, the book implemented |
| `schedule` | 2 workers, batches of 1 or 3 items, 2 qualities, failures, hangs, malformed results; or 2 providers, 2 speeds, failures, denials, calls 3 deep; one change of somebody's ways | every item once; a denial ends the call, and a call fails only if all did; nobody starved, the faster ends higher |
| `strands` | a test file and 2 modules, one name, 6 statements, 5 frames | stacks and test record mirror what is run, a loaded module stays loaded, green is green |
| `source_tools` | about 25 000 sources and 50 000 scripts, below; 2 nested calls, 6 scopes; 3 messages of an editor over 2 documents and 2 texts; 4 lines of a client | parsed as meant, meaning kept but where it is known to be lost, what plan lists is what is called; the editor's texts and answers; each request answered once |
| `formatter_heads` (violated) | `gather`, `dispatch`, `spawn` in parentheses, then indexed or called | grouping lost |

The bounds are small, and enough for the cases that matter: three fibers on one
slot give a full buffer with a parked sender and a second one behind it, and two
fibers on two channels give crossed waits. Two tasks let one die or be late while the
other is on time, and two calls let the first one's late answer be mistaken for the
second's, with or without a gather between them. In `memo` depth 2 and promotion after one call
is enough for a nested call to taint or invalidate its caller, one invalidation
to tell an old epoch from a new one, two cached answers for one to be put beside another, and one
call without a frame for a default to read and to call in its caller's. Three calls in `fenced_run` let two be admitted
inside the third, which has not been charged. Three sessions over two lanes in opposite orders give
claims that meet in the middle, with a third who may be swept. Three items over two
workers leave a remainder in every division; three calls of a route, each in a provider
of the last, leave two of them with an order and a total from before. Five frames hold an expectation in a
provider in a test in a module, six statements are a module that fails and is woven again by
another, or a test, a fiber and what awaits it; two modules make a cycle that does not
pass through the program. Three messages are one document opened, changed and asked about with
the cut anywhere, or something broken between two good ones; four lines put a bad one
between others in one chunk or in several.

`source_tools` runs over three families of sources: some 10 000 expressions with explicit
parentheses (two levels of every form; three of the operators), whose meaning
is what the parentheses say; chains of three operators with none, whose meaning
`MCFormatter!Meaning` gives without a parser (the last of the loosest operators
is applied last); and pairs of 52 statements one after another in a program, an agent
and the branches of a `when`, where only the round trip is checked. Meaning is lost in
four ways, all of them among the sources: by the prefix forms of `formatter_heads`; by
`report void` or `fail "failed"` before another statement, printed as a bare
`report` or `fail` that takes that statement for its value (`format.js:107-111`); by
`expect x is (not y)`, printed as `expect x is not y`, the opposite (`format.js:136`,
`parser.js:308-311`); and by `expect x to fail` before a statement in parentheses that begins
with the name `with` (`format.js:138`, `parser.js:315`). Its scripts are made of one
capability, `pay`, and a name `f`, each called, declared, seeded or assigned in
every order: four such statements in a row; agents in agents that are called,
reported and called again; parameters with defaults, too few and too many arguments,
pipes; and every kind of block. Two nested calls let an agent run inside another
and its recursion hit the limit; six scopes hold two rounds of a loop in a call.

Deadlock checking is off where the system may really stop: a settled run
(`live_gather`, `live_audit`), a file that has been run (`strands`), formatted, scripted
or talked over (`source_tools`, `formatter_heads`), and where the bounds on what programs do
stop the model (`memo`, `memo_weave`, `fenced_run`, `lanes`). It is on in the two runs of
the fibers and in `schedule`.

### Fairness

- `FiberScheduler!FairSpec` (`fibers_two_runs`): the steps of the pump, and of the fiber
  that runs, are taken. One thread runs them and nothing else can; the step budget then
  bounds the pump. Nothing is assumed of the main program.
- `LiveGather!LiveGatherSpec`: the script's thread runs on, in its gather and out of
  it, time passes (slice, deadline), and the host's tools answer. Nothing is assumed of the tasks, which may
  compute for ever or die, nor of the run's timer, so neither `GatherEnds` nor `CallsReturn` leans
  on them.
- `MCPhysarum!MeshSpec`: a batch or a route call that is under way goes on, and the
  program that makes them makes more. What happens again and again is promised only
  to a pool that is scheduled, or a route that is called, for ever (`KeepsScheduling`,
  `KeepsRouting`).

`strands`, `lanes`, `memo`, `fenced_run` and `source_tools` are about safety and assume nothing.

## Proofs

TLAPS proves the following for every value of the constants that the modules'
assumptions admit. In each, an inductive invariant (`IInv` where the module names
one) is shown to hold initially and to be kept by each action in a step of its own;
the other theorems follow from it. Every one was checked with TLC first.

| Module | Theorems | Argument |
|---|---|---|
| `FiberScheduler_proofs` | `Invariance`, `TypeCorrect`, `FibersInOnePlace`, `NobodyWaitsInVain`, `DeliveryIsFIFO`, `DeadlockVerdictSound`, `CleanReturnSound`, `OutcomesAreSettled`, `ChannelsImplementContract` | `OnePlace` alone is not inductive: it needs to know that the fiber that runs is alive and in no queue, that a receiver's generator stands at a take and a sender's at a give, that the latch is held exactly while something pumps (`Bookkeeping`, `LatchHeld`), and `WaitsOnlyIfMust`, which makes the wake-ups right |
| `FiberScheduler_proofs` | `DeliveryInvariant`, `DeliveredExactlyOnce`, `ReceivedInOrder`, `NobodyOvertakes` | on top of the above: for delivery, a step does nothing, hands a value to a waiting receiver, takes one from the buffer, or resumes the fiber it was handed to. Gives are numbered, and a channel is FIFO, so what leaves it is newer than all that has left it; it can be in no other place, and comes after whatever its fiber has |
| `LiveGather_proofs` | of the gather: `TypeCorrect`, `Barrier`, `NoLostWakeup`, `ImplementsSettledRun` | the counter is the number of workers that have ticked, and a worker ticks after it has posted; so a full counter means that all have posted |
| `LiveGather_proofs` | of the bridge: `NobodyForgotten`, `WholeLedger`, `FirstComeSettles`, `ToolsLookSynchronous` | the one call that is out is in exactly one place (with the script, sent, being performed, stuck in a result that does not clone, or answered), and replies and ledger are in the order of the calls; until an answer is given up the port holds at most the one asked for |
| `LiveGather_proofs` | of both together: `BothStaySafe`, `BothKeepTheirPromises` | each step of the composition is a step or a stutter of each part |
| `MemoMesh_proofs` | `PromotionInvariant`, `PromotionIsInvisible` | a call held to be pure has seen only code that still stands; a cache is current or of an older epoch, and is dropped before it is used. The calls without a frame add nothing to it: what they see is the caller's, and a default of an agent's own scope does not pass for local (`default`). Assumption `Careful`: none of the four careless things is done |
| `CapabilityFence_proofs` | `FenceInvariant`, `BudgetsHold`, `LedgerTellsAll`, `BudgetsAreExact`, `ReceiptsTellTruth` | the counters are the true sums of what succeeded, and together with what is under way they fit the budget and the overlap; every call that ends makes its one entry. A hash being what it is a hash of, a head that verifies determines each body before it, link by link from the end, and the seal the head: so a verified receipt is the ledger. No assumption but for `BudgetsAreExact`: `NobodyCallsBack` (no host function calls an agent while under way), under which the overlap is nothing and the budgets hold exactly |
| `LaneLocks_proofs` | `FailedBatchesHoldNothing`, `LaneInvariant`, `HoldersAreLocked`, `LocksKeepTheBook` | what a session was told it holds and what its command has created so far are all the locks in its name (no assumption); what each living session is doing agrees with the locks; the sweeper aims only at the dead. Assumption `Orderly` of the last three: no `--force`, no session outlives the sweeper's hours, at most one sweeper |
| `Strands_proofs` | `NeverLost`, `GreenMeansGood`, `LoadsOnce` | the modules on the stack, in their order, are `dirStack` but for its first and `moduleInProgress`, each once; so a frame that is left, by its end or by what flies through it, leaves exactly what it had entered. A failed expectation has spoiled a test or the run, is still flying or held by a fiber, or was dropped by a router (`masked`) |
| `Mesh_proofs` | `RoutesRightly`, `BatchesKeepItems`, `ReturnsEveryItemOnce` | the law, first: sums, ranks and shares over any number of tubes. That an order lists every tube is a ranking, below. Then a batch: an item is settled, in one chunk, or to be dealt again. And a route: who has been asked are the first of the order that is held, and those before the last have failed. `MaxNesting` is at least 1 |
| `SourceTools_proofs` | `ServerMirrorsEditor`, `ServerAnswersInTurn`, `EveryRequestOnce` | the server is past some of the messages, and what it holds together with what is coming is exactly the pieces of the rest; its texts are those the editor had after so many messages, and its answers are the ones owed up to there. Of the client's lines likewise; a chunk is taken up to its least bad line, and each line is ahead, being handled, answered or lost |
| `SourceTools_proofs` | `PreviewTellsTruth` (of `ScopedRun`: `PreviewSees`, for every script) | each part of the script that is still to run, on the stack or in an agent that may yet be called, was visited, and with names each of which is by then bound to something of the script's own or due in a scope outside the agent; where a statement waits for a value, but for what that value will be bound to. A call that finds a capability, or nothing, so has a name the visit did not know, and the visit listed it. Assumptions: `ScriptsAssumption`, what a script is (a finite tree of the statements and expressions that are run here) and the first and the third exclusion above |
| `SourceTools_proofs` | `NoAlarmIsFalse` (of `ScopedRun`: `NoFalseAlarm`, for every script) | every call whose name the preview lists is still to come: it is in what a frame has yet to run, or in an agent that was made and not called (`Held`). For each such part, no name it is listed with is the script's own where it will run, nor about to be; and no name listed in an agent made there is ever declared around it, which is what `InSight` gives. Once the call has run its name was foreign, unless it was passed over; both are remembered. With nothing left on the stack and no agent left to call, nothing is listed. Same assumptions |

`Careful` and `Orderly` are not conveniences: without each of them TLC finds the
theorem's property violated, as described below.

The library's induction theorems are out of the provers' reach. What is recursive in
the modules above is a function on numbers (the sums of `Total`, the chunks that `Flatten` joins,
the hashes of a chain), and numbers have a least: a counterexample would have a smallest one, and `WFMin` with
`NatLessThanWellFounded` gives it, without an operator as a parameter (`LeastNumber` in
`Mesh_proofs`). One more idea is used twice, for the order of the tubes and for the
answers in turn: n things of different ranks up to n have all the ranks from 1 to n.

Only model-checked:

- all liveness (`PumpReturns`, `GatherEnds`, `CallsReturn`, `NobodyStarved`, `FasterWins`),
  which the prover cannot do;
- `ParsedAsMeant` and `MeaningKept` of `Parser`, `Printer` and `Formatter`: they are about what
  operators that recur over trees compute, and these are RECURSIVE operators.

What the preview visits is computed by recursion on the depth of the walk, as a function, so
it can be reasoned about: `ReachLeast` shows that a walk visits no more than every set has that
is closed under visits, and the proofs then use such sets only (`Within`).

## Where the code and its documents part

Shown by a run:

- `live_audit`: a run that times out resolves with an empty audit
  (`myxo-live.js:63`), and a receipt sealed over it, though calls were performed.
- `memo_weave`: a flat weave rebinds a pathway and leaves the epoch alone
  (`interpreter.js:328`).
- `formatter_heads`: `(gather ts)[0]` is printed as `gather ts[0]` (`format.js:198`).

Met while modelling, and not shown by a run:

- Of two fibers that failed only the first one's error is thrown
  (`interpreter.js:830`); the comment at 214-216 promises that failures surface.
- The caches also miss the other three `Careless` things above, and with each of them
  admitted TLC finds `ServedIsFresh` violated. Of a default, against the comment at
  `interpreter.js:940-944` and `SPEC.md:161`: with `seed f = agent(){report 0}` and
  `agent g(x){report f()}`, in `when live { seed n = 1  f = agent(a = n){report a}
  g(1) g(1) g(1)  n = 2  emit g(1) }` the read of `n` (`:960`) is held against the frame of `g`,
  for which the block is no scope around it (`:1079-1082`), so nobody is tainted, and `g`
  answers 1. Of an absence: with `agent h(){report 1}`, in `when live { agent g(){report h()}
  g() g() g()  agent h(){report 2}  emit g() }` the declaration in the block moves no epoch (`:295`),
  and `g` answers 1. Answers cached near the depth limit may differ from fresh ones
  (`interpreter.js:971`).
- A host function that calls an agent back lets calls inside it pass the budget
  before the outer one is charged (`interpreter.js:877`, `900`): `BudgetHolds` allows for
  what was under way, `BudgetsAreExact` says when that is nothing. An argument that cannot be
  stringified throws before the ledger entry is made (`interpreter.js:898`).
  `SPEC.md:81` lets the script meter by value, the code only what the host lists in
  `valueCaps` (`interpreter.js:859-897`).
- The gather's loop reads the counter twice (`myxo-concurrent.js:80-84`): a tick
  between them costs one wait; the deadline is looked at before the counter
  just loaded (`:83`).
- A result that does not clone leaves the live worker parked until the timer
  (`myxo-live.js:73`).
- Lane locks: a batch that names a lane twice fails and keeps the lock (`lane.js:74`;
  the comment at `:71` says that a failed batch holds nothing): `NothingLeftBehind` has it
  as its exception. Two sweepers, or sessions that outlive the hours, can lose a lock
  claimed between the look and the unlink (`lane.js:130`), and `--force` takes any:
  `HoldersHaveLocks` fails with two in `Sweeper`, with `LongSessions`, or with a session in `Forcing`.
  A session that dies between create and write leaves a lock that no command removes
  (`lane.js:59`).
- A batch whose round times out has already moved its credits
  (`builtins.js:123`).
- `routeCall` takes any failure of a provider for an outage, a failed `expect` included
  (`builtins.js:48-51`), though `errors.js:34-35` says that only the test runner catches
  one: the test may be green. `GreenIsGreen` keeps such failures apart (`masked`).
- A fiber that fails in one test makes the whole file a load error when the program ends,
  and the results of its other tests are not printed (`myxo.js:216-221`; `SPEC.md:122`
  promises a report per test).
- An agent that only expects may be promoted; its later calls are served and expect
  nothing, and a test of such calls fails as empty (`interpreter.js:361`, `373`).
- `expose` inside an agent that is called while another module loads exposes that
  module's name (`interpreter.js:331-334`; `README.md:230`: a strand keeps everything private
  unless *it* exposes it), and a `weave` inside an exported agent is resolved against
  the strand that is running, not the one that wove (`interpreter.js:1047`;
  `README.md:250`). A module that failed is run again when it is woven again, and the
  program itself may be woven by a module and then runs once more.
- `MessageBuffer.push` throws at a line that is no JSON and drops the messages it had
  parsed before it in the same chunk; the lines after it wait for the next chunk
  (`mcp-framing.js:22-30`; its comment at 13-14 promises complete messages as they arrive).
- `myxo plan` lists a name that is the script's own when an agent made in a block, or in a
  default, calls it and it is declared later around it (`myxo-plan.js:85`, `115-131`); the
  comment at 68-69 has a deferred body see the full scope, so that ordinary forward references
  still work.
- `fmt` changes the program in three more ways than `formatter_heads` shows, told above
  under the sources of `source_tools`: after `report void` and `fail "failed"`, of
  `expect x is (not y)`, and of `expect x to fail` before `(with)`; `format.js:2-3` has it
  format what was parsed, and guess nothing.
- `didClose` does not take back the diagnostics that were published (`myxo-lsp.js:164`).
- A plain string with `\{` in it is printed without the backslash and becomes an
  interpolation (`format.js:15`, `174`).

## Not modelled

- The lexer, interpolated strings, comments and layout of the formatter.
- The polyglot bridge: a child process started, written to and read to its end within
  one call, and a conversion of values; nothing is kept between calls. `mcp-bridge.js`
  likewise turns a catalog of tools into capabilities, which `CapabilityFence` has.
- Host allow-lists and the command fence's policies: filters without state.
  `hostKey`: file I/O. The REPL: programs one after another on one interpreter, as
  `FiberScheduler` has them; its printing, and what `flows` prints.
- `std.myx`, operators, indexing and types: sequential functions of values. Evals, docs
  and examples: not part of the program. Of the plan, its comparison with `needs` and
  its report.
- Values: what agents compute, what channels carry, what tools return are
  identities. `assertSerializable` and the
  collision of lock file names are left out. Names of dead sessions do not
  come back.

## Plan

Done: the two concurrency cores, the live bridge and its composition with a gather,
fence, receipts, memo, lanes, router and scheduler, weaving and tests, the framing of
both servers, parser, formatter and plan, with the proofs above. What is left:

1. Lanes with two sweepers, and half-written locks of the dead, have no property that
   covers them: the code promises nothing there that it keeps.
2. Interpolated strings in the lexer, and their way back through the formatter.
3. Refinements of the two servers (a register of texts, a table of requests), now that
   the invariants they need are proved.
