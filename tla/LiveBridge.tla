------------------------------ MODULE LiveBridge ------------------------------
(***************************************************************************)
(* src/myxo-live.js and src/myxo-live-worker.js: a script runs in a worker *)
(* thread and calls asynchronous tools of its host synchronously.  For     *)
(* each call the worker clears a shared word, posts the call and parks in  *)
(* Atomics.wait; the host performs the call, posts the answer, sets the    *)
(* word and notifies.  Four callbacks of the host race to settle the run:  *)
(* the worker's done, error and exit, and the timer.                       *)
(*                                                                         *)
(* The host is one event loop: each of its actions is one callback with    *)
(* its microtasks.  The worker interleaves at each access to shared state. *)
(* Only calls that reach the host are modelled; refusals of the fence      *)
(* never leave the worker (see CapabilityFence).  A run that has settled   *)
(* has closed the port and terminated the worker: the worker stops there.  *)
(***************************************************************************)
EXTENDS Integers, Sequences, FiniteSets

CONSTANT MaxCalls   \* bound: tool calls the script makes

ASSUME LiveAssumption == MaxCalls \in Nat

Call == 1..MaxCalls
NoCall == 0

VARIABLES
    wpc,       \* the worker: script, cleared, posted, asleep, reading, ended
    n,         \* calls the script has made; the current one
    signal,    \* the shared word
    inbox,     \* calls on their way to the host
    handling,  \* calls whose onCall promise is pending
    replies,   \* answers on their way to the worker: [call, how]
    ledger,    \* audit of the worker's interpreter: [call, reply, how]
    events,    \* worker events the host has not seen: done, error, exit
    settled,   \* the promise: none, done, timeout, rejected
    returned,  \* the audit the promise was resolved with
    performed, \* history: calls the host has begun to perform
    unheard,   \* history: the first call whose answer came after its spin
    unsent     \* history: calls whose result postMessage could not clone

scriptVars == <<wpc, n, ledger, unheard>>
hostVars == <<handling, settled, returned, performed, unsent>>
liveVars == <<signal, inbox, replies, events, scriptVars, hostVars>>

Entry(c, r, how) == [call |-> c, reply |-> r, how |-> how]
Logged(l) == {l[i].call : i \in DOMAIN l}
Elements(q) == {q[i] : i \in DOMAIN q}

LiveInit ==
    /\ wpc = "script" /\ n = 0 /\ signal = 0
    /\ inbox = << >> /\ handling = {} /\ replies = << >>
    /\ ledger = << >> /\ events = << >>
    /\ settled = "none" /\ returned = << >> /\ performed = {}
    /\ unheard = NoCall /\ unsent = {}

Running == settled = "none"

-----------------------------------------------------------------------------
(* The worker.                                                             *)

(* Operators named ..._Bug are what a plausible mistake would make of the  *)
(* definition that follows; no action uses them.                           *)

(* Bug: the word still holds the 1 of the last call.                       *)
CallTool_Bug ==
    /\ Running /\ wpc = "script" /\ n < MaxCalls
    /\ n' = n + 1
    /\ wpc' = "cleared"
    /\ UNCHANGED <<signal, inbox, replies, events, ledger, unheard, hostVars>>

(* client.call: Atomics.store(signal, 0, 0).                               *)
CallTool ==
    /\ Running /\ wpc = "script" /\ n < MaxCalls
    /\ n' = n + 1
    /\ signal' = 0
    /\ wpc' = "cleared"
    /\ UNCHANGED <<inbox, replies, events, ledger, unheard, hostVars>>

PostCall ==
    /\ Running /\ wpc = "cleared"
    /\ inbox' = Append(inbox, n)
    /\ wpc' = "posted"
    /\ UNCHANGED <<signal, replies, events, n, ledger, unheard, hostVars>>

(* Bugs: the worker sleeps whatever the word holds; it clears the word     *)
(* only now, after the call is out.                                        *)
Park_Bug ==
    /\ Running /\ wpc = "posted"
    /\ wpc' = "asleep"
    /\ UNCHANGED <<signal, inbox, replies, events, n, ledger, unheard, hostVars>>
Park_BugClears ==
    /\ Running /\ wpc = "posted"
    /\ wpc' = "asleep" /\ signal' = 0
    /\ UNCHANGED <<inbox, replies, events, n, ledger, unheard, hostVars>>

(* Atomics.wait(signal, 0, 0).                                             *)
Park ==
    /\ Running /\ wpc = "posted"
    /\ wpc' = IF signal = 0 THEN "asleep" ELSE "reading"
    /\ UNCHANGED <<signal, inbox, replies, events, n, ledger, unheard, hostVars>>

(* The oldest answer on the port is taken for the answer to this call.     *)
Read ==
    /\ Running /\ wpc = "reading" /\ replies # << >>
    /\ ledger' = Append(ledger, Entry(n, Head(replies).call, Head(replies).how))
    /\ replies' = Tail(replies)
    /\ wpc' = "script"
    /\ UNCHANGED <<signal, inbox, events, n, unheard, hostVars>>

(* Bug: the error leaves the call before it is logged.                     *)
GiveUp_Bug ==
    /\ Running /\ wpc = "reading"
    /\ wpc' = "script"
    /\ UNCHANGED <<signal, inbox, replies, events, n, ledger, unheard, hostVars>>

(* The spin ends and no answer, though posted, has become visible: an      *)
(* error the script can rescue.                                            *)
GiveUp ==
    /\ Running /\ wpc = "reading"
    /\ ledger' = Append(ledger, Entry(n, NoCall, "error"))
    /\ unheard' = IF unheard = NoCall /\ replies # << >> THEN n ELSE unheard
    /\ wpc' = "script"
    /\ UNCHANGED <<signal, inbox, replies, events, n, hostVars>>

(* runScript never throws: it returns, with the audit, and is posted.      *)
ScriptEnds ==
    /\ Running /\ wpc = "script"
    /\ wpc' = "ended"
    /\ events' = Append(events, "done")
    /\ UNCHANGED <<signal, inbox, replies, n, ledger, unheard, hostVars>>

(* The thread dies of something runScript cannot catch (its heap limit).   *)
WorkerDies ==
    /\ Running /\ wpc = "script"
    /\ wpc' = "ended"
    /\ \/ events' = events \o <<"error", "exit">>
       \/ events' = Append(events, "exit")
    /\ UNCHANGED <<signal, inbox, replies, n, ledger, unheard, hostVars>>

-----------------------------------------------------------------------------
(* The host.                                                               *)

(* port1's message: onCall is invoked.                                     *)
Receive ==
    /\ Running /\ inbox # << >>
    /\ handling' = handling \cup {Head(inbox)}
    /\ performed' = performed \cup {Head(inbox)}
    /\ inbox' = Tail(inbox)
    /\ UNCHANGED <<signal, replies, events, scriptVars, settled, returned, unsent>>

(* onCall's promise settles: the answer is posted, then the word is set    *)
(* and the worker notified, all unless the run has settled.                *)
Answer(c, how) ==
    /\ c \in handling /\ how \in {"result", "error"}
    /\ handling' = handling \ {c}
    /\ IF Running
       THEN /\ replies' = Append(replies, [call |-> c, how |-> how])
            /\ signal' = 1
            /\ wpc' = IF wpc = "asleep" THEN "reading" ELSE wpc
       ELSE UNCHANGED <<replies, signal, wpc>>
    /\ UNCHANGED <<inbox, events, n, ledger, unheard, settled, returned, performed, unsent>>

(* postMessage throws: the then that would set the word is skipped, and    *)
(* the rejection is unhandled (modelled: a host that survives it).         *)
AnswerUncloneable(c) ==
    /\ c \in handling /\ Running
    /\ handling' = handling \ {c}
    /\ unsent' = unsent \cup {c}
    /\ UNCHANGED <<signal, inbox, replies, events, scriptVars, settled,
                   returned, performed>>

(* Bug: the settled flag is not looked at.                                 *)
Finish_Bug(how, audit) ==
    /\ settled' = how
    /\ returned' = audit
    /\ UNCHANGED <<signal, inbox, replies, scriptVars, handling, performed, unsent>>

(* finish: whoever comes first settles the promise.                        *)
Finish(how, audit) ==
    /\ Running
    /\ settled' = how
    /\ returned' = audit
    /\ UNCHANGED <<signal, inbox, replies, scriptVars, handling, performed, unsent>>

Done ==
    /\ events # << >> /\ Head(events) = "done"
    /\ Finish("done", ledger)
    /\ events' = Tail(events)

ErrorOrExit ==
    /\ events # << >> /\ Head(events) \in {"error", "exit"}
    /\ Finish("rejected", << >>)
    /\ events' = Tail(events)

(* The timer resolves the promise, with no audit.                          *)
Timeout ==
    /\ Finish("timeout", << >>)
    /\ UNCHANGED events

-----------------------------------------------------------------------------
ScriptStep ==
    CallTool \/ PostCall \/ Park \/ Read \/ GiveUp \/ ScriptEnds \/ WorkerDies

HostStep ==
    \/ Receive \/ Done \/ ErrorOrExit
    \/ \E c \in Call : (\E how \in {"result", "error"} : Answer(c, how))
                       \/ AnswerUncloneable(c)

LiveNext == ScriptStep \/ HostStep \/ Timeout

LiveSpec == LiveInit /\ [][LiveNext]_liveVars
-----------------------------------------------------------------------------
LedgerEntry == [call : Call, reply : Call \cup {NoCall}, how : {"result", "error"}]
LiveTypeOK ==
    /\ wpc \in {"script", "cleared", "posted", "asleep", "reading", "ended"}
    /\ n \in 0..MaxCalls /\ signal \in {0, 1}
    /\ inbox \in Seq(Call) /\ handling \in SUBSET Call
    /\ replies \in Seq([call : Call, how : {"result", "error"}])
    /\ ledger \in Seq(LedgerEntry) /\ returned \in Seq(LedgerEntry)
    /\ events \in Seq({"done", "error", "exit"})
    /\ settled \in {"none", "done", "timeout", "rejected"}
    /\ performed \in SUBSET Call /\ unsent \in SUBSET Call
    /\ unheard \in Call \cup {NoCall}

(* The parked worker is never forgotten: while it sleeps, its call is on   *)
(* the way to the host or being performed, so somebody will wake it        *)
(* (myxo-live-worker.js:16-19 against myxo-live.js:68-82); or its result   *)
(* could not be cloned, and only the timer is left.                        *)
ParkedIsServed == (Running /\ wpc = "asleep") =>
    signal = 0 /\ n \in handling \cup Elements(inbox) \cup unsent
Handshake == LiveTypeOK /\ ParkedIsServed

(* A run that ends by itself hands back a ledger that names exactly the    *)
(* calls the host performed, each once.                                    *)
LedgerComplete == settled = "done" =>
    /\ Logged(returned) = performed
    /\ Len(returned) = Cardinality(performed)

(* The promise settles once, whatever the timer, done, error and exit do   *)
(* and in whatever order (myxo-live.js:50-61).                             *)
SettledOnce == [][settled # "none" => UNCHANGED <<settled, returned>>]_liveVars

(* A call returns to the script, or the run is over; the timer is not      *)
(* needed for it, unless the result could not be cloned.                   *)
CallsReturn == (wpc \in {"posted", "asleep", "reading"}) ~>
                   (wpc = "script" \/ ~Running \/ n \in unsent)

(* To the script the tools are synchronous, up to the first answer that is *)
(* late or cannot be sent: there the promise ends.  (The call after a late *)
(* answer is given that answer for its own.)                               *)
Broken == unheard # NoCall \/ unsent # {}
Upto(answers) == IF unheard = NoCall THEN answers ELSE SubSeq(answers, 1, unheard - 1)
Phase ==
    CASE ~Running \/ Broken -> "over"
      [] Running /\ ~Broken /\ wpc \in {"script", "ended"} -> "idle"
      [] Running /\ ~Broken /\ wpc \notin {"script", "ended"} /\ n \in handling
            -> "performing"
      [] Running /\ ~Broken /\ wpc \notin {"script", "ended"} /\ n \in performed \ handling
            -> "answered"
      [] OTHER -> "asked"
Tool == INSTANCE SyncTool WITH
    phase <- Phase,
    calls <- IF unheard = NoCall THEN n ELSE unheard,
    answers <- Upto([i \in DOMAIN ledger |-> ledger[i].reply])
LooksSynchronous == Tool!Spec

(* The comment at myxo-run.js:11: everything privileged lands in the audit *)
(* ledger, returned even when the run fails.  What the interpreter had     *)
(* recorded by then is in the audit the promise resolves with.             *)
AuditSurvives == settled \in {"done", "timeout"} => Logged(ledger) \subseteq Logged(returned)
=============================================================================
