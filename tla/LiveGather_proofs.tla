-------------------------- MODULE LiveGather_proofs --------------------------
(***************************************************************************)
(* Theorems about the live bridge, the gather barrier and their            *)
(* composition, for every number of calls and of tasks.                    *)
(*                                                                         *)
(* Of the bridge: a parked worker is served, a run that ends by itself has *)
(* the whole ledger, the promise settles once, and up to the first answer  *)
(* that is late or cannot be sent the script cannot tell its asynchronous  *)
(* tools from synchronous ones.  Of the composition: each of its steps is  *)
(* one step of each part, or none, so what is proved of the parts holds of *)
(* the whole.                                                              *)
(***************************************************************************)
EXTENDS LiveGather, FiniteSetTheorems, SequenceTheorems, TLAPS

(* Where the current call is: with the script; on its way to the host;     *)
(* being performed; answered, or never to be answered.                     *)
Waiting == wpc \in {"posted", "asleep"}
NotOut == wpc \in {"script", "cleared", "reading", "ended"}
              /\ inbox = << >> /\ handling = {} /\ unsent = {}
              /\ (wpc = "cleared" => signal = 0)
Sent == Waiting /\ inbox = <<n>> /\ handling = {} /\ unsent = {} /\ signal = 0
Performing == Waiting /\ inbox = << >> /\ handling = {n} /\ unsent = {} /\ signal = 0
Stuck == Waiting /\ inbox = << >> /\ handling = {} /\ unsent = {n} /\ signal = 0
Quick == wpc = "posted" /\ inbox = << >> /\ handling = {} /\ unsent = {} /\ signal = 1
OneCall == Running =>
    /\ NotOut \/ Sent \/ Performing \/ Stuck \/ Quick
    /\ wpc \notin {"script", "ended"} => n > 0
    /\ events # << >> => wpc = "ended"

(* What the host has performed and the worker has recorded.                *)
Over == wpc \in {"script", "ended"}
PerformedInTurn == Running => performed = 1..(IF wpc = "cleared" \/ inbox # << >> THEN n - 1 ELSE n)
LedgerInTurn == Running =>
    /\ Len(ledger) = IF Over THEN n ELSE n - 1
    /\ \A i \in DOMAIN ledger : ledger[i].call = i

(* What is on its way back, until an answer has been late.                 *)
RepliesInTurn == (Running /\ unheard = NoCall) =>
    /\ \A i \in DOMAIN ledger : ledger[i].reply = i
    /\ IF wpc = "reading" \/ Quick
       THEN Len(replies) = 1 /\ replies[1].call = n ELSE replies = << >>

LiveInv ==
    LiveTypeOK /\ OneCall /\ PerformedInTurn /\ LedgerInTurn /\ RepliesInTurn /\ LedgerComplete

-----------------------------------------------------------------------------
LEMMA LiveInitInv == LiveInit => LiveInv
<1> SUFFICES ASSUME LiveInit PROVE LiveInv
  OBVIOUS
<1> USE DEF LiveInit
<1>1. LiveTypeOK
  BY LiveAssumption DEF LiveTypeOK, Call, NoCall
<1>2. OneCall
  BY DEF OneCall, NotOut
<1>3. PerformedInTurn /\ LedgerInTurn
  BY DEF PerformedInTurn, LedgerInTurn, Over
<1>4. RepliesInTurn /\ LedgerComplete
  BY DEF RepliesInTurn, Quick, LedgerComplete, NoCall
<1> QED BY <1>1, <1>2, <1>3, <1>4 DEF LiveInv

(* The script's thread.                                                    *)

LEMMA CallToolKeeps == ASSUME LiveInv, CallTool PROVE LiveInv'
<1> USE DEF LiveInv, CallTool, hostVars, Running
<1>1. n \in Nat /\ n' = n + 1 /\ n' \in 1..MaxCalls /\ n' \in Nat
  BY LiveAssumption DEF LiveTypeOK
<1>2. LiveTypeOK'
  BY <1>1 DEF LiveTypeOK
<1>3. inbox = << >> /\ handling = {} /\ unsent = {} /\ events = << >>
  BY DEF OneCall, NotOut, Sent, Performing, Stuck, Quick, Waiting
<1>4. OneCall'
  BY <1>1, <1>3 DEF OneCall, NotOut
<1>5. PerformedInTurn'
  BY <1>1, <1>3 DEF PerformedInTurn
<1>6. LedgerInTurn'
  BY <1>1 DEF LedgerInTurn, Over
<1>7. RepliesInTurn' /\ LedgerComplete'
  BY DEF RepliesInTurn, Quick, LedgerComplete
<1> QED BY <1>2, <1>4, <1>5, <1>6, <1>7

LEMMA PostCallKeeps == ASSUME LiveInv, PostCall PROVE LiveInv'
<1> USE DEF LiveInv, PostCall, hostVars, Running
<1>1. NotOut /\ events = << >> /\ signal = 0 /\ n > 0
  BY DEF OneCall, NotOut, Sent, Performing, Stuck, Quick, Waiting
<1>2. n \in Call /\ inbox' = <<n>>
  BY <1>1, LiveAssumption DEF LiveTypeOK, Call, NotOut
<1>3. LiveTypeOK'
  BY <1>2 DEF LiveTypeOK
<1>4. OneCall'
  BY <1>1, <1>2 DEF OneCall, NotOut, Sent, Waiting
<1>5. PerformedInTurn'
  BY <1>2 DEF PerformedInTurn
<1>6. LedgerInTurn'
  BY DEF LedgerInTurn, Over
<1>7. RepliesInTurn' /\ LedgerComplete'
  BY <1>1 DEF RepliesInTurn, Quick, LedgerComplete
<1> QED BY <1>3, <1>4, <1>5, <1>6, <1>7

(* If the word is set already, the answer is there.                        *)
LEMMA ParkKeeps == ASSUME LiveInv, Park PROVE LiveInv'
<1> USE DEF LiveInv, Park, hostVars, Running
<1>1. LiveTypeOK'
  BY DEF LiveTypeOK
<1>2. Sent \/ Performing \/ Stuck \/ Quick
  BY DEF OneCall, NotOut
<1>3. OneCall'
  BY <1>2 DEF OneCall, NotOut, Sent, Performing, Stuck, Quick, Waiting
<1>4. PerformedInTurn'
  BY DEF PerformedInTurn
<1>5. LedgerInTurn'
  BY DEF LedgerInTurn, Over
<1>6. RepliesInTurn'
  BY <1>2 DEF RepliesInTurn, Quick, Sent, Performing, Stuck, Waiting
<1>7. LedgerComplete'
  BY DEF LedgerComplete
<1> QED BY <1>1, <1>3, <1>4, <1>5, <1>6, <1>7

(* An entry is added, of the current call, and the script goes on.         *)
LEMMA EntryAdded ==
    ASSUME LiveInv, Running, wpc = "reading", wpc' = "script",
           NEW r \in Call \cup {NoCall}, NEW how \in {"result", "error"},
           ledger' = Append(ledger, Entry(n, r, how)),
           UNCHANGED <<signal, inbox, events, n, hostVars>>
    PROVE  /\ ledger' \in Seq(LedgerEntry) /\ n \in Call
           /\ OneCall' /\ PerformedInTurn' /\ LedgerInTurn' /\ LedgerComplete'
           /\ Len(ledger) = n - 1 /\ Len(ledger') = n
           /\ ledger'[n] = Entry(n, r, how) /\ \A i \in 1..(n - 1) : ledger'[i] = ledger[i]
<1> USE DEF LiveInv, hostVars, Running
<1>1. NotOut /\ events = << >> /\ n \in Call /\ n \in Nat
  BY LiveAssumption DEF OneCall, Sent, Performing, Stuck, Quick, Waiting, LiveTypeOK, Call
<1>2. Entry(n, r, how) \in LedgerEntry
  BY <1>1 DEF Entry, LedgerEntry
<1>3. Len(ledger) = n - 1 /\ ledger \in Seq(LedgerEntry)
  BY DEF LedgerInTurn, Over, LiveTypeOK
<1>4. /\ ledger' \in Seq(LedgerEntry) /\ Len(ledger') = n
      /\ ledger'[n] = Entry(n, r, how) /\ \A i \in 1..(n - 1) : ledger'[i] = ledger[i]
  <2>1. /\ ledger' \in Seq(LedgerEntry) /\ Len(ledger') = Len(ledger) + 1
        /\ ledger'[Len(ledger) + 1] = Entry(n, r, how)
        /\ \A i \in 1..Len(ledger) : ledger'[i] = ledger[i]
    BY <1>2, <1>3, AppendProperties
  <2> QED BY <1>1, <1>3, <2>1
<1>5. OneCall'
  BY <1>1 DEF OneCall, NotOut
<1>6. PerformedInTurn'
  BY <1>1 DEF PerformedInTurn, NotOut
<1>7. LedgerInTurn'
  <2>1. \A i \in 1..(n - 1) : ledger[i].call = i
    BY <1>3 DEF LedgerInTurn
  <2>2. ledger'[n].call = n
    BY <1>4 DEF Entry
  <2>3. DOMAIN ledger' = 1..n
    BY <1>4
  <2>4. ASSUME NEW i \in 1..n PROVE ledger'[i].call = i
    BY <1>1, <1>4, <2>1, <2>2
  <2> QED BY <1>4, <2>3, <2>4 DEF LedgerInTurn, Over
<1>8. LedgerComplete'
  BY DEF LedgerComplete
<1> QED BY <1>1, <1>3, <1>4, <1>5, <1>6, <1>7, <1>8

(* What is read, while none was late, is the answer to this call.          *)
LEMMA ReadKeeps == ASSUME LiveInv, Read PROVE LiveInv'
<1> USE DEF LiveInv, Read, Running
<1> DEFINE r == Head(replies).call
           how == Head(replies).how
<1>1. /\ Head(replies) \in [call : Call, how : {"result", "error"}]
      /\ replies' \in Seq([call : Call, how : {"result", "error"}])
  BY HeadTailProperties DEF LiveTypeOK
<1>2. r \in Call \cup {NoCall} /\ how \in {"result", "error"}
  BY <1>1
<1> HIDE DEF r, how
<1>3. /\ ledger' \in Seq(LedgerEntry) /\ n \in Call
      /\ OneCall' /\ PerformedInTurn' /\ LedgerInTurn' /\ LedgerComplete'
      /\ Len(ledger) = n - 1 /\ Len(ledger') = n
      /\ ledger'[n] = Entry(n, r, how) /\ \A i \in 1..(n - 1) : ledger'[i] = ledger[i]
  <2>1. ledger' = Append(ledger, Entry(n, r, how))
    BY DEF r, how
  <2> QED BY <1>2, <2>1, EntryAdded
<1>4. LiveTypeOK'
  BY <1>1, <1>3 DEF LiveTypeOK, hostVars
<1>5. RepliesInTurn'
  <2>1. SUFFICES ASSUME Running, unheard = NoCall
                 PROVE  /\ \A i \in DOMAIN ledger' : ledger'[i].reply = i
                        /\ replies' = << >>
    BY DEF RepliesInTurn, Quick, hostVars
  <2>2. Len(replies) = 1 /\ replies[1].call = n /\ \A i \in DOMAIN ledger : ledger[i].reply = i
    BY <2>1 DEF RepliesInTurn
  <2>3. r = n
    BY <2>2 DEF r, LiveTypeOK
  <2>4. ledger'[n].reply = n /\ DOMAIN ledger' = 1..n /\ n \in Nat
    BY <1>3, <2>3 DEF Entry, Call
  <2>5. \A i \in 1..(n - 1) : ledger'[i].reply = i
    BY <1>3, <2>2
  <2>6. Len(replies') = 0
    BY <2>2, HeadTailProperties DEF LiveTypeOK
  <2> QED BY <1>1, <2>4, <2>5, <2>6, EmptySeq
<1> QED BY <1>3, <1>4, <1>5

(* While none was late, there is an answer that was not seen in time.      *)
LEMMA GiveUpKeeps == ASSUME LiveInv, GiveUp PROVE LiveInv' /\ (unheard = NoCall => unheard' = n)
<1> USE DEF LiveInv, GiveUp, Running
<1>1. NoCall \in Call \cup {NoCall} /\ "error" \in {"result", "error"}
  OBVIOUS
<1>2. /\ ledger' \in Seq(LedgerEntry) /\ n \in Call
      /\ OneCall' /\ PerformedInTurn' /\ LedgerInTurn' /\ LedgerComplete'
  BY <1>1, EntryAdded
<1>3. unheard = NoCall => replies # << >>
  <2> SUFFICES ASSUME unheard = NoCall PROVE replies # << >>
    OBVIOUS
  <2>1. Len(replies) = 1
    BY DEF RepliesInTurn
  <2> QED BY <2>1
<1>4. unheard' # NoCall /\ unheard' \in Call \cup {NoCall}
  BY <1>2, <1>3 DEF LiveTypeOK, Call, NoCall
<1>5. LiveTypeOK'
  BY <1>2, <1>4 DEF LiveTypeOK, hostVars
<1>6. RepliesInTurn'
  BY <1>4 DEF RepliesInTurn
<1> QED BY <1>2, <1>3, <1>5, <1>6

LEMMA EndKeeps ==
    ASSUME LiveInv, ScriptEnds \/ WorkerDies
    PROVE  LiveInv'
<1> USE DEF LiveInv, ScriptEnds, WorkerDies, hostVars, Running
<1>1. wpc = "script" /\ wpc' = "ended" /\ events' \in Seq({"done", "error", "exit"})
  <2>1. events \o <<"error", "exit">> \in Seq({"done", "error", "exit"})
    BY ConcatProperties DEF LiveTypeOK
  <2>2. \A e \in {"done", "error", "exit"} : Append(events, e) \in Seq({"done", "error", "exit"})
    BY AppendProperties DEF LiveTypeOK
  <2> QED BY <2>1, <2>2
<1>2. LiveTypeOK'
  BY <1>1 DEF LiveTypeOK
<1>3. OneCall'
  BY <1>1 DEF OneCall, NotOut, Sent, Performing, Stuck, Quick, Waiting
<1>4. PerformedInTurn' /\ LedgerInTurn' /\ RepliesInTurn' /\ LedgerComplete'
  BY <1>1 DEF PerformedInTurn, LedgerInTurn, Over, RepliesInTurn, Quick, LedgerComplete
<1> QED BY <1>2, <1>3, <1>4

-----------------------------------------------------------------------------
(* The host.                                                               *)

LEMMA ReceiveKeeps == ASSUME LiveInv, Receive PROVE LiveInv'
<1> USE DEF LiveInv, Receive, scriptVars, Running
<1>1. Sent /\ n > 0 /\ events = << >>
  BY DEF OneCall, NotOut, Performing, Stuck, Quick, Waiting, Sent
<1>2. Head(inbox) = n /\ inbox' = << >> /\ handling' = {n} /\ n \in Call /\ n \in Nat
  BY <1>1, LiveAssumption DEF Sent, LiveTypeOK, Call
<1>3. LiveTypeOK'
  <2>1. inbox' \in Seq(Call)
    BY <1>2, EmptySeq
  <2>2. handling' \in SUBSET Call /\ performed' \in SUBSET Call
    BY <1>2 DEF LiveTypeOK
  <2> QED BY <2>1, <2>2 DEF LiveTypeOK
<1>4. OneCall'
  BY <1>1, <1>2 DEF OneCall, Sent, Performing, Waiting
<1>5. PerformedInTurn'
  <2>1. performed = 1..(n - 1) /\ performed' = performed \cup {n}
    BY <1>1, <1>2 DEF PerformedInTurn, Sent
  <2>2. performed' = 1..n
    <3>1. \A k \in Nat : k > 0 => (1..(k - 1)) \cup {k} = 1..k
      OBVIOUS
    <3> QED BY <1>1, <1>2, <2>1, <3>1
  <2> QED BY <1>1, <1>2, <2>2 DEF PerformedInTurn, Sent, Waiting
<1>6. LedgerInTurn' /\ RepliesInTurn' /\ LedgerComplete'
  BY <1>1, <1>2 DEF LedgerInTurn, Over, RepliesInTurn, Quick, LedgerComplete, Sent
<1> QED BY <1>3, <1>4, <1>5, <1>6

(* The answer to the current call, unless the run is over.                 *)
LEMMA AnswerKeeps ==
    ASSUME LiveInv, NEW c \in Call, NEW how \in {"result", "error"}, Answer(c, how)
    PROVE  LiveInv'
<1> USE DEF LiveInv, Answer
<1>1. CASE ~Running
  <2>1. LiveTypeOK'
    BY <1>1 DEF LiveTypeOK
  <2>2. ~Running' /\ LedgerComplete'
    BY <1>1 DEF Running, LedgerComplete
  <2> QED BY <2>1, <2>2 DEF OneCall, PerformedInTurn, LedgerInTurn, RepliesInTurn
<1>2. CASE Running
  <2> USE <1>2 DEF Running
  <2>1. Performing /\ c = n /\ n > 0 /\ events = << >>
    BY DEF OneCall, NotOut, Sent, Performing, Stuck, Quick, Waiting
  <2>2. handling' = {}
    BY <2>1 DEF Performing
  <2> DEFINE R == [call : Call, how : {"result", "error"}]
             e == [call |-> c, how |-> how]
  <2>3. /\ replies' \in Seq(R)
        /\ replies = << >> => Len(replies') = 1 /\ replies'[1].call = n
    <3>1. e \in R /\ e.call = n /\ replies \in Seq(R) /\ replies' = Append(replies, e)
      BY <2>1 DEF LiveTypeOK
    <3> HIDE DEF R, e
    <3>2. /\ replies' \in Seq(R) /\ Len(replies') = Len(replies) + 1
          /\ replies'[Len(replies) + 1] = e
      BY <3>1, AppendProperties
    <3>3. replies = << >> => Len(replies) = 0
      OBVIOUS
    <3> QED BY <3>1, <3>2, <3>3
  <2>4. LiveTypeOK'
    BY <2>3 DEF LiveTypeOK
  <2>5. wpc' \in {"reading", "posted"} /\ (wpc' = "reading" \/ Quick')
    BY <2>1, <2>2 DEF Performing, Waiting, Quick
  <2>6. OneCall'
    BY <2>1, <2>2 DEF OneCall, Performing, Waiting, NotOut, Quick
  <2>7. PerformedInTurn' /\ LedgerInTurn' /\ LedgerComplete'
    BY <2>1, <2>5 DEF PerformedInTurn, LedgerInTurn, Over, LedgerComplete, Performing, Waiting
  <2>8. RepliesInTurn'
    <3>1. unheard = NoCall => replies = << >> /\ \A i \in DOMAIN ledger : ledger[i].reply = i
      BY <2>1 DEF RepliesInTurn, Performing, Quick, Waiting
    <3> QED BY <2>3, <2>5, <3>1 DEF RepliesInTurn
  <2> QED BY <2>4, <2>6, <2>7, <2>8
<1> QED BY <1>1, <1>2

LEMMA UncloneableKeeps ==
    ASSUME LiveInv, NEW c \in Call, AnswerUncloneable(c)
    PROVE  LiveInv'
<1> USE DEF LiveInv, AnswerUncloneable, scriptVars, Running
<1>1. Performing /\ c = n
  BY DEF OneCall, NotOut, Sent, Performing, Stuck, Quick, Waiting
<1>2. LiveTypeOK'
  BY DEF LiveTypeOK
<1>3. handling' = {} /\ unsent' = {n} /\ OneCall'
  BY <1>1 DEF OneCall, Performing, Stuck, Waiting
<1>4. PerformedInTurn' /\ LedgerInTurn' /\ LedgerComplete'
  BY <1>1 DEF PerformedInTurn, LedgerInTurn, Over, LedgerComplete, Performing
<1>5. RepliesInTurn'
  BY <1>1 DEF RepliesInTurn, Quick, Performing
<1> QED BY <1>2, <1>3, <1>4, <1>5

(* The run ends: by itself only when the script has, with its ledger whole.*)
LEMMA FinishKeeps ==
    ASSUME LiveInv, Done \/ ErrorOrExit \/ Timeout
    PROVE  LiveInv'
<1> USE DEF LiveInv, Done, ErrorOrExit, Timeout, Finish, scriptVars, Running
<1>1. settled' \in {"done", "timeout", "rejected"} /\ returned' \in {ledger, << >>}
      /\ UNCHANGED <<signal, inbox, replies, scriptVars, handling, performed, unsent>>
  OBVIOUS
<1>2. events' \in Seq({"done", "error", "exit"})
  BY HeadTailProperties DEF LiveTypeOK
<1>3. LiveTypeOK'
  <2>1. << >> \in Seq(LedgerEntry) /\ ledger \in Seq(LedgerEntry)
    BY EmptySeq DEF LiveTypeOK
  <2>2. settled' \in {"none", "done", "timeout", "rejected"}
    BY <1>1
  <2>3. returned' \in Seq(LedgerEntry)
    BY <1>1, <2>1
  <2> QED BY <1>1, <1>2, <2>1, <2>2, <2>3 DEF LiveTypeOK
<1>4. OneCall' /\ PerformedInTurn' /\ LedgerInTurn' /\ RepliesInTurn'
  BY <1>1 DEF OneCall, PerformedInTurn, LedgerInTurn, RepliesInTurn
<1>5. LedgerComplete'
  <2>1. SUFFICES ASSUME settled' = "done"
                 PROVE  Logged(ledger) = performed /\ Len(ledger) = Cardinality(performed)
    BY <1>1 DEF LedgerComplete
  <2>2. wpc = "ended" /\ inbox = << >>
    BY <2>1 DEF OneCall, NotOut, Sent, Performing, Stuck, Quick, Waiting
  <2>3. performed = 1..n /\ Len(ledger) = n /\ n \in Nat
    BY <2>2 DEF PerformedInTurn, LedgerInTurn, Over, LiveTypeOK
  <2>4. \A i \in 1..n : ledger[i].call = i
    <3>1. ledger \in Seq(LedgerEntry) /\ DOMAIN ledger = 1..Len(ledger)
      BY DEF LiveTypeOK
    <3> QED BY <2>3, <3>1 DEF LedgerInTurn
  <2>5. Logged(ledger) = 1..n
    <3>1. DOMAIN ledger = 1..n
      BY <2>3, LenProperties DEF LiveTypeOK
    <3>2. Logged(ledger) = {ledger[i].call : i \in 1..n}
      BY <3>1 DEF Logged
    <3> QED BY <2>4, <3>2
  <2>6. Cardinality(1..n) = n
    BY <2>3, FS_Interval
  <2> QED BY <2>3, <2>5, <2>6
<1> QED BY <1>3, <1>4, <1>5

(* Every step of the bridge, and stuttering, keeps the invariant.          *)
LEMMA LiveStepInv == LiveInv /\ [LiveNext]_liveVars => LiveInv'
<1> SUFFICES ASSUME LiveInv, [LiveNext]_liveVars PROVE LiveInv'
  OBVIOUS
<1>1. CASE UNCHANGED liveVars
  BY <1>1 DEF LiveInv, liveVars, scriptVars, hostVars, LiveTypeOK, OneCall, NotOut, Sent,
     Performing, Stuck, Quick, Waiting, PerformedInTurn, LedgerInTurn, Over, RepliesInTurn,
     LedgerComplete, Running
<1>2. CASE ScriptStep
  BY <1>2, CallToolKeeps, PostCallKeeps, ParkKeeps, ReadKeeps, GiveUpKeeps, EndKeeps
     DEF ScriptStep
<1>3. CASE HostStep \/ Timeout
  BY <1>3, ReceiveKeeps, AnswerKeeps, UncloneableKeeps, FinishKeeps DEF HostStep
<1> QED BY <1>1, <1>2, <1>3 DEF LiveNext

LEMMA LiveInvariant == LiveSpec => []LiveInv
<1> QED BY LiveInitInv, LiveStepInv, PTL DEF LiveSpec

-----------------------------------------------------------------------------
(* A worker that sleeps is served, or its result could not be cloned       *)
(* (myxo-live-worker.js:16-19, myxo-live.js:68-82).                        *)
THEOREM NobodyForgotten == LiveSpec => []Handshake
<1>1. LiveInv => Handshake
  <2> SUFFICES ASSUME LiveInv, Running, wpc = "asleep"
               PROVE  signal = 0 /\ n \in handling \cup Elements(inbox) \cup unsent
    BY DEF Handshake, ParkedIsServed, LiveInv
  <2>1. Sent \/ Performing \/ Stuck
    BY DEF LiveInv, OneCall, NotOut, Quick
  <2>2. CASE Sent
    BY <2>2 DEF Sent, Elements
  <2>3. CASE Performing \/ Stuck
    BY <2>3 DEF Performing, Stuck
  <2> QED BY <2>1, <2>2, <2>3
<1> QED BY <1>1, LiveInvariant, PTL

(* A run that ends by itself hands back the record of exactly the calls    *)
(* that were performed (myxo-live.js:50-61, myxo-run.js:11).               *)
THEOREM WholeLedger == LiveSpec => []LedgerComplete
<1>1. LiveInv => LedgerComplete
  BY DEF LiveInv
<1> QED BY <1>1, LiveInvariant, PTL

(* done, error, exit and the timer settle the promise once                 *)
(* (myxo-live.js:50-61).                                                   *)
THEOREM FirstComeSettles == LiveSpec => SettledOnce
<1>1. ASSUME settled # "none", [LiveNext]_liveVars
      PROVE  UNCHANGED <<settled, returned>>
  BY <1>1 DEF LiveNext, liveVars, hostVars, ScriptStep, CallTool, PostCall, Park, Read, GiveUp,
     ScriptEnds, WorkerDies, HostStep, Receive, Answer, AnswerUncloneable, Done, ErrorOrExit,
     Timeout, Finish, Running
<1> QED BY <1>1, PTL DEF LiveSpec, SettledOnce

-----------------------------------------------------------------------------
(* What the script is given, as the synchronous tool sees it.              *)
Answer0 == Call \cup {NoCall}
Replied(l) == [i \in DOMAIN l |-> l[i].reply]
Count == IF unheard = NoCall THEN n ELSE unheard
Given == Upto(Replied(ledger))

(* Which phase of a synchronous call the bridge is in.                     *)
PhaseIs ==
    /\ ~Running \/ Broken => Phase = "over"
    /\ (Running /\ ~Broken) =>
          /\ Over => Phase = "idle"
          /\ (~Over /\ n \in handling) => Phase = "performing"
          /\ (~Over /\ n \in performed \ handling) => Phase = "answered"
          /\ (~Over /\ n \notin handling /\ n \notin performed) => Phase = "asked"

LEMMA PhaseFacts == PhaseIs
BY DEF PhaseIs, Phase, Over

LEMMA RepliedFacts ==
    ASSUME NEW l \in Seq(LedgerEntry)
    PROVE  /\ Replied(l) \in Seq(Answer0) /\ Len(Replied(l)) = Len(l)
           /\ \A i \in 1..Len(l) : Replied(l)[i] = l[i].reply
<1>1. Len(l) \in Nat /\ DOMAIN l = 1..Len(l)
  BY LenProperties
<1>2. \A i \in 1..Len(l) : l[i].reply \in Answer0
  <2> SUFFICES ASSUME NEW i \in 1..Len(l) PROVE l[i].reply \in Answer0
    OBVIOUS
  <2>1. l[i] \in LedgerEntry
    BY ElementOfSeq
  <2> QED BY <2>1 DEF LedgerEntry, Answer0
<1> QED BY <1>1, <1>2 DEF Replied

LEMMA RepliedAppend ==
    ASSUME NEW l \in Seq(LedgerEntry), NEW e \in LedgerEntry
    PROVE  Replied(Append(l, e)) = Append(Replied(l), e.reply)
<1>1. e.reply \in Answer0
  BY DEF LedgerEntry, Answer0
<1>2. /\ Append(l, e) \in Seq(LedgerEntry) /\ Len(Append(l, e)) = Len(l) + 1
      /\ Append(l, e)[Len(l) + 1] = e /\ \A i \in 1..Len(l) : Append(l, e)[i] = l[i]
  BY AppendProperties
<1>3. /\ Replied(Append(l, e)) \in Seq(Answer0) /\ Len(Replied(Append(l, e))) = Len(l) + 1
      /\ \A i \in 1..(Len(l) + 1) : Replied(Append(l, e))[i] = Append(l, e)[i].reply
  BY <1>2, RepliedFacts
<1>4. /\ Replied(l) \in Seq(Answer0) /\ Len(Replied(l)) = Len(l)
      /\ \A i \in 1..Len(l) : Replied(l)[i] = l[i].reply
  BY RepliedFacts
<1>5. /\ Append(Replied(l), e.reply) \in Seq(Answer0)
      /\ Len(Append(Replied(l), e.reply)) = Len(l) + 1
      /\ Append(Replied(l), e.reply)[Len(l) + 1] = e.reply
      /\ \A i \in 1..Len(l) : Append(Replied(l), e.reply)[i] = Replied(l)[i]
  BY <1>1, <1>4, AppendProperties
<1>6. ASSUME NEW i \in 1..(Len(l) + 1)
      PROVE  Replied(Append(l, e))[i] = Append(Replied(l), e.reply)[i]
  <2>1. Len(l) \in Nat
    BY LenProperties
  <2>2. CASE i = Len(l) + 1
    BY <1>2, <1>3, <1>5, <2>2
  <2>3. CASE i \in 1..Len(l)
    <3>1. Replied(Append(l, e))[i] = l[i].reply
      BY <1>2, <1>3, <2>3
    <3>2. Append(Replied(l), e.reply)[i] = l[i].reply
      BY <1>4, <1>5, <2>3
    <3> QED BY <3>1, <3>2
  <2>4. i = Len(l) + 1 \/ i \in 1..Len(l)
    BY <2>1
  <2> QED BY <2>2, <2>3, <2>4
<1> QED BY <1>3, <1>5, <1>6, SeqEqual

(* What has been given is not taken back.                                  *)
LEMMA SameStart ==
    ASSUME NEW S, NEW s \in Seq(S), NEW e \in S, NEW k \in 0..Len(s)
    PROVE  /\ SubSeq(Append(s, e), 1, k) = SubSeq(s, 1, k)
           /\ SubSeq(s, 1, Len(s)) = s
<1>1. Len(s) \in Nat /\ k \in Int
  BY LenProperties
<1>2. /\ Append(s, e) \in Seq(S) /\ Len(Append(s, e)) = Len(s) + 1
      /\ \A i \in 1..Len(s) : Append(s, e)[i] = s[i]
  BY AppendProperties
<1>3. /\ \A i \in 1..k : s[i] \in S /\ Append(s, e)[i] = s[i] /\ Append(s, e)[i] \in S
      /\ \A i \in 1..Len(s) : s[i] \in S
  BY <1>1, <1>2, ElementOfSeq
<1>4. /\ SubSeq(s, 1, k) \in Seq(S) /\ Len(SubSeq(s, 1, k)) = k
      /\ \A i \in 1..k : SubSeq(s, 1, k)[i] = s[i]
  BY <1>1, <1>3, SubSeqProperties
<1>5. /\ SubSeq(Append(s, e), 1, k) \in Seq(S) /\ Len(SubSeq(Append(s, e), 1, k)) = k
      /\ \A i \in 1..k : SubSeq(Append(s, e), 1, k)[i] = Append(s, e)[i]
  BY <1>1, <1>3, SubSeqProperties
<1>6. /\ SubSeq(s, 1, Len(s)) \in Seq(S) /\ Len(SubSeq(s, 1, Len(s))) = Len(s)
      /\ \A i \in 1..Len(s) : SubSeq(s, 1, Len(s))[i] = s[i]
  BY <1>1, <1>3, SubSeqProperties
<1>7. SubSeq(Append(s, e), 1, k) = SubSeq(s, 1, k)
  BY <1>3, <1>4, <1>5, SeqEqual
<1>8. SubSeq(s, 1, Len(s)) = s
  BY <1>6, SeqEqual
<1> QED BY <1>7, <1>8

(* A call that returns is recorded.                                        *)
LEMMA Recorded ==
    ASSUME LiveInv, Read \/ GiveUp
    PROVE  /\ \E e \in LedgerEntry : ledger' = Append(ledger, e)
           /\ Len(ledger) = n - 1 /\ Len(ledger') = n /\ n \in Nat
<1>1. PICK r \in Call \cup {NoCall}, how \in {"result", "error"} :
          ledger' = Append(ledger, Entry(n, r, how))
  <2>1. CASE Read
    <3>1. Head(replies) \in [call : Call, how : {"result", "error"}]
      BY <2>1, HeadTailProperties DEF Read, LiveInv, LiveTypeOK
    <3>2. Head(replies).call \in Call \cup {NoCall} /\ Head(replies).how \in {"result", "error"}
      BY <3>1
    <3> QED BY <2>1, <3>2 DEF Read
  <2>2. CASE GiveUp
    BY <2>2 DEF GiveUp
  <2> QED BY <2>1, <2>2
<1>2. Running /\ wpc = "reading" /\ wpc' = "script" /\ UNCHANGED <<signal, inbox, events, n, hostVars>>
  BY DEF Read, GiveUp
<1>3. n \in Call /\ Len(ledger) = n - 1 /\ Len(ledger') = n
  BY <1>1, <1>2, EntryAdded
<1>4. Entry(n, r, how) \in LedgerEntry
  BY <1>3 DEF Entry, LedgerEntry
<1> QED BY <1>1, <1>3, <1>4 DEF Call

(* An answer that was late is that of a call already recorded.             *)
LateLogged == unheard \in 0..Len(ledger)

LEMMA LateStep == LiveInv /\ LateLogged /\ [LiveNext]_liveVars => LateLogged'
<1> SUFFICES ASSUME LiveInv, LateLogged, [LiveNext]_liveVars PROVE LateLogged'
  OBVIOUS
<1>0. Len(ledger) \in Nat /\ ledger \in Seq(LedgerEntry)
  BY LenProperties DEF LiveInv, LiveTypeOK
<1>1. CASE Read \/ GiveUp
  <2>1. Len(ledger') = n /\ Len(ledger) = n - 1 /\ n \in Nat
    BY <1>1, Recorded
  <2>2. unheard' \in {unheard, n}
    BY <1>1 DEF Read, GiveUp
  <2> QED BY <1>0, <2>1, <2>2 DEF LateLogged
<1>2. CASE ~(Read \/ GiveUp)
  <2>1. UNCHANGED <<ledger, unheard>>
    BY <1>2 DEF LiveNext, liveVars, scriptVars, hostVars, ScriptStep, CallTool, PostCall, Park,
       ScriptEnds, WorkerDies, HostStep, Receive, Answer, AnswerUncloneable, Done, ErrorOrExit,
       Timeout, Finish
  <2> QED BY <2>1 DEF LateLogged
<1> QED BY <1>1, <1>2

(* Once the promise has ended, the script may be given anything.           *)
LEMMA OverStays ==
    ASSUME LiveInv, LateLogged, [LiveNext]_liveVars, ~Running \/ Broken
    PROVE  Phase = "over" /\ Phase' = "over" /\ Count' = Count /\ Given' = Given
<1>1. Phase = "over"
  BY PhaseFacts DEF PhaseIs
<1>2. PhaseIs'
  BY DEF PhaseIs, Phase, Over
<1>3. CASE ~Running
  <2>1. UNCHANGED <<n, ledger, unheard, settled>>
    BY <1>3 DEF LiveNext, liveVars, scriptVars, hostVars, ScriptStep, CallTool, PostCall, Park,
       Read, GiveUp, ScriptEnds, WorkerDies, HostStep, Receive, Answer, AnswerUncloneable, Done,
       ErrorOrExit, Timeout, Finish, Running
  <2>2. ~Running' /\ Count' = Count /\ Given' = Given
    BY <1>3, <2>1 DEF Running, Count, Given, Upto
  <2> QED BY <1>1, <1>2, <2>2 DEF PhaseIs
<1>4. CASE Running /\ unheard # NoCall
  <2>1. unheard' = unheard
    BY <1>4 DEF LiveNext, liveVars, scriptVars, hostVars, ScriptStep, CallTool, PostCall, Park,
       Read, GiveUp, ScriptEnds, WorkerDies, HostStep, Receive, Answer, AnswerUncloneable, Done,
       ErrorOrExit, Timeout, Finish
  <2>2. Broken' /\ Count' = Count
    BY <1>4, <2>1 DEF Broken, Count
  <2>3. Given' = Given
    <3>1. CASE Read \/ GiveUp
      <4>1. PICK e \in LedgerEntry : ledger' = Append(ledger, e)
        BY <3>1, Recorded
      <4>2. /\ Replied(ledger) \in Seq(Answer0) /\ Len(Replied(ledger)) = Len(ledger)
            /\ Len(ledger) \in Nat
        BY RepliedFacts, LenProperties DEF LiveInv, LiveTypeOK
      <4>3. e.reply \in Answer0 /\ Replied(ledger') = Append(Replied(ledger), e.reply)
        BY <4>1, RepliedAppend DEF LiveInv, LiveTypeOK, LedgerEntry, Answer0
      <4>4. unheard - 1 \in 0..Len(ledger)
        BY <1>4, <4>2 DEF LateLogged, NoCall
      <4>5. SubSeq(Replied(ledger'), 1, unheard - 1) = SubSeq(Replied(ledger), 1, unheard - 1)
        BY <4>2, <4>3, <4>4, SameStart
      <4> QED BY <1>4, <2>1, <4>5 DEF Given, Upto
    <3>2. CASE ~(Read \/ GiveUp)
      <4>1. ledger' = ledger
        BY <3>2 DEF LiveNext, liveVars, scriptVars, hostVars, ScriptStep, CallTool, PostCall,
           Park, ScriptEnds, WorkerDies, HostStep, Receive, Answer, AnswerUncloneable, Done,
           ErrorOrExit, Timeout, Finish
      <4> QED BY <2>1, <4>1 DEF Given, Upto
    <3> QED BY <3>1, <3>2
  <2> QED BY <1>1, <1>2, <2>2, <2>3 DEF PhaseIs
<1>5. CASE Running /\ unheard = NoCall /\ unsent # {}
  <2>1. Stuck
    BY <1>5, PhaseFacts DEF LiveInv, OneCall, NotOut, Sent, Performing, Quick
  <2>2. UNCHANGED <<n, ledger, unheard, unsent>>
    BY <1>5, <2>1 DEF Stuck, Waiting, LiveNext, liveVars, scriptVars, hostVars, ScriptStep,
       CallTool, PostCall, Park, Read, GiveUp, ScriptEnds, WorkerDies, HostStep, Receive, Answer,
       AnswerUncloneable, Done, ErrorOrExit, Timeout, Finish
  <2>3. Broken' /\ Count' = Count /\ Given' = Given
    BY <1>5, <2>2 DEF Broken, Count, Given, Upto
  <2> QED BY <1>1, <1>2, <2>3 DEF PhaseIs
<1> QED BY <1>3, <1>4, <1>5 DEF Broken

(* The bridge in the synchronous tool's terms, while the promise stands.   *)
LEMMA StepLooksSynchronous ==
    ASSUME LiveInv, LateLogged, [LiveNext]_liveVars
    PROVE  [Tool!Next]_(Tool!vars)
<1>0. PhaseIs /\ PhaseIs'
  BY PhaseFacts DEF PhaseIs, Phase, Over
<1>1. ASSUME Phase' = Phase, Count' = Count, Given' = Given
      PROVE  UNCHANGED Tool!vars
  BY <1>1 DEF Tool!vars, Count, Given, Replied
<1>2. CASE ~Running \/ Broken
  BY <1>1, <1>2, OverStays
<1>3. ASSUME Phase # "over", Phase' = "over", Count' = Count, Given' = Given
      PROVE  Tool!Next
  BY <1>3 DEF Tool!Next, Tool!Abandon, Count, Given, Replied
<1>4. ASSUME Running, ~Broken PROVE [Tool!Next]_(Tool!vars)
  <2> USE <1>4
  <2>1. unheard = NoCall /\ unsent = {} /\ Count = n /\ Given = Replied(ledger)
    BY DEF Broken, Count, Given, Upto
  <2>2. ASSUME unheard' = NoCall PROVE Count' = n' /\ Given' = Replied(ledger)'
    BY <2>2 DEF Count, Given, Upto
  <2>3. ASSUME UNCHANGED <<unheard, n, ledger>> PROVE Count' = Count /\ Given' = Given
    BY <2>3 DEF Count, Given, Upto
  <2>4. CASE CallTool
    <3>1. /\ unheard' = NoCall /\ n' = n + 1 /\ n < MaxCalls /\ ledger' = ledger
          /\ Running' /\ ~Broken' /\ Over /\ ~Over' /\ handling' = {} /\ performed' = 1..n /\ n \in Nat
      BY <2>1, <2>4 DEF CallTool, LiveInv, LiveTypeOK, OneCall, NotOut, Sent, Performing, Stuck,
         Quick, Waiting, PerformedInTurn, Running, Broken, Over, hostVars
    <3>2. n' \notin handling' /\ n' \notin performed'
      BY <3>1
    <3>3. Phase = "idle" /\ Phase' = "asked"
      BY <1>0, <3>1, <3>2 DEF PhaseIs
    <3>4. Count' = Count + 1 /\ Given' = Given /\ Count < MaxCalls
      BY <2>1, <2>2, <3>1
    <3> QED BY <3>3, <3>4 DEF Tool!Next, Tool!Ask, Count, Given, Replied
  <2>5. CASE PostCall \/ Park \/ ScriptEnds \/ WorkerDies \/ UNCHANGED liveVars
    <3>1. /\ UNCHANGED <<unheard, n, ledger, unsent, handling, performed, settled>>
          /\ Over' <=> Over
      BY <2>5 DEF PostCall, Park, ScriptEnds, WorkerDies, hostVars, scriptVars, liveVars, Over
    <3>2. Phase' = Phase
      BY <3>1 DEF Phase, Broken, Running, Over
    <3> QED BY <1>1, <2>3, <3>1, <3>2
  <2>6. CASE Read
    <3>1. /\ unheard' = NoCall /\ n' = n /\ ~Over /\ Over' /\ Running' /\ ~Broken'
          /\ n \notin handling /\ n \in performed /\ n \in Nat
      BY <2>1, <2>6, Recorded DEF Read, Running, Broken, Over, hostVars, LiveInv, OneCall,
         NotOut, Sent, Performing, Stuck, Quick, Waiting, PerformedInTurn, LiveTypeOK
    <3>2. Phase = "answered" /\ Phase' = "idle"
      BY <1>0, <1>4, <3>1 DEF PhaseIs
    <3>3. Given' = Append(Given, n)
      <4>1. PICK e \in LedgerEntry : ledger' = Append(ledger, e)
        BY <2>6, Recorded
      <4>2. Replied(ledger') = Append(Replied(ledger), e.reply)
        BY <4>1, RepliedAppend DEF LiveInv, LiveTypeOK
      <4>3. LiveInv'
        BY <2>6, ReadKeeps
      <4>4. ledger'[n].reply = n /\ Len(ledger') = n /\ Len(ledger) = n - 1 /\ n \in 1..Len(ledger')
        <5>1. Len(ledger') = n /\ Len(ledger) = n - 1 /\ n \in Nat
          BY <2>6, Recorded
        <5>2. n \in 1..Len(ledger') /\ DOMAIN ledger' = 1..Len(ledger')
          BY <3>1, <5>1, <4>3, LenProperties DEF LiveInv, LiveTypeOK, OneCall, Over
        <5> QED BY <3>1, <4>3, <5>1, <5>2 DEF LiveInv, RepliesInTurn
      <4>5. ledger'[n] = e
        BY <4>1, <4>4, AppendProperties DEF LiveInv, LiveTypeOK
      <4> QED BY <2>1, <2>2, <3>1, <4>2, <4>4, <4>5
    <3> QED BY <2>1, <2>2, <3>1, <3>2, <3>3 DEF Tool!Next, Tool!Return, Count, Given, Replied
  <2>7. CASE GiveUp
    <3>1. /\ unheard' = n /\ n' = n
          /\ Len(ledger) = n - 1 /\ n \in Nat /\ ledger \in Seq(LedgerEntry)
      BY <2>1, <2>7, GiveUpKeeps, Recorded DEF LiveInv, LiveTypeOK, GiveUp
    <3>2. Running' /\ Broken' /\ Count' = n /\ Given' = SubSeq(Replied(ledger'), 1, n - 1)
      <4>1. n # NoCall
        BY <2>7 DEF GiveUp, LiveInv, OneCall, NoCall
      <4>2. Running'
        BY <2>7 DEF GiveUp, hostVars, Running
      <4> QED BY <3>1, <4>1, <4>2 DEF Broken, Count, Given, Upto
    <3>3. Phase # "over" /\ Phase' = "over"
      BY <1>0, <1>4, <3>2 DEF PhaseIs, Over
    <3>4. Given' = Given
      <4>1. PICK e \in LedgerEntry : ledger' = Append(ledger, e)
        BY <2>7, Recorded
      <4>2. /\ Replied(ledger) \in Seq(Answer0) /\ Len(Replied(ledger)) = n - 1
            /\ n - 1 \in 0..(n - 1)
        BY <3>1, RepliedFacts, LenProperties
      <4>3. e.reply \in Answer0 /\ Replied(ledger') = Append(Replied(ledger), e.reply)
        BY <3>1, <4>1, RepliedAppend DEF LedgerEntry, Answer0
      <4>4. SubSeq(Replied(ledger'), 1, n - 1) = Replied(ledger)
        BY <4>2, <4>3, SameStart
      <4> QED BY <2>1, <3>2, <4>4
    <3> QED BY <1>3, <2>1, <3>2, <3>3, <3>4
  <2>8. CASE Receive
    <3>1. Sent /\ performed = 1..(n - 1) /\ n \in Nat /\ n \in Call
      BY <2>8 DEF Receive, LiveInv, LiveTypeOK, OneCall, NotOut, Sent, Performing, Stuck, Quick,
         Waiting, PerformedInTurn, Call
    <3>2. /\ UNCHANGED <<unheard, n, ledger, unsent, settled, wpc>>
          /\ handling = {} /\ handling' = {n} /\ n \notin performed
      BY <2>8, <3>1 DEF Receive, scriptVars, Sent
    <3>3. ~Over /\ ~Over' /\ Running' /\ ~Broken'
      BY <3>1, <3>2 DEF Sent, Waiting, Over, Running, Broken
    <3>4. Phase = "asked" /\ Phase' = "performing"
      BY <1>0, <3>2, <3>3 DEF PhaseIs
    <3> QED BY <2>3, <3>2, <3>4 DEF Tool!Next, Tool!Perform, Count, Given, Replied
  <2>9. ASSUME NEW c \in Call, NEW how \in {"result", "error"}, Answer(c, how) PROVE Tool!Next
    <3>1. Performing /\ c = n /\ performed = 1..n /\ n \in Nat /\ n \in Call
      BY <2>9 DEF Answer, LiveInv, LiveTypeOK, OneCall, NotOut, Sent, Performing, Stuck, Quick,
         Waiting, PerformedInTurn, Call
    <3>2. /\ UNCHANGED <<unheard, n, ledger, unsent, settled, performed>>
          /\ n \in handling /\ n \notin handling' /\ n \in performed
      BY <2>9, <3>1 DEF Answer, Performing, Call
    <3>3. ~Over /\ ~Over' /\ Running' /\ ~Broken'
      BY <2>9, <3>1, <3>2 DEF Answer, Performing, Waiting, Over, Running, Broken
    <3>4. Phase = "performing" /\ Phase' = "answered"
      BY <1>0, <3>2, <3>3 DEF PhaseIs
    <3> QED BY <2>3, <3>2, <3>4 DEF Tool!Next, Tool!Reply, Count, Given, Replied
  <2>10. ASSUME NEW c \in Call, AnswerUncloneable(c) PROVE Tool!Next
    <3>1. UNCHANGED <<unheard, n, ledger>> /\ Broken'
      BY <2>10 DEF AnswerUncloneable, scriptVars, Broken
    <3>2. Phase # "over" /\ Phase' = "over"
      BY <1>0, <3>1 DEF PhaseIs
    <3> QED BY <1>3, <2>3, <3>1, <3>2
  <2>11. CASE Done \/ ErrorOrExit \/ Timeout
    <3>1. UNCHANGED <<unheard, n, ledger>> /\ ~Running'
      BY <2>11 DEF Done, ErrorOrExit, Timeout, Finish, scriptVars, Running
    <3>2. Phase # "over" /\ Phase' = "over"
      BY <1>0, <3>1 DEF PhaseIs
    <3> QED BY <1>3, <2>3, <3>1, <3>2
  <2> QED BY <2>4, <2>5, <2>6, <2>7, <2>8, <2>9, <2>10, <2>11 DEF LiveNext, ScriptStep, HostStep
<1> QED BY <1>2, <1>4

(* Up to the first answer that is late or cannot be sent, the asynchronous *)
(* tools are synchronous calls to the script: each performed once, each    *)
(* answered with its own answer (myxo-live-worker.js:15-27, README.md, the *)
(* wire).                                                                  *)
THEOREM ToolsLookSynchronous == LiveSpec => LooksSynchronous
<1>1. LiveInit => Tool!Init /\ LateLogged
  <2>1. ASSUME LiveInit PROVE Phase = "idle" /\ LateLogged
    BY <2>1 DEF LiveInit, Phase, Broken, Running, NoCall, LateLogged
  <2> QED BY <2>1 DEF LiveInit, Tool!Init, Upto, NoCall
<1>2. LiveInv /\ LateLogged /\ [LiveNext]_liveVars => [Tool!Next]_(Tool!vars)
  BY StepLooksSynchronous
<1> QED BY <1>1, <1>2, LateStep, LiveInvariant, PTL DEF LiveSpec, LooksSynchronous, Tool!Spec

-----------------------------------------------------------------------------
(* The gather barrier.                                                     *)

(* Who has ticked, and who still may.                                      *)
Ticked == {w \in Worker : worker[w] \in {"ticked", "over"}}
Behind == {w \in Worker : worker[w] \in {"absent", "running", "posted"}}

(* The counter counts those who have ticked until cleanup may kill some of *)
(* them, and never more than are not behind.                               *)
CounterCounts ==
    /\ pc # "done" => counter = Cardinality(Ticked)
    /\ counter + Cardinality(Behind) <= N

(* Nobody ticks before posting, and a drained barrier has every answer.    *)
PostedFirst ==
    /\ \A w \in Worker : worker[w] \in {"posted", "ticked", "over"} => answer[w] # "none"
    /\ \A w \in Worker : worker[w] \in {"absent", "running"} => answer[w] = "none"
    /\ \A w \in Worker : port[w] # "none" => answer[w] # "none"

(* The parent is done exactly when it has a verdict, and drains in order.  *)
ParentInOrder ==
    /\ pc = "done" <=> verdict # "none"
    /\ pc # "done" => terminated = {}
    /\ reading > 1 => pc = "drain" \/ verdict = "settled"
    /\ pc = "starting" \/ started = N \/ verdict = "failed"
    /\ \A w \in Worker : w > started => worker[w] = "absent"
    /\ \A w \in Worker : w < reading => outcomes[w] \in {answer[w], "missing"}
    /\ verdict = "settled" => reading = N + 1

IInv ==
    /\ TypeOK /\ BarrierHolds /\ SleepIsWatched
    /\ CounterCounts /\ PostedFirst /\ ParentInOrder

-----------------------------------------------------------------------------
(* Counting the workers.                                                   *)
LEMMA CountFacts ==
    /\ IsFiniteSet(Worker) /\ Cardinality(Worker) = N
    /\ IsFiniteSet(Ticked) /\ Cardinality(Ticked) \in 0..N
    /\ IsFiniteSet(Behind) /\ Cardinality(Behind) \in 0..N
    /\ Cardinality(Ticked) = N => Ticked = Worker
<1>1. IsFiniteSet(Worker) /\ Cardinality(Worker) = N
  BY TasksAssumption, FS_Interval DEF Worker
<1>2. Ticked \in SUBSET Worker /\ Behind \in SUBSET Worker
  BY DEF Ticked, Behind
<1>3. IsFiniteSet(Ticked) /\ Cardinality(Ticked) <= N
  BY <1>1, <1>2, FS_Subset
<1>4. IsFiniteSet(Behind) /\ Cardinality(Behind) <= N
  BY <1>1, <1>2, FS_Subset
<1>5. Cardinality(Ticked) = N => Ticked = Worker
  BY <1>1, <1>2, FS_Subset
<1>6. Cardinality(Ticked) \in Nat /\ Cardinality(Behind) \in Nat
  BY <1>3, <1>4, FS_CardinalityType
<1> QED BY <1>1, <1>3, <1>4, <1>5, <1>6, TasksAssumption

(* What a step of a worker does to the two sets.                           *)
LEMMA SetsMove ==
    ASSUME TypeOK, NEW w \in Worker, NEW s,
           worker' = [worker EXCEPT ![w] = s]
    PROVE  /\ s \in {"ticked", "over"} => Ticked' = Ticked \cup {w}
           /\ s \notin {"ticked", "over"} => Ticked' = Ticked \ {w}
           /\ s \in {"absent", "running", "posted"} => Behind' = Behind \cup {w}
           /\ s \notin {"absent", "running", "posted"} => Behind' = Behind \ {w}
BY DEF TypeOK, Ticked, Behind

LEMMA CounterMoves ==
    ASSUME IInv, Next
    PROVE  CounterCounts' /\ counter' \in 0..N
<1>0. /\ TypeOK /\ CounterCounts /\ N \in Nat /\ counter \in 0..N
      /\ pc # "done" => terminated = {}
  BY TasksAssumption DEF IInv, TypeOK, ParentInOrder
<1>1. CASE StartWorker
  <2>1. started + 1 \in Worker /\ worker[started + 1] = "absent"
    BY <1>0, <1>1 DEF StartWorker, TypeOK, IInv, ParentInOrder, Worker
  <2>2. Ticked' = Ticked /\ Behind' = Behind
    BY <1>0, <1>1, <2>1 DEF StartWorker, TypeOK, Ticked, Behind
  <2> QED BY <1>0, <1>1, <2>2 DEF StartWorker, CounterCounts
<1>2. CASE \/ StartFails \/ EnterBarrier \/ Test \/ Load \/ TimeOut \/ Wait
           \/ ReadPort \/ SpinsOut \/ Return \/ ClockStep
  <2>1. worker' = worker /\ counter' = counter /\ (pc = "done" => pc' = "done")
    BY <1>2 DEF StartFails, EnterBarrier, Test, Load, TimeOut, Wait, ReadPort, SpinsOut,
                Return, ClockStep, SliceEnds, DeadlinePasses, Leave, Record, workerVars
  <2>2. Ticked' = Ticked /\ Behind' = Behind
    BY <2>1 DEF Ticked, Behind
  <2> QED BY <1>0, <2>1, <2>2 DEF CounterCounts
<1>3. ASSUME NEW w \in Worker, NEW how \in {"ok", "error"}, Post(w, how)
      PROVE  CounterCounts' /\ counter' \in 0..N
  <2>1. Ticked' = Ticked /\ Behind' = Behind
    BY <1>0, <1>3, SetsMove DEF Post, Ticked, Behind
  <2> QED BY <1>0, <1>3, <2>1 DEF Post, CounterCounts
<1>4. ASSUME NEW w \in Worker, Tick(w)
      PROVE  CounterCounts' /\ counter' \in 0..N
  <2>1. /\ Ticked' = Ticked \cup {w} /\ w \notin Ticked
        /\ Behind' = Behind \ {w} /\ w \in Behind
    BY <1>0, <1>4, SetsMove DEF Tick, Ticked, Behind
  <2>2. /\ Cardinality(Ticked') = Cardinality(Ticked) + 1
        /\ Cardinality(Behind') = Cardinality(Behind) - 1
    BY <2>1, CountFacts, FS_AddElement, FS_RemoveElement
  <2>3. Cardinality(Behind) \in 0..N /\ Cardinality(Behind) # 0
    BY <2>1, CountFacts, FS_EmptySet
  <2> QED BY <1>0, <1>4, <2>2, <2>3 DEF Tick, CounterCounts
<1>5. ASSUME NEW w \in Worker, Notify(w)
      PROVE  CounterCounts' /\ counter' \in 0..N
  <2>1. Ticked' = Ticked /\ Behind' = Behind
    BY <1>0, <1>5, SetsMove DEF Notify, Ticked, Behind
  <2> QED BY <1>0, <1>5, <2>1 DEF Notify, CounterCounts
<1>6. ASSUME NEW w \in Worker, Die(w)
      PROVE  CounterCounts' /\ counter' \in 0..N
  <2>1. /\ pc # "done" => Ticked' = Ticked
        /\ Behind' = Behind \ {w}
    <3>1. worker' = [worker EXCEPT ![w] = "dead"]
      BY <1>6 DEF Die
    <3>2. Ticked' = Ticked \ {w} /\ Behind' = Behind \ {w}
      BY <1>0, <3>1 DEF TypeOK, Ticked, Behind
    <3>3. pc # "done" => w \notin Ticked
      BY <1>0, <1>6 DEF Die, Ticked
    <3> QED BY <3>2, <3>3
  <2>2. /\ Cardinality(Behind') <= Cardinality(Behind)
        /\ Cardinality(Behind) \in Nat /\ Cardinality(Behind') \in Int
    <3>1. IsFiniteSet(Behind) /\ Cardinality(Behind) \in Nat
      BY CountFacts, <1>0
    <3>2. Cardinality(Behind') =
            IF w \in Behind THEN Cardinality(Behind) - 1 ELSE Cardinality(Behind)
      BY <2>1, <3>1, FS_RemoveElement
    <3> QED BY <3>1, <3>2
  <2> QED BY <1>0, <1>6, <2>1, <2>2 DEF Die, CounterCounts
<1>7. ASSUME NEW w \in Worker, Deliver(w)
      PROVE  CounterCounts' /\ counter' \in 0..N
  <2>1. Ticked' = Ticked /\ Behind' = Behind
    BY <1>7 DEF Deliver, Ticked, Behind
  <2> QED BY <1>0, <1>7, <2>1 DEF Deliver, CounterCounts
<1> QED BY <1>1, <1>2, <1>3, <1>4, <1>5, <1>6, <1>7 DEF Next, ParentStep, WorkerStep

-----------------------------------------------------------------------------
LEMMA TypeMoves ==
    ASSUME IInv, Next
    PROVE  TypeOK'
<1>0. TypeOK /\ counter' \in 0..N /\ N \in Nat
  BY CounterMoves, TasksAssumption DEF IInv
<1>1. CASE StartWorker
  <2>1. worker' \in [Worker -> {"absent", "running", "posted", "ticked", "over", "dead"}]
    BY <1>0, <1>1 DEF StartWorker, TypeOK
  <2>2. started' \in 0..N
    BY <1>0, <1>1 DEF StartWorker, TypeOK
  <2>3. /\ pc' = pc /\ late' = late /\ seen' = seen /\ reading' = reading
        /\ outcomes' = outcomes /\ verdict' = verdict /\ terminated' = terminated
        /\ answer' = answer /\ port' = port
    BY <1>1 DEF StartWorker
  <2> QED BY <1>0, <2>1, <2>2, <2>3 DEF TypeOK
<1>2. CASE StartFails \/ TimeOut \/ Return
  <2>1. 1..started \in SUBSET Worker
    BY <1>0 DEF TypeOK, Worker
  <2>2. /\ pc' = "done" /\ verdict' \in {"settled", "timeout", "failed"}
        /\ terminated' = 1..started /\ seen' \in {seen, counter}
        /\ UNCHANGED <<started, late, reading, outcomes, workerVars>>
    BY <1>2 DEF StartFails, TimeOut, Return, Leave
  <2>3. /\ seen' \in 0..N /\ counter' \in 0..N /\ terminated' \in SUBSET Worker
        /\ pc' \in {"starting", "test", "load", "wait", "asleep", "drain", "done"}
    BY <1>0, <2>1, <2>2 DEF TypeOK
  <2>4. /\ started' = started /\ late' = late /\ reading' = reading
        /\ outcomes' = outcomes /\ worker' = worker /\ answer' = answer /\ port' = port
    BY <2>2 DEF workerVars
  <2>5. verdict' \in {"none", "settled", "timeout", "failed"}
    BY <2>2
  <2> QED BY <1>0, <2>3, <2>4, <2>5 DEF TypeOK
<1>3. CASE EnterBarrier \/ Test \/ Load \/ Wait \/ ClockStep
  <2>1. /\ pc' \in {"test", "load", "drain", "wait", "asleep", pc}
        /\ seen' \in {seen, counter} /\ late' \in {late, TRUE}
        /\ started' = started /\ reading' = reading /\ outcomes' = outcomes
        /\ verdict' = verdict /\ terminated' = terminated
        /\ worker' = worker /\ answer' = answer /\ port' = port
    BY <1>3 DEF EnterBarrier, Test, Load, Wait, ClockStep, SliceEnds, DeadlinePasses,
                parentVars, workerVars
  <2>2. /\ pc' \in {"starting", "test", "load", "wait", "asleep", "drain", "done"}
        /\ seen' \in 0..N /\ late' \in BOOLEAN
    BY <1>0, <2>1 DEF TypeOK
  <2> QED BY <1>0, <2>1, <2>2 DEF TypeOK
<1>4. CASE ReadPort \/ SpinsOut
  <2>1. reading \in Worker
    BY <1>0, <1>4 DEF ReadPort, SpinsOut, TypeOK, Worker
  <2>2. ReadPort => answer[reading] \in {"ok", "error"}
    BY <1>0, <2>1 DEF ReadPort, TypeOK, IInv, PostedFirst
  <2>3. /\ reading' \in 1..(N + 1)
        /\ outcomes' \in [Worker -> {"none", "ok", "error", "missing"}]
        /\ port' \in [Worker -> {"none", "flying", "here", "read"}]
    <3>1. /\ \E o \in {"ok", "error", "missing"} :
               outcomes' = [outcomes EXCEPT ![reading] = o]
          /\ reading' = reading + 1
          /\ port' = port \/ port' = [port EXCEPT ![reading] = "read"]
      BY <1>4, <2>2 DEF ReadPort, SpinsOut, Record
    <3>2. outcomes' \in [Worker -> {"none", "ok", "error", "missing"}]
      BY <1>0, <2>1, <3>1 DEF TypeOK
    <3>3. port' \in [Worker -> {"none", "flying", "here", "read"}]
      BY <1>0, <2>1, <3>1 DEF TypeOK
    <3> QED BY <1>0, <2>1, <3>1, <3>2, <3>3 DEF Worker
  <2>4. /\ pc' = pc /\ late' = late /\ started' = started /\ seen' = seen
        /\ verdict' = verdict /\ terminated' = terminated
        /\ worker' = worker /\ answer' = answer
    BY <1>4 DEF ReadPort, SpinsOut, Record
  <2> QED BY <1>0, <2>3, <2>4 DEF TypeOK
<1>5. ASSUME NEW w \in Worker, WorkerStep(w)
      PROVE  TypeOK'
  <2>1. /\ pc' \in {pc, "test"} /\ late' = late /\ UNCHANGED parentVars
        /\ \E s \in {"posted", "ticked", "over", "dead"} :
             worker' = [worker EXCEPT ![w] = s] \/ worker' = worker
        /\ \E how \in {"ok", "error"} :
             answer' = [answer EXCEPT ![w] = how] \/ answer' = answer
        /\ \E s \in {"flying", "here"} :
             port' = [port EXCEPT ![w] = s] \/ port' = port
    BY <1>5 DEF WorkerStep, Post, Tick, Notify, Die, Deliver
  <2>2. /\ worker' \in [Worker -> {"absent", "running", "posted", "ticked", "over", "dead"}]
        /\ answer' \in [Worker -> {"none", "ok", "error"}]
        /\ port' \in [Worker -> {"none", "flying", "here", "read"}]
    BY <1>0, <2>1 DEF TypeOK
  <2>3. /\ started' = started /\ seen' = seen /\ reading' = reading /\ late' = late
        /\ outcomes' = outcomes /\ verdict' = verdict /\ terminated' = terminated
    BY <2>1 DEF parentVars
  <2>4. pc' \in {"starting", "test", "load", "wait", "asleep", "drain", "done"}
    BY <1>0, <2>1 DEF TypeOK
  <2> QED BY <1>0, <2>2, <2>3, <2>4 DEF TypeOK
<1> QED BY <1>1, <1>2, <1>3, <1>4, <1>5 DEF Next, ParentStep

LEMMA PostedMoves ==
    ASSUME IInv, Next
    PROVE  PostedFirst'
<1>0. TypeOK /\ PostedFirst
  BY DEF IInv
<1>1. CASE StartWorker
  <2>1. started + 1 \in Worker /\ worker[started + 1] = "absent"
    BY <1>0, <1>1, TasksAssumption DEF StartWorker, TypeOK, IInv, ParentInOrder, Worker
  <2> QED BY <1>0, <1>1, <2>1 DEF StartWorker, PostedFirst, TypeOK
<1>2. CASE \/ StartFails \/ EnterBarrier \/ Test \/ Load \/ TimeOut \/ Wait
           \/ SpinsOut \/ Return \/ ClockStep
  <2>1. worker' = worker /\ answer' = answer /\ port' = port
    BY <1>2 DEF StartFails, EnterBarrier, Test, Load, TimeOut, Wait, SpinsOut,
                Return, ClockStep, SliceEnds, DeadlinePasses, Leave, Record, workerVars
  <2> QED BY <1>0, <2>1 DEF PostedFirst
<1>3. CASE ReadPort
  BY <1>0, <1>3 DEF ReadPort, Record, PostedFirst, TypeOK
<1>4. ASSUME NEW w \in Worker, WorkerStep(w)
      PROVE  PostedFirst'
  BY <1>0, <1>4 DEF WorkerStep, Post, Tick, Notify, Die, Deliver, PostedFirst, TypeOK
<1> QED BY <1>1, <1>2, <1>3, <1>4 DEF Next, ParentStep

-----------------------------------------------------------------------------
LEMMA ParentMoves ==
    ASSUME IInv, Next
    PROVE  ParentInOrder'
<1>0. /\ TypeOK /\ PostedFirst /\ ParentInOrder /\ N \in Nat \ {0}
      /\ reading \in 1..(N + 1) /\ started \in 0..N /\ Worker = 1..N
  BY TasksAssumption DEF IInv, TypeOK, Worker
<1>1. CASE StartWorker
  <2>1. \A w \in Worker : w > started' => worker'[w] = "absent"
    BY <1>0, <1>1 DEF StartWorker, ParentInOrder, TypeOK
  <2> QED BY <1>0, <1>1, <2>1 DEF StartWorker, ParentInOrder
<1>2. CASE StartFails \/ TimeOut
  BY <1>0, <1>2 DEF StartFails, TimeOut, Leave, workerVars, ParentInOrder
<1>3. CASE EnterBarrier \/ Test \/ Load \/ Wait \/ ClockStep
  BY <1>0, <1>3 DEF EnterBarrier, Test, Load, Wait, ClockStep, SliceEnds, DeadlinePasses,
                    parentVars, workerVars, ParentInOrder
<1>4. CASE ReadPort \/ SpinsOut
  <2>1. PICK o \in {answer[reading], "missing"} : Record(o) /\ pc = "drain" /\ reading <= N
    BY <1>4 DEF ReadPort, SpinsOut
  <2>2. \A w \in Worker : w < reading' => outcomes'[w] \in {answer'[w], "missing"}
    BY <1>0, <2>1 DEF Record, ParentInOrder, TypeOK
  <2> QED BY <1>0, <2>1, <2>2 DEF Record, ParentInOrder
<1>5. CASE Return
  BY <1>0, <1>5 DEF Return, Leave, workerVars, ParentInOrder
<1>6. ASSUME NEW w \in Worker, WorkerStep(w)
      PROVE  ParentInOrder'
  <2>1. /\ UNCHANGED parentVars
        /\ pc' = pc \/ (pc = "asleep" /\ pc' = "test")
    BY <1>6 DEF WorkerStep, Post, Tick, Notify, Die, Deliver
  <2>2. \A v \in Worker : v > started => worker'[v] = "absent"
    BY <1>0, <1>6 DEF WorkerStep, Post, Tick, Notify, Die, Deliver, ParentInOrder, TypeOK
  <2>3. \A v \in Worker : v < reading => answer'[v] = answer[v]
    <3>1. CASE reading > 1
      <4>1. \A v \in Worker : answer[v] # "none"
        BY <1>0, <3>1 DEF ParentInOrder, IInv, BarrierHolds
      <4> QED BY <1>0, <1>6, <4>1 DEF WorkerStep, Post, Tick, Notify, Die, Deliver,
                                     PostedFirst, TypeOK
    <3>2. CASE ~(reading > 1)
      BY <1>0, <3>2
    <3> QED BY <3>1, <3>2
  <2> QED BY <1>0, <2>1, <2>2, <2>3 DEF parentVars, ParentInOrder
<1> QED BY <1>1, <1>2, <1>3, <1>4, <1>5, <1>6 DEF Next, ParentStep

-----------------------------------------------------------------------------
LEMMA BarrierMoves ==
    ASSUME IInv, Next
    PROVE  BarrierHolds'
<1>0. /\ TypeOK /\ PostedFirst /\ ParentInOrder /\ BarrierHolds /\ CounterCounts
      /\ N \in Nat \ {0}
  BY TasksAssumption DEF IInv
<1>1. CASE Test
  <2>1. CASE counter < N
    BY <1>0, <1>1, <2>1 DEF Test, parentVars, workerVars, BarrierHolds
  <2>2. CASE ~(counter < N)
    <3>1. Cardinality(Ticked) = N
      BY <1>0, <1>1, <2>2, CountFacts DEF Test, CounterCounts, TypeOK
    <3>2. \A w \in Worker : answer[w] # "none"
      BY <1>0, <3>1, CountFacts DEF Ticked, PostedFirst
    <3> QED BY <1>1, <3>2 DEF Test, workerVars, BarrierHolds
  <2> QED BY <2>1, <2>2
<1>2. CASE \/ StartWorker \/ StartFails \/ EnterBarrier \/ Load \/ TimeOut \/ Wait
           \/ ClockStep \/ ReadPort \/ SpinsOut \/ Return
  <2>1. answer' = answer /\ (pc' = "drain" \/ verdict' = "settled" =>
                                pc = "drain" \/ verdict = "settled")
    BY <1>2 DEF StartWorker, StartFails, EnterBarrier, Load, TimeOut, Wait, ClockStep,
                SliceEnds, DeadlinePasses, ReadPort, SpinsOut, Return, Leave, Record,
                parentVars, workerVars
  <2> QED BY <1>0, <2>1 DEF BarrierHolds
<1>3. ASSUME NEW w \in Worker, WorkerStep(w)
      PROVE  BarrierHolds'
  <2>1. /\ verdict' = verdict /\ pc' \in {pc, "test"}
        /\ \A v \in Worker : answer[v] # "none" => answer'[v] # "none"
    BY <1>0, <1>3 DEF WorkerStep, Post, Tick, Notify, Die, Deliver, parentVars, TypeOK
  <2> QED BY <1>0, <2>1 DEF BarrierHolds
<1> QED BY <1>1, <1>2, <1>3 DEF Next, ParentStep

LEMMA SleepMoves ==
    ASSUME IInv, Next
    PROVE  SleepIsWatched'
<1>0. TypeOK /\ ParentInOrder /\ SleepIsWatched
  BY DEF IInv
<1>1. SUFFICES ASSUME pc' = "asleep" PROVE SleepIsWatched'
  BY DEF SleepIsWatched
<1>2. CASE ParentStep
  BY <1>1, <1>2 DEF ParentStep, StartWorker, StartFails, EnterBarrier, Test, Load, TimeOut,
     Wait, ReadPort, SpinsOut, Return, Leave, Record, parentVars, workerVars, SleepIsWatched
<1>3. CASE ClockStep
  BY <1>0, <1>1, <1>3 DEF ClockStep, SliceEnds, DeadlinePasses, parentVars, workerVars,
                          SleepIsWatched
<1>4. ASSUME NEW w \in Worker, WorkerStep(w)
      PROVE  SleepIsWatched'
  <2>1. pc = "asleep" /\ terminated = {}
    BY <1>0, <1>1, <1>4 DEF WorkerStep, Post, Tick, Notify, Die, Deliver, ParentInOrder
  <2>2. seen' = seen
    BY <1>4 DEF WorkerStep, Post, Tick, Notify, Die, Deliver, parentVars
  <2>3. CASE Tick(w)
    BY <1>0, <2>3 DEF Tick, SleepIsWatched, TypeOK
  <2>4. CASE (\E how \in {"ok", "error"} : Post(w, how)) \/ Die(w) \/ Deliver(w)
    <3>1. counter' = counter /\ \A v \in Worker : worker[v] = "ticked" => worker'[v] = "ticked"
      BY <1>0, <2>1, <2>4 DEF Post, Die, Deliver, TypeOK
    <3> QED BY <1>0, <2>1, <2>2, <3>1 DEF SleepIsWatched
  <2>5. CASE Notify(w)
    BY <1>1, <2>1, <2>5 DEF Notify
  <2> QED BY <1>4, <2>3, <2>4, <2>5 DEF WorkerStep
<1> QED BY <1>2, <1>3, <1>4 DEF Next

-----------------------------------------------------------------------------
LEMMA InitHolds == Init => IInv
<1> SUFFICES ASSUME Init PROVE IInv
  OBVIOUS
<1>1. N \in Nat \ {0} /\ Ticked = {} /\ Behind = Worker
  BY TasksAssumption DEF Init, Ticked, Behind
<1>2. TypeOK
  <2>1. /\ started \in 0..N /\ seen \in 0..N /\ counter \in 0..N
        /\ reading \in 1..(N + 1) /\ terminated \in SUBSET Worker
    BY <1>1 DEF Init
  <2> QED BY <2>1 DEF Init, TypeOK
<1>3. CounterCounts
  BY <1>1, CountFacts, FS_EmptySet DEF Init, CounterCounts
<1>4. PostedFirst /\ BarrierHolds /\ SleepIsWatched
  BY DEF Init, PostedFirst, BarrierHolds, SleepIsWatched
<1>5. ParentInOrder
  BY <1>1 DEF Init, ParentInOrder, Worker
<1> QED BY <1>2, <1>3, <1>4, <1>5 DEF IInv

LEMMA StepHolds == IInv /\ [Next]_vars => IInv'
<1>1. ASSUME IInv, Next PROVE IInv'
  BY <1>1, TypeMoves, BarrierMoves, SleepMoves, CounterMoves, PostedMoves, ParentMoves
     DEF IInv
<1>2. ASSUME IInv, UNCHANGED vars PROVE IInv'
  <2>1. Ticked' = Ticked /\ Behind' = Behind
    BY <1>2 DEF vars, workerVars, Ticked, Behind
  <2> QED BY <1>2, <2>1 DEF IInv, vars, parentVars, workerVars, TypeOK, BarrierHolds,
             SleepIsWatched, CounterCounts, PostedFirst, ParentInOrder
<1> QED BY <1>1, <1>2

LEMMA Invariant == Spec => []IInv
BY InitHolds, StepHolds, PTL DEF Spec

(* The counter never passes the number of tasks, nor the drain its ports   *)
(* (runSettled and its workers).                                           *)
THEOREM TypeCorrect == Spec => []TypeOK
<1>1. IInv => TypeOK
  BY DEF IInv
<1> QED BY <1>1, Invariant, PTL

(* For every number of tasks: the parent drains, and returns, only when    *)
(* every worker has posted (myxo-concurrent.js:13-15).                     *)
THEOREM Barrier == Spec => []BarrierHolds
<1>1. IInv => BarrierHolds
  BY DEF IInv
<1> QED BY <1>1, Invariant, PTL

(* For every number of tasks: while the parent sleeps over a counter that  *)
(* has moved, somebody is about to wake it (myxo-concurrent.js:80-84).     *)
THEOREM NoLostWakeup == Spec => []SleepIsWatched
<1>1. IInv => SleepIsWatched
  BY DEF IInv
<1> QED BY <1>1, Invariant, PTL

-----------------------------------------------------------------------------
(* Every step of the threads is a step of the run that settles, or a       *)
(* stutter.                                                                *)
LEMMA StepRefines == IInv /\ [Next]_vars => [Settled!Next]_(Settled!vars)
<1> SUFFICES ASSUME IInv, [Next]_vars PROVE [Settled!Next]_(Settled!vars)
  OBVIOUS
<1> DEFINE result == [w \in Worker |-> IF verdict = "settled" THEN outcomes[w] ELSE "none"]
           how == IF verdict \in {"timeout", "failed"} THEN "threw" ELSE verdict
<1>0. /\ TypeOK /\ PostedFirst /\ ParentInOrder /\ BarrierHolds /\ N \in Nat \ {0}
  BY TasksAssumption DEF IInv
<1>1. ASSUME answer' = answer, verdict' = verdict,
             verdict = "settled" => outcomes' = outcomes
      PROVE  UNCHANGED Settled!vars
  BY <1>1 DEF Settled!vars
<1>2. CASE UNCHANGED vars
  BY <1>1, <1>2 DEF vars, parentVars, workerVars
<1>3. CASE \/ StartWorker \/ EnterBarrier \/ Test \/ Load \/ Wait \/ ClockStep
           \/ ReadPort \/ SpinsOut
  <2>1. answer' = answer /\ verdict' = verdict /\ (outcomes' = outcomes \/ pc = "drain")
    BY <1>3 DEF StartWorker, EnterBarrier, Test, Load, Wait, ClockStep, SliceEnds,
                DeadlinePasses, ReadPort, SpinsOut, Record, parentVars, workerVars
  <2>2. pc = "drain" => verdict # "settled"
    BY <1>0 DEF ParentInOrder
  <2> QED BY <1>1, <2>1, <2>2
<1>4. CASE StartFails \/ TimeOut
  <2>1. verdict = "none" /\ verdict' \in {"failed", "timeout"} /\ answer' = answer
    BY <1>0, <1>4 DEF StartFails, TimeOut, Leave, workerVars, ParentInOrder
  <2>2. result' = result /\ how = "none" /\ how' = "threw"
    BY <2>1
  <2> QED BY <2>1, <2>2 DEF Settled!Next, Settled!Throw
<1>5. CASE Return
  <2>1. /\ verdict = "none" /\ verdict' = "settled" /\ answer' = answer
        /\ outcomes' = outcomes /\ reading > N /\ pc = "drain"
    BY <1>0, <1>5 DEF Return, Leave, workerVars, ParentInOrder
  <2>2. \A w \in Worker : answer[w] # "none" /\ outcomes[w] \in {answer[w], "missing"}
    BY <1>0, <2>1 DEF BarrierHolds, ParentInOrder, TypeOK, Worker
  <2>3. result' = outcomes
    BY <1>0, <2>1 DEF TypeOK
  <2>4. /\ result' \in [Worker -> {"ok", "error", "missing"}]
        /\ \A w \in Worker : result'[w] \in {answer[w], "missing"}
    BY <1>0, <2>2, <2>3 DEF TypeOK
  <2>5. how = "none" /\ how' = "settled"
    BY <2>1
  <2> QED BY <2>1, <2>2, <2>4, <2>5 DEF Settled!Next, Settled!Return
<1>6. ASSUME NEW w \in Worker, NEW ans \in {"ok", "error"}, Post(w, ans)
      PROVE  Settled!Next
  <2>1. answer[w] = "none" /\ answer' = [answer EXCEPT ![w] = ans]
    BY <1>0, <1>6 DEF Post, PostedFirst
  <2>2. result' = result /\ how' = how
    BY <1>6 DEF Post, parentVars
  <2> QED BY <2>1, <2>2 DEF Settled!Next, Settled!Settle
<1>7. ASSUME NEW w \in Worker, Tick(w) \/ Notify(w) \/ Die(w) \/ Deliver(w)
      PROVE  UNCHANGED Settled!vars
  BY <1>1, <1>7 DEF Tick, Notify, Die, Deliver, parentVars
<1> QED BY <1>2, <1>3, <1>4, <1>5, <1>6, <1>7 DEF Next, ParentStep, WorkerStep

(* For every number of tasks the threads implement a run of independent    *)
(* tasks: all outcomes, in order, once all have settled, or an error and   *)
(* no outcome (runSettled, as gather and schedule rely on it).             *)
THEOREM ImplementsSettledRun == Spec => KeepsPromise
<1>1. Init => Settled!Init
  BY DEF Init, Settled!Init
<1> QED BY <1>1, Invariant, StepRefines, PTL DEF Spec, KeepsPromise, Settled!Spec

-----------------------------------------------------------------------------
(* The composition.                                                        *)

(* A script that gathers is, to its host, a script that takes its time.    *)
LEMMA BridgeInside == LiveGatherSpec => LiveSpec
<1>1. LiveGatherInit => LiveInit
  BY DEF LiveGatherInit
<1>2. [LiveGatherNext]_<<liveVars, vars>> => [LiveNext]_liveVars
  BY DEF LiveGatherNext, ThreadStep, OutsideGather, InGather, Beside, InHost, LiveNext, ScriptStep
<1> QED BY <1>1, <1>2, PTL DEF LiveGatherSpec, LiveSpec

(* To its tasks, the script's thread is a parent that may never come back. *)
LEMMA BarrierInside == LiveGatherSpec => Spec
<1>1. LiveGatherInit => Init
  BY DEF LiveGatherInit
<1>2. [LiveGatherNext]_<<liveVars, vars>> => [Next]_vars
  BY DEF LiveGatherNext, ThreadStep, OutsideGather, InGather, Beside, InHost, Next
<1> QED BY <1>1, <1>2, PTL DEF LiveGatherSpec, Spec

(* In a live script that gathers, parked workers are served, the ledger of *)
(* a run that ends by itself is whole, a drained barrier has every answer, *)
(* and no wake-up is lost (myxo-live.js:38-87, myxo-concurrent.js:50-100). *)
THEOREM BothStaySafe ==
    LiveGatherSpec => [](Handshake /\ LedgerComplete /\ BarrierHolds /\ SleepIsWatched)
BY BridgeInside, BarrierInside, NobodyForgotten, WholeLedger, Barrier, NoLostWakeup, PTL

(* And it is still a script of synchronous tools, a run that settles once, *)
(* and a gather that returns every outcome in task order or none           *)
(* (myxo-live-worker.js:15-27, myxo-live.js:50-61, runSettled).            *)
THEOREM BothKeepTheirPromises ==
    LiveGatherSpec => LooksSynchronous /\ SettledOnce /\ KeepsPromise
BY BridgeInside, BarrierInside, ToolsLookSynchronous, FirstComeSettles, ImplementsSettledRun, PTL
=============================================================================
