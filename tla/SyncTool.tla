------------------------------- MODULE SyncTool -------------------------------
(***************************************************************************)
(* What a Myxo script sees of an asynchronous tool behind the live bridge  *)
(* (README.md, "the wire"): a plain synchronous call.  A call is performed *)
(* once by the host, and the answer the script gets is the answer to that  *)
(* call.  The host may abandon the run at any moment.                      *)
(***************************************************************************)
EXTENDS Naturals, Sequences

CONSTANT MaxCalls

VARIABLES
    phase,    \* of the call under way: idle, asked, performing, answered; or over
    calls,    \* number of calls made
    answers   \* the call each answer the script got belongs to

vars == <<phase, calls, answers>>

Init == phase = "idle" /\ calls = 0 /\ answers = << >>

Ask ==
    /\ phase = "idle" /\ calls < MaxCalls
    /\ phase' = "asked" /\ calls' = calls + 1
    /\ UNCHANGED answers

Perform ==
    /\ phase = "asked" /\ phase' = "performing"
    /\ UNCHANGED <<calls, answers>>

Reply ==
    /\ phase = "performing" /\ phase' = "answered"
    /\ UNCHANGED <<calls, answers>>

Return ==
    /\ phase = "answered" /\ phase' = "idle"
    /\ answers' = Append(answers, calls)
    /\ UNCHANGED calls

Abandon ==
    /\ phase # "over" /\ phase' = "over"
    /\ UNCHANGED <<calls, answers>>

Next == Ask \/ Perform \/ Reply \/ Return \/ Abandon

Spec == Init /\ [][Next]_vars
=============================================================================
