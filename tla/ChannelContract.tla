--------------------------- MODULE ChannelContract --------------------------
(***************************************************************************)
(* What a Myxo channel promises (CONCURRENCY.md, "Delivery is exactly-     *)
(* once, FIFO"): an unbounded queue.  Its capacity and the senders it      *)
(* blocks cannot be told apart by who receives what: the values leave in   *)
(* the order they were given, each once, and the receivers that wait are   *)
(* served in the order they came, only when no value is pending.           *)
(***************************************************************************)
EXTENDS Sequences

CONSTANTS Channel, Value, Party

VARIABLES
    pending,    \* values given and not yet delivered, per channel
    waiting,    \* parties waiting for a value, per channel
    delivered   \* values delivered so far, in order, per channel

vars == <<pending, waiting, delivered>>

Init ==
    /\ pending = [c \in Channel |-> << >>]
    /\ waiting = [c \in Channel |-> << >>]
    /\ delivered = [c \in Channel |-> << >>]

(* A value nobody waits for is queued.                                     *)
Offer(c, v) ==
    /\ waiting[c] = << >>
    /\ pending' = [pending EXCEPT ![c] = Append(@, v)]
    /\ UNCHANGED <<waiting, delivered>>

(* A value somebody waits for goes to the one that has waited longest.     *)
HandOver(c, v) ==
    /\ waiting[c] # << >> /\ pending[c] = << >>
    /\ waiting' = [waiting EXCEPT ![c] = Tail(@)]
    /\ delivered' = [delivered EXCEPT ![c] = Append(@, v)]
    /\ UNCHANGED pending

(* The oldest pending value is fetched.                                    *)
Fetch(c) ==
    /\ pending[c] # << >>
    /\ delivered' = [delivered EXCEPT ![c] = Append(@, Head(pending[c]))]
    /\ pending' = [pending EXCEPT ![c] = Tail(@)]
    /\ UNCHANGED waiting

(* A party waits, only when nothing is pending.                            *)
Wait(c, p) ==
    /\ pending[c] = << >>
    /\ waiting' = [waiting EXCEPT ![c] = Append(@, p)]
    /\ UNCHANGED <<pending, delivered>>

Next == \E c \in Channel :
    \/ \E v \in Value : Offer(c, v) \/ HandOver(c, v)
    \/ Fetch(c)
    \/ \E p \in Party : Wait(c, p)

Spec == Init /\ [][Next]_vars
=============================================================================
