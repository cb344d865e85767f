------------------------------ MODULE FencedRun ------------------------------
(***************************************************************************)
(* runScript of src/myxo-run.js with a receipt: the script runs behind the *)
(* fence, its ledger is handed back whatever way the run ends, chained and *)
(* sealed with the host's key (src/receipt.js); later somebody else edits  *)
(* the receipt, and whoever has the key verifies it.                       *)
(*                                                                         *)
(* A hash is modelled as what it is a hash of, so that different inputs    *)
(* have different hashes.  bodyOf keeps seq, cap, args, ok and error.      *)
(***************************************************************************)
EXTENDS CapabilityFence

CONSTANTS
    Key, OtherKey,   \* the host's key, and one that is not
    MaxEdits         \* bound: edits of the receipt

ASSUME ReceiptAssumption == Key # OtherKey /\ MaxEdits \in Nat

VARIABLES
    receipt,   \* entries: [body, prev, hash]
    seal,      \* [count, root, mac], or none
    edits,     \* edits made to the receipt
    stage      \* running, sealed

receiptVars == <<receipt, seal, edits, stage>>

Genesis == << >>
Hash(prev, body) == <<prev, body>>
BodyOf(i, e) == [seq |-> i, entry |-> e]

(* chain: each entry commits the one before.                               *)
Hashes(bodies) ==
    LET hash[i \in 0..Len(bodies)] ==
            IF i = 0 THEN Genesis ELSE Hash(hash[i - 1], bodies[i])
    IN hash
Chained(bodies) ==
    [i \in DOMAIN bodies |->
        [body |-> bodies[i], prev |-> Hashes(bodies)[i - 1], hash |-> Hashes(bodies)[i]]]

Chain(entries) == Chained([i \in DOMAIN entries |-> BodyOf(i, entries[i])])

Root(r) == IF r = << >> THEN Genesis ELSE r[Len(r)].hash
Mac(key, count, root) == <<key, count, root>>
SealReceipt(r, key) ==
    [count |-> Len(r), root |-> Root(r), mac |-> Mac(key, Len(r), Root(r))]

(* Bug: the entries are not hashed again.                                  *)
VerifyChain_Bug(r, s, key) ==
    /\ \A i \in DOMAIN r : r[i].prev = IF i = 1 THEN Genesis ELSE r[i - 1].hash
    /\ s.count = Len(r) /\ s.root = Root(r)
    /\ s.mac = Mac(key, s.count, s.root)

(* verifyChain with seal and key.                                          *)
VerifyChain(r, s, key) ==
    /\ \A i \in DOMAIN r :
         /\ r[i].prev = IF i = 1 THEN Genesis ELSE r[i - 1].hash
         /\ r[i].hash = Hash(r[i].prev, r[i].body)
    /\ s.count = Len(r) /\ s.root = Root(r)
    /\ s.mac = Mac(key, s.count, s.root)

-----------------------------------------------------------------------------
RunInit ==
    /\ Init
    /\ receipt = << >> /\ seal = SealReceipt(<< >>, OtherKey)
    /\ edits = 0 /\ stage = "running"

ScriptStep == stage = "running" /\ Next /\ UNCHANGED receiptVars

(* The run ends, by itself or by an error nobody rescued.                  *)
RunEnds ==
    /\ stage = "running" /\ running = << >>
    /\ stage' = "sealed"
    /\ receipt' = Chain(audit)
    /\ seal' = SealReceipt(receipt', Key)
    /\ UNCHANGED <<edits, fenceVars>>

(* The receipt becomes r, with the hashes it had or with all of them       *)
(* computed anew over what its entries now say.                            *)
Edit(r) ==
    /\ stage = "sealed" /\ edits < MaxEdits
    /\ edits' = edits + 1
    /\ receipt' \in {r, Chained([i \in DOMAIN r |-> r[i].body])}
    /\ UNCHANGED <<seal, stage, fenceVars>>

(* An entry is rewritten, two change places, one is dropped or repeated.   *)
Rewrite == \E i \in DOMAIN receipt, end \in {"ok", "failed", "refused"} :
    Edit([receipt EXCEPT ![i].body.entry.end = end])
Swap == \E i \in 1..(Len(receipt) - 1) :
    Edit([receipt EXCEPT ![i] = receipt[i + 1], ![i + 1] = receipt[i]])
Drop == \E i \in DOMAIN receipt :
    Edit(SubSeq(receipt, 1, i - 1) \o SubSeq(receipt, i + 1, Len(receipt)))
Repeat == \E i \in DOMAIN receipt : Edit(Append(receipt, receipt[i]))

(* A seal is made that fits, with another key.                             *)
Reseal ==
    /\ stage = "sealed"
    /\ seal' = SealReceipt(receipt, OtherKey)
    /\ UNCHANGED <<receipt, edits, stage, fenceVars>>

RunNext ==
    ScriptStep \/ RunEnds \/ Rewrite \/ Swap \/ Drop \/ Repeat \/ Reseal

RunSpec == RunInit /\ [][RunNext]_<<fenceVars, receiptVars>>

-----------------------------------------------------------------------------
(* A receipt that verifies is the record of the run: it lists the ledger,  *)
(* entry by entry and no other (the comment at receipt.js:4-8).            *)
Says(r) == [i \in DOMAIN r |-> r[i].body.entry]
ReceiptIsTheLedger ==
    (stage = "sealed" /\ VerifyChain(receipt, seal, Key)) => Says(receipt) = audit
=============================================================================
