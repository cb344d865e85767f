------------------------ MODULE CapabilityFence_proofs ------------------------
(***************************************************************************)
(* The budgets of the capability fence hold for every set of capabilities, *)
(* limits and amounts, but for what was under way when a call was admitted;*)
(* so they hold outright when no host function calls back into the script. *)
(***************************************************************************)
EXTENDS FencedRun, SequenceTheorems, FiniteSetTheorems, TLAPS

(* The least of two bounds and the most of two budgets are one of them.    *)
LEMMA BoundsAreNumbers ==
    ASSUME NEW m \in Number, NEW n \in Number
    PROVE  /\ Least(m, n) \in Number
           /\ Most(m, n) \in Number
           /\ (Least(m, n) # None) <=> (m # None \/ n # None)
           /\ Most(m, n) # None => /\ m # None /\ n # None
                                   /\ m <= Most(m, n) /\ n <= Most(m, n)
  BY FenceAssumption DEF Least, Most, Number

(* A budget is a number or absent, and a call with one is metered.         *)
LEMMA BudgetIsNumber ==
    ASSUME NEW c \in Cap, NEW lim \in Limit
    PROVE  /\ Budget(c, lim) \in Number
           /\ Budget(c, lim) # None => Metered(lim)
<1>1. lim.max \in Number /\ lim.total \in Number
  BY FenceAssumption DEF Limit, Number
<1> QED BY <1>1, BoundsAreNumbers DEF Budget, Metered

(* What the fence looks up for a capability is a limit.                    *)
LEMMA LimitOfIsLimit ==
    ASSUME TypeOK, NEW c \in Cap
    PROVE  LimitOf(c) \in Limit
<1>1. CASE Declared(c)
  BY <1>1 DEF LimitOf, Declared, TypeOK
<1>2. CASE ~Declared(c)
  BY <1>2 DEF LimitOf, Limit
<1> QED BY <1>1, <1>2

(* An admitted call fits the budget it is admitted under.                  *)
LEMMA AdmittedFits ==
    ASSUME TypeOK, NEW c \in Cap, NEW a \in Arg, Admitted(c, a),
           Budget(c, LimitOf(c)) # None
    PROVE  /\ Cost(c, a) \in Nat
           /\ Counted(c) + Cost(c, a) <= Budget(c, LimitOf(c))
<1> DEFINE lim == LimitOf(c)
<1>1. lim \in Limit /\ Metered(lim) /\ Budget(c, lim) \in Number
  BY LimitOfIsLimit, BudgetIsNumber
<1>2. CASE c \in ByValue
  BY <1>1, <1>2, FenceAssumption DEF Admitted, InBudget, Within, Budget, Cost, Counted,
     Arg, TypeOK
<1>3. CASE c \notin ByValue
  BY <1>1, <1>3, FenceAssumption DEF Admitted, InBudget, Within, Budget, Cost, Counted,
     TypeOK
<1> QED BY <1>2, <1>3

-----------------------------------------------------------------------------
(* What a call is to cost leaves a number a number.                        *)
LEMMA CostIsCounted ==
    ASSUME NEW c \in Cap, NEW a \in Arg, NEW n \in Nat
    PROVE  /\ Plus(n, Cost(c, a)) \in Nat
           /\ Cost(c, a) # None => Cost(c, a) \in Nat /\ Plus(n, Cost(c, a)) = n + Cost(c, a)
           /\ n <= Plus(n, Cost(c, a))
  BY FenceAssumption DEF Plus, Cost, Arg

LEMMA InitIInv == Init => IInv
<1> SUFFICES ASSUME Init PROVE IInv
  OBVIOUS
<1>1. TypeOK
  BY FenceAssumption DEF Init, TypeOK, Number
<1>2. CountersAreTrue /\ Stacked /\ Fits /\ \A i \in DOMAIN running : Budgeted(running[i])
  BY FenceAssumption DEF Init, CountersAreTrue, Stacked, Fits, Counted, Consumed
<1> QED BY <1>1, <1>2 DEF IInv

(* A declaration touches no counter and no call under way.                 *)
LEMMA NeedsKeeps ==
    ASSUME IInv, NEW c \in Cap, NEW lim \in Limit, Needs(c, lim)
    PROVE  IInv'
<1> USE DEF IInv
<1>1. declared' \in 0..MaxNeeds
  BY FenceAssumption DEF Needs, TypeOK
<1>2. DOMAIN manifest' \subseteq Cap /\ manifest' \in [DOMAIN manifest' -> Limit]
  BY DEF Needs, TypeOK
<1>3. UNCHANGED <<ceiling, underway, overlap, running, audit, made, reached, capSpent,
                  capCalls, used, worth>>
  BY DEF Needs, ledgerVars, counterVars, historyVars
<1>4. TypeOK'
  BY <1>1, <1>2, <1>3 DEF TypeOK
<1>5. CountersAreTrue' /\ Stacked' /\ Fits' /\ \A i \in DOMAIN running' : Budgeted(running[i])'
  BY <1>3 DEF CountersAreTrue, Stacked, Fits, Budgeted, Counted, Consumed, With
<1> QED BY <1>4, <1>5

LEMMA RefuseKeeps ==
    ASSUME IInv, NEW c \in Cap, NEW a \in Arg, Refuse(c, a)
    PROVE  IInv'
<1> USE DEF IInv
<1>1. UNCHANGED <<declared, manifest, ceiling, underway, overlap, running, reached, capSpent,
                  capCalls, used, worth>>
  BY DEF Refuse, counterVars, historyVars
<1>2. made' \in 0..MaxCalls /\ reached' \in 0..made'
  <2>1. made \in Nat /\ reached \in 0..made /\ made < MaxCalls /\ made' = made + 1
    BY DEF Refuse, TypeOK
  <2> QED BY <1>1, <2>1, FenceAssumption
<1>3. audit' \in Seq([cap : Cap, arg : Arg, end : {"ok", "failed", "refused"}])
  <2>1. Entry(c, a, "refused") \in [cap : Cap, arg : Arg, end : {"ok", "failed", "refused"}]
    BY DEF Entry
  <2> QED BY <2>1, AppendProperties DEF Refuse, TypeOK
<1>4. TypeOK'
  BY <1>1, <1>2, <1>3 DEF TypeOK
<1>5. CountersAreTrue' /\ Stacked' /\ Fits' /\ \A i \in DOMAIN running' : Budgeted(running[i])'
  BY <1>1 DEF CountersAreTrue, Stacked, Fits, Budgeted, Counted, Consumed, With
<1> QED BY <1>4, <1>5

(* The call joins the stack; it was admitted under its limit, beside what  *)
(* is under way.                                                           *)
LEMMA PerformKeeps ==
    ASSUME IInv, NEW c \in Cap, NEW a \in Arg, Perform(c, a)
    PROVE  IInv'
<1> USE DEF IInv
<1> DEFINE lim == LimitOf(c)
           budget == Budget(c, lim)
           call == [cap |-> c, arg |-> a, limit |-> lim, before |-> underway]
<1>1. UNCHANGED <<declared, manifest, audit, capSpent, capCalls, used, worth>>
  BY DEF Perform, counterVars
<1>2. lim \in Limit /\ budget \in Number /\ call \in Call
  BY LimitOfIsLimit, BudgetIsNumber DEF Call, TypeOK
<1>3. running' = Append(running, call)
  BY DEF Perform
<1>4. /\ ceiling' \in [Cap -> Number]
      /\ ceiling'[c] = Most(ceiling[c], budget)
      /\ \A d \in Cap \ {c} : ceiling'[d] = ceiling[d]
  BY <1>2, BoundsAreNumbers DEF Perform, TypeOK
<1>5. /\ underway' \in [Cap -> Nat] /\ underway' = With(call)
      /\ underway'[c] = Plus(underway[c], Cost(c, a))
      /\ \A d \in Cap \ {c} : underway'[d] = underway[d]
  BY CostIsCounted DEF Perform, TypeOK, With
<1>6. /\ overlap' \in [Cap -> Nat]
      /\ underway[c] <= overlap'[c]
      /\ \A d \in Cap \ {c} : overlap'[d] = overlap[d]
  BY DEF Perform, TypeOK
<1>7. made' \in 0..MaxCalls /\ reached' \in 0..made'
  <2>1. /\ made \in Nat /\ reached \in 0..made /\ made < MaxCalls
        /\ made' = made + 1 /\ reached' = reached + 1
    BY DEF Perform, TypeOK
  <2> HIDE DEF IInv
  <2> QED BY <2>1, FenceAssumption
<1> HIDE DEF call
<1>8. running' \in Seq(Call) /\ Len(running') = Len(running) + 1
      /\ running'[Len(running) + 1] = call
      /\ \A i \in 1..Len(running) : running'[i] = running[i]
  BY <1>2, <1>3, AppendProperties DEF TypeOK
<1>9. TypeOK'
  BY <1>1, <1>4, <1>5, <1>6, <1>7, <1>8 DEF TypeOK
<1>10. ceiling'[c] # None => /\ ceiling[c] # None /\ budget # None
                             /\ ceiling[c] <= ceiling'[c] /\ budget <= ceiling'[c]
  BY <1>2, <1>4, BoundsAreNumbers DEF TypeOK
<1>11. \A d \in Cap : Counted(d)' = Counted(d) /\ Consumed(d)' = Consumed(d)
  BY <1>1 DEF Counted, Consumed
<1>12. CountersAreTrue'
  BY <1>4, <1>10, <1>11 DEF CountersAreTrue
<1>13. Stacked'
  <2>1. Len(running) \in Nat
    BY DEF TypeOK
  <2>2. underway' = With(running'[Len(running')])
    BY <1>5, <1>8
  <2>3. ASSUME NEW i \in 1..(Len(running') - 1)
        PROVE  running'[i + 1].before = With(running'[i])
    <3>1. CASE i < Len(running)
      BY <1>8, <2>1, <3>1 DEF Stacked
    <3>2. CASE i = Len(running)
      <4>1. running # << >> /\ running'[i] = running[Len(running)]
        BY <1>8, <2>1, <3>2
      <4>2. running'[i + 1].before = underway
        BY <1>8, <3>2 DEF call
      <4> QED BY <4>1, <4>2 DEF Stacked
    <3> QED BY <1>8, <2>1, <3>1, <3>2
  <2> QED BY <2>2, <2>3 DEF Stacked, With
<1>14. Fits'
  <2>1. ASSUME ceiling'[c] # None
        PROVE  Counted(c) + underway'[c] <= ceiling'[c] + overlap'[c]
    <3>1. budget # None /\ budget \in Nat /\ budget <= ceiling'[c] /\ ceiling'[c] \in Nat
      BY <1>2, <1>4, <1>10, <2>1 DEF Number
    <3>2. Cost(c, a) \in Nat /\ Counted(c) + Cost(c, a) <= budget
      BY <3>1, AdmittedFits DEF Perform
    <3>3. underway'[c] = underway[c] + Cost(c, a)
      BY <1>5, <3>2, FenceAssumption DEF Plus
    <3>4. underway[c] \in Nat /\ overlap'[c] \in Nat /\ Counted(c) \in Nat
      BY <1>6 DEF TypeOK, Counted
    <3> HIDE DEF budget
    <3> QED BY <1>6, <3>1, <3>2, <3>3, <3>4
  <2> QED BY <1>4, <1>5, <1>6, <1>11, <2>1 DEF Fits
<1>15. ASSUME NEW i \in DOMAIN running' PROVE Budgeted(running[i])'
  <2>1. i \in 1..(Len(running) + 1) /\ Len(running) \in Nat
    BY <1>8 DEF TypeOK
  <2>2. CASE i \in 1..Len(running)
    <3>1. running'[i] = running[i] /\ running[i] \in Call /\ Budgeted(running[i])
      BY <1>8, <2>2, ElementOfSeq DEF TypeOK
    <3>2. ceiling'[running[i].cap] # None => ceiling[running[i].cap] # None
      BY <1>4, <1>10, <3>1 DEF Call
    <3> QED BY <3>1, <3>2 DEF Budgeted, Budget, Cost
  <2>3. CASE i = Len(running) + 1
    <3>1. running'[i] = call /\ call.cap = c /\ call.arg = a /\ call.limit = lim
      BY <1>8, <2>3 DEF call
    <3>2. ceiling'[c] # None => budget # None /\ Cost(c, a) # None
      BY <1>10, AdmittedFits, FenceAssumption DEF Perform
    <3> HIDE DEF lim
    <3> QED BY <3>1, <3>2 DEF Budgeted, Budget, Cost
  <2> QED BY <2>1, <2>2, <2>3
<1> QED BY <1>9, <1>12, <1>13, <1>14, <1>15

(* Ending the innermost call, whatever is charged for it, leaves under way *)
(* what was there before it.                                               *)
LEMMA LastInFirstOut ==
    ASSUME IInv, running # << >>, running' = Outer, underway' = Innermost.before,
           UNCHANGED <<ceiling, overlap>>
    PROVE  /\ running' \in Seq(Call) /\ underway' \in [Cap -> Nat]
           /\ Innermost \in Call /\ Budgeted(Innermost) /\ underway = With(Innermost)
           /\ Stacked' /\ \A i \in DOMAIN running' : Budgeted(running[i])'
<1> USE DEF IInv
<1> DEFINE n == Len(running)
<1>1. running \in Seq(Call) /\ n \in Nat /\ n # 0 /\ n \in 1..n
  BY DEF TypeOK
<1>2. Innermost \in Call /\ Budgeted(Innermost) /\ underway = With(Innermost)
  BY <1>1, ElementOfSeq DEF Innermost, Stacked
<1>3. underway' \in [Cap -> Nat]
  BY <1>2 DEF Call
<1>4. /\ running' \in Seq(Call) /\ Len(running') = n - 1
      /\ \A i \in 1..(n - 1) : running'[i] = running[i]
  <2>1. running' = SubSeq(running, 1, n - 1)
    BY DEF Outer
  <2>2. \A i \in 1..(n - 1) : running[i] \in Call
    BY <1>1, ElementOfSeq
  <2>3. 1 \in Int /\ n - 1 \in Int
    BY <1>1
  <2> HIDE DEF n
  <2>4. /\ SubSeq(running, 1, n - 1) \in Seq(Call)
        /\ Len(SubSeq(running, 1, n - 1)) = IF 1 <= n - 1 THEN n - 1 - 1 + 1 ELSE 0
        /\ \A i \in 1..(n - 1 - 1 + 1) : SubSeq(running, 1, n - 1)[i] = running[1 + i - 1]
    BY <2>2, <2>3, SubSeqProperties
  <2>5. n \in Nat /\ n # 0 => (IF 1 <= n - 1 THEN n - 1 - 1 + 1 ELSE 0) = n - 1
    OBVIOUS
  <2> QED BY <1>1, <2>1, <2>4, <2>5
<1>5. Stacked'
  <2>1. ASSUME running' # << >> PROVE underway' = With(running'[Len(running')])
    <3>1. n - 1 \in 1..(n - 1) /\ n = (n - 1) + 1
      BY <1>1, <1>4, <2>1
    <3>2. running[(n - 1) + 1].before = With(running[n - 1])
      BY <3>1 DEF Stacked
    <3> QED BY <1>4, <3>1, <3>2 DEF Innermost
  <2>2. \A i \in 1..(Len(running') - 1) : running'[i + 1].before = With(running'[i])
    BY <1>1, <1>4 DEF Stacked
  <2> QED BY <2>1, <2>2 DEF Stacked, With
<1>6. \A i \in DOMAIN running' : Budgeted(running[i])'
  BY <1>1, <1>4 DEF Budgeted, Budget, Cost
<1> QED BY <1>2, <1>3, <1>4, <1>5, <1>6

(* The ledger entry of a call that ends.                                   *)
LEMMA EndedEntry ==
    ASSUME TypeOK, Innermost \in Call, NEW end \in {"ok", "failed", "refused"}
    PROVE  Append(audit, Entry(Innermost.cap, Innermost.arg, end))
             \in Seq([cap : Cap, arg : Arg, end : {"ok", "failed", "refused"}])
<1>1. Entry(Innermost.cap, Innermost.arg, end)
        \in [cap : Cap, arg : Arg, end : {"ok", "failed", "refused"}]
  BY DEF Entry, Call
<1> QED BY <1>1, AppendProperties DEF TypeOK

(* Nothing is charged, and less is under way.                              *)
LEMMA FailKeeps ==
    ASSUME IInv, Fail
    PROVE  IInv'
<1> USE DEF IInv
<1>1. /\ running # << >> /\ running' = Outer /\ underway' = Innermost.before
      /\ audit' = Append(audit, Entry(Innermost.cap, Innermost.arg, "failed"))
      /\ UNCHANGED <<declared, manifest, ceiling, overlap, made, reached, capSpent, capCalls,
                     used, worth>>
  BY DEF Fail, Settles, counterVars
<1>2. /\ running' \in Seq(Call) /\ underway' \in [Cap -> Nat]
      /\ Innermost \in Call /\ underway = With(Innermost)
      /\ Stacked' /\ \A i \in DOMAIN running' : Budgeted(running[i])'
  BY <1>1, LastInFirstOut
<1>3. audit' \in Seq([cap : Cap, arg : Arg, end : {"ok", "failed", "refused"}])
  BY <1>1, <1>2, EndedEntry
<1>4. TypeOK'
  BY <1>1, <1>2, <1>3 DEF TypeOK
<1>5. CountersAreTrue'
  BY <1>1 DEF CountersAreTrue, Counted, Consumed
<1>6. \A d \in Cap : underway'[d] <= underway[d]
  <2>1. PICK c \in Cap, a \in Arg, before \in [Cap -> Nat] :
           c = Innermost.cap /\ a = Innermost.arg /\ before = Innermost.before
    BY <1>2 DEF Call
  <2>2. underway = [before EXCEPT ![c] = Plus(@, Cost(c, a))] /\ underway' = before
    BY <1>1, <1>2, <2>1 DEF With
  <2>3. before[c] \in Nat /\ before[c] <= Plus(before[c], Cost(c, a))
    BY CostIsCounted
  <2>4. \A d \in Cap \ {c} : underway[d] = before[d] /\ before[d] \in Nat
    BY <2>2
  <2> QED BY <2>2, <2>3, <2>4
<1>7. Fits'
  <2>1. SUFFICES ASSUME NEW d \in Cap, ceiling[d] # None
                 PROVE  Counted(d) + underway'[d] <= ceiling[d] + overlap[d]
    BY <1>1 DEF Fits, Counted
  <2>2. /\ Counted(d) \in Nat /\ underway[d] \in Nat /\ underway'[d] \in Nat
        /\ ceiling[d] \in Nat /\ overlap[d] \in Nat
    BY <1>2, <2>1 DEF TypeOK, Counted, Number
  <2>3. Counted(d) + underway[d] <= ceiling[d] + overlap[d]
    BY <2>1 DEF Fits
  <2> QED BY <1>6, <2>2, <2>3
<1> QED BY <1>2, <1>4, <1>5, <1>7

(* What is charged was under way, and is what was consumed.                *)
LEMMA SucceedKeeps ==
    ASSUME IInv, Succeed
    PROVE  IInv'
<1> USE DEF IInv
<1>0. /\ running # << >> /\ running' = Outer /\ underway' = Innermost.before
      /\ UNCHANGED <<ceiling, overlap>>
  BY DEF Succeed, Settles
<1>1. /\ running' \in Seq(Call) /\ underway' \in [Cap -> Nat]
      /\ Innermost \in Call /\ Budgeted(Innermost) /\ underway = With(Innermost)
      /\ Stacked' /\ \A i \in DOMAIN running' : Budgeted(running[i])'
  BY <1>0, LastInFirstOut
<1>2. PICK c \in Cap, a \in Arg, lim \in Limit :
         c = Innermost.cap /\ a = Innermost.arg /\ lim = Innermost.limit
  BY <1>1 DEF Call
<1> DEFINE budget == Budget(c, lim)
<1>a. /\ audit' = Append(audit, Entry(Innermost.cap, Innermost.arg, "ok"))
      /\ used' = [used EXCEPT ![c] = @ + 1]
      /\ worth' = [worth EXCEPT ![c] = Plus(@, a)]
      /\ UNCHANGED <<declared, manifest, made, reached>>
  BY <1>2 DEF Succeed
<1>3. budget \in Number /\ (budget # None => Metered(lim))
  BY BudgetIsNumber
<1>4. /\ ceiling \in [Cap -> Number]
      /\ capSpent \in [Cap -> Nat] /\ capCalls \in [Cap -> Nat]
      /\ used \in [Cap -> Nat] /\ worth \in [Cap -> Nat]
      /\ \A n \in Nat : Plus(n, a) \in Nat
  <2>1. \A n \in Nat : Plus(n, a) \in Nat
    BY FenceAssumption DEF Plus, Arg
  <2> QED BY <2>1 DEF TypeOK
<1> HIDE DEF budget
<1>5. /\ capSpent' = IF Metered(lim) /\ c \in ByValue
                     THEN [capSpent EXCEPT ![c] = Plus(@, a)] ELSE capSpent
      /\ capCalls' = IF Metered(lim) /\ c \notin ByValue
                     THEN [capCalls EXCEPT ![c] = @ + 1] ELSE capCalls
      /\ capSpent' \in [Cap -> Nat] /\ capCalls' \in [Cap -> Nat]
  <2>1. Charge(Innermost)
    BY DEF Succeed
  <2>2. /\ capSpent' = IF Metered(lim) /\ c \in ByValue
                       THEN [capSpent EXCEPT ![c] = Plus(@, a)] ELSE capSpent
        /\ capCalls' = IF Metered(lim) /\ c \notin ByValue
                       THEN [capCalls EXCEPT ![c] = @ + 1] ELSE capCalls
    BY <1>2, <2>1 DEF Charge
  <2>3. \A n \in Nat : n + 1 \in Nat
    OBVIOUS
  <2> QED BY <1>2, <1>4, <2>2, <2>3
<1>6. used' \in [Cap -> Nat] /\ worth' \in [Cap -> Nat]
  <2>1. \A n \in Nat : n + 1 \in Nat
    OBVIOUS
  <2>2. used' \in [Cap -> Nat]
    BY <1>a, <1>4, <2>1
  <2>3. worth' \in [Cap -> Nat]
    BY <1>a, <1>4
  <2> QED BY <2>2, <2>3
<1>7. TypeOK'
  <2>1. audit' \in Seq([cap : Cap, arg : Arg, end : {"ok", "failed", "refused"}])
    BY <1>a, <1>1, EndedEntry
  <2> QED BY <1>0, <1>1, <1>a, <1>5, <1>6, <2>1 DEF TypeOK
<1>8. \A d \in Cap \ {c} : Counted(d)' = Counted(d) /\ Consumed(d)' = Consumed(d)
  BY <1>a, <1>4, <1>5 DEF Counted, Consumed
<1>9. ASSUME ceiling[c] # None
      PROVE  /\ Cost(c, a) \in Nat
             /\ Counted(c)' = Counted(c) + Cost(c, a) /\ Consumed(c)' = Consumed(c) + Cost(c, a)
  <2>1. budget # None /\ Cost(c, a) # None /\ Metered(lim)
    BY <1>1, <1>2, <1>3, <1>9 DEF Budgeted, budget
  <2>2. CASE c \in ByValue
    <3>1. a \in Nat /\ Cost(c, a) = a
      BY <1>2, <2>1, <2>2, FenceAssumption DEF Cost, Arg
    <3>2. Plus(worth[c], a) = worth[c] + a /\ Plus(capSpent[c], a) = capSpent[c] + a
      BY <3>1, FenceAssumption DEF Plus
    <3>3. capSpent'[c] = capSpent[c] + a /\ worth'[c] = worth[c] + a
      BY <1>a, <1>4, <1>5, <2>1, <2>2, <3>2
    <3> QED BY <2>2, <3>1, <3>3 DEF Counted, Consumed
  <2>3. CASE c \notin ByValue
    <3>1. Cost(c, a) = 1
      BY <2>3 DEF Cost
    <3>2. capCalls'[c] = capCalls[c] + 1 /\ used'[c] = used[c] + 1
      BY <1>a, <1>4, <1>5, <2>1, <2>3
    <3> QED BY <2>3, <3>1, <3>2 DEF Counted, Consumed
  <2> QED BY <2>2, <2>3
<1>10. CountersAreTrue'
  BY <1>0, <1>8, <1>9 DEF CountersAreTrue
<1>11. /\ \A d \in Cap \ {c} : underway'[d] = underway[d]
       /\ Cost(c, a) \in Nat => underway[c] = underway'[c] + Cost(c, a)
  BY <1>0, <1>1, <1>2, FenceAssumption DEF With, Plus, Call
<1>12. Fits'
  <2>1. SUFFICES ASSUME NEW d \in Cap, ceiling[d] # None
                 PROVE  Counted(d)' + underway'[d] <= ceiling[d] + overlap[d]
    BY <1>0 DEF Fits
  <2>2. Counted(d) + underway[d] <= ceiling[d] + overlap[d]
    BY <2>1 DEF Fits
  <2>3. Counted(d) \in Nat /\ underway'[d] \in Nat
    BY <1>1 DEF TypeOK, Counted
  <2>4. CASE d # c
    BY <1>8, <1>11, <2>2, <2>4
  <2>5. CASE d = c
    <3>1. Counted(c)' + underway'[c] = Counted(c) + underway[c]
      BY <1>9, <1>11, <2>1, <2>3, <2>5
    <3> QED BY <2>2, <2>5, <3>1
  <2> QED BY <2>4, <2>5
<1> QED BY <1>1, <1>7, <1>10, <1>12

(* Every step of the fence, and stuttering, keeps the invariant.           *)
LEMMA StepIInv ==
    ASSUME IInv, [Next]_fenceVars
    PROVE  IInv'
<1>1. CASE UNCHANGED fenceVars
  BY <1>1 DEF fenceVars, ledgerVars, counterVars, historyVars, IInv, TypeOK, CountersAreTrue,
     Stacked, Fits, Budgeted, Counted, Consumed, With
<1>2. CASE Next
  BY <1>2, NeedsKeeps, RefuseKeeps, PerformKeeps, SucceedKeeps, FailKeeps DEF Next
<1> QED BY <1>1, <1>2

(* The inductive invariant, type correctness included, holds in every run  *)
(* of the fence (interpreter.js:844-928), whatever host functions call.    *)
THEOREM FenceInvariant == Spec => []IInv
<1> QED BY InitIInv, StepIInv, PTL DEF Spec

(* The budgets the script declared hold: what its calls of a capability    *)
(* consumed is never more than the largest budget a call was admitted      *)
(* under, and what was under way at that time (interpreter.js:859-905).    *)
THEOREM BudgetsHold == Spec => []BudgetHolds
<1>1. IInv => BudgetHolds
  <2> SUFFICES ASSUME IInv, NEW c \in Cap, ceiling[c] # None
               PROVE  Consumed(c) <= ceiling[c] + overlap[c]
    BY DEF BudgetHolds
  <2>1. /\ Counted(c) \in Nat /\ underway[c] \in Nat /\ ceiling[c] \in Nat /\ overlap[c] \in Nat
    BY DEF IInv, TypeOK, Counted, Number
  <2>2. Counted(c) = Consumed(c) /\ Counted(c) + underway[c] <= ceiling[c] + overlap[c]
    BY DEF IInv, CountersAreTrue, Fits
  <2> QED BY <2>1, <2>2
<1> QED BY <1>1, FenceInvariant, PTL

-----------------------------------------------------------------------------
(* The entries of a sequence that are of one kind can be counted.          *)
Book == [cap : Cap, arg : Arg, end : {"ok", "failed", "refused"}]
Where(seq, T) == {i \in DOMAIN seq : seq[i] \in T}

LEMMA EntriesCounted ==
    ASSUME NEW S, NEW seq \in Seq(S), NEW T
    PROVE  IsFiniteSet(Where(seq, T)) /\ Cardinality(Where(seq, T)) \in Nat
<1>1. IsFiniteSet(1..Len(seq))
  BY LenProperties, FS_Interval
<1>2. Where(seq, T) \in SUBSET (1..Len(seq))
  BY LenProperties DEF Where
<1>3. IsFiniteSet(Where(seq, T))
  BY <1>1, <1>2, FS_Subset
<1> QED BY <1>3, FS_CardinalityType

(* One entry more counts in each of the kinds it belongs to.               *)
LEMMA OneEntryMore ==
    ASSUME NEW S, NEW seq \in Seq(S), NEW e \in S, NEW T
    PROVE  /\ Cardinality(Where(seq, T)) \in Nat
           /\ Cardinality(Where(Append(seq, e), T)) =
                Cardinality(Where(seq, T)) + (IF e \in T THEN 1 ELSE 0)
<1> DEFINE n == Len(seq)
           more == Append(seq, e)
<1>1. n \in Nat /\ DOMAIN seq = 1..n
  BY LenProperties
<1>2. /\ DOMAIN more = 1..(n + 1) /\ more[n + 1] = e
      /\ \A i \in 1..n : more[i] = seq[i]
  <2>1. more \in Seq(S) /\ Len(more) = n + 1
    BY AppendProperties
  <2> QED BY <2>1, LenProperties, AppendProperties
<1> HIDE DEF more, n
<1>3. IsFiniteSet(Where(seq, T)) /\ Cardinality(Where(seq, T)) \in Nat
  BY EntriesCounted
<1>4. n + 1 \notin Where(seq, T)
  BY <1>1 DEF Where
<1>5. 1..(n + 1) = (1..n) \cup {n + 1}
  BY <1>1
<1>6. CASE e \in T
  <2>1. Where(more, T) = Where(seq, T) \cup {n + 1}
    BY <1>1, <1>2, <1>5, <1>6 DEF Where
  <2>2. Cardinality(Where(more, T)) = Cardinality(Where(seq, T)) + 1
    BY <1>3, <1>4, <2>1, FS_AddElement
  <2> QED BY <1>3, <1>6, <2>2 DEF more
<1>7. CASE e \notin T
  <2>1. Where(more, T) = Where(seq, T)
    BY <1>1, <1>2, <1>5, <1>7 DEF Where
  <2> QED BY <1>3, <1>7, <2>1 DEF more
<1> QED BY <1>6, <1>7

(* The ledger's sets of entries, in these words.                           *)
Performed == {e \in Book : e.end \in {"ok", "failed"}}
Granted(c) == {e \in Book : e.end = "ok" /\ e.cap = c}
Written ==
    /\ made = Len(audit) + Len(running)
    /\ reached = Cardinality(Where(audit, Performed)) + Len(running)
    /\ \A c \in Cap : used[c] = Cardinality(Where(audit, Granted(c)))

LEMMA LedgerInOtherWords ==
    ASSUME TypeOK
    PROVE  Written <=> LedgerIsComplete
<1>1. audit \in Seq(Book) /\ Len(audit) \in Nat /\ Len(running) \in Nat
  BY DEF TypeOK, Book
<1>2. \A i \in DOMAIN audit : audit[i] \in Book
  BY <1>1, ElementOfSeq, LenProperties
<1>3. Ended({"ok", "failed"}) = Where(audit, Performed)
  BY <1>2 DEF Ended, Where, Performed
<1>4. \A c \in Cap : {i \in Ended({"ok"}) : audit[i].cap = c} = Where(audit, Granted(c))
  BY <1>2 DEF Ended, Where, Granted
<1> QED BY <1>1, <1>3, <1>4 DEF Written, LedgerIsComplete

(* What an entry adds to each count.                                       *)
LEMMA EntryCounts ==
    ASSUME TypeOK, NEW c \in Cap, NEW a \in Arg, NEW end \in {"ok", "failed", "refused"},
           audit' = Append(audit, Entry(c, a, end))
    PROVE  /\ Len(audit') = Len(audit) + 1
           /\ Cardinality(Where(audit, Performed)) \in Nat
           /\ Cardinality(Where(audit', Performed)) = Cardinality(Where(audit, Performed))
                + (IF end = "refused" THEN 0 ELSE 1)
           /\ \A d \in Cap : /\ Cardinality(Where(audit, Granted(d))) \in Nat
                              /\ Cardinality(Where(audit', Granted(d))) =
                                   Cardinality(Where(audit, Granted(d)))
                                   + (IF end = "ok" /\ d = c THEN 1 ELSE 0)
<1> DEFINE e == Entry(c, a, end)
<1>1. audit \in Seq(Book) /\ e \in Book
  BY DEF TypeOK, Book, Entry
<1>2. e \in Performed <=> end # "refused"
  BY DEF Performed, Entry, Book
<1>3. \A d \in Cap : e \in Granted(d) <=> (end = "ok" /\ d = c)
  BY DEF Granted, Entry, Book
<1> HIDE DEF e
<1>4. audit' = Append(audit, e)
  BY DEF e
<1>5. Len(audit') = Len(audit) + 1
  BY <1>1, <1>4, AppendProperties
<1>6. /\ Cardinality(Where(audit, Performed)) \in Nat
      /\ Cardinality(Where(audit', Performed)) = Cardinality(Where(audit, Performed))
           + (IF e \in Performed THEN 1 ELSE 0)
  BY <1>1, <1>4, OneEntryMore
<1>7. \A d \in Cap : /\ Cardinality(Where(audit, Granted(d))) \in Nat
                     /\ Cardinality(Where(audit', Granted(d))) =
                          Cardinality(Where(audit, Granted(d)))
                          + (IF e \in Granted(d) THEN 1 ELSE 0)
  BY <1>1, <1>4, OneEntryMore
<1> QED BY <1>2, <1>3, <1>5, <1>6, <1>7

(* Every step of the fence keeps the books.                                *)
LEMMA StepWritten ==
    ASSUME IInv, Written, [Next]_fenceVars
    PROVE  Written'
<1>t. /\ running \in Seq(Call) /\ Len(running) \in Nat /\ Len(audit) \in Nat
      /\ made \in Nat /\ reached \in Nat /\ used \in [Cap -> Nat]
  BY FenceAssumption DEF IInv, TypeOK
<1>1. CASE UNCHANGED <<running, audit, made, reached, used>>
  BY <1>1 DEF Written
<1>2. ASSUME NEW c \in Cap, NEW a \in Arg, Refuse(c, a) PROVE Written'
  <2>1. /\ made' = made + 1 /\ audit' = Append(audit, Entry(c, a, "refused"))
        /\ UNCHANGED <<running, reached, used>>
    BY <1>2 DEF Refuse, counterVars
  <2> QED BY <1>t, <2>1, EntryCounts DEF Written, IInv
<1>3. ASSUME NEW c \in Cap, NEW a \in Arg, Perform(c, a) PROVE Written'
  <2>1. /\ made' = made + 1 /\ reached' = reached + 1 /\ Len(running') = Len(running) + 1
        /\ UNCHANGED <<audit, used>>
    BY <1>3, <1>t, LenProperties DEF Perform, counterVars
  <2>2. \A T : Where(audit', T) = Where(audit, T)
    BY <2>1 DEF Where
  <2>3. Cardinality(Where(audit, Performed)) \in Nat
    BY EntriesCounted DEF IInv, TypeOK
  <2>4. made' = Len(audit') + Len(running')
    BY <1>t, <2>1 DEF Written
  <2>5. reached' = Cardinality(Where(audit', Performed)) + Len(running')
    BY <1>t, <2>1, <2>2, <2>3 DEF Written
  <2>6. \A d \in Cap : used'[d] = Cardinality(Where(audit', Granted(d)))
    BY <2>1, <2>2 DEF Written
  <2> QED BY <2>4, <2>5, <2>6 DEF Written
<1>4. ASSUME running # << >>, running' = Outer
      PROVE  Len(running') = Len(running) - 1 /\ Len(running') \in Nat /\ Innermost \in Call
  <2> DEFINE n == Len(running)
  <2>1. n \in Nat /\ n # 0 /\ n \in 1..n
    BY <1>t, <1>4
  <2>2. Innermost \in Call
    BY <1>t, <2>1, ElementOfSeq DEF Innermost
  <2>3. \A i \in 1..(n - 1) : running[i] \in Call
    BY <1>t, <2>1, ElementOfSeq
  <2> HIDE DEF n
  <2>4. Len(SubSeq(running, 1, n - 1)) = IF 1 <= n - 1 THEN n - 1 - 1 + 1 ELSE 0
    BY <2>1, <2>3, SubSeqProperties
  <2>5. (IF 1 <= n - 1 THEN n - 1 - 1 + 1 ELSE 0) = n - 1
    BY <2>1
  <2>6. Len(running') = n - 1
    BY <1>4, <2>4, <2>5 DEF Outer, n
  <2> QED BY <2>1, <2>2, <2>6 DEF n
<1>5. CASE Succeed
  <2>1. PICK c \in Cap, a \in Arg : c = Innermost.cap /\ a = Innermost.arg
    BY <1>4, <1>5 DEF Succeed, Call
  <2>2. /\ audit' = Append(audit, Entry(c, a, "ok")) /\ used' = [used EXCEPT ![c] = @ + 1]
        /\ UNCHANGED <<made, reached>> /\ Len(running') = Len(running) - 1
        /\ Len(running') \in Nat
    BY <1>4, <1>5, <2>1 DEF Succeed
  <2>3. /\ Len(audit') = Len(audit) + 1
        /\ Cardinality(Where(audit, Performed)) \in Nat
        /\ Cardinality(Where(audit', Performed)) = Cardinality(Where(audit, Performed)) + 1
        /\ \A d \in Cap : /\ Cardinality(Where(audit, Granted(d))) \in Nat
                           /\ Cardinality(Where(audit', Granted(d))) =
                                Cardinality(Where(audit, Granted(d)))
                                + (IF d = c THEN 1 ELSE 0)
    BY <2>2, EntryCounts DEF IInv
  <2>4. \A d \in Cap : used'[d] = used[d] + (IF d = c THEN 1 ELSE 0)
    BY <1>t, <2>2
  <2>5. \A d \in Cap : used'[d] = Cardinality(Where(audit', Granted(d)))
    BY <2>3, <2>4 DEF Written
  <2>6. made' = Len(audit') + Len(running')
    BY <1>t, <2>2, <2>3 DEF Written
  <2>7. reached' = Cardinality(Where(audit', Performed)) + Len(running')
    BY <1>t, <2>2, <2>3 DEF Written
  <2> QED BY <1>t, <2>2, <2>3, <2>5, <2>6, <2>7 DEF Written
<1>6. CASE Fail
  <2>1. PICK c \in Cap, a \in Arg : c = Innermost.cap /\ a = Innermost.arg
    BY <1>4, <1>6 DEF Fail, Call
  <2>2. /\ audit' = Append(audit, Entry(c, a, "failed"))
        /\ UNCHANGED <<made, reached, used>> /\ Len(running') = Len(running) - 1
        /\ Len(running') \in Nat
    BY <1>4, <1>6, <2>1 DEF Fail, counterVars
  <2>3. /\ Len(audit') = Len(audit) + 1
        /\ Cardinality(Where(audit, Performed)) \in Nat
        /\ Cardinality(Where(audit', Performed)) = Cardinality(Where(audit, Performed)) + 1
        /\ \A d \in Cap : Cardinality(Where(audit', Granted(d))) =
                            Cardinality(Where(audit, Granted(d)))
    BY <2>2, EntryCounts DEF IInv
  <2>4. made' = Len(audit') + Len(running')
    BY <1>t, <2>2, <2>3 DEF Written
  <2>5. reached' = Cardinality(Where(audit', Performed)) + Len(running')
    BY <1>t, <2>2, <2>3 DEF Written
  <2>6. \A d \in Cap : used'[d] = Cardinality(Where(audit', Granted(d)))
    BY <2>2, <2>3 DEF Written
  <2> QED BY <2>4, <2>5, <2>6 DEF Written
<1>7. CASE UNCHANGED fenceVars
  BY <1>1, <1>7 DEF fenceVars, ledgerVars, counterVars
<1>8. CASE \E c \in Cap, lim \in Limit : Needs(c, lim)
  BY <1>1, <1>8 DEF Needs, ledgerVars, counterVars
<1> QED BY <1>2, <1>3, <1>5, <1>6, <1>7, <1>8 DEF Next

(* Every call, every refusal and every failure is on the ledger, once, and *)
(* nothing else is, even while calls nest (interpreter.js:844-925).        *)
THEOREM LedgerTellsAll == Spec => []LedgerIsComplete
<1>1. Init => Written
  <2> SUFFICES ASSUME Init PROVE Written
    OBVIOUS
  <2>1. audit = << >> /\ running = << >> /\ made = 0 /\ reached = 0 /\ used = [c \in Cap |-> 0]
    BY DEF Init
  <2>2. \A T : Where(audit, T) = {}
    BY <2>1 DEF Where
  <2>3. Len(audit) = 0 /\ Len(running) = 0 /\ Cardinality({}) = 0
    BY <2>1, FS_EmptySet
  <2> DEFINE entries == Len(audit)
             open == Len(running)
             performed == Cardinality(Where(audit, Performed))
  <2>4. entries = 0 /\ open = 0 /\ performed = 0
    BY <2>2, <2>3
  <2>5. \A c \in Cap : used[c] = Cardinality(Where(audit, Granted(c)))
    BY <2>1, <2>2, <2>3
  <2> HIDE DEF entries, open, performed
  <2>6. made = entries + open /\ reached = performed + open
    BY <2>1, <2>4
  <2> QED BY <2>5, <2>6 DEF Written, entries, open, performed
<1>2. IInv /\ Written /\ [Next]_fenceVars => Written'
  BY StepWritten
<1>3. IInv /\ Written => LedgerIsComplete
  BY LedgerInOtherWords DEF IInv
<1> QED BY <1>1, <1>2, <1>3, FenceInvariant, PTL DEF Spec

-----------------------------------------------------------------------------
(* When no host function calls an agent it was handed, calls do not nest,  *)
(* nothing is ever under way beside a call, and the budgets are exact.     *)
NobodyCallsBack == CallsBack = {}
Alone == NothingOverlaps /\ (running = << >> => underway = [c \in Cap |-> 0])
    /\ Len(running) <= 1 /\ \A i \in DOMAIN running : running[i].before = [c \in Cap |-> 0]

LEMMA StepAlone ==
    ASSUME NobodyCallsBack, IInv, Alone, [Next]_fenceVars
    PROVE  Alone'
<1> USE DEF Alone, NothingOverlaps
<1>t. running \in Seq(Call) /\ Len(running) \in Nat
  BY DEF IInv, TypeOK
<1>1. CASE UNCHANGED <<running, underway, overlap>>
  BY <1>1
<1>2. ASSUME NEW c \in Cap, NEW a \in Arg, Perform(c, a) PROVE Alone'
  <2>1. running = << >> /\ underway[c] = 0
    BY <1>2 DEF Perform, ScriptRuns, NobodyCallsBack
  <2>2. overlap' = overlap
    BY <1>2, <2>1 DEF Perform
  <2>3. /\ running' # << >> /\ Len(running') = 1 /\ DOMAIN running' = {1}
        /\ running'[1].before = [d \in Cap |-> 0]
    BY <1>2, <2>1 DEF Perform
  <2> QED BY <2>2, <2>3
<1>3. ASSUME running # << >>, running' = Outer, Settles PROVE Alone'
  <2>1. Len(running) = 1
    <3>1. Len(running) # 0 /\ Len(running) <= 1
      BY <1>t, <1>3
    <3>2. \A n \in Nat : n <= 1 /\ n # 0 => n = 1
      OBVIOUS
    <3> QED BY <1>t, <3>1, <3>2
  <2>2. running' = << >>
    BY <1>3, <1>t, <2>1 DEF Outer
  <2>3. underway' = [c \in Cap |-> 0] /\ overlap' = overlap
    BY <1>3, <1>t, <2>1 DEF Settles, Innermost
  <2> QED BY <2>2, <2>3
<1>4. CASE UNCHANGED fenceVars
  BY <1>1, <1>4 DEF fenceVars, ledgerVars, historyVars
<1>5. CASE Next
  <2>1. CASE \E c \in Cap, lim \in Limit : Needs(c, lim)
    BY <1>1, <2>1 DEF Needs, ledgerVars, historyVars
  <2>2. CASE \E c \in Cap, a \in Arg : Refuse(c, a)
    BY <1>1, <2>2 DEF Refuse, historyVars
  <2>3. CASE Succeed \/ Fail
    BY <1>3, <2>3 DEF Succeed, Fail
  <2> QED BY <1>2, <1>5, <2>1, <2>2, <2>3 DEF Next
<1> QED BY <1>4, <1>5

(* Then nothing overlaps, so that BudgetHolds says outright that a budget  *)
(* is never passed (interpreter.js:878-907).                               *)
THEOREM BudgetsAreExact ==
    ASSUME NobodyCallsBack
    PROVE  Spec => [](BudgetHolds /\ NothingOverlaps)
<1>1. Init => Alone
  BY DEF Init, Alone, NothingOverlaps
<1>2. IInv /\ Alone /\ [Next]_fenceVars => Alone'
  BY StepAlone
<1>3. Alone => NothingOverlaps
  BY DEF Alone
<1> QED BY <1>1, <1>2, <1>3, FenceInvariant, BudgetsHold, PTL DEF Spec

-----------------------------------------------------------------------------
(* The receipt.                                                            *)

(* Numbers have a least.                                                   *)
LEMMA LeastNumber ==
    ASSUME NEW T \in SUBSET Nat, T # {}
    PROVE  \E m \in T : \A n \in T : m <= n
<1>1. PICK m \in T : \A n \in T : <<n, m>> \notin OpToRel(<, Nat)
  BY NatLessThanWellFounded, WFMin
<1>2. \A n \in T : ~(n < m)
  BY <1>1 DEF OpToRel
<1> QED BY <1>2

(* The hashes of a chain: the first shorter chain that had none would be   *)
(* one longer than one that has them.                                      *)
Hashing(bodies, n, h) == h = [i \in 0..n |-> IF i = 0 THEN Genesis ELSE Hash(h[i - 1], bodies[i])]

LEMMA HashesExist == ASSUME NEW bodies, NEW n \in Nat PROVE \E h : Hashing(bodies, n, h)
<1> DEFINE T == {k \in Nat : ~\E h : Hashing(bodies, k, h)}
<1> SUFFICES ASSUME T # {} PROVE FALSE
  OBVIOUS
<1>1. PICK m \in T : \A k \in T : m <= k
  BY LeastNumber
<1>2. m # 0
  <2> DEFINE h == [i \in 0..0 |-> Genesis]
  <2>1. h = [i \in 0..0 |-> IF i = 0 THEN Genesis ELSE Hash(h[i - 1], bodies[i])]
    OBVIOUS
  <2> QED BY <2>1 DEF Hashing
<1>3. m - 1 \in Nat /\ m - 1 \notin T
  BY <1>1, <1>2
<1>4. PICK g : Hashing(bodies, m - 1, g)
  BY <1>3
<1> DEFINE h == [i \in 0..m |-> IF i = m THEN Hash(g[m - 1], bodies[m]) ELSE g[i]]
<1>5. \A i \in 0..m : i # 0 => h[i - 1] = g[i - 1]
  BY <1>3
<1>6. \A i \in 0..m : h[i] = IF i = 0 THEN Genesis ELSE Hash(h[i - 1], bodies[i])
  <2>1. \A i \in 0..(m - 1) : g[i] = IF i = 0 THEN Genesis ELSE Hash(g[i - 1], bodies[i])
    BY <1>3, <1>4 DEF Hashing
  <2> SUFFICES ASSUME NEW i \in 0..m PROVE h[i] = IF i = 0 THEN Genesis ELSE Hash(h[i - 1], bodies[i])
    OBVIOUS
  <2>2. CASE i = m
    BY <1>2, <1>5, <2>2
  <2>3. CASE i # m
    <3>1. i \in 0..(m - 1)
      BY <1>3, <2>3
    <3> QED BY <1>5, <2>1, <2>3, <3>1
  <2> QED BY <2>2, <2>3
<1>7. Hashing(bodies, m, h)
  BY <1>6 DEF Hashing
<1> QED BY <1>7

LEMMA HashesDefined ==
    ASSUME NEW bodies, Len(bodies) \in Nat
    PROVE  \A i \in 0..Len(bodies) :
             Hashes(bodies)[i] = IF i = 0 THEN Genesis ELSE Hash(Hashes(bodies)[i - 1], bodies[i])
<1>1. \E h : Hashing(bodies, Len(bodies), h)
  BY HashesExist
<1>2. Hashing(bodies, Len(bodies), Hashes(bodies))
  BY <1>1 DEF Hashing, Hashes
<1> QED BY <1>2 DEF Hashing

(* A function on 1..n is a list of n.                                      *)
LEMMA ListOf ==
    ASSUME NEW n \in Nat, NEW f, f = [i \in 1..n |-> f[i]]
    PROVE  f \in Seq({f[i] : i \in 1..n}) /\ Len(f) = n
<1>1. [i \in 1..n |-> f[i]] \in Seq({f[i] : i \in 1..n})
  OBVIOUS
<1>2. f \in Seq({f[i] : i \in 1..n})
  BY <1>1
<1>3. Len(f) \in Nat /\ DOMAIN f = 1..Len(f)
  BY <1>2, LenProperties
<1>4. DOMAIN f = 1..n
  OBVIOUS
<1>5. \A k, l \in Nat : 1..k = 1..l => k <= l
  <2> SUFFICES ASSUME NEW k \in Nat, NEW l \in Nat, 1..k = 1..l, ~(k <= l) PROVE FALSE
    OBVIOUS
  <2>1. k \in 1..k /\ k \notin 1..l
    OBVIOUS
  <2> QED BY <2>1
<1>6. Len(f) <= n /\ n <= Len(f)
  BY <1>3, <1>4, <1>5
<1> QED BY <1>2, <1>3, <1>6

(* A receipt that verifies against the seal of a ledger says what the      *)
(* ledger says: from the root back, equal hashes are of equal entries.     *)
LEMMA Unforgeable ==
    ASSUME NEW S, NEW r \in Seq(S), NEW T, NEW a \in Seq(T),
           VerifyChain(r, SealReceipt(Chain(a), Key), Key)
    PROVE  Says(r) = a
<1> DEFINE bodies == [i \in DOMAIN a |-> BodyOf(i, a[i])]
           h == Hashes(bodies)
<1>1. /\ DOMAIN r = 1..Len(r) /\ Len(r) \in Nat
      /\ DOMAIN a = 1..Len(a) /\ Len(a) \in Nat
  BY LenProperties
<1>2. Len(bodies) = Len(a) /\ DOMAIN bodies = 1..Len(a)
  <2>1. bodies = [i \in 1..Len(a) |-> bodies[i]]
    BY <1>1
  <2> HIDE DEF bodies
  <2>2. Len(bodies) = Len(a)
    BY <1>1, <2>1, ListOf
  <2>3. DOMAIN bodies = 1..Len(a)
    BY <2>1
  <2> QED BY <2>2, <2>3
<1>3. \A i \in 1..Len(a) : bodies[i] = BodyOf(i, a[i])
  BY <1>1
<1>4. \A i \in 1..Len(a) : h[i] = Hash(h[i - 1], bodies[i])
  <2> HIDE DEF bodies
  <2>1. \A i \in 0..Len(bodies) : h[i] = IF i = 0 THEN Genesis ELSE Hash(h[i - 1], bodies[i])
    BY <1>1, <1>2, HashesDefined
  <2> QED BY <1>1, <1>2, <2>1
<1> DEFINE chain == Chain(a)
<1>5. /\ Len(chain) = Len(a)
      /\ \A i \in 1..Len(a) : chain[i].hash = h[i]
  <2>1. chain = [i \in 1..Len(a) |-> [body |-> bodies[i], prev |-> h[i - 1], hash |-> h[i]]]
    BY <1>2 DEF Chain, Chained
  <2> HIDE DEF chain, h, bodies
  <2>2. chain = [i \in 1..Len(a) |-> chain[i]]
    BY <2>1
  <2>3. Len(chain) = Len(a)
    BY <1>1, <2>2, ListOf
  <2>4. \A i \in 1..Len(a) : chain[i].hash = h[i]
    BY <2>1
  <2> QED BY <2>3, <2>4
<1> HIDE DEF chain, h, bodies
<1>6. /\ \A i \in 1..Len(r) : /\ r[i].prev = IF i = 1 THEN Genesis ELSE r[i - 1].hash
                             /\ r[i].hash = Hash(r[i].prev, r[i].body)
      /\ Len(r) = Len(a) /\ Root(r) = Root(chain)
  <2>1. /\ \A i \in DOMAIN r : /\ r[i].prev = IF i = 1 THEN Genesis ELSE r[i - 1].hash
                              /\ r[i].hash = Hash(r[i].prev, r[i].body)
        /\ SealReceipt(chain, Key).count = Len(r) /\ SealReceipt(chain, Key).root = Root(r)
    BY DEF VerifyChain, chain
  <2>2. SealReceipt(chain, Key).count = Len(chain) /\ SealReceipt(chain, Key).root = Root(chain)
    BY DEF SealReceipt
  <2> QED BY <1>1, <1>5, <2>1, <2>2
<1>7. ASSUME Len(a) # 0 PROVE r[Len(a)].hash = h[Len(a)]
  <2>1. r # << >> /\ chain # << >>
    BY <1>5, <1>6, <1>7, EmptySeq
  <2> QED BY <1>1, <1>5, <1>6, <1>7, <2>1 DEF Root
<1>8. \A i \in 1..Len(a) : r[i].hash = h[i]
  <2> DEFINE Odd == {k \in Nat : k < Len(a) /\ r[Len(a) - k].hash # h[Len(a) - k]}
  <2>1. ASSUME Odd # {} PROVE FALSE
    <3>1. PICK k \in Odd : \A j \in Odd : k <= j
      BY <2>1, LeastNumber
    <3>2. k # 0
      BY <1>1, <1>7, <3>1
    <3>3. k - 1 \in Nat /\ k - 1 \notin Odd /\ k < Len(a)
      BY <3>1, <3>2
    <3> DEFINE i == Len(a) - k
    <3>4. i \in 1..Len(a) /\ i + 1 \in 1..Len(a) /\ i + 1 = Len(a) - (k - 1)
      BY <1>1, <3>2, <3>3
    <3>5. r[i + 1].hash = h[i + 1] /\ r[i].hash # h[i]
      BY <3>1, <3>3, <3>4
    <3> HIDE DEF i
    <3>6. (i + 1) - 1 = i /\ i + 1 # 1
      BY <1>1, <3>4
    <3>7. r[i + 1].hash = Hash(r[i].hash, r[i + 1].body)
      BY <1>6, <3>4, <3>6
    <3>8. h[i + 1] = Hash(h[i], bodies[i + 1])
      BY <1>4, <3>4, <3>6
    <3>9. <<r[i].hash, r[i + 1].body>> = <<h[i], bodies[i + 1]>>
      BY <3>5, <3>7, <3>8 DEF Hash
    <3>10. r[i].hash = h[i]
      BY <3>9
    <3> QED BY <3>5, <3>10
  <2>2. ASSUME NEW i \in 1..Len(a) PROVE r[i].hash = h[i]
    <3>1. Len(a) - i \in Nat /\ Len(a) - i < Len(a) /\ Len(a) - (Len(a) - i) = i
      BY <1>1
    <3> QED BY <2>1, <3>1
  <2> QED BY <2>2
<1>9. \A i \in 1..Len(a) : r[i].body = bodies[i]
  <2> SUFFICES ASSUME NEW i \in 1..Len(a) PROVE r[i].body = bodies[i]
    OBVIOUS
  <2>1. Hash(r[i].prev, r[i].body) = Hash(h[i - 1], bodies[i])
    BY <1>4, <1>6, <1>8
  <2> QED BY <2>1 DEF Hash
<1>10. \A i \in 1..Len(a) : r[i].body.entry = a[i]
  <2> SUFFICES ASSUME NEW i \in 1..Len(a) PROVE r[i].body.entry = a[i]
    OBVIOUS
  <2>1. r[i].body = [seq |-> i, entry |-> a[i]]
    BY <1>3, <1>9 DEF BodyOf
  <2> QED BY <2>1
<1>11. Says(r) = [i \in 1..Len(a) |-> a[i]]
  BY <1>1, <1>6, <1>10 DEF Says
<1>12. a = [i \in 1..Len(a) |-> a[i]]
  BY LenProperties
<1> QED BY <1>11, <1>12

-----------------------------------------------------------------------------
(* What the seal is of, and that a receipt stays a list whatever is done   *)
(* to it.                                                                  *)
IsList(r) == \E S : r \in Seq(S)
ReceiptInv == stage = "sealed" =>
    /\ IsList(receipt)
    /\ seal = SealReceipt(Chain(audit), Key) \/ \E r : seal = SealReceipt(r, OtherKey)

LEMMA Listed == ASSUME NEW n \in Nat, NEW f, f = [i \in 1..n |-> f[i]] PROVE IsList(f)
BY ListOf DEF IsList

LEMMA EditsList ==
    ASSUME IsList(receipt)
    PROVE  /\ Rewrite \/ Swap \/ Drop \/ Repeat => IsList(receipt')
<1> PICK S : receipt \in Seq(S)
  BY DEF IsList
<1>1. /\ Len(receipt) \in Nat /\ DOMAIN receipt = 1..Len(receipt)
      /\ \A i \in 1..Len(receipt) : receipt[i] \in S
  BY LenProperties, ElementOfSeq
<1>2. ASSUME NEW r, IsList(r), Edit(r) PROVE IsList(receipt')
  <2>1. CASE receipt' = r
    BY <1>2, <2>1
  <2>2. CASE receipt' = Chained([i \in DOMAIN r |-> r[i].body])
    <3>1. Len(r) \in Nat /\ DOMAIN r = 1..Len(r)
      BY <1>2, LenProperties DEF IsList
    <3>2. DOMAIN receipt' = 1..Len(r) /\ receipt' = [i \in DOMAIN receipt' |-> receipt'[i]]
      BY <2>2, <3>1 DEF Chained
    <3> QED BY <3>1, <3>2, Listed
  <2> QED BY <1>2, <2>1, <2>2 DEF Edit
<1>3. CASE Rewrite
  <2> PICK i \in DOMAIN receipt, end \in {"ok", "failed", "refused"} :
          Edit([receipt EXCEPT ![i].body.entry.end = end])
    BY <1>3 DEF Rewrite
  <2> DEFINE r == [receipt EXCEPT ![i].body.entry.end = end]
  <2>1. DOMAIN r = 1..Len(receipt) /\ r = [j \in DOMAIN r |-> r[j]]
    BY <1>1
  <2> HIDE DEF r
  <2>2. IsList(r)
    BY <1>1, <2>1, Listed
  <2> QED BY <1>2, <2>2 DEF r
<1>4. CASE Swap
  <2> PICK i \in 1..(Len(receipt) - 1) :
          Edit([receipt EXCEPT ![i] = receipt[i + 1], ![i + 1] = receipt[i]])
    BY <1>4 DEF Swap
  <2> DEFINE r == [receipt EXCEPT ![i] = receipt[i + 1], ![i + 1] = receipt[i]]
  <2>1. DOMAIN r = 1..Len(receipt) /\ r = [j \in DOMAIN r |-> r[j]]
    BY <1>1
  <2> HIDE DEF r
  <2>2. IsList(r)
    BY <1>1, <2>1, Listed
  <2> QED BY <1>2, <2>2 DEF r
<1>5. CASE Drop
  <2> PICK i \in DOMAIN receipt :
          Edit(SubSeq(receipt, 1, i - 1) \o SubSeq(receipt, i + 1, Len(receipt)))
    BY <1>5 DEF Drop
  <2>1. SubSeq(receipt, 1, i - 1) \in Seq(S)
    <3>1. \A j \in 1..(i - 1) : receipt[j] \in S
      BY <1>1
    <3> QED BY <1>1, <3>1, SubSeqProperties
  <2>2. SubSeq(receipt, i + 1, Len(receipt)) \in Seq(S)
    <3>1. \A j \in (i + 1)..Len(receipt) : receipt[j] \in S
      BY <1>1
    <3> QED BY <1>1, <3>1, SubSeqProperties
  <2>3. IsList(SubSeq(receipt, 1, i - 1) \o SubSeq(receipt, i + 1, Len(receipt)))
    BY <2>1, <2>2, ConcatProperties DEF IsList
  <2> QED BY <1>2, <2>3
<1>6. CASE Repeat
  <2> PICK i \in DOMAIN receipt : Edit(Append(receipt, receipt[i]))
    BY <1>6 DEF Repeat
  <2>1. IsList(Append(receipt, receipt[i]))
    BY <1>1, AppendProperties DEF IsList
  <2> QED BY <1>2, <2>1
<1> QED BY <1>3, <1>4, <1>5, <1>6

LEMMA FenceInside == RunSpec => Spec
<1>1. RunInit => Init
  BY DEF RunInit
<1>2. [RunNext]_<<fenceVars, receiptVars>> => [Next]_fenceVars
  BY DEF RunNext, ScriptStep, RunEnds, Rewrite, Swap, Drop, Repeat, Edit, Reseal
<1> QED BY <1>1, <1>2, PTL DEF RunSpec, Spec

LEMMA ReceiptStep ==
    ASSUME IInv, ReceiptInv, [RunNext]_<<fenceVars, receiptVars>>
    PROVE  ReceiptInv'
<1>1. CASE ScriptStep
  BY <1>1 DEF ScriptStep, ReceiptInv, receiptVars
<1>2. CASE RunEnds
  <2>1. PICK T : audit \in Seq(T)
    BY DEF IInv, TypeOK
  <2>2. Len(audit) \in Nat /\ DOMAIN audit = 1..Len(audit)
    BY <2>1, LenProperties
  <2>3. DOMAIN Chain(audit) = 1..Len(audit) /\ Chain(audit) = [i \in DOMAIN Chain(audit) |-> Chain(audit)[i]]
    BY <2>2 DEF Chain, Chained
  <2>4. IsList(Chain(audit))
    BY <2>2, <2>3, Listed
  <2>5. receipt' = Chain(audit) /\ seal' = SealReceipt(Chain(audit), Key) /\ audit' = audit
    BY <1>2 DEF RunEnds, fenceVars, ledgerVars
  <2> QED BY <2>4, <2>5 DEF ReceiptInv
<1>3. CASE Rewrite \/ Swap \/ Drop \/ Repeat
  <2>1. stage = "sealed" /\ UNCHANGED <<seal, stage, audit>>
    BY <1>3 DEF Rewrite, Swap, Drop, Repeat, Edit, fenceVars, ledgerVars
  <2>2. IsList(receipt')
    BY <1>3, <2>1, EditsList DEF ReceiptInv
  <2> QED BY <2>1, <2>2 DEF ReceiptInv
<1>4. CASE Reseal
  BY <1>4 DEF Reseal, ReceiptInv, fenceVars, ledgerVars
<1>5. CASE UNCHANGED <<fenceVars, receiptVars>>
  BY <1>5 DEF ReceiptInv, fenceVars, ledgerVars, receiptVars
<1> QED BY <1>1, <1>2, <1>3, <1>4, <1>5 DEF RunNext

(* Whoever has the host's key is told by verifyChain that a receipt is     *)
(* whole only if it lists the run's ledger, entry by entry, however it was *)
(* edited or sealed since (receipt.js:20-60, myxo-run.js).                 *)
THEOREM ReceiptsTellTruth == RunSpec => []ReceiptIsTheLedger
<1>1. RunInit => ReceiptInv
  BY DEF RunInit, ReceiptInv
<1>2. IInv /\ ReceiptInv => ReceiptIsTheLedger
  <2> SUFFICES ASSUME IInv, ReceiptInv, stage = "sealed", VerifyChain(receipt, seal, Key)
               PROVE  Says(receipt) = audit
    BY DEF ReceiptIsTheLedger
  <2>1. PICK S : receipt \in Seq(S)
    BY DEF ReceiptInv, IsList
  <2>2. PICK T : audit \in Seq(T)
    BY DEF IInv, TypeOK
  <2>3. seal = SealReceipt(Chain(audit), Key)
    <3>1. ASSUME NEW r, seal = SealReceipt(r, OtherKey) PROVE FALSE
      <4>1. seal.mac = <<OtherKey, Len(r), Root(r)>> /\ seal.mac = <<Key, seal.count, seal.root>>
        BY <3>1 DEF SealReceipt, VerifyChain, Mac
      <4> QED BY <4>1, ReceiptAssumption
    <3> QED BY <3>1 DEF ReceiptInv
  <2> QED BY <2>1, <2>2, <2>3, Unforgeable
<1>3. RunSpec => []IInv
  BY FenceInside, FenceInvariant, PTL
<1>4. RunSpec => []ReceiptInv
  BY <1>1, <1>3, ReceiptStep, PTL DEF RunSpec
<1> QED BY <1>2, <1>3, <1>4, PTL
=============================================================================
