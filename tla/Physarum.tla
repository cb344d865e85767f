------------------------------ MODULE Physarum ------------------------------
(***************************************************************************)
(* The conductance law of src/builtins.js, shared by route and schedule:   *)
(* every tube has a conductance, its recent quality, and a credit.  A      *)
(* decision adds to each credit the tube's conductance, or an exploratory  *)
(* share of the total if that is more; the tube with most credit is taken  *)
(* and pays the total.                                                     *)
(*                                                                         *)
(* Conductances are whole numbers, rounded down, of which Floor stands for *)
(* the code's 0.05 and Unit for its 1.  Credits are counted in fractions   *)
(* of that in which they are exact.  Credits are only compared and every   *)
(* change is an addition: they are kept relative to the lowest one.        *)
(***************************************************************************)
EXTENDS Integers, Sequences, FiniteSets

CONSTANTS
    Tubes,        \* how many there are
    Floor, Unit,  \* 1 and 20 in the code, counted in twentieths
    Alpha,        \* the weight of the last quality: <<3, 10>> in the code
    Explore       \* the exploratory share of the total: <<6, 100>> in the code

ASSUME LawAssumption ==
    /\ Tubes \in Nat \ {0}
    /\ Floor \in Nat \ {0} /\ Unit \in Nat /\ Floor <= Unit
    /\ Alpha \in Nat \X (Nat \ {0}) /\ Alpha[1] <= Alpha[2]
    /\ Explore \in (Nat \ {0}) \X (Nat \ {0})

Tube == 1..Tubes

Larger(m, n) == IF m < n THEN n ELSE m
Total(cond) ==
    LET sum[i \in 0..Tubes] ==
            IF i = 0 THEN 0 ELSE sum[i - 1] + IF i \in DOMAIN cond THEN cond[i] ELSE 0
    IN sum[Tubes]

(* Operators named ..._Bug are what a plausible mistake would make of the  *)
(* definition that follows; nothing uses them.                             *)

(* Bug: a tube is never thought less of.                                   *)
Learn_Bug(c, quality) == Larger(Larger(Floor, c), quality)

Learn(c, quality) ==
    Larger(Floor, ((Alpha[2] - Alpha[1]) * c + Alpha[1] * quality) \div Alpha[2])
Decay(c) == Learn(c, 0)

Accrued(cond, credit) ==
    [i \in DOMAIN cond |-> credit[i] + Larger(Explore[2] * cond[i], Explore[1] * Total(cond))]

(* The first of those with most credit.                                    *)
Richest(credit) == CHOOSE i \in DOMAIN credit :
    \A j \in DOMAIN credit : credit[j] < credit[i] \/ (credit[j] = credit[i] /\ i <= j)

Paid(cond, credit, i) == [credit EXCEPT ![i] = @ - Explore[2] * Total(cond)]

Relative(credit) ==
    LET least == CHOOSE n \in {credit[i] : i \in DOMAIN credit} :
                     \A i \in DOMAIN credit : n <= credit[i]
    IN [i \in DOMAIN credit |-> credit[i] - least]
=============================================================================
