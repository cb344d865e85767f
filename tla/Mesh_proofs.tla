----------------------------- MODULE Mesh_proofs -----------------------------
(***************************************************************************)
(* A batch that returns has every item once, and a route fails or refuses  *)
(* only as it may: for any number of tubes, any constants of the           *)
(* conductance law, any sizes of batches and any nesting of calls.         *)
(***************************************************************************)
EXTENDS PhysarumScheduler, Router, SequenceTheorems, FiniteSetTheorems, TLAPS

-----------------------------------------------------------------------------
(* The law.  Its recursive functions are over numbers, and numbers have a  *)
(* least: were there no such function, or one of another kind, there would *)
(* be a shortest one.                                                      *)
LEMMA LeastNumber ==
    ASSUME NEW T \in SUBSET Nat, T # {}
    PROVE  \E m \in T : \A n \in T : m <= n
<1>1. PICK m \in T : \A n \in T : <<n, m>> \notin OpToRel(<, Nat)
  BY NatLessThanWellFounded, WFMin
<1>2. \A n \in T : ~(n < m)
  BY <1>1 DEF OpToRel
<1> QED BY <1>2

(* The sums of Total.                                                      *)
Share(c, i) == IF i \in DOMAIN c THEN c[i] ELSE 0
Summing(c, n, sum) ==
    sum = [i \in 0..n |-> IF i = 0 THEN 0 ELSE sum[i - 1] + IF i \in DOMAIN c THEN c[i] ELSE 0]

LEMMA SumsExist ==
    ASSUME NEW c, \A i \in DOMAIN c : c[i] \in Nat, NEW n \in Nat
    PROVE  \E sum : Summing(c, n, sum) /\ sum \in [0..n -> Nat]
<1> DEFINE T == {k \in Nat : ~\E sum : Summing(c, k, sum) /\ sum \in [0..k -> Nat]}
<1> SUFFICES ASSUME T # {} PROVE FALSE
  OBVIOUS
<1>1. PICK m \in T : \A k \in T : m <= k
  BY LeastNumber
<1>2. m # 0
  <2> DEFINE s == [i \in 0..0 |-> 0]
  <2>1. s = [i \in 0..0 |-> IF i = 0 THEN 0 ELSE s[i - 1] + IF i \in DOMAIN c THEN c[i] ELSE 0]
    OBVIOUS
  <2>2. s \in [0..0 -> Nat]
    OBVIOUS
  <2>3. Summing(c, 0, s)
    BY <2>1 DEF Summing
  <2>4. 0 \notin T
    BY <2>2, <2>3
  <2> QED BY <1>1, <2>4
<1>3. m - 1 \in Nat /\ m - 1 \notin T /\ m \in Nat
  BY <1>1, <1>2
<1>4. PICK g : Summing(c, m - 1, g) /\ g \in [0..(m - 1) -> Nat]
  BY <1>3
<1> DEFINE s == [i \in 0..m |-> IF i = m THEN g[m - 1] + Share(c, m) ELSE g[i]]
<1>5. \A i \in 0..m : i # 0 => s[i - 1] = g[i - 1]
  BY <1>3
<1>6. \A i \in 0..m : s[i] = IF i = 0 THEN 0 ELSE s[i - 1] + IF i \in DOMAIN c THEN c[i] ELSE 0
  <2>1. \A i \in 0..(m - 1) : g[i] = IF i = 0 THEN 0 ELSE g[i - 1] + IF i \in DOMAIN c THEN c[i] ELSE 0
    BY <1>3, <1>4 DEF Summing
  <2> SUFFICES ASSUME NEW i \in 0..m
               PROVE  s[i] = IF i = 0 THEN 0 ELSE s[i - 1] + IF i \in DOMAIN c THEN c[i] ELSE 0
    OBVIOUS
  <2>2. CASE i = m
    BY <1>2, <1>5, <2>2 DEF Share
  <2>3. CASE i # m
    <3>1. i \in 0..(m - 1)
      BY <1>3, <2>3
    <3> QED BY <1>5, <2>1, <2>3, <3>1
  <2> QED BY <2>2, <2>3
<1>7. s \in [0..m -> Nat]
  <2>1. Share(c, m) \in Nat
    BY DEF Share
  <2>2. g[m - 1] \in Nat
    BY <1>3, <1>4
  <2>3. \A i \in 0..m : i # m => i \in 0..(m - 1)
    BY <1>3
  <2> QED BY <1>4, <2>1, <2>2, <2>3
<1>8. Summing(c, m, s)
  BY <1>6 DEF Summing
<1> QED BY <1>1, <1>7, <1>8

LEMMA TotalIsNumber ==
    ASSUME NEW c, \A i \in DOMAIN c : c[i] \in Nat
    PROVE  Total(c) \in Nat
<1>0. Tubes \in Nat
  BY LawAssumption
<1>1. PICK sum : Summing(c, Tubes, sum) /\ sum \in [0..Tubes -> Nat]
  BY <1>0, SumsExist
<1> DEFINE chosen == CHOOSE s : Summing(c, Tubes, s)
<1>2. Summing(c, Tubes, chosen)
  BY <1>1
<1>3. Total(c) = chosen[Tubes]
  BY DEF Total, Summing
<1> HIDE DEF chosen
(* A function of that kind is the only one.                                *)
<1>4. \A i \in 0..Tubes : chosen[i] = sum[i]
  <2> DEFINE T == {k \in 0..Tubes : chosen[k] # sum[k]}
  <2> SUFFICES ASSUME T # {} PROVE FALSE
    OBVIOUS
  <2>1. PICK m \in T : \A k \in T : m <= k
    <3>1. T \in SUBSET Nat
      BY <1>0
    <3> HIDE DEF T
    <3> QED BY <3>1, LeastNumber
  <2>2. /\ \A i \in 0..Tubes : sum[i] = IF i = 0 THEN 0 ELSE sum[i - 1] + IF i \in DOMAIN c THEN c[i] ELSE 0
        /\ \A i \in 0..Tubes : chosen[i] = IF i = 0 THEN 0 ELSE chosen[i - 1] + IF i \in DOMAIN c THEN c[i] ELSE 0
    BY <1>1, <1>2 DEF Summing
  <2>3. m # 0
    BY <2>1, <2>2
  <2>4. m - 1 \in 0..Tubes /\ m - 1 \notin T
    BY <1>0, <2>1, <2>3
  <2>5. sum[m - 1] = chosen[m - 1]
    BY <2>4
  <2> QED BY <2>1, <2>2, <2>3, <2>5
<1> QED BY <1>0, <1>1, <1>3, <1>4

LEMMA LearnIsNumber ==
    ASSUME NEW c \in Nat, NEW q \in Nat
    PROVE  Learn(c, q) \in Nat /\ Decay(c) \in Nat
<1>1. /\ Alpha[1] \in Nat /\ Alpha[2] \in Nat \ {0} /\ Floor \in Nat
  BY LawAssumption
<1>2. \A x \in Int : Larger(Floor, x) \in Nat
  BY <1>1 DEF Larger
<1>3. \A r \in Nat : ((Alpha[2] - Alpha[1]) * c + Alpha[1] * r) \div Alpha[2] \in Int
  BY <1>1
<1> QED BY <1>2, <1>3 DEF Learn, Decay

LEMMA AccruedIsNumbers ==
    ASSUME NEW D \in SUBSET Tube, NEW c \in [D -> Nat], NEW p \in [D -> Nat]
    PROVE  /\ Accrued(c, p) \in [D -> Nat]
           /\ \A i \in D : Paid(c, Accrued(c, p), i) \in [D -> Int]
<1>1. Explore[1] \in Nat /\ Explore[2] \in Nat
  BY LawAssumption
<1>2. Total(c) \in Nat
  BY TotalIsNumber
<1>3. \A x \in Nat : Explore[2] * x \in Nat /\ Explore[1] * x \in Nat
  BY <1>1
<1>4. \A i \in D : Larger(Explore[2] * c[i], Explore[1] * Total(c)) \in Nat
  <2> SUFFICES ASSUME NEW i \in D PROVE Larger(Explore[2] * c[i], Explore[1] * Total(c)) \in Nat
    OBVIOUS
  <2>1. Explore[2] * c[i] \in Nat /\ Explore[1] * Total(c) \in Nat
    BY <1>2, <1>3
  <2> QED BY <2>1 DEF Larger
<1>5. Accrued(c, p) \in [D -> Nat]
  BY <1>4 DEF Accrued
<1>6. Explore[2] * Total(c) \in Nat
  BY <1>2, <1>3
<1> QED BY <1>5, <1>6 DEF Paid

(* Among tubes some are first of those with most, and some have least.     *)
LEMMA SomeHasMost ==
    ASSUME NEW D \in SUBSET Tube, D # {}, NEW f \in [D -> Int]
    PROVE  \E i \in D : \A j \in D : f[j] < f[i] \/ (f[j] = f[i] /\ i <= j)
<1>0. Tubes \in Nat /\ D \subseteq Nat /\ \A j \in D : 1 <= j /\ j <= Tubes
  <2>1. \A j \in D : j \in 1..Tubes
    BY DEF Tube
  <2> QED BY <2>1, LawAssumption
<1> DEFINE Upto(k) == {j \in D : j <= k}
           Good(k) == Upto(k) = {} \/
               \E i \in Upto(k) : \A j \in Upto(k) : f[j] < f[i] \/ (f[j] = f[i] /\ i <= j)
           T == {k \in Nat : ~Good(k)}
<1>1. T = {}
  <2> SUFFICES ASSUME T # {} PROVE FALSE
    OBVIOUS
  <2>1. PICK m \in T : \A k \in T : m <= k
    BY LeastNumber
  <2>2. Upto(0) = {}
    <3>1. \A j \in D : ~(j <= 0)
      BY <1>0
    <3> QED BY <3>1
  <2>3. m \in Nat /\ m # 0
    BY <2>1, <2>2
  <2>4. m - 1 \in Nat /\ Good(m - 1)
    BY <2>1, <2>3
  <2>5. Upto(m) = Upto(m - 1) \cup (D \cap {m})
    <3>1. \A j \in Nat : j <= m <=> j <= m - 1 \/ j = m
      BY <2>3
    <3>2. \A j \in D : j <= m <=> j <= m - 1 \/ j = m
      BY <1>0, <3>1
    <3>3. m <= m
      BY <2>3
    <3> QED BY <3>2, <3>3
  <2>6. CASE m \notin D
    <3>1. Upto(m) = Upto(m - 1)
      BY <2>5, <2>6
    <3> HIDE DEF Upto
    <3>2. Good(m)
      BY <2>4, <3>1
    <3> QED BY <2>1, <3>2
  <2>7. CASE m \in D
    <3>1. m \in Upto(m) /\ \A j \in Upto(m) : j = m \/ (j \in Upto(m - 1) /\ j \in D /\ j < m)
      BY <1>0, <2>3, <2>5, <2>7
    <3>2. CASE Upto(m - 1) = {}
      <4>1. Good(m)
        BY <1>0, <2>7, <3>1, <3>2
      <4> QED BY <2>1, <4>1
    <3>3. CASE Upto(m - 1) # {}
      <4>1. PICK i \in Upto(m - 1) : \A j \in Upto(m - 1) : f[j] < f[i] \/ (f[j] = f[i] /\ i <= j)
        BY <2>4, <3>3
      <4>2. i \in D /\ i \in Upto(m) /\ i < m /\ f[i] \in Int /\ f[m] \in Int /\ i \in Nat
        BY <1>0, <2>3, <2>7, <4>1
      <4>3. CASE f[m] > f[i]
        <5>1. \A j \in Upto(m) : f[j] < f[m] \/ (f[j] = f[m] /\ m <= j)
          <6> SUFFICES ASSUME NEW j \in Upto(m) PROVE f[j] < f[m] \/ (f[j] = f[m] /\ m <= j)
            OBVIOUS
          <6>1. CASE j = m
            BY <2>3, <6>1
          <6>2. CASE j \in Upto(m - 1)
            <7>1. f[j] <= f[i] /\ f[j] \in Int
              BY <4>1, <4>2, <6>2
            <7> QED BY <4>2, <4>3, <7>1
          <6> QED BY <3>1, <6>1, <6>2
        <5> QED BY <2>1, <3>1, <5>1
      <4>4. CASE ~(f[m] > f[i])
        <5>1. \A j \in Upto(m) : f[j] < f[i] \/ (f[j] = f[i] /\ i <= j)
          <6> SUFFICES ASSUME NEW j \in Upto(m) PROVE f[j] < f[i] \/ (f[j] = f[i] /\ i <= j)
            OBVIOUS
          <6>1. CASE j = m
            <7>1. f[m] < f[i] \/ f[m] = f[i]
              <8>1. \A a, b \in Int : ~(a > b) => a < b \/ a = b
                OBVIOUS
              <8> QED BY <4>2, <4>4, <8>1
            <7> QED BY <4>2, <6>1, <7>1
          <6>2. CASE j \in Upto(m - 1)
            BY <4>1, <6>2
          <6> QED BY <3>1, <6>1, <6>2
        <5> QED BY <2>1, <4>2, <5>1
      <4> QED BY <4>3, <4>4
    <3> QED BY <3>2, <3>3
  <2> QED BY <2>6, <2>7
<1>2. Upto(Tubes) = D
  BY <1>0
<1>3. Good(Tubes)
  BY <1>0, <1>1
<1> HIDE DEF Upto
<1> QED BY <1>2, <1>3

LEMMA RichestIsOne ==
    ASSUME NEW D \in SUBSET Tube, D # {}, NEW f \in [D -> Int]
    PROVE  Richest(f) \in D
<1>1. \E i \in D : \A j \in D : f[j] < f[i] \/ (f[j] = f[i] /\ i <= j)
  BY SomeHasMost
<1>2. DOMAIN f = D
  OBVIOUS
<1> QED BY <1>1, <1>2 DEF Richest

LEMMA RelativeIsNumbers ==
    ASSUME NEW D \in SUBSET Tube, D # {}, NEW f \in [D -> Int]
    PROVE  Relative(f) \in [D -> Nat]
<1> DEFINE g == [i \in D |-> -f[i]]
           V == {f[i] : i \in DOMAIN f}
           least == CHOOSE n \in V : \A i \in DOMAIN f : n <= f[i]
<1>1. \A i \in D : g[i] \in Int /\ f[i] \in Int /\ g[i] = -f[i]
  OBVIOUS
<1>2. PICK i \in D : \A j \in D : g[j] < g[i] \/ (g[j] = g[i] /\ i <= j)
  <2>1. g \in [D -> Int]
    BY <1>1
  <2> HIDE DEF g
  <2> QED BY <2>1, SomeHasMost
<1> HIDE DEF g
<1>3. \A j \in D : f[i] <= f[j]
  <2> SUFFICES ASSUME NEW j \in D PROVE f[i] <= f[j]
    OBVIOUS
  <2>1. g[j] <= g[i]
    BY <1>1, <1>2
  <2>2. g[j] = -f[j] /\ g[i] = -f[i] /\ f[i] \in Int /\ f[j] \in Int
    BY <1>1
  <2> QED BY <2>1, <2>2
<1>4. least \in V /\ \A j \in D : least <= f[j]
  <2>1. f[i] \in V /\ \A j \in DOMAIN f : f[i] <= f[j]
    BY <1>3
  <2> QED BY <2>1
<1>5. least \in Int
  BY <1>4
<1>6. Relative(f) = [j \in D |-> f[j] - least]
  BY DEF Relative
<1> HIDE DEF least
<1>7. \A j \in D : f[j] - least \in Nat
  BY <1>1, <1>4, <1>5
<1> QED BY <1>6, <1>7

-----------------------------------------------------------------------------
(* The order of a route lists every provider: each has its own number of   *)
(* others before it, and there are as many numbers as providers.           *)
LEMMA OrderListsAll ==
    ASSUME NEW f \in [Tube -> Int]
    PROVE  /\ Order(f) \in Seq(Tube) /\ Len(Order(f)) = Tubes
           /\ \A p \in Tube : \E k \in 1..Tubes : Order(f)[k] = p
<1>0. Tubes \in Nat \ {0} /\ Tube = 1..Tubes
  BY LawAssumption DEF Tube
<1>1. IsFiniteSet(Tube) /\ Cardinality(Tube) = Tubes
  BY <1>0, FS_Interval
<1> DEFINE before(p) == {q \in Tube : f[q] > f[p] \/ (f[q] = f[p] /\ q < p)}
           rank == [p \in Tube |-> Cardinality(before(p))]
<1>2. \A p \in Tube : before(p) \subseteq Tube /\ p \notin before(p)
  <2>1. \A p \in Tube : f[p] \in Int /\ p \in Nat
    BY <1>0
  <2> QED BY <2>1
<1>3. \A p, q \in Tube : p # q => p \in before(q) \/ q \in before(p)
  <2>1. \A p \in Tube : f[p] \in Int /\ p \in Nat
    BY <1>0
  <2> QED BY <2>1
<1>4. \A p, q \in Tube : p \in before(q) => before(p) \subseteq before(q)
  <2> SUFFICES ASSUME NEW p \in Tube, NEW q \in Tube, NEW r \in Tube, p \in before(q), r \in before(p)
               PROVE  r \in before(q)
    OBVIOUS
  <2>1. f[p] \in Int /\ f[q] \in Int /\ f[r] \in Int /\ p \in Nat /\ q \in Nat /\ r \in Nat
    BY <1>0
  <2> QED BY <2>1
<1>5. rank \in [Tube -> 0..(Tubes - 1)]
  <2> SUFFICES ASSUME NEW p \in Tube PROVE Cardinality(before(p)) \in 0..(Tubes - 1)
    OBVIOUS
  <2>1. before(p) \in SUBSET (Tube \ {p})
    BY <1>2
  <2> HIDE DEF before
  <2>2. IsFiniteSet(Tube \ {p}) /\ Cardinality(Tube \ {p}) = Tubes - 1
    BY <1>1, FS_RemoveElement
  <2>3. IsFiniteSet(before(p)) /\ Cardinality(before(p)) <= Tubes - 1
    BY <2>1, <2>2, FS_Subset
  <2>4. Cardinality(before(p)) \in Nat
    BY <2>3, FS_CardinalityType
  <2> QED BY <1>0, <2>3, <2>4
<1>6. \A p, q \in Tube : p \in before(q) => rank[p] # rank[q]
  <2> SUFFICES ASSUME NEW p \in Tube, NEW q \in Tube, p \in before(q) PROVE Cardinality(before(p)) # Cardinality(before(q))
    OBVIOUS
  <2>1. before(p) \in SUBSET before(q) /\ before(p) # before(q)
    BY <1>2, <1>4
  <2>2. before(q) \in SUBSET Tube
    BY <1>2
  <2> HIDE DEF before
  <2>3. IsFiniteSet(before(q))
    BY <1>1, <2>2, FS_Subset
  <2> QED BY <2>1, <2>3, FS_Subset
<1>7. \A p, q \in Tube : rank[p] = rank[q] => p = q
  BY <1>3, <1>6
<1>8. rank \in Injection(Tube, 0..(Tubes - 1))
  <2> HIDE DEF rank
  <2> QED BY <1>5, <1>7 DEF Injection, IsInjective
<1>9. \A n \in 0..(Tubes - 1) : \E p \in Tube : rank[p] = n
  <2> HIDE DEF rank
  <2>1. IsFiniteSet(0..(Tubes - 1)) /\ Cardinality(0..(Tubes - 1)) = Tubes
    BY <1>0, FS_Interval
  <2>2. rank \in Surjection(Tube, 0..(Tubes - 1))
    BY <1>1, <1>8, <2>1, FS_Injection
  <2> QED BY <2>2 DEF Surjection
<1>10. Order(f) = [k \in 1..Tubes |-> CHOOSE p \in Tube : Cardinality(before(p)) = k - 1]
  BY DEF Order
<1>11. \A k \in 1..Tubes : Order(f)[k] \in Tube /\ rank[Order(f)[k]] = k - 1
  <2> SUFFICES ASSUME NEW k \in 1..Tubes PROVE Order(f)[k] \in Tube /\ rank[Order(f)[k]] = k - 1
    OBVIOUS
  <2>1. k - 1 \in 0..(Tubes - 1)
    BY <1>0
  <2>2. \E p \in Tube : Cardinality(before(p)) = k - 1
    BY <1>9, <2>1
  <2> HIDE DEF before
  <2>3. Order(f)[k] = CHOOSE p \in Tube : Cardinality(before(p)) = k - 1
    BY <1>10
  <2>4. Order(f)[k] \in Tube /\ Cardinality(before(Order(f)[k])) = k - 1
    BY <2>2, <2>3
  <2> QED BY <2>4
<1>12. Order(f) = [k \in 1..Tubes |-> Order(f)[k]]
  BY <1>10
<1> HIDE DEF rank, before
<1>13. Order(f) \in Seq(Tube) /\ Len(Order(f)) = Tubes
  <2>1. [k \in 1..Tubes |-> Order(f)[k]] \in Seq(Tube) /\ Len([k \in 1..Tubes |-> Order(f)[k]]) = Tubes
    BY <1>0, <1>11
  <2> QED BY <1>12, <2>1
<1>14. ASSUME NEW p \in Tube PROVE \E k \in 1..Tubes : Order(f)[k] = p
  <2>1. rank[p] \in 0..(Tubes - 1)
    BY <1>5
  <2>2. rank[p] + 1 \in 1..Tubes /\ (rank[p] + 1) - 1 = rank[p]
    <3>1. \A n \in 0..(Tubes - 1) : n + 1 \in 1..Tubes /\ (n + 1) - 1 = n
      BY <1>0
    <3> QED BY <2>1, <3>1
  <2>3. Order(f)[rank[p] + 1] \in Tube /\ rank[Order(f)[rank[p] + 1]] = rank[p]
    BY <1>11, <2>2
  <2> QED BY <1>7, <2>2, <2>3
<1> QED BY <1>13, <1>14

(* A provider's other ways differ from each other and from every quality.  *)
LEMMA WaysDiffer == /\ Broken # Denied /\ Broken # Asks /\ Denied # Asks
                    /\ Broken \notin Speeds /\ Denied \notin Speeds /\ Asks \notin Speeds
<1>1. \A a, b : IsFiniteSet({a, b}) /\ Cardinality({a, b}) # 3
  <2> SUFFICES ASSUME NEW a, NEW b PROVE IsFiniteSet({a, b}) /\ Cardinality({a, b}) # 3
    OBVIOUS
  <2>1. IsFiniteSet({a}) /\ Cardinality({a}) = 1 /\ {a, b} = {a} \cup {b}
    BY FS_Singleton
  <2>2. IsFiniteSet({a} \cup {b}) /\ Cardinality({a} \cup {b}) \in {1, 2}
    BY <2>1, FS_AddElement
  <2> QED BY <2>1, <2>2
<1>2. Cardinality({Broken, Denied, Asks}) = 3 /\ {Broken, Denied, Asks} \cap Nat = {} /\ Speeds \subseteq Nat
  BY RouterAssumption
<1>3. ASSUME Broken = Denied PROVE FALSE
  <2>1. {Broken, Denied, Asks} = {Broken, Asks}
    BY <1>3
  <2> QED BY <1>1, <1>2, <2>1
<1>4. ASSUME Broken = Asks PROVE FALSE
  <2>1. {Broken, Denied, Asks} = {Broken, Denied}
    BY <1>4
  <2> QED BY <1>1, <1>2, <2>1
<1>5. ASSUME Denied = Asks PROVE FALSE
  <2>1. {Broken, Denied, Asks} = {Broken, Asks}
    BY <1>5
  <2> QED BY <1>1, <1>2, <2>1
<1>6. Broken \notin Speeds /\ Denied \notin Speeds /\ Asks \notin Speeds
  BY <1>2
<1> QED BY <1>3, <1>4, <1>5, <1>6

-----------------------------------------------------------------------------
(* Why a route ends as it may.  Those that are no longer in the order of a *)
(* call under way were asked and do not work; every call but the innermost *)
(* is in a provider that asks the route; and of those asked only the one   *)
(* asked last can be one that is refused, for a refusal ends every call.   *)
Listed(order, p) == \E k \in 1..Len(order) : order[k] = p
CallOK(c) ==
    /\ c.order # << >> /\ c.order[1] \in asked
    /\ \A p \in Tube : ~Listed(c.order, p) => p \in asked /\ manner[p] \notin Speeds
AnswerOK ==
    /\ answer = "none" /\ calls # << >> => \A p \in asked : manner[p] = Denied => p = Asked
    /\ answer \in {"result", "error"} => \A p \in asked : manner[p] # Denied
    /\ answer = "denial" => \E p \in asked : manner[p] = Denied
    /\ answer = "error" => asked = Tube /\ \A p \in Tube : manner[p] \notin Speeds
RouteInv ==
    /\ RouteTypeOK /\ asked \subseteq Tube
    /\ \A i \in 1..Len(calls) : CallOK(calls[i])
    /\ \A i \in 1..(Len(calls) - 1) : manner[calls[i].order[1]] = Asks
    /\ AnswerOK

(* What is known of a route's calls: their orders are lists of providers.  *)
LEMMA CallsKnown ==
    ASSUME RouteInv
    PROVE  /\ Len(calls) \in Nat /\ DOMAIN calls = 1..Len(calls) /\ Len(calls) <= MaxNesting
           /\ \A i \in 1..Len(calls) :
                /\ calls[i] \in [total : Nat, order : Seq(Tube)]
                /\ calls[i].order \in Seq(Tube) /\ calls[i].total \in Nat
                /\ Len(calls[i].order) \in Nat \ {0} /\ Head(calls[i].order) = calls[i].order[1]
                /\ calls[i].order[1] \in Tube
           /\ flow \in [Tube -> Nat] /\ purse \in [Tube -> Nat] /\ manner \in [Tube -> Manner]
<1>1. calls \in Seq([total : Nat, order : Seq(Tube)]) /\ Len(calls) <= MaxNesting
  BY DEF RouteInv, RouteTypeOK
<1>2. Len(calls) \in Nat /\ DOMAIN calls = 1..Len(calls)
  BY <1>1, LenProperties
<1>3. ASSUME NEW i \in 1..Len(calls)
      PROVE  /\ calls[i] \in [total : Nat, order : Seq(Tube)]
             /\ calls[i].order \in Seq(Tube) /\ calls[i].total \in Nat
             /\ Len(calls[i].order) \in Nat \ {0} /\ Head(calls[i].order) = calls[i].order[1]
             /\ calls[i].order[1] \in Tube
  <2>1. calls[i] \in [total : Nat, order : Seq(Tube)]
    BY <1>1, <1>3, ElementOfSeq
  <2> DEFINE order == calls[i].order
  <2>2. order \in Seq(Tube) /\ calls[i].total \in Nat
    BY <2>1
  <2>3. order # << >>
    BY <1>3 DEF RouteInv, CallOK
  <2> HIDE DEF order
  <2>4. Len(order) \in Nat \ {0}
    BY <2>2, <2>3, EmptySeq
  <2>5. order[1] \in Tube /\ Head(order) = order[1]
    BY <2>2, <2>4, ElementOfSeq
  <2> QED BY <2>1, <2>2, <2>4, <2>5 DEF order
<1> QED BY <1>1, <1>2, <1>3 DEF RouteInv, RouteTypeOK

(* The innermost call, and what the calls outside it are like.             *)
LEMMA InnermostKnown ==
    ASSUME RouteInv, calls # << >>
    PROVE  /\ Len(calls) \in 1..Len(calls) /\ Asked = Call.order[1] /\ Asked \in Tube /\ Asked \in asked
           /\ Call \in [total : Nat, order : Seq(Tube)] /\ Call.order \in Seq(Tube) /\ Call.total \in Nat
           /\ Len(Call.order) \in Nat \ {0} /\ CallOK(Call)
<1>1. calls \in Seq([total : Nat, order : Seq(Tube)])
  BY DEF RouteInv, RouteTypeOK
<1>2. Len(calls) \in Nat \ {0}
  BY <1>1, EmptySeq
<1>3. Len(calls) \in 1..Len(calls)
  BY <1>2
<1>4. CallOK(Call)
  BY <1>3 DEF RouteInv, Call
<1> QED BY <1>3, <1>4, CallsKnown DEF Call, Asked, CallOK

(* A call that is opened asks somebody, and knows of all.                  *)
LEMMA OpenStep ==
    ASSUME RouteInv, Open, UNCHANGED <<flow, manner, changes>>, Len(calls) < MaxNesting,
           answer' = "none",
           calls # << >> => manner[Asked] = Asks /\ answer = "none"
    PROVE  RouteInv'
<1> DEFINE due == Accrued(flow, purse)
           call == [total |-> Total(flow), order |-> Order(due)]
<1>1. /\ Len(calls) \in Nat /\ DOMAIN calls = 1..Len(calls)
      /\ flow \in [Tube -> Nat] /\ purse \in [Tube -> Nat] /\ manner \in [Tube -> Manner]
  BY CallsKnown
<1>2. Tubes \in Nat \ {0} /\ Tube = 1..Tubes
  BY LawAssumption DEF Tube
<1>3. due \in [Tube -> Nat] /\ \A p \in Tube : Paid(flow, due, p) \in [Tube -> Int]
  BY <1>1, AccruedIsNumbers
<1>4. Total(flow) \in Nat
  BY <1>1, TotalIsNumber
<1> HIDE DEF due
<1>5. /\ Order(due) \in Seq(Tube) /\ Len(Order(due)) = Tubes
      /\ \A p \in Tube : \E k \in 1..Tubes : Order(due)[k] = p
  <2>1. due \in [Tube -> Int]
    BY <1>3
  <2> QED BY <2>1, OrderListsAll
<1>6. call \in [total : Nat, order : Seq(Tube)] /\ call.order = Order(due)
  BY <1>4, <1>5
<1>7. Order(due)[1] \in Tube /\ Order(due) # << >>
  <2>1. 1 \in 1..Len(Order(due))
    BY <1>2, <1>5
  <2>2. Order(due)[1] \in Tube
    BY <1>5, <2>1, ElementOfSeq
  <2>3. Order(due) # << >>
    BY <1>2, <1>5, EmptySeq
  <2> QED BY <2>2, <2>3
<1>8. /\ purse' = Relative(Paid(flow, due, Order(due)[1])) /\ calls' = Append(calls, call)
      /\ asked' = (IF calls = << >> THEN {} ELSE asked) \cup {Order(due)[1]}
  BY DEF Open, due
<1> HIDE DEF call
<1>9. /\ calls' \in Seq([total : Nat, order : Seq(Tube)]) /\ Len(calls') = Len(calls) + 1
      /\ \A i \in 1..Len(calls) : calls'[i] = calls[i]
      /\ calls'[Len(calls) + 1] = call
  <2>1. calls \in Seq([total : Nat, order : Seq(Tube)])
    BY DEF RouteInv, RouteTypeOK
  <2> QED BY <1>6, <1>8, <2>1, AppendProperties
<1>10. purse' \in [Tube -> Nat]
  <2>1. Paid(flow, due, Order(due)[1]) \in [Tube -> Int] /\ Tube # {}
    BY <1>3, <1>7
  <2> QED BY <1>8, <2>1, RelativeIsNumbers
<1>11. RouteTypeOK'
  <2>1. Len(calls') <= MaxNesting
    <3>1. MaxNesting \in Nat
      BY RouterAssumption
    <3> QED BY <1>1, <1>9, <3>1
  <2> QED BY <1>9, <1>10, <2>1 DEF RouteInv, RouteTypeOK
<1>12. asked' \subseteq Tube /\ Order(due)[1] \in asked'
  BY <1>7, <1>8 DEF RouteInv
<1>13. ASSUME NEW i \in 1..Len(calls') PROVE CallOK(calls[i])'
  <2>1. i \in 1..Len(calls) \/ i = Len(calls) + 1
    BY <1>1, <1>9
  <2>2. CASE i \in 1..Len(calls)
    <3>1. CallOK(calls[i]) /\ calls'[i] = calls[i] /\ calls # << >>
      BY <1>1, <1>9, <2>2, EmptySeq DEF RouteInv
    <3>2. asked \subseteq asked'
      BY <1>8, <3>1
    <3> QED BY <3>1, <3>2 DEF CallOK
  <2>3. CASE i = Len(calls) + 1
    <3>1. \A p \in Tube : Listed(call.order, p)
      BY <1>5, <1>6 DEF Listed
    <3> QED BY <1>6, <1>7, <1>9, <1>12, <2>3, <3>1 DEF CallOK
  <2> QED BY <2>1, <2>2, <2>3
<1>14. ASSUME NEW i \in 1..(Len(calls') - 1) PROVE manner'[calls'[i].order[1]] = Asks
  <2>1. i \in 1..Len(calls) /\ (i = Len(calls) \/ i \in 1..(Len(calls) - 1))
    <3>1. \A n \in Nat : \A j \in 1..(n + 1 - 1) : j \in 1..n /\ (j = n \/ j \in 1..(n - 1))
      <4> SUFFICES ASSUME NEW n \in Nat, NEW j \in 1..(n + 1 - 1)
                   PROVE  j \in 1..n /\ (j = n \/ j \in 1..(n - 1))
        OBVIOUS
      <4>1. j \in Int /\ 1 <= j /\ j <= n
        OBVIOUS
      <4> QED BY <4>1
    <3>2. i \in 1..(Len(calls) + 1 - 1)
      BY <1>9, <1>14
    <3> QED BY <1>1, <3>1, <3>2
  <2>4. calls'[i] = calls[i]
    BY <1>9, <2>1
  <2>2. CASE i = Len(calls)
    <3>1. calls # << >>
      BY <1>1, <2>1, <2>2, EmptySeq
    <3>2. manner[Asked] = Asks /\ Asked = calls[i].order[1]
      BY <2>2, <3>1, InnermostKnown DEF Call
    <3> QED BY <2>4, <3>2
  <2>3. CASE i \in 1..(Len(calls) - 1)
    BY <2>4, <2>3 DEF RouteInv
  <2> QED BY <2>1, <2>2, <2>3
<1>15. AnswerOK'
  <2>1. Asked' = Order(due)[1]
    <3>1. Call' = call
      BY <1>9 DEF Call
    <3>2. Head(Order(due)) = Order(due)[1]
      OBVIOUS
    <3> QED BY <1>6, <3>1, <3>2 DEF Asked
  <2>2. ASSUME NEW p \in asked', manner'[p] = Denied PROVE p = Order(due)[1]
    <3>1. CASE p = Order(due)[1]
      BY <3>1
    <3>2. CASE p # Order(due)[1]
      <4>1. calls # << >> /\ p \in asked
        BY <1>8, <2>2, <3>2
      <4>2. p = Asked
        BY <2>2, <4>1 DEF RouteInv, AnswerOK
      <4> QED BY <2>2, <4>1, <4>2, WaysDiffer
    <3> QED BY <3>1, <3>2
  <2> QED BY <2>1, <2>2 DEF AnswerOK
<1> QED BY <1>11, <1>12, <1>13, <1>14, <1>15 DEF RouteInv

(* A call that has ended leaves those outside it as they were.             *)
LEMMA BackStep ==
    ASSUME RouteInv, calls # << >>, calls' = Back, UNCHANGED <<purse, manner, changes, asked>>,
           flow' \in [Tube -> Nat], answer' \in {"result", "error", "denial"},
           answer' # "denial" => \A p \in asked : manner[p] # Denied,
           answer' = "denial" => \E p \in asked : manner[p] = Denied,
           answer' = "error" => asked = Tube /\ \A p \in Tube : manner[p] \notin Speeds
    PROVE  RouteInv'
<1>1. calls \in Seq([total : Nat, order : Seq(Tube)])
  BY DEF RouteInv, RouteTypeOK
<1>2. Len(calls) \in Nat \ {0} /\ Len(calls) <= MaxNesting /\ MaxNesting \in Nat
  BY <1>1, EmptySeq, RouterAssumption DEF RouteInv, RouteTypeOK
<1>3. \A i \in 1..(Len(calls) - 1) : i \in 1..Len(calls)
  BY <1>2
<1>4. \A i \in 1..(Len(calls) - 1) : calls[i] \in [total : Nat, order : Seq(Tube)]
  BY <1>1, <1>3, ElementOfSeq
<1>5. /\ calls' \in Seq([total : Nat, order : Seq(Tube)]) /\ Len(calls') = Len(calls) - 1
      /\ \A i \in 1..(Len(calls) - 1) : calls'[i] = calls[i]
  <2>1. /\ Back \in Seq([total : Nat, order : Seq(Tube)])
        /\ Len(Back) = IF 1 <= Len(calls) - 1 THEN Len(calls) - 1 - 1 + 1 ELSE 0
        /\ \A i \in 1..(Len(calls) - 1 - 1 + 1) : Back[i] = calls[1 + i - 1]
    BY <1>2, <1>4, SubSeqProperties DEF Back
  <2>2. Len(calls) - 1 - 1 + 1 = Len(calls) - 1 /\ \A i \in 1..(Len(calls) - 1) : 1 + i - 1 = i
    BY <1>2
  <2>3. Len(Back) = Len(calls) - 1
    <3>1. \A n \in Nat \ {0} : (IF 1 <= n - 1 THEN n - 1 - 1 + 1 ELSE 0) = n - 1
      OBVIOUS
    <3> QED BY <1>2, <2>1, <3>1
  <2>4. \A i \in 1..(Len(calls) - 1) : Back[i] = calls[i]
    BY <2>1, <2>2
  <2> QED BY <2>1, <2>3, <2>4
<1>6. RouteTypeOK'
  <2>1. Len(calls') <= MaxNesting
    BY <1>2, <1>5
  <2> QED BY <1>5, <2>1 DEF RouteInv, RouteTypeOK
<1>7. ASSUME NEW i \in 1..Len(calls') PROVE CallOK(calls[i])'
  <2>1. i \in 1..(Len(calls) - 1) /\ i \in 1..Len(calls)
    BY <1>3, <1>5
  <2>2. CallOK(calls[i]) /\ calls'[i] = calls[i]
    BY <1>5, <2>1 DEF RouteInv
  <2> QED BY <2>2 DEF CallOK
<1>8. ASSUME NEW i \in 1..(Len(calls') - 1) PROVE manner'[calls'[i].order[1]] = Asks
  <2>1. i \in 1..(Len(calls) - 1)
    BY <1>2, <1>5
  <2> QED BY <1>5, <2>1 DEF RouteInv
<1>9. AnswerOK'
  BY DEF AnswerOK
<1> QED BY <1>6, <1>7, <1>8, <1>9 DEF RouteInv

(* Somebody asked failed, and does not work.                               *)
LEMMA ErrorKnown ==
    ASSUME RouteInv, Comes("error")
    PROVE  /\ calls # << >> /\ manner[Asked] \notin Speeds
           /\ \A p \in asked : manner[p] # Denied
<1>1. calls # << >>
  BY DEF Comes
<1>2. \/ answer = "error" /\ manner[Asked] = Asks
      \/ answer = "none" /\ (manner[Asked] = Broken \/ manner[Asked] = Asks)
  BY DEF Comes
<1>3. manner[Asked] \notin Speeds /\ manner[Asked] # Denied
  BY <1>2, WaysDiffer
<1>4. \A p \in asked : manner[p] # Denied
  BY <1>1, <1>2, <1>3 DEF RouteInv, AnswerOK
<1> QED BY <1>1, <1>3, <1>4

LEMMA DecayStep ==
    ASSUME RouteInv, calls # << >>
    PROVE  [flow EXCEPT ![Asked] = Decay(@)] \in [Tube -> Nat]
<1>1. flow \in [Tube -> Nat] /\ Asked \in Tube
  BY CallsKnown, InnermostKnown
<1>2. Decay(flow[Asked]) \in Nat
  <2>1. flow[Asked] \in Nat /\ 0 \in Nat
    BY <1>1
  <2> QED BY <2>1, LearnIsNumber
<1> QED BY <1>1, <1>2

LEMMA ServeStep == ASSUME RouteInv, Serve PROVE RouteInv'
<1>1. calls # << >> /\ Comes("result")
  BY DEF Serve, Comes
<1>2. \/ answer = "result" /\ manner[Asked] = Asks
      \/ answer = "none" /\ manner[Asked] \in Speeds
  BY <1>1 DEF Comes
<1>3. Asked \in Tube /\ flow \in [Tube -> Nat]
  BY <1>1, CallsKnown, InnermostKnown
<1>4. Measured \in Nat
  <2>1. Speeds \in SUBSET Nat /\ Speeds # {}
    BY RouterAssumption
  <2>2. Slowest \in Speeds
    <3>1. \E q \in Speeds : \A r \in Speeds : q <= r
      BY <2>1, LeastNumber
    <3> QED BY <3>1 DEF Slowest
  <2> QED BY <1>2, <2>1, <2>2 DEF Measured
<1>5. flow' \in [Tube -> Nat]
  <2>1. Learn(flow[Asked], Measured) \in Nat
    <3>1. flow[Asked] \in Nat
      BY <1>3
    <3> QED BY <1>4, <3>1, LearnIsNumber
  <2>2. flow' = [flow EXCEPT ![Asked] = Learn(@, Measured)]
    BY DEF Serve
  <2> QED BY <1>3, <2>1, <2>2
<1>6. \A p \in asked : manner[p] # Denied
  BY <1>1, <1>2, WaysDiffer DEF RouteInv, AnswerOK
<1>7. calls' = Back /\ UNCHANGED <<purse, manner, changes, asked>> /\ answer' = "result"
  BY DEF Serve
<1> QED BY <1>1, <1>5, <1>6, <1>7, BackStep

LEMMA NoneLeftStep == ASSUME RouteInv, NoneLeft PROVE RouteInv'
<1>1. Comes("error") /\ Len(Call.order) = 1
  BY DEF NoneLeft
<1>2. calls # << >> /\ manner[Asked] \notin Speeds /\ \A p \in asked : manner[p] # Denied
  BY <1>1, ErrorKnown
<1>3. Asked = Call.order[1] /\ Asked \in asked /\ CallOK(Call)
  BY <1>2, InnermostKnown
<1>4. \A p \in Tube : p \in asked /\ manner[p] \notin Speeds
  <2> SUFFICES ASSUME NEW p \in Tube PROVE p \in asked /\ manner[p] \notin Speeds
    OBVIOUS
  <2>1. CASE p = Asked
    BY <1>2, <1>3, <2>1
  <2>2. CASE p # Asked
    <3>1. ~Listed(Call.order, p)
      BY <1>1, <1>3, <2>2 DEF Listed
    <3> QED BY <1>3, <3>1 DEF CallOK
  <2> QED BY <2>1, <2>2
<1>5. asked = Tube
  BY <1>4 DEF RouteInv
<1>6. /\ flow' = [flow EXCEPT ![Asked] = Decay(@)] /\ calls' = Back /\ answer' = "error"
      /\ UNCHANGED <<purse, manner, changes, asked>>
  BY DEF NoneLeft
<1>7. flow' \in [Tube -> Nat]
  BY <1>2, <1>6, DecayStep
<1> QED BY <1>2, <1>4, <1>5, <1>6, <1>7, BackStep

LEMMA DenyStep == ASSUME RouteInv, Deny PROVE RouteInv'
<1>1. calls # << >>
  BY DEF Deny, Comes
<1>2. \/ answer = "denial"
      \/ answer = "none" /\ manner[Asked] = Denied
  BY DEF Deny, Comes
<1>3. Asked \in asked /\ flow \in [Tube -> Nat]
  BY <1>1, InnermostKnown, CallsKnown
<1>4. \E p \in asked : manner[p] = Denied
  BY <1>2, <1>3 DEF RouteInv, AnswerOK
<1>5. calls' = Back /\ UNCHANGED <<flow, purse, manner, changes, asked>> /\ answer' = "denial"
  BY DEF Deny, route
<1>6. flow' \in [Tube -> Nat]
  BY <1>3, <1>5
<1> QED BY <1>1, <1>4, <1>5, <1>6, BackStep

(* Of the order taken the first drops out; he was asked and failed.        *)
LEMMA FailOverStep == ASSUME RouteInv, FailOver PROVE RouteInv'
<1> DEFINE n == Len(calls)
           call == [Call EXCEPT !.order = Tail(@)]
<1>1. Comes("error") /\ Len(Call.order) > 1
  BY DEF FailOver
<1>2. calls # << >> /\ manner[Asked] \notin Speeds /\ \A p \in asked : manner[p] # Denied
  BY <1>1, ErrorKnown
<1>3. /\ n \in 1..n /\ Asked = Call.order[1] /\ Asked \in Tube /\ Asked \in asked
      /\ Call \in [total : Nat, order : Seq(Tube)] /\ Call.order \in Seq(Tube) /\ Call.total \in Nat
      /\ Len(Call.order) \in Nat \ {0} /\ CallOK(Call)
  BY <1>2, InnermostKnown
<1>4. calls \in Seq([total : Nat, order : Seq(Tube)]) /\ n \in Nat /\ n <= MaxNesting
  BY CallsKnown DEF RouteInv, RouteTypeOK
<1>5. /\ Tail(Call.order) \in Seq(Tube) /\ Len(Tail(Call.order)) = Len(Call.order) - 1
      /\ \A k \in 1..(Len(Call.order) - 1) : Tail(Call.order)[k] = Call.order[k + 1]
  <2>1. Call.order # << >>
    BY <1>3 DEF CallOK
  <2> QED BY <1>3, <2>1, HeadTailProperties
<1>6. /\ call \in [total : Nat, order : Seq(Tube)] /\ call.order = Tail(Call.order)
      /\ Call.order[2] \in Tube /\ call.order[1] = Call.order[2] /\ call.order # << >>
  <2>1. 1 \in 1..(Len(Call.order) - 1) /\ 2 \in 1..Len(Call.order)
    BY <1>1, <1>3
  <2>2. Call.order[2] \in Tube
    BY <1>3, <2>1, ElementOfSeq
  <2>3. call \in [total : Nat, order : Seq(Tube)] /\ call.order = Tail(Call.order)
    BY <1>3, <1>5
  <2>4. Tail(Call.order)[1] = Call.order[2]
    BY <1>5, <2>1
  <2>5. Tail(Call.order) # << >>
    <3>1. Len(Tail(Call.order)) # 0
      <4>1. \A m \in Nat : m > 1 => m - 1 # 0
        OBVIOUS
      <4>2. Len(Call.order) \in Nat
        BY <1>3
      <4> QED BY <1>1, <1>5, <4>1, <4>2
    <3> QED BY <3>1, EmptySeq
  <2> QED BY <2>2, <2>3, <2>4, <2>5
<1>7. /\ calls' = [calls EXCEPT ![n] = call] /\ answer' = "none"
      /\ flow' = [flow EXCEPT ![Asked] = Decay(@)]
      /\ purse' = Relative([purse EXCEPT ![Call.order[2]] = @ - Explore[2] * Call.total])
      /\ asked' = asked \cup {Call.order[2]}
      /\ UNCHANGED <<manner, changes>>
  <2>1. [calls EXCEPT ![n].order = Tail(@)] = [calls EXCEPT ![n] = call]
    BY DEF Call
  <2> QED BY <2>1 DEF FailOver
<1> HIDE DEF call
<1>8. /\ calls' \in Seq([total : Nat, order : Seq(Tube)]) /\ Len(calls') = n
      /\ \A i \in 1..n : calls'[i] = IF i = n THEN call ELSE calls[i]
  BY <1>3, <1>4, <1>6, <1>7, ExceptSeq
<1>9. purse' \in [Tube -> Nat]
  <2> DEFINE f == [purse EXCEPT ![Call.order[2]] = @ - Explore[2] * Call.total]
  <2>1. purse \in [Tube -> Nat]
    BY CallsKnown
  <2>2. Explore[2] * Call.total \in Nat
    <3>1. Explore[2] \in Nat
      BY LawAssumption
    <3> QED BY <1>3, <3>1
  <2>3. f \in [Tube -> Int] /\ Tube # {}
    <3>1. \A p \in Tube : purse[p] \in Int /\ purse[p] - Explore[2] * Call.total \in Int
      BY <2>1, <2>2
    <3> QED BY <1>6, <2>1, <3>1
  <2> HIDE DEF f
  <2>4. Relative(f) \in [Tube -> Nat]
    BY <2>3, RelativeIsNumbers
  <2> QED BY <1>7, <2>4 DEF f
<1>10. flow' \in [Tube -> Nat]
  BY <1>2, <1>7, DecayStep
<1>11. RouteTypeOK'
  <2>1. Len(calls') <= MaxNesting
    BY <1>4, <1>8
  <2> QED BY <1>7, <1>8, <1>9, <1>10, <2>1 DEF RouteInv, RouteTypeOK
<1>12. ASSUME NEW i \in 1..Len(calls') PROVE CallOK(calls[i])'
  <2>1. i \in 1..n
    BY <1>8
  <2>2. CASE i # n
    <3>1. CallOK(calls[i]) /\ calls'[i] = calls[i] /\ asked \subseteq asked'
      BY <1>7, <1>8, <2>1, <2>2 DEF RouteInv
    <3> QED BY <1>7, <3>1 DEF CallOK
  <2>3. CASE i = n
    <3>1. calls'[i] = call
      BY <1>8, <2>1, <2>3
    <3>2. ASSUME NEW p \in Tube, ~Listed(call.order, p) PROVE p \in asked /\ manner[p] \notin Speeds
      <4>1. CASE p = Asked
        BY <1>2, <1>3, <4>1
      <4>2. CASE p # Asked
        <5>1. ASSUME NEW k \in 1..Len(Call.order), Call.order[k] = p PROVE FALSE
          <6>1. k # 1
            BY <1>3, <4>2, <5>1
          <6>2. k - 1 \in 1..(Len(Call.order) - 1) /\ (k - 1) + 1 = k
            BY <1>3, <6>1
          <6>3. Tail(Call.order)[k - 1] = p /\ k - 1 \in 1..Len(Tail(Call.order))
            BY <1>5, <5>1, <6>2
          <6> QED BY <1>6, <3>2, <6>3 DEF Listed
        <5> QED BY <1>3, <5>1 DEF CallOK, Listed
      <4> QED BY <4>1, <4>2
    <3>3. call.order # << >> /\ call.order[1] \in asked' /\ manner' = manner /\ asked \subseteq asked'
      BY <1>6, <1>7
    <3> QED BY <1>8, <1>12, <2>3, <3>1, <3>2, <3>3 DEF CallOK, Listed
  <2> QED BY <2>1, <2>2, <2>3
<1>13. ASSUME NEW i \in 1..(Len(calls') - 1) PROVE manner'[calls'[i].order[1]] = Asks
  <2>1. i \in 1..(n - 1) /\ i \in 1..n /\ i # n
    BY <1>4, <1>8
  <2> QED BY <1>7, <1>8, <2>1 DEF RouteInv
<1>14. AnswerOK'
  <2>1. Asked' = Call.order[2]
    <3>1. Call' = call
      BY <1>3, <1>8 DEF Call
    <3>2. Head(call.order) = call.order[1]
      OBVIOUS
    <3> QED BY <1>6, <3>1, <3>2 DEF Asked
  <2>2. \A p \in asked' : manner'[p] = Denied => p = Call.order[2]
    BY <1>2, <1>7
  <2> QED BY <1>7, <2>1, <2>2 DEF AnswerOK
<1>15. asked' \subseteq Tube
  BY <1>6, <1>7 DEF RouteInv
<1> QED BY <1>11, <1>12, <1>13, <1>14, <1>15 DEF RouteInv

LEMMA RouteStep == RouteInv /\ [RouteNext]_routeVars => RouteInv'
<1> SUFFICES ASSUME RouteInv, [RouteNext]_routeVars PROVE RouteInv'
  OBVIOUS
<1>1. CASE CallRoute
  <2>1. Len(calls) < MaxNesting
    BY <1>1, RouterAssumption, EmptySeq DEF CallRoute
  <2> QED BY <1>1, <2>1, OpenStep DEF CallRoute
<1>2. CASE AskAgain
  BY <1>2, OpenStep DEF AskAgain
<1>3. CASE Serve
  BY <1>3, ServeStep
<1>4. CASE FailOver
  BY <1>4, FailOverStep
<1>5. CASE NoneLeft
  BY <1>5, NoneLeftStep
<1>6. CASE Deny
  BY <1>6, DenyStep
<1>7. ASSUME NEW p \in Tube, NEW h \in Manner, Change(p, h) PROVE RouteInv'
  <2>1. /\ calls = << >> /\ changes < MaxChanges /\ changes' = changes + 1 /\ answer' = "none"
        /\ manner' = [manner EXCEPT ![p] = h] /\ UNCHANGED <<flow, purse, calls, asked>>
    BY <1>7 DEF Change, route
  <2>2. manner' \in [Tube -> Manner]
    BY <1>7, <2>1 DEF RouteInv, RouteTypeOK
  <2>3. changes' \in 0..MaxChanges
    BY <2>1, RouterAssumption DEF RouteInv, RouteTypeOK
  <2>4. Len(calls) = 0
    BY <2>1, EmptySeq
  <2>5. 1..Len(calls') = {} /\ 1..(Len(calls') - 1) = {}
    BY <2>1, <2>4
  <2>6. RouteTypeOK'
    BY <2>1, <2>2, <2>3 DEF RouteInv, RouteTypeOK
  <2>7. AnswerOK'
    BY <2>1 DEF AnswerOK
  <2> QED BY <2>1, <2>5, <2>6, <2>7 DEF RouteInv
<1>8. CASE UNCHANGED routeVars
  BY <1>8 DEF routeVars, route, RouteInv, RouteTypeOK, AnswerOK, CallOK, Asked, Call
<1> QED BY <1>1, <1>2, <1>3, <1>4, <1>5, <1>6, <1>7, <1>8 DEF RouteNext, Goes

LEMMA RouteStarts == RouteInit => RouteInv
<1> SUFFICES ASSUME RouteInit PROVE RouteInv
  OBVIOUS
<1>1. calls = << >> /\ calls \in Seq([total : Nat, order : Seq(Tube)]) /\ Len(calls) = 0
  BY EmptySeq DEF RouteInit
<1>2. RouteTypeOK
  BY <1>1, LawAssumption, RouterAssumption DEF RouteInit, RouteTypeOK
<1> QED BY <1>1, <1>2 DEF RouteInit, RouteInv, AnswerOK

(* Whatever calls nest, and however many providers there are: a route's    *)
(* call is refused if and only if somebody it asked was, and fails only    *)
(* when everybody was asked and nobody works (builtins.js, routeCall).     *)
THEOREM RoutesRightly == RouteSpec => []RouteHolds
<1>1. RouteInv => RouteHolds
  BY DEF RouteInv, AnswerOK, RouteHolds, RouteTypeOK
<1> QED BY <1>1, RouteStarts, RouteStep, PTL DEF RouteSpec

-----------------------------------------------------------------------------
(* Why a batch that returns has every item once.  An item is in a list     *)
(* never, or once.                                                         *)
Absent(s, k) == \A p \in 1..Len(s) : s[p] # k
Once(s, k) == \E p \in 1..Len(s) : s[p] = k /\ \A q \in 1..Len(s) : s[q] = k => q = p

InOnePlace(k) ==
    \/ done[k] = 1 /\ Absent(todo, k) /\ \A w \in Tube : Absent(chunks[w], k)
    \/ done[k] = 0 /\ Once(todo, k) /\ \A w \in Tube : Absent(chunks[w], k)
    \/ /\ done[k] = 0 /\ Absent(todo, k)
       /\ \E w \in Tube : /\ Once(chunks[w], k)
                          /\ \A v \in Tube \ {w} : Absent(chunks[v], k)

(* Between batches nothing is dealt or to be dealt, a batch under way has  *)
(* no outcome yet, and a second round is dealt to those that are left.     *)
BatchInv ==
    /\ TypeOK /\ RoutesAround /\ EveryItemOnce
    /\ round # 0 => \A k \in 1..size : InOnePlace(k)
    /\ round = 0 => todo = << >> /\ chunks = Nothing
    /\ round # 0 => outcome = "none"
    /\ round = 2 => DOMAIN fresh = Tube \ gone /\ gone # Tube

LEMMA TimesKnown ==
    ASSUME NEW S, NEW s \in Seq(S), NEW k
    PROVE  /\ Times(s, k) = 0 <=> Absent(s, k)
           /\ Times(s, k) = 1 <=> Once(s, k)
<1> DEFINE at == {p \in DOMAIN s : s[p] = k}
<1>1. Len(s) \in Nat /\ DOMAIN s = 1..Len(s)
  BY LenProperties
<1>2. IsFiniteSet(at)
  <2>1. IsFiniteSet(1..Len(s)) /\ at \in SUBSET (1..Len(s))
    BY <1>1, FS_Interval
  <2> HIDE DEF at
  <2> QED BY <2>1, FS_Subset
<1>3. Times(s, k) = Cardinality(at)
  BY DEF Times
<1>4. at = {} <=> Absent(s, k)
  BY <1>1 DEF Absent
<1>5. (\E p : at = {p}) <=> Once(s, k)
  <2>1. ASSUME NEW p, at = {p} PROVE Once(s, k)
    <3>1. p \in 1..Len(s) /\ s[p] = k
      BY <1>1, <2>1
    <3>2. \A q \in 1..Len(s) : s[q] = k => q = p
      BY <1>1, <2>1
    <3> QED BY <3>1, <3>2 DEF Once
  <2>2. ASSUME Once(s, k) PROVE \E p : at = {p}
    <3>1. PICK p \in 1..Len(s) : s[p] = k /\ \A q \in 1..Len(s) : s[q] = k => q = p
      BY <2>2 DEF Once
    <3>2. at = {p}
      BY <1>1, <3>1
    <3> QED BY <3>2
  <2> QED BY <2>1, <2>2
<1> HIDE DEF at
<1> QED BY <1>2, <1>3, <1>4, <1>5, FS_EmptySet, FS_Singleton

LEMMA TailLoses ==
    ASSUME NEW S, NEW s \in Seq(S), s # << >>, NEW k
    PROVE  /\ Absent(s, k) => Absent(Tail(s), k) /\ Head(s) # k
           /\ Once(s, k) /\ Head(s) = k => Absent(Tail(s), k)
           /\ Once(s, k) /\ Head(s) # k => Once(Tail(s), k)
<1>1. /\ Len(s) \in Nat \ {0} /\ Head(s) = s[1] /\ Len(Tail(s)) = Len(s) - 1
      /\ \A p \in 1..Len(Tail(s)) : Tail(s)[p] = s[p + 1]
  BY EmptySeq, HeadTailProperties
<1> DEFINE n == Len(s)
           t == Tail(s)
<1>2. /\ \A p \in 1..(n - 1) : t[p] = s[p + 1] /\ p + 1 \in 1..n /\ p + 1 # 1
      /\ \A p \in 1..n : p # 1 => p - 1 \in 1..(n - 1) /\ t[p - 1] = s[p]
      /\ 1 \in 1..n /\ Len(t) = n - 1
  <2>1. \A p \in 1..(n - 1) : p + 1 \in 1..n /\ p + 1 # 1
    BY <1>1
  <2>2. \A p \in 1..n : p # 1 => p - 1 \in 1..(n - 1) /\ (p - 1) + 1 = p
    BY <1>1
  <2> QED BY <1>1, <2>1, <2>2
<1>3. Absent(s, k) => Absent(t, k) /\ s[1] # k
  BY <1>2 DEF Absent
<1>4. ASSUME Once(s, k), s[1] = k PROVE Absent(t, k)
  <2>1. \A q \in 1..n : s[q] = k => q = 1
    BY <1>2, <1>4 DEF Once
  <2> QED BY <1>2, <2>1 DEF Absent
<1>5. ASSUME Once(s, k), s[1] # k PROVE Once(t, k)
  <2>1. PICK p \in 1..n : s[p] = k /\ \A q \in 1..n : s[q] = k => q = p
    BY <1>5 DEF Once
  <2>2. p - 1 \in 1..(n - 1) /\ t[p - 1] = k
    BY <1>2, <1>5, <2>1
  <2>3. ASSUME NEW q \in 1..(n - 1), t[q] = k PROVE q = p - 1
    <3>1. q + 1 = p
      BY <1>2, <2>1, <2>3
    <3> QED BY <2>3, <3>1
  <2> QED BY <1>2, <2>2, <2>3 DEF Once
<1> QED BY <1>1, <1>3, <1>4, <1>5

LEMMA ConcatKeeps ==
    ASSUME NEW S, NEW s \in Seq(S), NEW t \in Seq(S), NEW k
    PROVE  /\ Absent(s, k) /\ Absent(t, k) => Absent(s \o t, k)
           /\ Once(s, k) /\ Absent(t, k) => Once(s \o t, k)
           /\ Absent(s, k) /\ Once(t, k) => Once(s \o t, k)
<1> DEFINE m == Len(s)
           n == Len(t)
           u == s \o t
<1>1. m \in Nat /\ n \in Nat /\ Len(u) = m + n
  BY LenProperties, ConcatProperties
<1>2. \A i \in 1..(m + n) : u[i] = IF i <= m THEN s[i] ELSE t[i - m]
  BY ConcatProperties
<1> HIDE DEF m, n, u
<1>3. \A i \in 1..(m + n) : (i \in 1..m /\ u[i] = s[i]) \/ (i - m \in 1..n /\ u[i] = t[i - m])
  <2>1. \A i \in 1..(m + n) : (i <= m /\ i \in 1..m) \/ (~(i <= m) /\ i - m \in 1..n)
    BY <1>1
  <2> QED BY <1>2, <2>1
<1>4. \A p \in 1..m : p \in 1..(m + n) /\ u[p] = s[p]
  <2>1. \A p \in 1..m : p \in 1..(m + n) /\ p <= m
    BY <1>1
  <2> QED BY <1>2, <2>1
<1>5. \A p \in 1..n : p + m \in 1..(m + n) /\ u[p + m] = t[p]
  <2>1. \A p \in 1..n : p + m \in 1..(m + n) /\ ~(p + m <= m) /\ (p + m) - m = p
    BY <1>1
  <2> QED BY <1>2, <2>1
<1>6. Absent(s, k) /\ Absent(t, k) => Absent(u, k)
  BY <1>1, <1>3 DEF Absent, m, n
<1>7. ASSUME Once(s, k), Absent(t, k) PROVE Once(u, k)
  <2>1. PICK p \in 1..m : s[p] = k /\ \A q \in 1..m : s[q] = k => q = p
    BY <1>7 DEF Once, m
  <2>2. \A q \in 1..n : t[q] # k
    BY <1>7 DEF Absent, n
  <2>3. p \in 1..(m + n) /\ u[p] = k
    BY <1>4, <2>1
  <2>4. ASSUME NEW q \in 1..(m + n), u[q] = k PROVE q = p
    BY <1>3, <2>1, <2>2, <2>4
  <2> QED BY <1>1, <2>3, <2>4 DEF Once
<1>8. ASSUME Absent(s, k), Once(t, k) PROVE Once(u, k)
  <2>1. PICK p \in 1..n : t[p] = k /\ \A q \in 1..n : t[q] = k => q = p
    BY <1>8 DEF Once, n
  <2>2. \A q \in 1..m : s[q] # k
    BY <1>8 DEF Absent, m
  <2>3. p + m \in 1..(m + n) /\ u[p + m] = k
    BY <1>5, <2>1
  <2>4. ASSUME NEW q \in 1..(m + n), u[q] = k PROVE q = p + m
    <3>1. q - m = p
      BY <1>3, <2>1, <2>2, <2>4
    <3> QED BY <1>1, <2>4, <3>1
  <2> QED BY <1>1, <2>3, <2>4 DEF Once
<1> QED BY <1>6, <1>7, <1>8 DEF u

LEMMA AppendGains ==
    ASSUME NEW S, NEW s \in Seq(S), NEW e \in S, NEW k
    PROVE  /\ Absent(s, k) /\ e = k => Once(Append(s, e), k)
           /\ Absent(s, k) /\ e # k => Absent(Append(s, e), k)
           /\ Once(s, k) /\ e # k => Once(Append(s, e), k)
<1>1. Append(s, e) = s \o <<e>> /\ <<e>> \in Seq(S)
  BY AppendIsConcat
<1>2. Len(<<e>>) = 1 /\ <<e>>[1] = e
  OBVIOUS
<1>3. \A p \in 1..1 : p = 1
  OBVIOUS
<1>4. (e = k => Once(<<e>>, k)) /\ (e # k => Absent(<<e>>, k))
  BY <1>2, <1>3 DEF Once, Absent
<1> QED BY <1>1, <1>4, ConcatKeeps

-----------------------------------------------------------------------------
(* The items of some workers, one worker after the other.                  *)
Joining(S, n, upto) ==
    upto = [w \in 0..n |-> IF w = 0 THEN << >>
                           ELSE IF w \in S THEN upto[w - 1] \o chunks[w] ELSE upto[w - 1]]

LEMMA JoinsExist == ASSUME NEW S, NEW n \in Nat PROVE \E upto : Joining(S, n, upto)
<1> DEFINE T == {k \in Nat : ~\E upto : Joining(S, k, upto)}
<1> SUFFICES ASSUME T # {} PROVE FALSE
  OBVIOUS
<1>1. PICK m \in T : \A k \in T : m <= k
  BY LeastNumber
<1>2. m # 0
  <2> DEFINE u == [w \in 0..0 |-> << >>]
  <2>1. u = [w \in 0..0 |-> IF w = 0 THEN << >>
                            ELSE IF w \in S THEN u[w - 1] \o chunks[w] ELSE u[w - 1]]
    OBVIOUS
  <2>2. Joining(S, 0, u)
    BY <2>1 DEF Joining
  <2> QED BY <1>1, <2>2
<1>3. m - 1 \in Nat /\ m - 1 \notin T /\ m \in Nat
  BY <1>1, <1>2
<1>4. PICK g : Joining(S, m - 1, g)
  BY <1>3
<1> DEFINE h == [w \in 0..m |-> IF w = m THEN IF m \in S THEN g[m - 1] \o chunks[m] ELSE g[m - 1]
                                ELSE g[w]]
<1>5. \A w \in 0..m : w # 0 => h[w - 1] = g[w - 1]
  BY <1>3
<1>6. \A w \in 0..m : h[w] = IF w = 0 THEN << >>
                             ELSE IF w \in S THEN h[w - 1] \o chunks[w] ELSE h[w - 1]
  <2>1. \A w \in 0..(m - 1) : g[w] = IF w = 0 THEN << >>
                                     ELSE IF w \in S THEN g[w - 1] \o chunks[w] ELSE g[w - 1]
    BY <1>3, <1>4 DEF Joining
  <2> SUFFICES ASSUME NEW w \in 0..m
               PROVE  h[w] = IF w = 0 THEN << >>
                             ELSE IF w \in S THEN h[w - 1] \o chunks[w] ELSE h[w - 1]
    OBVIOUS
  <2>2. CASE w = m
    BY <1>2, <1>5, <2>2
  <2>3. CASE w # m
    <3>1. w \in 0..(m - 1)
      BY <1>3, <2>3
    <3> QED BY <1>5, <2>1, <2>3, <3>1
  <2> QED BY <2>2, <2>3
<1>7. Joining(S, m, h)
  BY <1>6 DEF Joining
<1> QED BY <1>1, <1>7

LEMMA FlattenKnown ==
    ASSUME NEW I, chunks \in [Tube -> Seq(I)], NEW S \in SUBSET Tube
    PROVE  /\ Flatten(S) \in Seq(I)
           /\ \A k : (\A w \in S : Absent(chunks[w], k)) => Absent(Flatten(S), k)
           /\ \A k, w : w \in S /\ Once(chunks[w], k) /\ (\A v \in S \ {w} : Absent(chunks[v], k)) =>
                  Once(Flatten(S), k)
<1>0. Tubes \in Nat /\ Tube = 1..Tubes
  BY LawAssumption DEF Tube
<1> DEFINE u == CHOOSE upto : Joining(S, Tubes, upto)
<1>1. Joining(S, Tubes, u)
  BY <1>0, JoinsExist
<1>2. Flatten(S) = u[Tubes]
  BY DEF Flatten, Joining
<1> HIDE DEF u
<1>3. \A w \in 0..Tubes : u[w] = IF w = 0 THEN << >>
                                 ELSE IF w \in S THEN u[w - 1] \o chunks[w] ELSE u[w - 1]
  BY <1>1 DEF Joining
<1> DEFINE Upto(n) == {w \in S : w <= n}
           Good(n) ==
               /\ u[n] \in Seq(I)
               /\ \A k : (\A w \in Upto(n) : Absent(chunks[w], k)) => Absent(u[n], k)
               /\ \A k, w : w \in Upto(n) /\ Once(chunks[w], k)
                            /\ (\A v \in Upto(n) \ {w} : Absent(chunks[v], k)) => Once(u[n], k)
           T == {n \in Nat : n <= Tubes /\ ~Good(n)}
<1>4. T = {}
  <2> SUFFICES ASSUME T # {} PROVE FALSE
    OBVIOUS
  <2>1. PICK m \in T : \A k \in T : m <= k
    BY LeastNumber
  <2>2. m \in 0..Tubes /\ m \in Nat /\ ~Good(m)
    BY <1>0, <2>1
  <2>3. m # 0
    <3>1. Upto(0) = {}
      <4>1. \A w \in S : ~(w <= 0)
        BY <1>0
      <4> QED BY <4>1
    <3>2. u[0] = << >>
      BY <1>0, <1>3
    <3>3. << >> \in Seq(I) /\ \A k : Absent(<< >>, k)
      BY EmptySeq DEF Absent
    <3> HIDE DEF Upto
    <3>4. Good(0)
      BY <3>1, <3>2, <3>3
    <3> QED BY <2>2, <3>4
  <2>4. m - 1 \in Nat /\ m - 1 \notin T /\ m - 1 <= Tubes
    <3>1. m - 1 \in Nat /\ m - 1 <= Tubes /\ ~(m <= m - 1)
      BY <1>0, <2>2, <2>3
    <3>2. \A k \in T : m <= k
      BY <2>1
    <3> HIDE DEF T
    <3> QED BY <3>1, <3>2
  <2>5. Good(m - 1)
    BY <2>4
  <2>6. Upto(m) = Upto(m - 1) \cup (S \cap {m}) /\ m \notin Upto(m - 1) /\ m \in Tube
    <3>1. \A w \in S : w \in Nat
      BY <1>0
    <3>2. \A w \in Nat : (w <= m <=> w <= m - 1 \/ w = m) /\ ~(m <= m - 1) /\ m <= m
      BY <2>2
    <3>3. m \in 1..Tubes
      BY <1>0, <2>2, <2>3
    <3> QED BY <1>0, <3>1, <3>2, <3>3
  <2>7. CASE m \notin S
    <3>1. Upto(m) = Upto(m - 1)
      BY <2>6, <2>7
    <3>2. u[m] = u[m - 1]
      BY <1>3, <2>2, <2>3, <2>7
    <3> HIDE DEF Upto
    <3> QED BY <2>2, <2>5, <3>1, <3>2
  <2>8. CASE m \in S
    <3> DEFINE t == u[m - 1]
               c == chunks[m]
    <3>1. u[m] = t \o c
      BY <1>3, <2>2, <2>3, <2>8
    <3>2. t \in Seq(I) /\ c \in Seq(I)
      BY <2>5, <2>6
    <3>3. u[m] \in Seq(I)
      BY <3>1, <3>2, ConcatProperties
    <3>4. Upto(m) = Upto(m - 1) \cup {m} /\ m \notin Upto(m - 1)
      BY <2>6, <2>8
    <3>5. /\ \A k : (\A w \in Upto(m - 1) : Absent(chunks[w], k)) => Absent(t, k)
          /\ \A k, w : w \in Upto(m - 1) /\ Once(chunks[w], k)
                       /\ (\A v \in Upto(m - 1) \ {w} : Absent(chunks[v], k)) => Once(t, k)
      BY <2>5
    <3> HIDE DEF Upto
    <3>6. ASSUME NEW k, \A w \in Upto(m) : Absent(chunks[w], k) PROVE Absent(u[m], k)
      <4>1. Absent(t, k) /\ Absent(c, k)
        BY <3>4, <3>5, <3>6
      <4> HIDE DEF t, c
      <4> QED BY <3>1, <3>2, <4>1, ConcatKeeps
    <3>7. ASSUME NEW k, NEW w \in Upto(m), Once(chunks[w], k),
                 \A v \in Upto(m) \ {w} : Absent(chunks[v], k)
          PROVE  Once(u[m], k)
      <4>1. CASE w = m
        <5>1. Absent(t, k) /\ Once(c, k)
          BY <3>4, <3>5, <3>7, <4>1
        <5> HIDE DEF t, c
        <5> QED BY <3>1, <3>2, <5>1, ConcatKeeps
      <4>2. CASE w # m
        <5>1. Once(t, k) /\ Absent(c, k)
          BY <3>4, <3>5, <3>7, <4>2
        <5> HIDE DEF t, c
        <5> QED BY <3>1, <3>2, <5>1, ConcatKeeps
      <4> QED BY <4>1, <4>2
    <3> QED BY <2>2, <3>3, <3>6, <3>7
  <2> QED BY <2>7, <2>8
<1>5. Upto(Tubes) = S
  <2>1. \A w \in S : w <= Tubes
    BY <1>0
  <2> QED BY <2>1
<1>6. Good(Tubes)
  <2>1. Tubes <= Tubes
    BY <1>0
  <2> HIDE DEF Good
  <2> QED BY <1>0, <1>4, <2>1
<1> HIDE DEF Upto
<1> QED BY <1>2, <1>5, <1>6

-----------------------------------------------------------------------------
(* An item is dealt to a worker; in the second round, to one that is left. *)
LEMMA DealsToOne ==
    ASSUME BatchInv, DealItem
    PROVE  /\ round # 0
           /\ credit' \in [Tube -> Nat] /\ DOMAIN fresh' = DOMAIN fresh /\ fresh' \in [DOMAIN fresh -> Nat]
           /\ \E r \in Tube : /\ chunks' = [chunks EXCEPT ![r] = Append(@, Head(todo))]
                              /\ round = 2 => r \notin gone
<1> DEFINE purse2 == IF round = 1 THEN credit ELSE fresh
           c == [w \in DOMAIN purse2 |-> cond[w]]
           now == Accrued(c, purse2)
           left == Relative(Paid(c, now, Richest(now)))
           D == DOMAIN purse2
<1>1. /\ todo # << >> /\ chunks' = [chunks EXCEPT ![Richest(now)] = Append(@, Head(todo))]
      /\ credit' = IF round = 1 THEN left ELSE credit
      /\ fresh' = IF round = 1 THEN fresh ELSE left
  BY DEF DealItem
<1>2. round # 0 /\ round \in {0, 1, 2}
  <2>1. round \in 0..2
    BY DEF BatchInv, TypeOK
  <2> QED BY <1>1, <2>1 DEF BatchInv
<1>3. /\ cond \in [Tube -> Nat] /\ credit \in [Tube -> Nat] /\ fresh \in [DOMAIN fresh -> Nat]
      /\ DOMAIN fresh \subseteq Tube
  BY DEF BatchInv, TypeOK
<1>4. /\ D \subseteq Tube /\ D # {} /\ purse2 \in [D -> Nat]
      /\ round = 1 => D = Tube
      /\ round = 2 => D = DOMAIN fresh /\ D \cap gone = {}
  <2>1. CASE round = 1
    <3>1. D = Tube /\ purse2 = credit
      BY <1>3, <2>1
    <3>2. Tube # {}
      BY LawAssumption DEF Tube
    <3> QED BY <1>3, <2>1, <3>1, <3>2
  <2>2. CASE round = 2
    <3>1. D = DOMAIN fresh /\ purse2 = fresh
      BY <2>2
    <3>2. DOMAIN fresh = Tube \ gone /\ gone # Tube /\ gone \subseteq Tube
      BY <2>2 DEF BatchInv, TypeOK
    <3> QED BY <1>3, <2>2, <3>1, <3>2
  <2> QED BY <1>2, <2>1, <2>2
<1>5. c \in [D -> Nat]
  BY <1>3, <1>4
<1> HIDE DEF c, purse2
<1>6. now \in [D -> Nat] /\ \A i \in D : Paid(c, now, i) \in [D -> Int]
  BY <1>4, <1>5, AccruedIsNumbers
<1> HIDE DEF now
<1>7. Richest(now) \in D
  <2>1. now \in [D -> Int]
    BY <1>6
  <2> QED BY <1>4, <2>1, RichestIsOne
<1>8. left \in [D -> Nat]
  BY <1>4, <1>6, <1>7, RelativeIsNumbers
<1> HIDE DEF left, D
<1>9. credit' \in [Tube -> Nat]
  BY <1>1, <1>2, <1>3, <1>4, <1>8
<1>10. DOMAIN fresh' = DOMAIN fresh /\ fresh' \in [DOMAIN fresh -> Nat]
  BY <1>1, <1>2, <1>3, <1>4, <1>8
<1>11. Richest(now) \in Tube /\ (round = 2 => Richest(now) \notin gone)
  BY <1>4, <1>7
<1> QED BY <1>1, <1>2, <1>9, <1>10, <1>11

LEMMA DealStep == ASSUME BatchInv, DealItem PROVE BatchInv'
<1> DEFINE e == Head(todo)
<1>1. PICK r \in Tube : /\ chunks' = [chunks EXCEPT ![r] = Append(@, e)]
                        /\ round = 2 => r \notin gone
  BY DealsToOne
<1>2. /\ round # 0 /\ credit' \in [Tube -> Nat]
      /\ DOMAIN fresh' = DOMAIN fresh /\ fresh' \in [DOMAIN fresh -> Nat]
  BY DealsToOne
<1>3. /\ todo # << >> /\ todo' = Tail(todo)
      /\ UNCHANGED <<cond, way, turns, round, size, done, gone, outcome>>
  BY DEF DealItem
<1>4. todo \in Seq(1..size) /\ chunks \in [Tube -> Seq(1..size)]
  BY DEF BatchInv, TypeOK
<1>5. e \in 1..size /\ Tail(todo) \in Seq(1..size)
  BY <1>3, <1>4, HeadTailProperties
<1>6. /\ chunks' \in [Tube -> Seq(1..size)]
      /\ chunks'[r] = Append(chunks[r], e) /\ \A w \in Tube \ {r} : chunks'[w] = chunks[w]
  <2>1. Append(chunks[r], e) \in Seq(1..size)
    BY <1>4, <1>5, AppendProperties
  <2> HIDE DEF e
  <2> QED BY <1>1, <1>4, <2>1
<1>7. TypeOK'
  BY <1>2, <1>3, <1>5, <1>6 DEF BatchInv, TypeOK
<1>8. RoutesAround'
  <2>1. ASSUME round = 2, NEW w \in Tube, chunks'[w] # << >>, w \in gone PROVE FALSE
    <3>1. w # r
      BY <1>1, <2>1
    <3>2. chunks[w] # << >>
      BY <1>6, <2>1, <3>1
    <3> QED BY <2>1, <3>2 DEF BatchInv, RoutesAround, Busy
  <2> QED BY <1>3, <2>1 DEF RoutesAround, Busy
<1>9. EveryItemOnce'
  BY <1>2, <1>3 DEF BatchInv, EveryItemOnce
<1>10. ASSUME NEW k \in 1..size PROVE InOnePlace(k)'
  <2>1. InOnePlace(k)
    BY <1>2 DEF BatchInv
  <2>2. /\ Absent(todo, k) => Absent(Tail(todo), k) /\ e # k
        /\ Once(todo, k) /\ e = k => Absent(Tail(todo), k)
        /\ Once(todo, k) /\ e # k => Once(Tail(todo), k)
    BY <1>3, <1>4, TailLoses
  <2>3. /\ Absent(chunks[r], k) /\ e = k => Once(Append(chunks[r], e), k)
        /\ Absent(chunks[r], k) /\ e # k => Absent(Append(chunks[r], e), k)
        /\ Once(chunks[r], k) /\ e # k => Once(Append(chunks[r], e), k)
    <3>1. chunks[r] \in Seq(1..size)
      BY <1>4
    <3> QED BY <1>5, <3>1, AppendGains
  <2> HIDE DEF e
  <2>4. CASE done[k] = 1 /\ Absent(todo, k) /\ \A w \in Tube : Absent(chunks[w], k)
    <3>1. Absent(todo', k) /\ done'[k] = 1
      BY <1>3, <2>2, <2>4
    <3>2. \A w \in Tube : Absent(chunks'[w], k)
      BY <1>6, <2>2, <2>3, <2>4
    <3> QED BY <3>1, <3>2 DEF InOnePlace, Absent
  <2>5. CASE done[k] = 0 /\ Once(todo, k) /\ \A w \in Tube : Absent(chunks[w], k)
    <3>1. CASE e = k
      <4>1. Absent(todo', k) /\ done'[k] = 0
        BY <1>3, <2>2, <2>5, <3>1
      <4>2. Once(chunks'[r], k) /\ \A w \in Tube \ {r} : Absent(chunks'[w], k)
        BY <1>6, <2>3, <2>5, <3>1
      <4> QED BY <4>1, <4>2 DEF InOnePlace, Absent, Once
    <3>2. CASE e # k
      <4>1. Once(todo', k) /\ done'[k] = 0
        BY <1>3, <2>2, <2>5, <3>2
      <4>2. \A w \in Tube : Absent(chunks'[w], k)
        BY <1>6, <2>3, <2>5, <3>2
      <4> QED BY <4>1, <4>2 DEF InOnePlace, Absent, Once
    <3> QED BY <3>1, <3>2
  <2>6. CASE /\ done[k] = 0 /\ Absent(todo, k)
             /\ \E w \in Tube : /\ Once(chunks[w], k)
                                /\ \A v \in Tube \ {w} : Absent(chunks[v], k)
    <3>1. PICK w \in Tube : /\ Once(chunks[w], k)
                            /\ \A v \in Tube \ {w} : Absent(chunks[v], k)
      BY <2>6
    <3>2. Absent(todo', k) /\ done'[k] = 0
      BY <1>3, <2>2, <2>6
    <3>3. Once(chunks'[w], k) /\ \A v \in Tube \ {w} : Absent(chunks'[v], k)
      <4>1. CASE w = r
        BY <1>6, <2>2, <2>3, <2>6, <3>1, <4>1
      <4>2. CASE w # r
        BY <1>6, <2>2, <2>3, <2>6, <3>1, <4>2
      <4> QED BY <4>1, <4>2
    <3> QED BY <3>2, <3>3 DEF InOnePlace, Absent, Once
  <2> QED BY <2>1, <2>4, <2>5, <2>6 DEF InOnePlace
<1> QED BY <1>2, <1>3, <1>7, <1>8, <1>9, <1>10 DEF BatchInv

-----------------------------------------------------------------------------
(* What a round fills in: the items of the workers that were read and did  *)
(* not fail, once each.                                                    *)
LEMMA FilledKnown ==
    ASSUME TypeOK
    PROVE  /\ Filled \in [1..size -> Nat]
           /\ \A k \in 1..size :
                (\A w \in Tube : Absent(chunks[w], k)) => Filled[k] = done[k]
           /\ \A k \in 1..size, w \in Tube :
                Once(chunks[w], k) /\ (\A v \in Tube \ {w} : Absent(chunks[v], k)) =>
                    Filled[k] = done[k] + IF w \in Read \ Failed THEN 1 ELSE 0
<1> DEFINE who(k) == {w \in Read \ Failed : Holds(w, k)}
<1>1. done \in [1..size -> Nat] /\ chunks \in [Tube -> Seq(1..size)]
  BY DEF TypeOK
<1>2. IsFiniteSet(Tube)
  <2>1. Tubes \in Nat
    BY LawAssumption
  <2> QED BY <2>1, FS_Interval DEF Tube
<1>3. Read \ Failed \subseteq Tube
  BY DEF Read, Busy
<1>4. \A k : IsFiniteSet(who(k)) /\ Cardinality(who(k)) \in Nat
  <2> SUFFICES ASSUME NEW k PROVE IsFiniteSet(who(k)) /\ Cardinality(who(k)) \in Nat
    OBVIOUS
  <2>1. who(k) \in SUBSET Tube
    BY <1>3
  <2> HIDE DEF who
  <2> QED BY <1>2, <2>1, FS_Subset, FS_CardinalityType
<1>5. Filled = [k \in 1..size |-> done[k] + Cardinality(who(k))]
  BY <1>1 DEF Filled
<1>6. \A w \in Tube : DOMAIN chunks[w] = 1..Len(chunks[w])
  BY <1>1, LenProperties
<1>7. /\ \A w \in Tube, k \in 1..size : Absent(chunks[w], k) => ~Holds(w, k)
      /\ \A w \in Tube, k \in 1..size : Once(chunks[w], k) => Holds(w, k)
  BY <1>6 DEF Absent, Once, Holds
<1>8. ASSUME NEW k \in 1..size, \A w \in Tube : Absent(chunks[w], k) PROVE Filled[k] = done[k]
  <2>1. who(k) = {}
    <3>1. \A w \in Tube : ~Holds(w, k)
      BY <1>7, <1>8
    <3> QED BY <1>3, <3>1
  <2> HIDE DEF who
  <2>2. Cardinality(who(k)) = 0
    BY <2>1, FS_EmptySet
  <2>3. done[k] \in Nat
    BY <1>1
  <2> QED BY <1>5, <2>2, <2>3
<1>9. ASSUME NEW k \in 1..size, NEW w \in Tube, Once(chunks[w], k),
             \A v \in Tube \ {w} : Absent(chunks[v], k)
      PROVE  Filled[k] = done[k] + IF w \in Read \ Failed THEN 1 ELSE 0
  <2>1. Holds(w, k) /\ \A v \in Tube \ {w} : ~Holds(v, k)
    <3>1. Holds(w, k)
      BY <1>7, <1>9
    <3>2. \A v \in Tube \ {w} : v \in Tube
      OBVIOUS
    <3> QED BY <1>7, <1>9, <3>1, <3>2
  <2>2. CASE w \in Read \ Failed
    <3>1. who(k) = {w}
      BY <1>3, <2>1, <2>2
    <3> HIDE DEF who
    <3>2. Cardinality(who(k)) = 1
      BY <3>1, FS_Singleton
    <3> QED BY <1>5, <2>2, <3>2
  <2>3. CASE w \notin Read \ Failed
    <3>1. who(k) = {}
      BY <1>3, <2>1, <2>3
    <3> HIDE DEF who
    <3>2. Cardinality(who(k)) = 0
      BY <3>1, FS_EmptySet
    <3> QED BY <1>5, <2>3, <3>2
  <2> QED BY <2>2, <2>3
<1>10. Filled \in [1..size -> Nat]
  <2>1. \A k \in 1..size : done[k] + Cardinality(who(k)) \in Nat
    <3> HIDE DEF who
    <3>1. \A k \in 1..size : done[k] \in Nat
      BY <1>1
    <3> QED BY <1>4, <3>1
  <2> HIDE DEF who
  <2> QED BY <1>5, <2>1
<1> QED BY <1>8, <1>9, <1>10

LEMMA LearnedKnown == ASSUME TypeOK, ~Hung PROVE Learned \in [Tube -> Nat]
<1>1. \A w \in Tube : cond[w] \in Nat /\ way[w] \in Way
  BY DEF TypeOK
<1>2. ASSUME NEW w \in Tube PROVE Learned[w] \in Nat
  <2>1. cond[w] \in Nat
    BY <1>1
  <2>2. CASE w \notin Read
    BY <2>1, <2>2 DEF Learned
  <2>3. CASE w \in Read /\ way[w] = Fails
    <3>1. Decay(cond[w]) \in Nat
      <4>1. 0 \in Nat
        OBVIOUS
      <4> QED BY <2>1, <4>1, LearnIsNumber
    <3> QED BY <2>3, <3>1 DEF Learned
  <2>4. CASE w \in Read /\ way[w] # Fails
    <3>1. w \in Busy /\ way[w] # Malforms
      <4>1. w <= w
        BY LawAssumption DEF Tube
      <4> QED BY <2>4, <4>1 DEF Read
    <3>2. way[w] # Hangs
      BY <3>1 DEF Hung
    <3>3. way[w] \in Nat
      BY <1>1, <2>4, <3>1, <3>2, SchedulerAssumption DEF Way
    <3>4. Learn(cond[w], way[w]) \in Nat
      BY <2>1, <3>3, LearnIsNumber
    <3> QED BY <2>4, <3>4 DEF Learned
  <2> QED BY <2>2, <2>3, <2>4
<1> QED BY <1>2 DEF Learned

(* A batch that ends, one way or another.                                  *)
LEMMA LeaveStep ==
    ASSUME BatchInv, Leave(outcome'), outcome' \in {"returned", "threw"}, todo = << >>,
           cond' \in [Tube -> Nat], done' \in [1..size -> Nat],
           UNCHANGED <<credit, way, turns, size, gone>>,
           outcome' = "returned" => \A k \in 1..size : done'[k] = 1
    PROVE  BatchInv'
<1>1. round' = 0 /\ chunks' = Nothing /\ fresh' = << >> /\ todo' = todo
  BY DEF Leave
<1>2. chunks' \in [Tube -> Seq(1..size)]
  BY <1>1, EmptySeq DEF Nothing
<1>3. DOMAIN fresh' = {} /\ fresh' \in [DOMAIN fresh' -> Nat]
  BY <1>1
<1>4. TypeOK'
  BY <1>1, <1>2, <1>3 DEF BatchInv, TypeOK
<1>5. RoutesAround' /\ EveryItemOnce'
  BY <1>1 DEF RoutesAround, EveryItemOnce
<1> QED BY <1>1, <1>4, <1>5 DEF BatchInv

LEMMA BreaksStep == ASSUME BatchInv, RoundBreaks PROVE BatchInv'
<1>1. todo = << >> /\ Leave("threw") /\ outcome' = "threw" /\ UNCHANGED <<credit, way, turns, size, gone>>
  BY DEF RoundBreaks, Under, Leave
<1>2. TypeOK
  BY DEF BatchInv
<1>3. CASE Hung
  <2>1. cond' = cond /\ done' = done
    BY <1>3 DEF RoundBreaks
  <2> QED BY <1>1, <1>2, <2>1, LeaveStep DEF TypeOK
<1>4. CASE ~Hung
  <2>1. cond' = Learned /\ done' = Filled
    BY <1>4 DEF RoundBreaks
  <2>2. cond' \in [Tube -> Nat] /\ done' \in [1..size -> Nat]
    BY <1>2, <1>4, <2>1, FilledKnown, LearnedKnown
  <2> QED BY <1>1, <2>2, LeaveStep
<1> QED BY <1>3, <1>4

LEMMA NobodyStep == ASSUME BatchInv, NobodyLeft PROVE BatchInv'
<1>1. /\ todo = << >> /\ Leave("threw") /\ outcome' = "threw" /\ UNCHANGED <<credit, way, turns, size, gone>>
      /\ ~Hung /\ cond' = Learned /\ done' = Filled
  BY DEF NobodyLeft, Under, Leave
<1>2. cond' \in [Tube -> Nat] /\ done' \in [1..size -> Nat]
  BY <1>1, FilledKnown, LearnedKnown DEF BatchInv
<1> QED BY <1>1, <1>2, LeaveStep

(* All is dealt, every worker was read and none failed: every item is      *)
(* filled in that was not.                                                 *)
LEMMA EndsStep == ASSUME BatchInv, RoundEnds PROVE BatchInv'
<1>1. /\ todo = << >> /\ Leave("returned") /\ outcome' = "returned"
      /\ UNCHANGED <<credit, way, turns, size, gone>>
      /\ ~Hung /\ Read = Busy /\ Failed = {} /\ round # 0 /\ cond' = Learned /\ done' = Filled
  BY DEF RoundEnds, Under, Leave
<1>2. TypeOK
  BY DEF BatchInv
<1>3. cond' \in [Tube -> Nat] /\ done' \in [1..size -> Nat]
  BY <1>1, <1>2, FilledKnown, LearnedKnown
<1>4. ASSUME NEW k \in 1..size PROVE done'[k] = 1
  <2>1. InOnePlace(k)
    BY <1>1 DEF BatchInv
  <2>2. ~Once(todo, k)
    <3>1. Len(todo) = 0 /\ 1..0 = {}
      BY <1>1, EmptySeq
    <3> QED BY <3>1 DEF Once
  <2>3. CASE done[k] = 1 /\ \A w \in Tube : Absent(chunks[w], k)
    BY <1>1, <1>2, <2>3, FilledKnown
  <2>4. CASE /\ done[k] = 0
             /\ \E w \in Tube : /\ Once(chunks[w], k)
                                /\ \A v \in Tube \ {w} : Absent(chunks[v], k)
    <3>1. PICK w \in Tube : Once(chunks[w], k) /\ \A v \in Tube \ {w} : Absent(chunks[v], k)
      BY <2>4
    <3>2. chunks[w] # << >>
      BY <3>1, EmptySeq DEF Once
    <3>3. w \in Read \ Failed
      BY <1>1, <3>2 DEF Busy
    <3>4. Filled[k] = done[k] + IF w \in Read \ Failed THEN 1 ELSE 0
      BY <1>2, <3>1, FilledKnown
    <3> QED BY <1>1, <2>4, <3>3, <3>4
  <2> QED BY <2>1, <2>2, <2>3, <2>4 DEF InOnePlace
<1> QED BY <1>1, <1>3, <1>4, LeaveStep

(* The items of failed workers are all that is left to be dealt.           *)
LEMMA RerouteStep == ASSUME BatchInv, Reroute PROVE BatchInv'
<1>1. /\ todo = << >> /\ round = 1 /\ ~Hung /\ Read = Busy /\ Failed # {} /\ Failed # Tube
      /\ cond' = Learned /\ done' = Filled /\ round' = 2 /\ gone' = Failed
      /\ todo' = Flatten(Failed) /\ chunks' = Nothing /\ fresh' = [w \in Tube \ Failed |-> 0]
      /\ UNCHANGED <<credit, way, turns, size, outcome>>
  BY DEF Reroute, Under
<1>2. TypeOK /\ chunks \in [Tube -> Seq(1..size)]
  BY DEF BatchInv, TypeOK
<1>3. cond' \in [Tube -> Nat] /\ done' \in [1..size -> Nat]
  BY <1>1, <1>2, FilledKnown, LearnedKnown
<1>4. Failed \subseteq Tube /\ Failed \subseteq Busy
  BY DEF Failed, Busy
<1>5. /\ todo' \in Seq(1..size)
      /\ \A k : (\A w \in Failed : Absent(chunks[w], k)) => Absent(todo', k)
      /\ \A k, w : w \in Failed /\ Once(chunks[w], k) /\ (\A v \in Failed \ {w} : Absent(chunks[v], k)) =>
             Once(todo', k)
  BY <1>1, <1>2, <1>4, FlattenKnown
<1>6. chunks' \in [Tube -> Seq(1..size)] /\ \A w \in Tube : chunks'[w] = << >>
  BY <1>1, EmptySeq DEF Nothing
<1>7. DOMAIN fresh' = Tube \ Failed /\ fresh' \in [DOMAIN fresh' -> Nat]
  BY <1>1
<1>8. TypeOK'
  <2>1. 2 \in 0..2
    OBVIOUS
  <2> QED BY <1>1, <1>2, <1>3, <1>4, <1>5, <1>6, <1>7, <2>1 DEF TypeOK
<1>9. RoutesAround'
  BY <1>6 DEF RoutesAround, Busy
<1>10. EveryItemOnce' /\ outcome' = "none"
  BY <1>1 DEF BatchInv, EveryItemOnce
<1>11. ASSUME NEW k \in 1..size PROVE InOnePlace(k)'
  <2>1. InOnePlace(k)
    BY <1>1 DEF BatchInv
  <2>2. \A w \in Tube : Absent(chunks'[w], k)
    BY <1>6, EmptySeq DEF Absent
  <2>3. ~Once(todo, k)
    <3>1. Len(todo) = 0 /\ 1..0 = {}
      BY <1>1, EmptySeq
    <3> QED BY <3>1 DEF Once
  <2>4. CASE done[k] = 1 /\ \A w \in Tube : Absent(chunks[w], k)
    <3>1. done'[k] = 1
      BY <1>1, <1>2, <2>4, FilledKnown
    <3>2. Absent(todo', k)
      BY <1>4, <1>5, <2>4
    <3> QED BY <2>2, <3>1, <3>2 DEF InOnePlace, Absent
  <2>5. CASE /\ done[k] = 0
             /\ \E w \in Tube : /\ Once(chunks[w], k)
                                /\ \A v \in Tube \ {w} : Absent(chunks[v], k)
    <3>1. PICK w \in Tube : Once(chunks[w], k) /\ \A v \in Tube \ {w} : Absent(chunks[v], k)
      BY <2>5
    <3>2. done'[k] = IF w \in Read \ Failed THEN 1 ELSE 0
      BY <1>1, <1>2, <2>5, <3>1, FilledKnown
    <3>3. w \in Busy
      <4>1. chunks[w] # << >>
        BY <3>1, EmptySeq DEF Once
      <4> QED BY <4>1 DEF Busy
    <3>4. CASE w \in Failed
      <4>1. Once(todo', k)
        BY <1>4, <1>5, <3>1, <3>4
      <4>2. done'[k] = 0
        BY <3>2, <3>4
      <4> QED BY <2>2, <4>1, <4>2 DEF InOnePlace, Absent, Once
    <3>5. CASE w \notin Failed
      <4>1. Absent(todo', k)
        BY <1>4, <1>5, <3>1, <3>5
      <4>2. done'[k] = 1
        BY <1>1, <3>2, <3>3, <3>5
      <4> QED BY <2>2, <4>1, <4>2 DEF InOnePlace, Absent
    <3> QED BY <3>4, <3>5
  <2> QED BY <2>1, <2>3, <2>4, <2>5 DEF InOnePlace
<1>12. gone' # Tube /\ DOMAIN fresh' = Tube \ gone'
  BY <1>1, <1>7
<1> QED BY <1>1, <1>8, <1>9, <1>10, <1>11, <1>12 DEF BatchInv

LEMMA ScheduleStep ==
    ASSUME BatchInv, NEW m \in BatchSizes, Schedule(m)
    PROVE  BatchInv'
<1>1. /\ round = 0 /\ round' = 1 /\ size' = m
      /\ todo' = [k \in 1..m |-> k] /\ done' = [k \in 1..m |-> 0] /\ gone' = {} /\ outcome' = "none"
      /\ UNCHANGED <<cond, credit, way, turns, fresh, chunks>>
  BY DEF Schedule, pool
<1>2. m \in Nat \ {0}
  BY SchedulerAssumption
<1>3. chunks' \in [Tube -> Seq(1..m)] /\ \A w \in Tube : chunks'[w] = << >>
  BY <1>1, EmptySeq DEF BatchInv, Nothing
<1>4. todo' \in Seq(1..m) /\ Len(todo') = m
  <2>1. [k \in 1..m |-> k] \in Seq(1..m) /\ Len([k \in 1..m |-> k]) = m
    BY <1>2
  <2> QED BY <1>1, <2>1
<1>5. done' \in [1..m -> Nat]
  BY <1>1
<1>6. TypeOK'
  <2>1. 1 \in 0..2
    OBVIOUS
  <2> QED BY <1>1, <1>3, <1>4, <1>5, <2>1 DEF BatchInv, TypeOK
<1>7. ASSUME NEW k \in 1..m PROVE InOnePlace(k)'
  <2>1. Once(todo', k)
    BY <1>1, <1>4 DEF Once
  <2>2. \A w \in Tube : Absent(chunks'[w], k)
    BY <1>3, EmptySeq DEF Absent
  <2>3. done'[k] = 0
    BY <1>1
  <2> QED BY <2>1, <2>2, <2>3 DEF InOnePlace, Once, Absent
<1>8. RoutesAround' /\ EveryItemOnce'
  BY <1>1 DEF RoutesAround, EveryItemOnce
<1> QED BY <1>1, <1>6, <1>7, <1>8 DEF BatchInv

LEMMA BatchStep == BatchInv /\ [Next]_vars => BatchInv'
<1> SUFFICES ASSUME BatchInv, [Next]_vars PROVE BatchInv'
  OBVIOUS
<1>1. ASSUME NEW m \in BatchSizes, Schedule(m) PROVE BatchInv'
  BY <1>1, ScheduleStep
<1>2. CASE DealItem
  BY <1>2, DealStep
<1>3. CASE RoundBreaks
  BY <1>3, BreaksStep
<1>4. CASE RoundEnds
  BY <1>4, EndsStep
<1>5. CASE NobodyLeft
  BY <1>5, NobodyStep
<1>6. CASE Reroute
  BY <1>6, RerouteStep
<1>7. ASSUME NEW w \in Tube, NEW h \in Way, Turn(w, h) PROVE BatchInv'
  <2>1. /\ turns < MaxTurns /\ turns' = turns + 1 /\ way' = [way EXCEPT ![w] = h]
        /\ UNCHANGED <<cond, credit, round, size, todo, fresh, chunks, done, gone, outcome>>
    BY <1>7 DEF Turn, pool, batch
  <2>2. way' \in [Tube -> Way]
    BY <1>7, <2>1 DEF BatchInv, TypeOK
  <2>3. turns' \in 0..MaxTurns
    BY <2>1, SchedulerAssumption DEF BatchInv, TypeOK
  <2>4. TypeOK'
    BY <2>1, <2>2, <2>3 DEF BatchInv, TypeOK
  <2>5. \A k : InOnePlace(k)' = InOnePlace(k)
    BY <2>1 DEF InOnePlace
  <2>6. RoutesAround' /\ EveryItemOnce'
    BY <2>1 DEF BatchInv, RoutesAround, Busy, EveryItemOnce
  <2> QED BY <2>1, <2>4, <2>5, <2>6 DEF BatchInv
<1>8. CASE UNCHANGED vars
  <2>1. UNCHANGED <<cond, credit, way, turns, round, size, todo, fresh, chunks, done, gone, outcome>>
    BY <1>8 DEF vars, pool, batch
  <2>2. TypeOK'
    BY <2>1 DEF BatchInv, TypeOK
  <2>3. \A k : InOnePlace(k)' = InOnePlace(k)
    BY <2>1 DEF InOnePlace
  <2>4. RoutesAround' /\ EveryItemOnce'
    BY <2>1 DEF BatchInv, RoutesAround, Busy, EveryItemOnce
  <2> QED BY <2>1, <2>2, <2>3, <2>4 DEF BatchInv
<1> QED BY <1>1, <1>2, <1>3, <1>4, <1>5, <1>6, <1>7, <1>8 DEF Next, Round

LEMMA BatchStarts == Init => BatchInv
<1> SUFFICES ASSUME Init PROVE BatchInv
  OBVIOUS
<1>1. /\ round = 0 /\ size = 0 /\ todo = << >> /\ fresh = << >> /\ chunks = Nothing /\ done = << >>
      /\ gone = {} /\ outcome = "none" /\ turns = 0
      /\ cond = [w \in Tube |-> Unit] /\ credit = [w \in Tube |-> 0]
      /\ way \in [Tube -> Quality \cup {Fails}]
  BY DEF Init
<1>2. chunks \in [Tube -> Seq(1..size)] /\ todo \in Seq(1..size)
  BY <1>1, EmptySeq DEF Nothing
<1>3. done \in [1..size -> Nat] /\ DOMAIN fresh = {} /\ fresh \in [DOMAIN fresh -> Nat]
  <2>1. 1..size = {}
    BY <1>1
  <2> QED BY <1>1, <2>1
<1>4. way \in [Tube -> Way] /\ cond \in [Tube -> Nat] /\ credit \in [Tube -> Nat]
  BY <1>1, LawAssumption DEF Way
<1>5. round \in 0..2 /\ turns \in 0..MaxTurns
  BY <1>1, SchedulerAssumption
<1>6. TypeOK
  BY <1>1, <1>2, <1>3, <1>4, <1>5 DEF TypeOK
<1> QED BY <1>1, <1>6 DEF BatchInv, RoutesAround, EveryItemOnce

LEMMA BatchInvMeans == BatchInv => IInv
<1> SUFFICES ASSUME BatchInv PROVE IInv
  OBVIOUS
<1>1. todo \in Seq(1..size) /\ \A w \in Tube : chunks[w] \in Seq(1..size)
  BY DEF BatchInv, TypeOK
<1>2. \A k : (Times(todo, k) = 0 <=> Absent(todo, k)) /\ (Times(todo, k) = 1 <=> Once(todo, k))
  BY <1>1, TimesKnown
<1>3. \A k, w : w \in Tube => /\ Times(chunks[w], k) = 0 <=> Absent(chunks[w], k)
                              /\ Times(chunks[w], k) = 1 <=> Once(chunks[w], k)
  BY <1>1, TimesKnown
<1>4. EachInOnePlace
  <2> SUFFICES ASSUME round # 0, NEW k \in 1..size
               PROVE  \/ done[k] = 1 /\ Times(todo, k) = 0 /\ \A w \in Tube : Times(chunks[w], k) = 0
                      \/ done[k] = 0 /\ Times(todo, k) = 1 /\ \A w \in Tube : Times(chunks[w], k) = 0
                      \/ /\ done[k] = 0 /\ Times(todo, k) = 0
                         /\ \E w \in Tube : /\ Times(chunks[w], k) = 1
                                            /\ \A v \in Tube \ {w} : Times(chunks[v], k) = 0
    BY DEF EachInOnePlace
  <2>1. InOnePlace(k)
    BY DEF BatchInv
  <2> QED BY <1>2, <1>3, <2>1 DEF InOnePlace
<1> QED BY <1>4 DEF IInv, BatchInv

(* An item of a batch under way is in one place, and the second round goes *)
(* round the damage (builtins.js, scheduleRun), for any number of workers, *)
(* whatever their ways, and for batches of any size.                       *)
THEOREM BatchesKeepItems == Spec => []IInv
BY BatchStarts, BatchStep, BatchInvMeans, PTL DEF Spec

(* A batch that returns has every item's result, filled in once.           *)
THEOREM ReturnsEveryItemOnce == Spec => []EveryItemOnce
<1>1. BatchInv => EveryItemOnce
  BY DEF BatchInv
<1> QED BY <1>1, BatchStarts, BatchStep, PTL DEF Spec
=============================================================================
