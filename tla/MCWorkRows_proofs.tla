------------------------- MODULE MCWorkRows_proofs -------------------------
(***************************************************************************)
(* Proofs about what the contracts keep in rows (MCWork): the purses that  *)
(* a payment is booked on, the rows that rights guard, the rows of         *)
(* 1_contracts that the virtual machine has compiled, and those that an    *)
(* import brings.  Sums, and what a recursion computes, are shown by the   *)
(* least counterexample.                                                   *)
(***************************************************************************)
EXTENDS MCWork, FiniteSetTheorems, TLAPS

-----------------------------------------------------------------------------
(***************************************************************************)
(* Sums over finite sets.  The induction theorems of the library cannot be *)
(* applied here, so each induction is by the least counterexample.         *)
(***************************************************************************)
LEMMA LeastNumber ==
  ASSUME NEW A \in SUBSET Nat, NEW m \in A
  PROVE  \E n \in A : \A k \in A : n <= k
<1>1. PICK n \in A : \A k \in A : ~(<<k, n>> \in OpToRel(<, Nat))
  BY NatLessThanWellFounded, WFMin
<1>2. ASSUME NEW k \in A PROVE n <= k
  <2>1. <<k, n>> \in Nat \X Nat /\ <<k, n>>[1] = k /\ <<k, n>>[2] = n
    OBVIOUS
  <2>2. k < n => <<k, n>> \in OpToRel(<, Nat)
    BY <2>1 DEF OpToRel
  <2>3. k \in Nat /\ n \in Nat /\ ~(k < n)
    BY <1>1, <2>2
  <2> QED
    BY <2>3
<1> QED
  BY <1>2

First(s) == CHOOSE x \in s : TRUE

\* One step of the sum: f is the sum of the smaller sets.
SumStep(l, f, s) == IF s = {} THEN 0 ELSE l[First(s)] + f[s \ {First(s)}]

SumOver(l, A) == CHOOSE f : f = [s \in SUBSET A |-> SumStep(l, f, s)]
Sum(l, A) == P!MapThenSumSet(LAMBDA p : l[p], A)

LEMMA SumIs ==
  ASSUME NEW A, NEW l
  PROVE  Sum(l, A) = SumOver(l, A)[A]
BY Zenon DEF Sum, P!MapThenSumSet, P!MapThenFoldSet, SumOver, SumStep, First

LEMMA FirstIs ==
  ASSUME NEW s, IsFiniteSet(s), s # {}
  PROVE  /\ First(s) \in s /\ IsFiniteSet(s \ {First(s)}) /\ Cardinality(s \ {First(s)}) \in Nat
         /\ Cardinality(s) \in Nat /\ Cardinality(s) = Cardinality(s \ {First(s)}) + 1
<1>1. First(s) \in s
  BY DEF First
<1>2. IsFiniteSet(s \ {First(s)}) /\ Cardinality(s \ {First(s)}) = Cardinality(s) - 1
  BY <1>1, FS_RemoveElement
<1>3. Cardinality(s) \in Nat /\ Cardinality(s \ {First(s)}) \in Nat
  BY <1>2, FS_CardinalityType
<1> QED
  BY <1>1, <1>2, <1>3

\* Of the sets with at most n elements there is a function with this step.
SmallSets(A, n) == {s \in SUBSET A : Cardinality(s) <= n}
IsPartialSum(l, A, n, f) ==
  /\ f \in [SmallSets(A, n) -> Int]
  /\ \A s \in SmallSets(A, n) : f[s] = SumStep(l, f, s)

LEMMA PartialSums ==
  ASSUME NEW A, IsFiniteSet(A), NEW l, \A x \in A : l[x] \in Int
  PROVE  \A n \in Nat : \E f : IsPartialSum(l, A, n, f)
<1> DEFINE bad == {n \in Nat : ~\E f : IsPartialSum(l, A, n, f)}
<1> SUFFICES ASSUME bad # {} PROVE FALSE
  OBVIOUS
<1>1. PICK n \in bad : \A k \in bad : n <= k
  BY LeastNumber
<1>0. \A s \in SUBSET A : IsFiniteSet(s) /\ Cardinality(s) \in Nat
  BY FS_Subset, FS_CardinalityType
<1>2. CASE n = 0
  <2> DEFINE f == [s \in SmallSets(A, 0) |-> 0]
  <2>1. \A s \in SmallSets(A, 0) : s = {}
    <3> SUFFICES ASSUME NEW s \in SmallSets(A, 0) PROVE s = {}
      OBVIOUS
    <3>1. IsFiniteSet(s) /\ Cardinality(s) = 0
      BY <1>0 DEF SmallSets
    <3> QED
      BY <3>1, FS_EmptySet
  <2>2. IsPartialSum(l, A, 0, f)
    BY <2>1 DEF IsPartialSum, SumStep
  <2> QED
    BY <1>2, <2>2
<1>3. CASE n # 0
  <2>1. n - 1 \in Nat /\ n \in Nat
    BY <1>3
  <2>2. n - 1 \notin bad
    BY <1>1, <2>1
  <2>3. PICK g : IsPartialSum(l, A, n - 1, g)
    BY <2>1, <2>2
  <2> DEFINE f == [s \in SmallSets(A, n) |-> SumStep(l, g, s)]
  <2>4. ASSUME NEW s \in SmallSets(A, n), s # {}
        PROVE  s \ {First(s)} \in SmallSets(A, n - 1) /\ s \ {First(s)} \in SmallSets(A, n) /\ First(s) \in A
    <3>1. s \in SUBSET A /\ IsFiniteSet(s) /\ Cardinality(s) <= n
      BY <1>0 DEF SmallSets
    <3>2. /\ First(s) \in s /\ Cardinality(s \ {First(s)}) \in Nat
          /\ Cardinality(s) \in Nat /\ Cardinality(s) = Cardinality(s \ {First(s)}) + 1
      BY <2>4, <3>1, FirstIs
    <3>3. Cardinality(s \ {First(s)}) <= n - 1 /\ Cardinality(s \ {First(s)}) <= n
      BY <2>1, <3>1, <3>2
    <3> QED
      BY <3>1, <3>2, <3>3 DEF SmallSets
  <2>5. \A s \in SmallSets(A, n - 1) : g[s] \in Int /\ g[s] = SumStep(l, g, s)
    BY <2>3 DEF IsPartialSum
  <2>6. ASSUME NEW s \in SmallSets(A, n) PROVE SumStep(l, g, s) \in Int
    <3>1. CASE s = {}
      BY <3>1 DEF SumStep
    <3>2. CASE s # {}
      <4>1. SumStep(l, g, s) = l[First(s)] + g[s \ {First(s)}]
        BY <3>2 DEF SumStep
      <4>2. l[First(s)] \in Int /\ g[s \ {First(s)}] \in Int
        BY <2>4, <2>5, <3>2
      <4> QED
        BY <4>1, <4>2
    <3> QED
      BY <3>1, <3>2
  <2>7. f \in [SmallSets(A, n) -> Int]
    BY <2>6
  <2>8. ASSUME NEW s \in SmallSets(A, n) PROVE f[s] = SumStep(l, f, s)
    <3>1. CASE s = {}
      BY <3>1 DEF SumStep
    <3>2. CASE s # {}
      <4> DEFINE r == s \ {First(s)}
      <4>1. r \in SmallSets(A, n - 1) /\ r \in SmallSets(A, n)
        BY <2>4, <3>2
      <4>2. f[r] = SumStep(l, g, r) /\ g[r] = SumStep(l, g, r)
        BY <2>5, <4>1
      <4>3. f[s] = SumStep(l, g, s)
        OBVIOUS
      <4> HIDE DEF f
      <4> QED
        BY <3>2, <4>2, <4>3 DEF SumStep
    <3> QED
      BY <3>1, <3>2
  <2>9. IsPartialSum(l, A, n, f)
    <3> HIDE DEF f
    <3> QED
      BY <2>7, <2>8 DEF IsPartialSum
  <2> QED
    BY <2>9
<1> QED
  BY <1>2, <1>3

\* So the sum is what its definition says.
LEMMA SumOverIs ==
  ASSUME NEW A, IsFiniteSet(A), NEW l, \A x \in A : l[x] \in Int
  PROVE  \A s \in SUBSET A : SumOver(l, A)[s] \in Int /\ SumOver(l, A)[s] = SumStep(l, SumOver(l, A), s)
<1> DEFINE n == Cardinality(A)
<1>1. n \in Nat /\ SmallSets(A, n) = SUBSET A
  BY FS_CardinalityType, FS_Subset DEF SmallSets
<1>2. PICK g : IsPartialSum(l, A, n, g)
  BY <1>1, PartialSums
<1>3. g \in [SUBSET A -> Int] /\ \A s \in SUBSET A : g[s] = SumStep(l, g, s)
  BY <1>1, <1>2 DEF IsPartialSum
<1>4. g = [s \in SUBSET A |-> SumStep(l, g, s)]
  BY <1>3
<1> DEFINE f == SumOver(l, A)
<1>5. f = [s \in SUBSET A |-> SumStep(l, f, s)]
  BY <1>4, Zenon DEF SumOver
<1> HIDE DEF f
<1>6. \A s \in SUBSET A : f[s] = SumStep(l, f, s)
  BY <1>5
<1>7. \A s \in SUBSET A : f[s] \in Int
  <2> DEFINE bad == {k \in Nat : \E s \in SUBSET A : Cardinality(s) = k /\ f[s] \notin Int}
  <2> SUFFICES ASSUME NEW s \in SUBSET A, f[s] \notin Int PROVE FALSE
    OBVIOUS
  <2>0. \A t \in SUBSET A : IsFiniteSet(t) /\ Cardinality(t) \in Nat
    BY FS_Subset, FS_CardinalityType
  <2>1. Cardinality(s) \in bad
    BY <2>0
  <2>2. PICK k \in bad : \A j \in bad : k <= j
    BY <2>1, LeastNumber
  <2>3. PICK t \in SUBSET A : Cardinality(t) = k /\ f[t] \notin Int
    BY <2>2
  <2>4. t # {}
    <3>1. {} \in SUBSET A /\ SumStep(l, f, {}) = 0
      BY DEF SumStep
    <3>2. f[{}] = 0
      BY <1>6, <3>1
    <3> QED
      BY <2>3, <3>2
  <2> DEFINE r == t \ {First(t)}
  <2>5. First(t) \in t /\ Cardinality(r) \in Nat /\ k = Cardinality(r) + 1 /\ r \in SUBSET A
    BY <2>0, <2>3, <2>4, FirstIs
  <2>6. f[r] \in Int
    <3> HIDE DEF r
    <3>1. k \in Nat
      BY <2>2
    <3>2. Cardinality(r) \notin bad
      <4> HIDE DEF bad
      <4> QED
        BY <2>2, <2>5, <3>1
    <3> QED
      BY <2>5, <3>2
  <2>7. f[t] = l[First(t)] + f[r]
    BY <1>6, <2>4 DEF SumStep
  <2> QED
    BY <2>3, <2>5, <2>6, <2>7
<1> QED
  BY <1>6, <1>7 DEF f

\* Two sums that are equal but for what is added at one place.
LEMMA SumAdds ==
  ASSUME NEW A, IsFiniteSet(A), NEW l, NEW m, NEW q, NEW e \in Int, \A x \in A : l[x] \in Int /\ m[x] = l[x] + IF x = q THEN e ELSE 0
  PROVE  Sum(l, A) \in Int /\ Sum(m, A) = Sum(l, A) + IF q \in A THEN e ELSE 0
<1> DEFINE f == SumOver(l, A)
           g == SumOver(m, A)
           bad == {k \in Nat : \E s \in SUBSET A : Cardinality(s) = k /\ g[s] # f[s] + IF q \in s THEN e ELSE 0}
<1>1. \A x \in A : m[x] \in Int
  OBVIOUS
<1>2. \A s \in SUBSET A : f[s] \in Int /\ f[s] = SumStep(l, f, s) /\ g[s] \in Int /\ g[s] = SumStep(m, g, s)
  <2>1. \A s \in SUBSET A : f[s] \in Int /\ f[s] = SumStep(l, f, s)
    BY SumOverIs
  <2>2. \A s \in SUBSET A : g[s] \in Int /\ g[s] = SumStep(m, g, s)
    BY <1>1, SumOverIs
  <2> QED
    BY <2>1, <2>2
<1>3. Sum(l, A) = f[A] /\ Sum(m, A) = g[A]
  BY SumIs
<1> HIDE DEF f, g
<1>4. \A s \in SUBSET A : IsFiniteSet(s) /\ Cardinality(s) \in Nat
  BY FS_Subset, FS_CardinalityType
<1>5. ASSUME NEW s \in SUBSET A, g[s] # f[s] + IF q \in s THEN e ELSE 0 PROVE FALSE
  <2>1. Cardinality(s) \in bad
    BY <1>4, <1>5
  <2>2. PICK k \in bad : \A j \in bad : k <= j
    BY <2>1, LeastNumber
  <2>3. PICK t \in SUBSET A : Cardinality(t) = k /\ g[t] # f[t] + IF q \in t THEN e ELSE 0
    BY <2>2
  <2>4. t # {}
    <3>1. {} \in SUBSET A /\ SumStep(l, f, {}) = 0 /\ SumStep(m, g, {}) = 0
      BY DEF SumStep
    <3>2. f[{}] = 0 /\ g[{}] = 0
      BY <1>2, <3>1
    <3>3. t = {} => q \notin t
      OBVIOUS
    <3> QED
      BY <2>3, <3>2, <3>3
  <2> DEFINE r == t \ {First(t)}
             x == First(t)
  <2>5. x \in t /\ Cardinality(r) \in Nat /\ k = Cardinality(r) + 1 /\ r \in SUBSET A
    BY <1>4, <2>3, <2>4, FirstIs
  <2>6. g[r] = f[r] + IF q \in r THEN e ELSE 0
    <3> HIDE DEF r
    <3>1. k \in Nat
      BY <2>2
    <3>2. Cardinality(r) \notin bad
      <4> HIDE DEF bad
      <4> QED
        BY <2>2, <2>5, <3>1
    <3> QED
      BY <2>5, <3>2
  <2>7. f[t] = l[x] + f[r] /\ g[t] = m[x] + g[r]
    BY <1>2, <2>4 DEF SumStep
  <2>8. q \in r <=> q \in t /\ q # x
    OBVIOUS
  <2>9. f[r] \in Int /\ l[x] \in Int /\ m[x] = l[x] + IF x = q THEN e ELSE 0
    BY <1>2, <2>5
  <2> HIDE DEF r, x
  <2>10. CASE q = x
    BY <2>3, <2>5, <2>6, <2>7, <2>8, <2>9, <2>10
  <2>11. CASE q # x
    BY <2>3, <2>5, <2>6, <2>7, <2>8, <2>9, <2>11
  <2> QED
    BY <2>10, <2>11
<1> QED
  BY <1>2, <1>3, <1>5

\* A sum of zeros.
LEMMA SumOfZeros ==
  ASSUME NEW A, IsFiniteSet(A), NEW l, \A x \in A : l[x] = 0
  PROVE  Sum(l, A) = 0
<1> DEFINE f == SumOver(l, A)
           bad == {k \in Nat : \E s \in SUBSET A : Cardinality(s) = k /\ f[s] # 0}
<1>1. \A s \in SUBSET A : f[s] = SumStep(l, f, s)
  BY SumOverIs
<1>2. Sum(l, A) = f[A]
  BY SumIs
<1> HIDE DEF f
<1>3. \A s \in SUBSET A : IsFiniteSet(s) /\ Cardinality(s) \in Nat
  BY FS_Subset, FS_CardinalityType
<1>4. ASSUME NEW s \in SUBSET A, f[s] # 0 PROVE FALSE
  <2>1. Cardinality(s) \in bad
    BY <1>3, <1>4
  <2>2. PICK k \in bad : \A j \in bad : k <= j
    BY <2>1, LeastNumber
  <2>3. PICK t \in SUBSET A : Cardinality(t) = k /\ f[t] # 0
    BY <2>2
  <2>4. t # {}
    BY <1>1, <2>3 DEF SumStep
  <2> DEFINE r == t \ {First(t)}
  <2>5. First(t) \in t /\ Cardinality(r) \in Nat /\ k = Cardinality(r) + 1 /\ r \in SUBSET A
    BY <1>3, <2>3, <2>4, FirstIs
  <2>6. f[r] = 0
    <3> HIDE DEF r
    <3>1. k \in Nat
      BY <2>2
    <3>2. Cardinality(r) \notin bad
      <4> HIDE DEF bad
      <4> QED
        BY <2>2, <2>5, <3>1
    <3> QED
      BY <2>5, <3>2
  <2>7. f[t] = l[First(t)] + f[r]
    BY <1>1, <2>4 DEF SumStep
  <2> QED
    BY <2>3, <2>5, <2>6, <2>7
<1> QED
  BY <1>2, <1>4

-----------------------------------------------------------------------------
(***************************************************************************)
(* Payments.                                                               *)
(***************************************************************************)
Purse == Nat \cup {-1}
PursePairs == Purses \X Purses

\* A key without a row has nothing.
Has(a) == IF a = -1 THEN 0 ELSE a

Balanced(a, l) == \A k \in Purses : Has(a[k]) = P!Start(k) + P!In(l, k) - P!Out(l, k)

PayType ==
  /\ amount \in [Purses -> Purse] /\ committed \in [Purses -> Purse]
  /\ ledger \in [PursePairs -> Int] /\ kept \in [PursePairs -> Int]

\* The books balance as the block has them and as they are committed, until a
\* payment is negative.
AllBalanced == Balanced(amount, ledger) /\ Balanced(committed, kept)
PayInv == PayType /\ (~negative => AllBalanced) /\ P!PaysWithinLimit

\* The numbers of a payment.
LEMMA DivBound ==
  ASSUME NEW a \in Nat, NEW r \in Nat \ {0}
  PROVE  a \div r \in Nat /\ (a \div r) * r <= a
OBVIOUS

LEMMA TimesGrows ==
  ASSUME NEW a \in Nat, NEW b \in Nat, NEW r \in Nat, a <= b
  PROVE  a * r \in Nat /\ a * r <= b * r
OBVIOUS

\* The commission on a payment, and on what limits it.
LEMMA PercentBound ==
  ASSUME NEW a \in Nat, NEW b \in Nat, a <= b, NEW c \in Nat
  PROVE  /\ (a * c) \div 100 \in Nat /\ (a * c) \div 100 <= (b * c) \div 100
         /\ c <= 100 => (a * c) \div 100 <= a
<1>1. a * c \in Nat /\ b * c \in Nat /\ a * c <= b * c
  BY TimesGrows
<1>2. \A x \in Nat, y \in Nat : x <= y => x \div 100 \in Nat /\ x \div 100 <= y \div 100
  OBVIOUS
<1>3. c <= 100 => a * c <= a * 100
  OBVIOUS
<1>4. (a * 100) \div 100 = a
  OBVIOUS
<1> QED
  BY <1>1, <1>2, <1>3, <1>4

\* What goes from one key to another in an entry.
Into(k) == {p \in PursePairs : p[2] = k}
OutOf(k) == {p \in PursePairs : p[1] = k}

LEMMA LedgerSums ==
  ASSUME NEW l, NEW k
  PROVE  /\ P!In(l, k) = Sum(l, Into(k)) /\ P!Out(l, k) = Sum(l, OutOf(k))
         /\ IsFiniteSet(Into(k)) /\ IsFiniteSet(OutOf(k)) /\ Into(k) \subseteq PursePairs /\ OutOf(k) \subseteq PursePairs
<1>1. P!In(l, k) = Sum(l, Into(k)) /\ P!Out(l, k) = Sum(l, OutOf(k))
  BY Zenon DEF P!In, P!Out, Sum, Into, OutOf, PursePairs
<1>2. IsFiniteSet(PursePairs)
  BY PaymentsAssumption, FS_Product DEF PursePairs
<1>3. Into(k) \subseteq PursePairs /\ OutOf(k) \subseteq PursePairs
  BY DEF Into, OutOf
<1> QED
  BY <1>1, <1>2, <1>3, FS_Subset

Entered(l, q, e) == [p \in PursePairs |-> l[p] + IF p = q THEN e ELSE 0]

LEMMA EntryAdds ==
  ASSUME NEW l \in [PursePairs -> Int], NEW a \in Purses, NEW b \in Purses, NEW e \in Int, NEW k \in Purses
  PROVE  LET m == Entered(l, <<a, b>>, e)
         IN  /\ m \in [PursePairs -> Int]
             /\ P!In(l, k) \in Int /\ P!Out(l, k) \in Int
             /\ P!In(m, k) = P!In(l, k) + IF b = k THEN e ELSE 0
             /\ P!Out(m, k) = P!Out(l, k) + IF a = k THEN e ELSE 0
<1> DEFINE q == <<a, b>>
           m == Entered(l, q, e)
<1>1. q \in PursePairs /\ q[1] = a /\ q[2] = b
  BY DEF PursePairs
<1>2. m \in [PursePairs -> Int] /\ \A p \in PursePairs : l[p] \in Int /\ m[p] = l[p] + IF p = q THEN e ELSE 0
  BY DEF Entered
<1>3. (q \in Into(k) <=> b = k) /\ (q \in OutOf(k) <=> a = k)
  BY <1>1 DEF Into, OutOf
<1>4. /\ P!In(l, k) = Sum(l, Into(k)) /\ P!Out(l, k) = Sum(l, OutOf(k))
      /\ P!In(m, k) = Sum(m, Into(k)) /\ P!Out(m, k) = Sum(m, OutOf(k))
      /\ IsFiniteSet(Into(k)) /\ IsFiniteSet(OutOf(k)) /\ Into(k) \subseteq PursePairs /\ OutOf(k) \subseteq PursePairs
  BY LedgerSums
<1> HIDE DEF q, m
<1>5. Sum(l, Into(k)) \in Int /\ Sum(m, Into(k)) = Sum(l, Into(k)) + IF q \in Into(k) THEN e ELSE 0
  <2>1. \A x \in Into(k) : l[x] \in Int /\ m[x] = l[x] + IF x = q THEN e ELSE 0
    BY <1>2, <1>4
  <2>2. IsFiniteSet(Into(k))
    BY <1>4
  <2> QED
    BY <2>1, <2>2, SumAdds, ZenonT(60)
<1>6. Sum(l, OutOf(k)) \in Int /\ Sum(m, OutOf(k)) = Sum(l, OutOf(k)) + IF q \in OutOf(k) THEN e ELSE 0
  <2>1. \A x \in OutOf(k) : l[x] \in Int /\ m[x] = l[x] + IF x = q THEN e ELSE 0
    BY <1>2, <1>4
  <2>2. IsFiniteSet(OutOf(k))
    BY <1>4
  <2> QED
    BY <2>1, <2>2, SumAdds, ZenonT(60)
<1> QED
  BY <1>2, <1>3, <1>4, <1>5, <1>6 DEF q, m

\* It holds in the beginning, and it is enough.
LEMMA PayInvInit == P!Init => PayInv
<1> SUFFICES ASSUME P!Init
             PROVE  PayInv
  OBVIOUS
<1>1. /\ amount = Opening /\ committed = Opening /\ ledger = [p \in PursePairs |-> 0] /\ kept = ledger
      /\ paid = [sum |-> 0, limit |-> 0, percent |-> 0]
  BY DEF P!Init, PursePairs, P!NothingPaid
<1>2. PayType
  BY <1>1, PaymentsAssumption DEF PayType, Purse
<1>3. ASSUME NEW k \in Purses PROVE Has(amount[k]) = P!Start(k) + P!In(ledger, k) - P!Out(ledger, k)
  <2>1. P!In(ledger, k) = 0 /\ P!Out(ledger, k) = 0
    BY <1>1, LedgerSums, SumOfZeros
  <2>2. Has(amount[k]) = P!Start(k) /\ P!Start(k) \in Int
    BY <1>1, PaymentsAssumption DEF Has, P!Start, P!NoRow
  <2> QED
    BY <2>1, <2>2
<1>4. Balanced(amount, ledger) /\ Balanced(committed, kept)
  BY <1>1, <1>3 DEF Balanced
<1> QED
  BY <1>1, <1>2, <1>4 DEF PayInv, AllBalanced, P!PaysWithinLimit

LEMMA PayInvEnough == PayInv => P!PaymentsAreRight
BY DEF PayInv, AllBalanced, Balanced, Has, P!PaymentsAreRight, P!BooksBalance, P!NoRow

\* An update of a row that is there, or of nothing.
LEMMA AddIs ==
  ASSUME NEW a \in [Purses -> Purse], NEW x \in Purses, NEW e \in Int, a[x] = -1 => e = 0, a[x] # -1 => a[x] + e >= 0
  PROVE  /\ P!Add(a, x, e) \in [Purses -> Purse]
         /\ \A k \in Purses : /\ Has(P!Add(a, x, e)[k]) = Has(a[k]) + IF k = x THEN e ELSE 0
                              /\ P!Add(a, x, e)[k] = -1 <=> a[k] = -1
<1>0. \A k \in Purses : a[k] \in Purse /\ Has(a[k]) \in Int
  BY DEF Purse, Has
<1>1. CASE a[x] = -1
  <2>1. P!Add(a, x, e) = a /\ e = 0
    BY <1>1 DEF P!Add, P!NoRow
  <2> QED
    BY <1>0, <2>1
<1>2. CASE a[x] # -1
  <2>1. P!Add(a, x, e) = [a EXCEPT ![x] = a[x] + e]
    BY <1>2 DEF P!Add, P!NoRow
  <2>2. a[x] + e \in Nat /\ a[x] \in Nat
    BY <1>0, <1>2 DEF Purse
  <2>3. P!Add(a, x, e) \in [Purses -> Purse]
    BY <2>1, <2>2 DEF Purse
  <2>4. \A k \in Purses : P!Add(a, x, e)[k] = IF k = x THEN a[x] + e ELSE a[k]
    BY <2>1
  <2>5. ASSUME NEW k \in Purses
        PROVE  Has(P!Add(a, x, e)[k]) = Has(a[k]) + (IF k = x THEN e ELSE 0) /\ (P!Add(a, x, e)[k] = -1 <=> a[k] = -1)
    <3>1. CASE k = x
      BY <2>2, <2>4, <3>1 DEF Has
    <3>2. CASE k # x
      BY <1>0, <2>4, <3>2
    <3> QED
      BY <3>1, <3>2
  <2> QED
    BY <2>3, <2>5
<1> QED
  BY <1>1, <1>2

\* The wallet that pays, its rate, and what it can pay.
LEMMA PayerIs ==
  ASSUME PayType, NEW t \in P!Calls, ~P!Refused(t)
  PROVE  /\ P!Payer(t) \in Purses /\ t.key \in Purses /\ t.to \in Purses /\ t.give \in Nat
         /\ P!Rate(t) \in Nat \ {0} /\ committed[P!Payer(t)] \in Nat
         /\ P!CanPay(t) \in Nat /\ P!CanPay(t) <= committed[P!Payer(t)]
         /\ P!Fuel(t) \in Nat /\ P!Fuel(t) <= P!CanPay(t) \div P!Rate(t)
<1>1. /\ t.key \in Purses /\ t.owner = Collector /\ t.payOver \in {0, 1} /\ t.to \in Purses /\ t.give \in {0, 2}
      /\ t.bound \in BOOLEAN
  BY DEF P!Calls
<1>2. P!Payer(t) \in Purses
  BY <1>1, PaymentsAssumption DEF P!Payer
<1>3. P!Rate(t) \in Nat \ {0}
  BY <1>1, PaymentsAssumption DEF P!Rate
<1> DEFINE k == P!Payer(t)
<1>4. committed[k] \in Purse /\ committed[k] # -1 /\ Maxpay[k] \in Nat
  BY <1>2, PaymentsAssumption DEF PayType, P!Refused, P!NoRow
<1>5. committed[k] \in Nat
  BY <1>4 DEF Purse
<1>6. P!CanPay(t) = IF Maxpay[k] > 0 THEN P!Least(Maxpay[k], committed[k]) ELSE committed[k]
  BY DEF P!CanPay
<1> HIDE DEF k
<1>7. P!CanPay(t) \in Nat /\ P!CanPay(t) <= committed[k]
  BY <1>4, <1>5, <1>6 DEF P!Least
<1>8. P!CanPay(t) \div P!Rate(t) \in Nat
  BY <1>3, <1>7, DivBound
<1>9. P!Fuel(t) \in Nat /\ P!Fuel(t) <= P!CanPay(t) \div P!Rate(t)
  BY <1>8, PaymentsAssumption DEF P!Fuel, P!Least
<1> QED
  BY <1>1, <1>2, <1>3, <1>5, <1>7, <1>9 DEF k

\* The sum of a payment and the limit that it keeps to.
LEMMA PaymentIsLimited ==
  ASSUME PayType, NEW t \in P!Calls, ~P!Refused(t), NEW n \in Nat, n <= P!Fuel(t) + Overrun
  PROVE  LET sum == P!Least(n * P!Rate(t), committed[P!Payer(t)])
         IN  sum \in Nat /\ sum <= P!CanPay(t) + Overrun * P!Rate(t) /\ P!CanPay(t) + Overrun * P!Rate(t) \in Nat
<1> DEFINE r == P!Rate(t)
           c == P!CanPay(t)
           f == P!Fuel(t)
           a == committed[P!Payer(t)]
           most == c \div r
<1>1. r \in Nat \ {0} /\ a \in Nat /\ c \in Nat /\ f \in Nat /\ f <= most
  BY PayerIs
<1>2. Overrun \in Nat
  BY PaymentsAssumption
<1>3. most \in Nat /\ most * r <= c
  BY <1>1, DivBound
<1> HIDE DEF r, c, f, a, most
<1>4. n <= f + Overrun
  BY DEF f
<1>5. n <= most + Overrun /\ most + Overrun \in Nat
  BY <1>1, <1>2, <1>3, <1>4
<1>6. n * r \in Nat /\ n * r <= (most + Overrun) * r
  BY <1>1, <1>5, TimesGrows
<1>7. (most + Overrun) * r = most * r + Overrun * r /\ most * r \in Nat /\ Overrun * r \in Nat
  BY <1>1, <1>2, <1>3
<1>8. n * r <= c + Overrun * r /\ c + Overrun * r \in Nat
  BY <1>1, <1>3, <1>6, <1>7
<1>9. P!Least(n * r, a) \in Nat /\ P!Least(n * r, a) <= n * r
  BY <1>1, <1>6 DEF P!Least
<1>10. P!Least(n * r, a) <= c + Overrun * r
  BY <1>6, <1>8, <1>9
<1> QED
  BY <1>8, <1>9, <1>10 DEF r, c, a

\* The shares make up what the payer pays, which is the payment or the
\* commission or less, and nobody without a row has one.
LEMMA ShareIs ==
  ASSUME NEW a \in [Purses -> Purse], NEW sum \in Nat, NEW percent \in Nat
  PROVE  LET s == P!Share(a, sum, percent)
         IN  /\ s.maker \in Int /\ s.collector \in Nat /\ s.payer \in Int /\ s.payer = s.maker + s.collector
             /\ s.payer <= sum \/ (percent > 100 /\ s.payer <= (sum * percent) \div 100)
             /\ a[Maker] = -1 => s.maker = 0
             /\ a[Collector] = -1 => s.collector = 0
<1> DEFINE c == (sum * percent) \div 100
<1>1. c \in Nat /\ (percent <= 100 => c <= sum)
  BY PercentBound
<1>2. P!Share(a, sum, percent) =
        [maker |-> IF a[Maker] = -1 THEN 0 ELSE sum - c, collector |-> IF a[Collector] = -1 THEN 0 ELSE c,
         payer |-> IF a[Collector] = -1 THEN (IF a[Maker] = -1 THEN c ELSE sum) - c ELSE (IF a[Maker] = -1 THEN c ELSE sum)]
  BY DEF P!Share, P!NoRow
<1> HIDE DEF c
<1>3. LET s == P!Share(a, sum, percent)
      IN  /\ s.maker \in Int /\ s.collector \in Nat /\ s.payer \in Int /\ s.payer = s.maker + s.collector
          /\ s.payer <= sum \/ (percent > 100 /\ s.payer <= c)
          /\ a[Maker] = -1 => s.maker = 0
          /\ a[Collector] = -1 => s.collector = 0
  BY <1>1, <1>2
<1> QED
  BY <1>3 DEF c

\* What the transfer of the contract moves.
Gift(t) == IF t.key = t.to THEN 0 ELSE t.give

LEMMA MovedIs ==
  ASSUME PayType, NEW t, t.key \in Purses, t.to \in Purses, t.give \in Nat, P!CanMove(t)
  PROVE  /\ P!Moved(t) \in [Purses -> Purse]
         /\ \A k \in Purses : Has(P!Moved(t)[k]) = Has(amount[k]) - (IF k = t.key THEN Gift(t) ELSE 0) + (IF k = t.to THEN Gift(t) ELSE 0)
<1>0. amount \in [Purses -> Purse] /\ \A k \in Purses : amount[k] \in Purse /\ Has(amount[k]) \in Int
  BY DEF PayType, Purse, Has
<1>1. CASE Gift(t) = 0
  <2>1. P!Moved(t) = amount
    BY <1>1 DEF P!Moved, Gift
  <2> QED
    BY <1>0, <1>1, <2>1
<1>2. CASE Gift(t) # 0
  <2>1. t.key # t.to /\ Gift(t) = t.give /\ t.give # 0
    BY <1>2 DEF Gift
  <2>2. P!Moved(t) = [amount EXCEPT ![t.key] = @ - t.give, ![t.to] = @ + t.give]
    BY <2>1 DEF P!Moved
  <2> DEFINE g == t.give
             x == t.key
             y == t.to
  <2>3. amount[x] >= g /\ amount[y] # -1
    BY <2>1 DEF P!CanMove, P!NoRow
  <2>4. amount[x] \in Nat /\ amount[x] - g \in Nat /\ amount[y] \in Nat /\ amount[y] + g \in Nat
    BY <1>0, <2>1, <2>3 DEF Purse
  <2>5. \A k \in Purses : P!Moved(t)[k] = IF k = x THEN amount[x] - g ELSE IF k = y THEN amount[y] + g ELSE amount[k]
    BY <1>0, <2>1, <2>2
  <2>6. P!Moved(t) \in [Purses -> Purse]
    BY <1>0, <2>2, <2>4 DEF Purse
  <2>7. ASSUME NEW k \in Purses
        PROVE  Has(P!Moved(t)[k]) = Has(amount[k]) - (IF k = x THEN g ELSE 0) + (IF k = y THEN g ELSE 0)
    <3>1. CASE k = x
      BY <2>1, <2>4, <2>5, <3>1 DEF Has
    <3>2. CASE k = y
      BY <2>1, <2>4, <2>5, <3>2 DEF Has
    <3>3. CASE k # x /\ k # y
      BY <1>0, <2>5, <3>3
    <3> QED
      BY <3>1, <3>2, <3>3
  <2> QED
    BY <2>1, <2>6, <2>7
<1> QED
  BY <1>1, <1>2

\* The updates of a payment: the last one changes nothing if it is negative.
LEMMA AfterPayIs ==
  ASSUME NEW a \in [Purses -> Purse], NEW from \in Purses, NEW sum \in Nat, NEW percent \in Nat,
         LET s == P!Share(a, sum, percent)
         IN  /\ a[Maker] = -1 \/ a[Maker] + s.maker >= 0
             /\ P!AfterPay(a, from, s)[from] >= 0
  PROVE  LET s == P!Share(a, sum, percent)
             b == P!AfterPay(a, from, s)
         IN  /\ b \in [Purses -> Purse]
             /\ \A k \in Purses : Has(b[k]) = Has(a[k]) + (IF k = Maker THEN s.maker ELSE 0) + (IF k = Collector THEN s.collector ELSE 0)
                                              - (IF k = from /\ s.payer >= 0 THEN s.payer ELSE 0)
<1> DEFINE s == P!Share(a, sum, percent)
           one == P!Add(a, Maker, s.maker)
           two == P!Add(one, Collector, s.collector)
           b == P!AfterPay(a, from, s)
<1>0. /\ s.maker \in Int /\ s.collector \in Nat /\ s.payer \in Int
      /\ (a[Maker] = -1 => s.maker = 0) /\ (a[Collector] = -1 => s.collector = 0)
      /\ (a[Maker] # -1 => a[Maker] + s.maker >= 0)
  BY ShareIs
<1>1. Maker \in Purses /\ Collector \in Purses
  BY PaymentsAssumption
<1>2. b = (IF s.payer < 0 THEN two ELSE P!Add(two, from, 0 - s.payer)) /\ b[from] >= 0
  BY DEF P!AfterPay
<1> HIDE DEF s, b
<1>3. \A k \in Purses : a[k] \in Purse /\ Has(a[k]) \in Int
  BY DEF Purse, Has
<1>4. /\ one \in [Purses -> Purse]
      /\ \A k \in Purses : Has(one[k]) = Has(a[k]) + (IF k = Maker THEN s.maker ELSE 0) /\ (one[k] = -1 <=> a[k] = -1)
  BY <1>0, <1>1, AddIs
<1> HIDE DEF one
<1>5. /\ two \in [Purses -> Purse]
      /\ \A k \in Purses : Has(two[k]) = Has(one[k]) + (IF k = Collector THEN s.collector ELSE 0) /\ (two[k] = -1 <=> one[k] = -1)
  <2>1. one[Collector] \in Purse /\ (one[Collector] = -1 => s.collector = 0)
    BY <1>0, <1>1, <1>4
  <2>2. one[Collector] # -1 => one[Collector] + s.collector >= 0
    BY <1>0, <2>1 DEF Purse
  <2> QED
    BY <1>0, <1>1, <1>4, <2>1, <2>2, AddIs
<1> HIDE DEF two
<1>6. /\ b \in [Purses -> Purse]
      /\ \A k \in Purses : Has(b[k]) = Has(two[k]) + (IF k = from /\ s.payer >= 0 THEN 0 - s.payer ELSE 0)
  <2>1. CASE s.payer < 0
    <3>1. b = two /\ \A k \in Purses : Has(two[k]) \in Int
      BY <1>2, <1>5, <2>1 DEF Purse, Has
    <3> QED
      BY <1>0, <1>5, <2>1, <3>1
  <2>2. CASE s.payer >= 0
    <3>1. b = P!Add(two, from, 0 - s.payer)
      BY <1>0, <1>2, <2>2
    <3>2. two[from] # -1
      BY <1>2, <3>1 DEF P!Add, P!NoRow
    <3>3. two[from] + (0 - s.payer) >= 0
      BY <1>2, <1>5, <3>1, <3>2 DEF P!Add, P!NoRow
    <3>4. 0 - s.payer \in Int
      BY <1>0
    <3> QED
      BY <1>5, <2>2, <3>1, <3>2, <3>3, <3>4, AddIs
  <2> QED
    BY <1>0, <2>1, <2>2
<1>7. ASSUME NEW k \in Purses
      PROVE  Has(b[k]) = Has(a[k]) + (IF k = Maker THEN s.maker ELSE 0) + (IF k = Collector THEN s.collector ELSE 0)
                         - (IF k = from /\ s.payer >= 0 THEN s.payer ELSE 0)
  BY <1>0, <1>3, <1>4, <1>5, <1>6
<1> QED
  BY <1>6, <1>7 DEF s, b

\* A contract that succeeds: its transfer, and its payment.
LEMMA CallContractKeepsPayInv ==
  ASSUME PayInv, NEW t \in P!Calls, NEW n \in Nat, NEW percent \in Nat, P!CallContract(t, n, percent)
  PROVE  PayInv'
<1> DEFINE k0 == P!Payer(t)
           sum == P!Least(n * P!Rate(t), committed[k0])
           s == P!Share(P!Moved(t), sum, percent)
           a == P!AfterPay(P!Moved(t), k0, s)
           entry(p) == (IF p = <<t.key, t.to>> /\ t.key # t.to THEN t.give ELSE 0)
                       + (IF p = <<k0, Maker>> THEN s.maker ELSE 0)
                       + (IF p = <<k0, Collector>> THEN s.collector ELSE 0)
           most == P!CanPay(t) + Overrun * P!Rate(t)
           g == Gift(t)
<1>0. PayType
  BY DEF PayInv
<1>1. /\ ~P!Refused(t) /\ P!CanMove(t) /\ n <= P!Fuel(t) + Overrun /\ a[k0] >= 0 /\ amount' = a
      /\ ledger' = [p \in PursePairs |-> ledger[p] + entry(p)]
      /\ P!Moved(t)[Maker] = -1 \/ P!Moved(t)[Maker] + s.maker >= 0
      /\ paid' = [sum |-> s.payer, limit |-> most, percent |-> percent]
      /\ negative' = (negative \/ s.payer < 0)
      /\ committed' = committed /\ kept' = kept
  BY DEF P!CallContract, PursePairs, P!NoRow
<1>2. k0 \in Purses /\ t.key \in Purses /\ t.to \in Purses /\ t.give \in Nat
  BY <1>0, <1>1, PayerIs
<1>3. sum \in Nat /\ sum <= most /\ most \in Nat
  BY <1>0, <1>1, PaymentIsLimited
<1>4. /\ P!Moved(t) \in [Purses -> Purse]
      /\ \A k \in Purses : Has(P!Moved(t)[k]) = Has(amount[k]) - (IF k = t.key THEN g ELSE 0) + (IF k = t.to THEN g ELSE 0)
  BY <1>0, <1>1, <1>2, MovedIs
<1>5. /\ s.maker \in Int /\ s.collector \in Nat /\ s.payer \in Int /\ s.payer = s.maker + s.collector
      /\ s.payer <= sum \/ (percent > 100 /\ s.payer <= (sum * percent) \div 100)
  BY <1>3, <1>4, ShareIs
<1>6. /\ a \in [Purses -> Purse]
      /\ \A k \in Purses : Has(a[k]) = Has(P!Moved(t)[k]) + (IF k = Maker THEN s.maker ELSE 0) + (IF k = Collector THEN s.collector ELSE 0)
                                       - (IF k = k0 /\ s.payer >= 0 THEN s.payer ELSE 0)
  BY <1>1, <1>2, <1>3, <1>4, AfterPayIs
<1>7. g \in Nat
  BY <1>2 DEF Gift
<1> DEFINE l0 == ledger
           l1 == Entered(l0, <<t.key, t.to>>, g)
           l2 == Entered(l1, <<k0, Maker>>, s.maker)
           l3 == Entered(l2, <<k0, Collector>>, s.collector)
<1>8. \A p \in PursePairs : entry(p) = (IF p = <<t.key, t.to>> THEN g ELSE 0) + (IF p = <<k0, Maker>> THEN s.maker ELSE 0)
                                       + (IF p = <<k0, Collector>> THEN s.collector ELSE 0)
  BY DEF Gift
<1> HIDE DEF s, g, k0, sum, a, entry, most
<1>9. l0 \in [PursePairs -> Int] /\ Maker \in Purses /\ Collector \in Purses
  BY <1>0, PaymentsAssumption DEF PayType
<1>10. l1 \in [PursePairs -> Int] /\ l2 \in [PursePairs -> Int] /\ l3 \in [PursePairs -> Int]
  BY <1>5, <1>7, <1>9 DEF Entered
<1>11. ledger' = l3
  <2>1. \A p \in PursePairs : ledger[p] + entry(p) = l3[p]
    <3> SUFFICES ASSUME NEW p \in PursePairs PROVE ledger[p] + entry(p) = l3[p]
      OBVIOUS
    <3>1. /\ l1[p] = l0[p] + (IF p = <<t.key, t.to>> THEN g ELSE 0) /\ l2[p] = l1[p] + (IF p = <<k0, Maker>> THEN s.maker ELSE 0)
          /\ l3[p] = l2[p] + (IF p = <<k0, Collector>> THEN s.collector ELSE 0)
      BY DEF Entered
    <3>2. ledger[p] \in Int
      BY <1>9
    <3> HIDE DEF l1, l2, l3
    <3> QED
      BY <1>5, <1>7, <1>8, <3>1, <3>2
  <2> HIDE DEF l3
  <2> QED
    BY <1>1, <1>10, <2>1
<1>12. ASSUME ~negative' PROVE ~negative /\ s.payer >= 0
  <2>1. ~negative /\ ~(s.payer < 0)
    BY <1>1, <1>12, Zenon
  <2> QED
    BY <1>5, <2>1
<1>13. ASSUME ~negative', NEW k \in Purses PROVE Has(amount'[k]) = P!Start(k) + P!In(ledger', k) - P!Out(ledger', k)
  <2> DEFINE d1 == IF t.to = k THEN g ELSE 0
             e1 == IF t.key = k THEN g ELSE 0
             d2 == IF Maker = k THEN s.maker ELSE 0
             e2 == IF k0 = k THEN s.maker ELSE 0
             d3 == IF Collector = k THEN s.collector ELSE 0
             e3 == IF k0 = k THEN s.collector ELSE 0
             e4 == IF k0 = k THEN s.payer ELSE 0
  <2>1. P!In(l0, k) \in Int /\ P!Out(l0, k) \in Int /\ P!In(l1, k) = P!In(l0, k) + d1 /\ P!Out(l1, k) = P!Out(l0, k) + e1
    BY <1>2, <1>7, <1>9, EntryAdds
  <2> HIDE DEF l1
  <2>2. P!In(l2, k) = P!In(l1, k) + d2 /\ P!Out(l2, k) = P!Out(l1, k) + e2
    BY <1>2, <1>5, <1>9, <1>10, EntryAdds
  <2> HIDE DEF l2
  <2>3. P!In(l3, k) = P!In(l2, k) + d3 /\ P!Out(l3, k) = P!Out(l2, k) + e3
    BY <1>2, <1>5, <1>9, <1>10, EntryAdds
  <2>4. Has(amount[k]) = P!Start(k) + P!In(l0, k) - P!Out(l0, k) /\ P!Start(k) \in Int
    BY <1>13, <1>12, PaymentsAssumption DEF PayInv, AllBalanced, Balanced, P!Start, P!NoRow
  <2>5. Has(a[k]) = Has(amount[k]) - e1 + d1 + d2 + d3 - e4
    <3>1. s.payer >= 0
      BY <1>13, <1>12
    <3> QED
      BY <1>4, <1>6, <3>1
  <2>6. e4 = e2 + e3 /\ d1 \in Int /\ d2 \in Int /\ d3 \in Int /\ e1 \in Int /\ e2 \in Int /\ e3 \in Int
    BY <1>5, <1>7
  <2> HIDE DEF d1, d2, d3, e1, e2, e3, e4, l3, l0
  <2>7. P!In(l3, k) = P!In(l0, k) + d1 + d2 + d3 /\ P!Out(l3, k) = P!Out(l0, k) + e1 + e2 + e3
    BY <2>1, <2>2, <2>3, <2>6
  <2>8. Has(a[k]) = P!Start(k) + P!In(l3, k) - P!Out(l3, k)
    BY <2>1, <2>4, <2>5, <2>6, <2>7
  <2> QED
    BY <1>1, <1>11, <2>8
<1>14. PayType'
  BY <1>0, <1>1, <1>6, <1>10, <1>11 DEF PayType
<1>15. P!PaysWithinLimit'
  <2>1. (sum * percent) \div 100 \in Nat /\ (sum * percent) \div 100 <= (most * percent) \div 100
    BY <1>3, PercentBound
  <2>2. (most * percent) \div 100 \in Nat /\ (percent > 100 => most <= (most * percent) \div 100)
    <3>1. most * percent \in Nat /\ most * 100 \in Nat /\ (percent > 100 => most * 100 <= most * percent) /\ (most * 100) \div 100 = most
      BY <1>3
    <3>2. \A x \in Nat, y \in Nat : x <= y => x \div 100 \in Nat /\ y \div 100 \in Nat /\ x \div 100 <= y \div 100
      OBVIOUS
    <3> QED
      BY <3>1, <3>2
  <2>3. paid'.sum = s.payer /\ paid'.limit = most /\ paid'.percent = percent
    BY <1>1
  <2> DEFINE c == (sum * percent) \div 100
             d == (most * percent) \div 100
  <2>4. s.payer <= IF percent <= 100 THEN most ELSE d
    <3>1. s.payer <= sum \/ (percent > 100 /\ s.payer <= c)
      BY <1>5
    <3>2. c \in Nat /\ c <= d /\ d \in Nat /\ (percent > 100 => most <= d)
      BY <2>1, <2>2
    <3> HIDE DEF c, d
    <3> QED
      BY <1>3, <1>5, <3>1, <3>2
  <2> QED
    BY <2>3, <2>4 DEF P!PaysWithinLimit
<1>16. ~negative' => AllBalanced'
  <2> SUFFICES ASSUME ~negative' PROVE Balanced(amount', ledger') /\ Balanced(committed', kept')
    BY DEF AllBalanced
  <2>1. Balanced(amount', ledger')
    BY <1>13 DEF Balanced
  <2>2. Balanced(committed, kept)
    BY <1>12 DEF PayInv, AllBalanced
  <2> QED
    BY <1>1, <2>1, <2>2
<1> QED
  BY <1>14, <1>15, <1>16 DEF PayInv

\* A row of a new key, and the ends of a block.
LEMMA BlockKeepsPayInv ==
  ASSUME PayInv, (\E k \in Purses : P!NewUser(k)) \/ P!RollbackSavepoint \/ P!BeginBlock \/ P!Commit \/ P!Abort
  PROVE  PayInv'
<1>0. PayType /\ (~negative => AllBalanced) /\ P!PaysWithinLimit /\ negative' = negative
  BY DEF PayInv, P!NewUser, P!RollbackSavepoint, P!BeginBlock, P!Commit, P!Abort
<1>1. paid' = P!NothingPaid \/ paid' = paid
  BY DEF P!NewUser, P!RollbackSavepoint, P!BeginBlock, P!Commit, P!Abort
<1>2. P!PaysWithinLimit'
  BY <1>0, <1>1 DEF P!PaysWithinLimit, P!NothingPaid
<1>3. ASSUME NEW k \in Purses, P!NewUser(k) PROVE PayInv'
  <2>1. amount[k] = -1 /\ amount' = [amount EXCEPT ![k] = 0] /\ UNCHANGED <<committed, ledger, kept>>
    BY <1>3 DEF P!NewUser, P!NoRow
  <2>2. \A j \in Purses : Has(amount'[j]) = Has(amount[j])
    BY <1>0, <2>1 DEF PayType, Has
  <2>3. PayType'
    BY <1>0, <2>1 DEF PayType, Purse
  <2> QED
    BY <1>0, <1>2, <2>1, <2>2, <2>3 DEF PayInv, AllBalanced, Balanced
<1>4. CASE P!RollbackSavepoint \/ P!BeginBlock
  <2>1. UNCHANGED <<amount, committed, ledger, kept>>
    BY <1>4 DEF P!RollbackSavepoint, P!BeginBlock
  <2> QED
    BY <1>0, <1>2, <2>1 DEF PayInv, PayType, AllBalanced
<1>5. CASE P!Commit
  BY <1>0, <1>2, <1>5 DEF PayInv, PayType, AllBalanced, P!Commit
<1>6. CASE P!Abort
  BY <1>0, <1>2, <1>6 DEF PayInv, PayType, AllBalanced, P!Abort
<1> QED
  BY <1>3, <1>4, <1>5, <1>6

\* A step of any machine keeps it (MCWork!Next).
LEMMA PayInvNext == PayInv /\ [Next]_vars => PayInv'
<1> SUFFICES ASSUME PayInv, [Next]_vars
             PROVE  PayInv'
  OBVIOUS
<1>1. CASE P!Next
  <2>1. (\A n \in 1..(MaxSum + Overrun) : n \in Nat) /\ CommissionSizes \subseteq Nat
    BY PaymentsAssumption
  <2> QED
    BY <1>1, <2>1, CallContractKeepsPayInv, BlockKeepsPayInv DEF P!Next
<1>2. CASE UNCHANGED pay
  BY <1>2 DEF pay, PayInv, PayType, AllBalanced, P!PaysWithinLimit
<1> QED
  BY <1>1, <1>2 DEF Next, vars

\* The amounts of all keys are what 1_history says of them, whichever wallets
\* are missing or the same and whichever blocks are aborted, until a commission
\* of more than 100 percent makes a payment negative; and a transaction pays no
\* more than its wallet had and allows but for the last command, or than such a
\* commission on that (CallContract, payContract).
THEOREM PaymentsAreAlwaysRight == Spec => []PaymentsAreRight
<1>1. Init => PayInv
  BY PayInvInit DEF Init
<1>2. PayInv => PaymentsAreRight
  BY PayInvEnough DEF PaymentsAreRight
<1> QED
  BY <1>1, <1>2, PayInvNext, PTL DEF Spec

-----------------------------------------------------------------------------
(***************************************************************************)
(* The rights over rows.                                                   *)
(***************************************************************************)
RowFields == {"name", "value", "menu", "count", "mode", "conditions", "member"}
IsRow(r) == r = [f \in RowFields |-> r[f]]

RowInv == row = R!NoRow \/ IsRow(row)

Kept(f) == row'[f] = row[f]
KeptBut(fields) == \A f \in DOMAIN row \ fields : Kept(f)

\* What a step that changes the row with the rights of the table keeps to.
TableGuarded ==
  LET key == who'.key
      may(cond) == R!Eval(cond, key, who'.top) = "ok"
  IN
  /\ IF table \in R!FounderTables THEN key = Founder ELSE may(perm.update)
  /\ table \in R!Created \ (R!FounderTables \cup {"languages"}) /\ col.value = "editor" /\ col.conditions = "editor" =>
       /\ ~Kept("value") \/ ~Kept("menu") => may(row.conditions)
       /\ ~Kept("conditions") => may(row.conditions) \/ (table \in R!tableParamConditions => may(changing))
  /\ table = "languages" /\ col.value = "editor" => may(changing) \/ Kept("value")
  /\ table = "binaries" /\ col.value = "editor" /\ ~Kept("value") => key = row.member
  /\ table = "metrics" /\ col.value = "editor" /\ ~Kept("value") => key = Founder

\* And one of the functions that ask for no right of the table.
FunctionGuarded ==
  LET key == who'.key
      may(cond) == R!Eval(cond, key, who'.top) = "ok"
  IN
  CASE who'.by \in {"BndWallet", "UnbndWallet"} ->
         table = "contracts" /\ KeptBut({"member"}) /\ key = row.member /\ may(row.conditions)
    [] who'.by = "payContract" -> table = "keys" /\ KeptBut({"value"})
    [] who'.by = "UpdateSysParam" ->
         table = "system_parameters" /\ KeptBut({"value", "conditions"}) /\ may(row.conditions)
    [] OTHER -> TableGuarded

Guarded == row # R!NoRow => FunctionGuarded

\* A write through DBUpdate is judged by the rights of the table.
LEMMA ByTable ==
  ASSUME who'.by = "DBUpdate", TableGuarded
  PROVE  Guarded
BY Zenon DEF Guarded, FunctionGuarded

LEMMA NewRowIsRow ==
  ASSUME NEW v, NEW c, NEW n, NEW key
  PROVE  IsRow(R!Row(v, c, n, key))
BY DEF IsRow, RowFields, R!Row

LEMMA ChangedRowIsRow ==
  ASSUME NEW r, IsRow(r), NEW f \in RowFields, NEW v
  PROVE  /\ IsRow([r EXCEPT ![f] = v])
         /\ \A g \in RowFields : g # f => [r EXCEPT ![f] = v][g] = r[g]
BY DEF IsRow

\* The editor of a table takes the text and the menu of a row only as more than
\* its conditions.
LEMMA EditorIs ==
  ASSUME NEW t \in R!Created
  PROVE  R!EditorOf(t) \in R!EditorRecords /\ R!EditorOf(t).fields \cap {"value", "menu"} \subseteq R!EditorOf(t).more
<1>1. \A e \in R!EditorRecords : e.fields \cap {"value", "menu"} \subseteq e.more
  BY DEF R!EditorRecords, R!EditAppParam, R!EditApplication, R!EditBlock, R!EditContract, R!EditLang, R!EditMenu, R!EditPage
<1>2. t \in {"app_params", "applications", "blocks", "contracts", "languages", "menu", "pages"}
  BY DEF R!Created, R!VDECreators, R!VDECreators2, R!Creators, R!Creators2
<1>3. \E e \in R!EditorRecords : e.table = t
  BY <1>2 DEF R!EditorRecords, R!EditAppParam, R!EditApplication, R!EditBlock, R!EditContract, R!EditLang, R!EditMenu, R!EditPage
<1>4. \E e \in (IF vde THEN R!VDEEditors \cup R!VDEEditors2 ELSE R!EditorRecords) : e.table = t
  BY <1>2, <1>3 DEF R!VDEEditors, R!VDEEditors2
<1>5. R!EditorOf(t) \in (IF vde THEN R!VDEEditors \cup R!VDEEditors2 ELSE R!EditorRecords)
  BY <1>4 DEF R!EditorOf
<1>6. R!EditorOf(t) \in R!EditorRecords
  BY <1>5 DEF R!VDEEditors, R!VDEEditors2
<1> QED
  BY <1>1, <1>6

\* Edit*: a call that gives more than conditions meets the conditions.
LEMMA EditIsGuarded ==
  ASSUME RowInv, NEW key \in Keys, NEW route, NEW gave, NEW v, NEW n, NEW c, R!Edit(key, route, gave, v, n, c)
  PROVE  RowInv' /\ Guarded
<1> DEFINE editor == R!EditorOf(table)
           only == "conditions" \in gave /\ gave \cap editor.more = {}
           wrote0 == gave \cup {f \in {"count"} : table = "pages"}
           new(f) == IF f \notin wrote0 THEN row[f]
                     ELSE IF f = "conditions" THEN c
                     ELSE IF f = "count" THEN R!Clamp(IF f \in gave THEN n ELSE 0)
                     ELSE IF f = "mode" THEN (IF v = 1 THEN 1 ELSE 0)
                     ELSE v
<1>1. /\ row # R!NoRow /\ table \in R!Created /\ gave \subseteq editor.fields
      /\ IF table = "languages" THEN R!AccessRights(key, "editor") ELSE R!RowConditions(key, "editor", only)
      /\ R!AccessTable("update", key, "editor")
      /\ row' = [f \in DOMAIN row |-> new(f)]
      /\ who' = [key |-> key, top |-> "editor", by |-> "DBUpdate"]
  BY DEF R!Edit
<1>2. IsRow(row) /\ DOMAIN row = RowFields
  BY <1>1 DEF RowInv, IsRow
<1>3. row' = [f \in RowFields |-> new(f)]
  BY <1>1, <1>2
<1>4. RowInv'
  BY <1>3 DEF RowInv, IsRow
<1>5. who'.key = key /\ who'.top = "editor" /\ who'.by = "DBUpdate"
  BY <1>1
<1>6. \A f \in RowFields : f \notin wrote0 => row'[f] = row[f]
  BY <1>3
<1>7. ~Kept("value") => "value" \in gave
  BY <1>6 DEF RowFields, Kept
<1>8. ~Kept("menu") => "menu" \in gave
  BY <1>6 DEF RowFields, Kept
<1>9. ("value" \in gave => "value" \in editor.more) /\ ("menu" \in gave => "menu" \in editor.more)
  BY <1>1, EditorIs
<1> HIDE DEF new, wrote0, editor
<1>10. ~Kept("value") \/ ~Kept("menu") => ~only
  BY <1>7, <1>8, <1>9
<1> HIDE DEF only
<1> DEFINE may(cond) == R!Eval(cond, key, "editor") = "ok"
<1>11. table # "languages" => may(row.conditions) \/ (only /\ (table \in R!tableParamConditions => may(changing)))
  BY <1>1 DEF R!RowConditions, R!AllowChangeCondition, R!AccessRights
<1>12. table = "languages" => may(changing)
  BY <1>1 DEF R!AccessRights
<1>13. IF table \in R!FounderTables THEN key = Founder ELSE may(perm.update)
  BY <1>1 DEF R!AccessTable
<1>14. table # "binaries" /\ table # "metrics"
  BY <1>1 DEF R!Created, R!VDECreators, R!VDECreators2, R!Creators, R!Creators2
<1> HIDE DEF may
<1>15. TableGuarded
  BY <1>5, <1>10, <1>11, <1>12, <1>13, <1>14 DEF TableGuarded, may
<1> QED
  BY <1>4, <1>5, <1>15, ByTable

\* The column that only the editor writes is closed to a contract of the key.
LEMMA EditorIsNoKey ==
  ASSUME NEW key \in Keys
  PROVE  R!Eval("editor", key, "own") # "ok"
BY KeysAssumption DEF R!Eval

LEMMA OwnUpdateIsGuarded ==
  ASSUME RowInv, NEW key \in Keys, NEW f \in {"name", "value", "conditions"}, NEW v, NEW c, R!OwnUpdate(key, f, v, c)
  PROVE  RowInv' /\ Guarded
<1> DEFINE w == IF f = "conditions" THEN c ELSE v
<1>1. /\ row # R!NoRow /\ R!AccessTable("update", key, "own") /\ R!AccessColumns({f}, key, "own")
      /\ row' = [row EXCEPT ![f] = w] /\ who' = [key |-> key, top |-> "own", by |-> "DBUpdate"]
  BY DEF R!OwnUpdate
<1>2. IsRow(row) /\ f \in RowFields
  BY <1>1 DEF RowInv, RowFields
<1> HIDE DEF w
<1>3. IsRow(row') /\ \A g \in RowFields : g # f => row'[g] = row[g]
  <2>1. IsRow([row EXCEPT ![f] = w]) /\ \A g \in RowFields : g # f => [row EXCEPT ![f] = w][g] = row[g]
    BY <1>2 DEF IsRow
  <2>2. row' = [row EXCEPT ![f] = w]
    BY <1>1
  <2> QED
    BY <2>1, <2>2, Zenon
<1>4. (f # "value" => Kept("value")) /\ (f # "conditions" => Kept("conditions")) /\ Kept("menu")
  BY <1>3 DEF RowFields, Kept
<1>5. who'.key = key /\ who'.top = "own" /\ who'.by = "DBUpdate"
  BY <1>1
<1>6. table \notin R!FounderTables => (f = "value" => col.value # "editor") /\ (f = "conditions" => col.conditions # "editor")
  BY <1>1, EditorIsNoKey DEF R!AccessColumns, R!DataFields
<1>7. IF table \in R!FounderTables THEN key = Founder ELSE R!Eval(perm.update, key, "own") = "ok"
  BY <1>1 DEF R!AccessTable
<1>8. table \in {"languages", "binaries", "metrics"} => table \notin R!FounderTables
  BY DEF R!FounderTables
<1>9. TableGuarded
  BY <1>4, <1>5, <1>6, <1>7, <1>8 DEF TableGuarded
<1> QED
  BY <1>3, <1>5, <1>9, ByTable DEF RowInv

\* UploadBinary and UpdateMetrics.
LEMMA UploadIsGuarded ==
  ASSUME RowInv, NEW key \in Keys, NEW v, R!UploadBinary(key, v) \/ R!UpdateMetrics(key, v)
  PROVE  RowInv' /\ Guarded
<1>1. who'.key = key /\ who'.top = "editor" /\ who'.by = "DBUpdate"
  BY DEF R!UploadBinary, R!UpdateMetrics
<1>2. CASE row = R!NoRow
  <2>1. \E c, n : row' = R!Row(v, c, n, key)
    BY <1>2 DEF R!UploadBinary, R!UpdateMetrics
  <2> QED
    BY <1>2, <2>1, NewRowIsRow DEF RowInv, Guarded
<1>3. CASE row # R!NoRow
  <2>1. IsRow(row) /\ row' = [row EXCEPT !["value"] = v]
    BY <1>3 DEF R!UploadBinary, R!UpdateMetrics, RowInv
  <2>2. IsRow(row')
    BY <2>1, ChangedRowIsRow DEF RowFields
  <2>3. R!AccessTable("update", key, "editor")
    BY <1>3 DEF R!UploadBinary, R!UpdateMetrics
  <2>4. IF table \in R!FounderTables THEN key = Founder ELSE R!Eval(perm.update, key, "editor") = "ok"
    BY <2>3 DEF R!AccessTable
  <2>5. table \in {"binaries", "metrics"}
    BY DEF R!UploadBinary, R!UpdateMetrics
  <2>6. table \notin R!Created /\ table # "languages"
    BY <2>5 DEF R!Created, R!VDECreators, R!VDECreators2, R!Creators, R!Creators2
  <2>7. table = "binaries" => key = row.member
    BY <1>3 DEF R!UploadBinary, R!UpdateMetrics
  <2>8. table = "metrics" => key = Founder
    BY <2>5 DEF R!UploadBinary, R!UpdateMetrics, R!Holders
  <2>9. TableGuarded
    BY <1>1, <2>4, <2>6, <2>7, <2>8 DEF TableGuarded
  <2> QED
    BY <1>1, <2>2, <2>9, ByTable DEF RowInv
<1> QED
  BY <1>2, <1>3

\* A row that is made.
LEMMA InsertIsGuarded ==
  ASSUME RowInv, NEW key, NEW route, NEW v, NEW n, NEW c,
         R!New(key, route, v, n, c) \/ R!OwnInsert(key, v, c) \/ R!NewUser(key, v)
  PROVE  RowInv' /\ Guarded
<1>1. row = R!NoRow /\ \E m, d, k : row' = R!Row(v, d, m, k)
  BY DEF R!New, R!OwnInsert, R!NewUser
<1> QED
  BY <1>1, NewRowIsRow DEF RowInv, Guarded

\* BndWallet, UnbndWallet.
LEMMA WalletIsGuarded ==
  ASSUME RowInv, NEW key, R!BndWallet(key) \/ R!UnbndWallet(key)
  PROVE  RowInv' /\ Guarded
<1>1. PICK w : row' = [row EXCEPT !["member"] = w]
  BY DEF R!BndWallet, R!UnbndWallet
<1>2. /\ row # R!NoRow /\ table = "contracts" /\ key = row.member /\ R!Eval(row.conditions, key, "other") = "ok"
      /\ who'.key = key /\ who'.top = "other" /\ who'.by \in {"BndWallet", "UnbndWallet"}
  BY DEF R!BndWallet, R!UnbndWallet
<1>3. IsRow(row) /\ DOMAIN row = RowFields
  BY <1>2 DEF RowInv, IsRow
<1>4. IsRow(row') /\ KeptBut({"member"})
  BY <1>1, <1>3, ChangedRowIsRow DEF RowFields, KeptBut, Kept
<1>5. FunctionGuarded
  BY <1>2, <1>4, Zenon DEF FunctionGuarded
<1> QED
  BY <1>4, <1>5 DEF RowInv, Guarded

\* payContract.
LEMMA PaymentIsGuarded ==
  ASSUME RowInv, NEW key, NEW v, R!payContract(key, v)
  PROVE  RowInv' /\ Guarded
<1>1. CASE row = R!NoRow
  <2>1. row' = R!Row(v, "none", 0, key)
    BY <1>1 DEF R!payContract
  <2> QED
    BY <1>1, <2>1, NewRowIsRow DEF RowInv, Guarded
<1>2. CASE row # R!NoRow
  <2>1. table = "keys" /\ row' = [row EXCEPT !["value"] = v] /\ who'.by = "payContract"
    BY <1>2 DEF R!payContract
  <2>2. IsRow(row) /\ DOMAIN row = RowFields
    BY <1>2 DEF RowInv, IsRow
  <2>3. IsRow(row') /\ KeptBut({"value"})
    BY <2>1, <2>2, ChangedRowIsRow DEF RowFields, KeptBut, Kept
  <2>4. FunctionGuarded
    BY <2>1, <2>3 DEF FunctionGuarded
  <2> QED
    BY <2>3, <2>4 DEF RowInv, Guarded
<1> QED
  BY <1>1, <1>2

\* UpdateSysParam.
LEMMA SysParamIsGuarded ==
  ASSUME RowInv, NEW key, NEW top, NEW gave \in SUBSET {"value", "conditions"}, NEW v, NEW c,
         R!UpdateSysParam(key, top, gave, v, c)
  PROVE  RowInv' /\ Guarded
<1> DEFINE new(f) == IF f \notin gave THEN row[f] ELSE IF f = "conditions" THEN c ELSE v
<1>1. /\ row # R!NoRow /\ table = "system_parameters" /\ R!Eval(row.conditions, key, top) = "ok"
      /\ row' = [f \in DOMAIN row |-> new(f)]
      /\ who'.key = key /\ who'.top = top /\ who'.by = "UpdateSysParam"
  BY DEF R!UpdateSysParam
<1>2. DOMAIN row = RowFields
  BY <1>1 DEF RowInv, IsRow
<1>3. row' = [f \in RowFields |-> new(f)]
  BY <1>1, <1>2
<1>4. IsRow(row')
  BY <1>3 DEF IsRow
<1>5. KeptBut({"value", "conditions"})
  BY <1>2, <1>3 DEF KeptBut, Kept
<1>6. FunctionGuarded
  BY <1>1, <1>5 DEF FunctionGuarded
<1> QED
  BY <1>4, <1>6 DEF RowInv, Guarded

\* A step of any machine keeps to it (MCWork!Next).
LEMMA RowIsGuarded == RowInv /\ [Next]_vars => RowInv' /\ [Guarded]_row
<1> SUFFICES ASSUME RowInv, [Next]_vars
             PROVE  RowInv' /\ [Guarded]_row
  OBVIOUS
<1>1. CASE UNCHANGED row
  BY <1>1 DEF RowInv
<1>2. CASE R!Next
  <2>1. PICK key \in Keys :
          \/ \E route, gave, v, n, c : R!Edit(key, route, gave, v, n, c) \/ R!New(key, route, v, n, c)
          \/ \E v, c : R!OwnInsert(key, v, c) \/ \E f \in {"name", "value", "conditions"} : R!OwnUpdate(key, f, v, c)
          \/ \E v : R!UploadBinary(key, v) \/ R!UpdateMetrics(key, v) \/ R!NewUser(key, v) \/ R!payContract(key, v)
          \/ R!BndWallet(key) \/ R!UnbndWallet(key)
          \/ \E top, v, c : \E gave \in SUBSET {"value", "conditions"} : R!UpdateSysParam(key, top, gave, v, c)
          \/ \E f, c : R!EditTable(key, f, c) \/ R!SetParameter(key, c) \/ R!EditColumn(key, f, c)
    BY <1>2 DEF R!Next
  <2>2. CASE \E f, c : R!EditTable(key, f, c) \/ R!SetParameter(key, c) \/ R!EditColumn(key, f, c)
    BY <1>1, <2>2 DEF R!EditTable, R!SetParameter, R!EditColumn
  <2> QED
    BY <2>1, <2>2, EditIsGuarded, InsertIsGuarded, OwnUpdateIsGuarded, UploadIsGuarded, WalletIsGuarded,
       PaymentIsGuarded, SysParamIsGuarded
<1>3. CASE UNCHANGED rig
  BY <1>1, <1>3 DEF rig
<1> QED
  BY <1>2, <1>3 DEF Next, vars

\* Whatever rights the founder and the developers give and take, whoever changes
\* a row by a transaction has the rights for it at that moment, or does it by one
\* of the functions that ask for other things; with the right over conditions
\* alone nobody changes what a row says (AccessTable, AccessColumns,
\* RowConditions, Edit*, UnbndWallet, payContract, UpdateSysParam).
THEOREM RowsAreAlwaysGuarded == Spec => RowsAreGuarded
<1>1. Init => RowInv
  BY NewRowIsRow DEF Init, R!Init, R!FirstRows, RowInv
<1>2. [][Guarded]_row => RowsAreGuarded
  BY PTL DEF RowsAreGuarded, R!RowsAreGuarded, Guarded, FunctionGuarded, TableGuarded, KeptBut, Kept
<1> QED
  BY <1>1, <1>2, RowIsGuarded, PTL DEF Spec

-----------------------------------------------------------------------------
(***************************************************************************)
(* The compiled contracts.  A sequence of rows is also what a virtual      *)
(* machine is compared with: v shows rows if its children are these        *)
(* contracts, at these places, whatever their wallets.                     *)
(***************************************************************************)
EcoIds == Ecosystems \cup {1}
SourceTexts == Sources \cup {CHOOSE x \in Sources : TRUE}
Contracts == [eco : EcoIds, name : Names \cup {C!Main}, src : SourceTexts, wallet : Wallets \cup {0}]
Children == [eco : EcoIds, name : Names \cup {C!Main}, src : SourceTexts, wallet : Wallets \cup {0}, id : Nat]

SameContract(a, b) == a.eco = b.eco /\ a.name = b.name /\ a.src = b.src
SameCode(s, t) == Len(s) = Len(t) /\ \A i \in 1..Len(s) : SameContract(s[i], t[i])
Shows(v, s) ==
  /\ v \in Seq(Children) /\ Len(v) = Len(s)
  /\ \A i \in 1..Len(v) : SameContract(v[i], s[i]) /\ v[i].id = i
AreUnique(s) ==
  \A i \in 1..Len(s), j \in 1..Len(s) : s[i].eco = s[j].eco /\ s[i].name = s[j].name => i = j

LEMMA ChildIs ==
  ASSUME NEW r \in Contracts, NEW i \in Nat
  PROVE  LET c == C!Child(r.eco, r.name, r.src, r.wallet, i)
         IN  c \in Children /\ c.eco = r.eco /\ c.name = r.name /\ c.src = r.src /\ c.id = i
BY DEF C!Child, Contracts, Children

LEMMA ContractIs ==
  ASSUME NEW e \in EcoIds, NEW n \in Names \cup {C!Main}, NEW x \in SourceTexts
  PROVE  LET r == [eco |-> e, name |-> n, src |-> x, wallet |-> 0]
         IN  r \in Contracts /\ r.eco = e /\ r.name = n /\ r.src = x /\ r.wallet = 0
BY DEF Contracts

\* A name is found at its place or nowhere (VMGetContract).
LEMMA PlaceIs ==
  ASSUME NEW s \in Seq(Contracts), AreUnique(s), NEW v, Shows(v, s), NEW e, NEW n
  PROVE  /\ \A i \in 1..Len(s) : s[i].eco = e /\ s[i].name = n => C!PlaceOf(v, e, n) = i
         /\ (\A i \in 1..Len(s) : ~(s[i].eco = e /\ s[i].name = n)) => C!PlaceOf(v, e, n) = 0
<1> DEFINE A == {i \in 1..Len(v) : v[i].eco = e /\ v[i].name = n}
<1>1. C!PlaceOf(v, e, n) = IF A = {} THEN 0 ELSE CHOOSE i \in A : TRUE
  BY DEF C!PlaceOf
<1>2. Len(v) = Len(s) /\ \A i \in 1..Len(v) : i \in A <=> s[i].eco = e /\ s[i].name = n
  BY DEF Shows, SameContract
<1>3. ASSUME NEW i \in 1..Len(s), s[i].eco = e, s[i].name = n PROVE C!PlaceOf(v, e, n) = i
  <2>1. A # {} /\ \A j \in A : j = i
    BY <1>2, <1>3 DEF AreUnique
  <2>2. (CHOOSE j \in A : TRUE) \in A
    BY <2>1
  <2> QED
    BY <1>1, <2>1, <2>2
<1>4. ASSUME \A i \in 1..Len(s) : ~(s[i].eco = e /\ s[i].name = n) PROVE C!PlaceOf(v, e, n) = 0
  BY <1>1, <1>2, <1>4
<1> QED
  BY <1>3, <1>4

\* A contract of a new name becomes the last child, another one takes the place
\* of the one with its name (FlushBlock).
LEMMA FlushNew ==
  ASSUME NEW s \in Seq(Contracts), AreUnique(s), NEW v, Shows(v, s), NEW r \in Contracts, NEW c \in Children,
         SameContract(c, r), c.id = Len(s) + 1, \A i \in 1..Len(s) : ~(s[i].eco = r.eco /\ s[i].name = r.name)
  PROVE  C!FlushBlock(v, c) = Append(v, c) /\ Shows(Append(v, c), Append(s, r))
<1>1. C!PlaceOf(v, c.eco, c.name) = 0
  BY PlaceIs DEF SameContract
<1>2. C!FlushBlock(v, c) = Append(v, c)
  BY <1>1 DEF C!FlushBlock
<1>3. v \in Seq(Children) /\ Len(v) = Len(s) /\ \A i \in 1..Len(v) : SameContract(v[i], s[i]) /\ v[i].id = i
  BY DEF Shows
<1>4. Append(v, c) \in Seq(Children) /\ Len(Append(v, c)) = Len(v) + 1 /\ Len(Append(s, r)) = Len(v) + 1
  BY <1>3
<1>5. ASSUME NEW i \in 1..(Len(v) + 1)
      PROVE  SameContract(Append(v, c)[i], Append(s, r)[i]) /\ Append(v, c)[i].id = i
  <2>1. CASE i = Len(v) + 1
    <3>1. Append(v, c)[i] = c /\ Append(s, r)[i] = r /\ Len(v) + 1 = Len(s) + 1
      BY <1>3, <2>1
    <3> QED
      BY <2>1, <3>1
  <2>2. CASE i # Len(v) + 1
    <3>1. i \in 1..Len(v) /\ Append(v, c)[i] = v[i] /\ Append(s, r)[i] = s[i]
      BY <1>3, <2>2
    <3> QED
      BY <1>3, <3>1
  <2> QED
    BY <2>1, <2>2
<1> QED
  BY <1>2, <1>4, <1>5 DEF Shows

\* c takes the place k of s, which becomes t.
Replaces(c, k, s, t) ==
  /\ Len(t) = Len(s) /\ SameContract(c, t[k]) /\ c.id = k /\ c.eco = s[k].eco /\ c.name = s[k].name
  /\ \A i \in 1..Len(s) : i # k => SameContract(s[i], t[i])

LEMMA FlushOld ==
  ASSUME NEW s \in Seq(Contracts), AreUnique(s), NEW v, Shows(v, s),
         NEW t, NEW k \in 1..Len(s), NEW c \in Children, Replaces(c, k, s, t)
  PROVE  C!PlaceOf(v, c.eco, c.name) = k /\ Shows(C!FlushBlock(v, c), t)
<1>0. /\ Len(t) = Len(s) /\ SameContract(c, t[k]) /\ c.id = k /\ c.eco = s[k].eco /\ c.name = s[k].name
      /\ \A i \in 1..Len(s) : i # k => SameContract(s[i], t[i])
  BY DEF Replaces
<1>1. C!PlaceOf(v, c.eco, c.name) = k /\ k # 0
  BY <1>0, PlaceIs
<1>2. C!FlushBlock(v, c) = [v EXCEPT ![k] = c]
  BY <1>1 DEF C!FlushBlock
<1>3. v \in Seq(Children) /\ Len(v) = Len(s) /\ \A i \in 1..Len(v) : SameContract(v[i], s[i]) /\ v[i].id = i
  BY DEF Shows
<1> DEFINE w == [v EXCEPT ![k] = c]
<1>4. w \in Seq(Children) /\ Len(w) = Len(t) /\ \A i \in 1..Len(w) : w[i] = IF i = k THEN c ELSE v[i]
  BY <1>0, <1>3
<1> HIDE DEF w
<1>5. ASSUME NEW i \in 1..Len(w) PROVE SameContract(w[i], t[i]) /\ w[i].id = i
  <2>1. i \in 1..Len(s)
    BY <1>0, <1>4
  <2>2. CASE i = k
    BY <1>0, <1>4, <2>2
  <2>3. CASE i # k
    <3>1. w[i] = v[i] /\ SameContract(v[i], s[i]) /\ SameContract(s[i], t[i]) /\ v[i].id = i
      BY <1>0, <1>3, <1>4, <2>1, <2>3
    <3> QED
      BY <3>1 DEF SameContract
  <2> QED
    BY <2>2, <2>3
<1>6. Shows(w, t)
  BY <1>4, <1>5 DEF Shows
<1> QED
  BY <1>1, <1>2, <1>6 DEF w

\* The first n of a sequence, and all but the last.
LEMMA PrefixOf ==
  ASSUME NEW A, NEW s \in Seq(A), NEW n \in 0..Len(s)
  PROVE  /\ SubSeq(s, 1, n) \in Seq(A) /\ Len(SubSeq(s, 1, n)) = n
         /\ \A i \in 1..n : SubSeq(s, 1, n)[i] = s[i]
<1>1. n \in Nat /\ n <= Len(s)
  OBVIOUS
<1>2. Len(SubSeq(s, 1, n)) = n
  <2>1. CASE n = 0
    BY <2>1
  <2>2. CASE n # 0
    BY <1>1, <2>2
  <2> QED
    BY <2>1, <2>2
<1>3. \A i \in 1..n : SubSeq(s, 1, n)[i] = s[i]
  BY <1>1
<1>4. SubSeq(s, 1, n) \in Seq(A)
  BY <1>1
<1> QED
  BY <1>2, <1>3, <1>4

LEMMA FrontOf ==
  ASSUME NEW A, NEW s \in Seq(A), Len(s) # 0
  PROVE  /\ C!Front(s) \in Seq(A) /\ Len(C!Front(s)) = Len(s) - 1
         /\ \A i \in 1..(Len(s) - 1) : C!Front(s)[i] = s[i]
<1> DEFINE n == Len(s) - 1
<1>1. n \in 0..Len(s) /\ C!Front(s) = SubSeq(s, 1, n)
  BY DEF C!Front
<1> HIDE DEF n
<1>2. /\ SubSeq(s, 1, n) \in Seq(A) /\ Len(SubSeq(s, 1, n)) = n
      /\ \A i \in 1..n : SubSeq(s, 1, n)[i] = s[i]
  BY <1>1, PrefixOf
<1> QED
  BY <1>1, <1>2 DEF n

\* A sequence is determined by its elements.
LEMMA SameElements ==
  ASSUME NEW A, NEW s \in Seq(A), NEW t \in Seq(A), Len(s) = Len(t), \A i \in 1..Len(s) : s[i] = t[i]
  PROVE  s = t
<1>1. s \in [1..Len(s) -> A] /\ t \in [1..Len(s) -> A]
  OBVIOUS
<1> QED
  BY <1>1

LEMMA NextPrefix ==
  ASSUME NEW A, NEW s \in Seq(A), NEW n \in 1..Len(s)
  PROVE  SubSeq(s, 1, n) = Append(SubSeq(s, 1, n - 1), s[n])
<1>1. n \in 0..Len(s) /\ n - 1 \in 0..Len(s) /\ n \in Nat /\ s[n] \in A
  OBVIOUS
<1> DEFINE t == SubSeq(s, 1, n)
           u == SubSeq(s, 1, n - 1)
<1>2. t \in Seq(A) /\ Len(t) = n /\ \A i \in 1..n : t[i] = s[i]
  BY <1>1, PrefixOf
<1>3. u \in Seq(A) /\ Len(u) = n - 1 /\ \A i \in 1..(n - 1) : u[i] = s[i]
  BY <1>1, PrefixOf
<1> HIDE DEF t, u
<1>4. Append(u, s[n]) \in Seq(A) /\ Len(Append(u, s[n])) = n /\ \A i \in 1..n : Append(u, s[n])[i] = IF i = n THEN s[n] ELSE u[i]
  BY <1>1, <1>3
<1>5. \A i \in 1..n : Append(u, s[n])[i] = s[i]
  BY <1>1, <1>3, <1>4
<1>6. t = Append(u, s[n])
  BY <1>2, <1>4, <1>5, SameElements
<1> QED
  BY <1>6 DEF t, u

\* Taking the last child away.
LEMMA FrontShows ==
  ASSUME NEW s \in Seq(Contracts), s # <<>>, NEW v, Shows(v, s)
  PROVE  /\ Len(s) \in Nat \ {0} /\ Len(v) = Len(s) /\ C!Front(v) = SubSeq(v, 1, Len(v) - 1)
         /\ C!Front(s) \in Seq(Contracts) /\ Len(C!Front(s)) = Len(s) - 1
         /\ \A i \in 1..Len(s) - 1 : C!Front(s)[i] = s[i]
         /\ Shows(C!Front(v), C!Front(s))
<1>1. v \in Seq(Children) /\ Len(v) = Len(s) /\ \A i \in 1..Len(v) : SameContract(v[i], s[i]) /\ v[i].id = i
  BY DEF Shows
<1>2. Len(s) \in Nat \ {0}
  OBVIOUS
<1>3. /\ C!Front(v) \in Seq(Children) /\ Len(C!Front(v)) = Len(v) - 1
      /\ \A i \in 1..Len(v) - 1 : C!Front(v)[i] = v[i]
  BY <1>1, <1>2, FrontOf
<1>4. /\ C!Front(s) \in Seq(Contracts) /\ Len(C!Front(s)) = Len(s) - 1
      /\ \A i \in 1..Len(s) - 1 : C!Front(s)[i] = s[i]
  BY <1>2, FrontOf
<1>5. Shows(C!Front(v), C!Front(s))
  BY <1>1, <1>2, <1>3, <1>4 DEF Shows
<1> QED
  BY <1>1, <1>2, <1>4, <1>5 DEF C!Front

LEMMA ShowsSame ==
  ASSUME NEW v, NEW s, NEW t, Shows(v, s), SameCode(s, t)
  PROVE  Shows(v, t)
BY DEF Shows, SameCode, SameContract

\* An induction from 0 to n, by the least counterexample.
LEMMA UpTo ==
  ASSUME NEW n \in Nat, NEW G \in SUBSET (0..n), 0 \in G, \A i \in 1..n : i - 1 \in G => i \in G
  PROVE  \A i \in 0..n : i \in G
<1> DEFINE bad == (0..n) \ G
<1> SUFFICES ASSUME NEW j \in bad PROVE FALSE
  OBVIOUS
<1>1. bad \in SUBSET Nat
  OBVIOUS
<1>2. PICK k \in bad : \A i \in bad : k <= i
  BY <1>1, LeastNumber
<1>3. k # 0 /\ k \in 0..n /\ k \notin G
  BY <1>2
<1>4. k \in 1..n /\ k - 1 \in 0..n /\ k - 1 < k
  BY <1>3
<1>5. k - 1 \in G
  BY <1>2, <1>4
<1> QED
  BY <1>3, <1>4, <1>5

\* A recursion over the numbers up to n has a value at each of them, if each step
\* stays within A: F[i][w] is step i, taken from w.
Steps(A, n, F, a, f) == f \in [0..n -> A] /\ f[0] = a /\ \A i \in 1..n : f[i] = F[i][f[i - 1]]

LEMMA Recursion ==
  ASSUME NEW n \in Nat, NEW A, NEW a \in A, NEW F, \A i \in 1..n, w \in A : F[i][w] \in A
  PROVE  \E f : Steps(A, n, F, a, f)
<1> DEFINE G == {k \in 0..n : \E f : Steps(A, k, F, a, f)}
<1>1. 0 \in G
  <2>1. Steps(A, 0, F, a, [i \in 0..0 |-> a])
    BY DEF Steps
  <2> QED
    BY <2>1
<1>2. ASSUME NEW k \in 1..n, k - 1 \in G PROVE k \in G
  <2>1. PICK g : Steps(A, k - 1, F, a, g)
    BY <1>2
  <2> DEFINE f == [i \in 0..k |-> IF i = k THEN F[k][g[k - 1]] ELSE g[i]]
  <2>2. k \in Nat /\ k - 1 \in Nat /\ k - 1 \in 0..(k - 1) /\ k # 0 /\ \A i \in 0..k : i # k => i \in 0..(k - 1)
    OBVIOUS
  <2>3. g \in [0..(k - 1) -> A] /\ g[0] = a /\ \A i \in 1..(k - 1) : g[i] = F[i][g[i - 1]]
    BY <2>1 DEF Steps
  <2>4. f \in [0..k -> A]
    BY <2>2, <2>3
  <2>5. f[0] = a
    BY <2>2, <2>3
  <2>6. ASSUME NEW i \in 1..k PROVE f[i] = F[i][f[i - 1]]
    <3>1. i \in 0..k /\ i - 1 \in 0..k /\ i - 1 # k
      OBVIOUS
    <3>2. f[i - 1] = g[i - 1]
      BY <3>1
    <3>3. CASE i = k
      BY <3>1, <3>2, <3>3
    <3>4. CASE i # k
      <4>1. i \in 1..(k - 1) /\ f[i] = g[i]
        BY <3>1, <3>4
      <4> QED
        BY <2>3, <3>2, <4>1
    <3> QED
      BY <3>3, <3>4
  <2>7. Steps(A, k, F, a, f)
    <3> HIDE DEF f
    <3> QED
      BY <2>4, <2>5, <2>6 DEF Steps
  <2> QED
    BY <2>7
<1>3. G \in SUBSET (0..n)
  OBVIOUS
<1> HIDE DEF G
<1>4. n \in G
  BY <1>1, <1>2, <1>3, UpTo
<1> QED
  BY <1>4 DEF G

\* The rows compiled one after the other (LoadContracts).
RowChild(rows, i) == C!Child(rows[i].eco, rows[i].name, rows[i].src, rows[i].wallet, i)
LoadStep(v, rows, first, f, i) == IF i < first THEN v ELSE C!FlushBlock(f[i - 1], RowChild(rows, i))
LoadOver(v, rows, first) == CHOOSE f : f = [i \in 0..Len(rows) |-> LoadStep(v, rows, first, f, i)]

LEMMA LoadIs ==
  ASSUME NEW v, NEW rows, NEW first
  PROVE  C!Load(v, rows, first) = LoadOver(v, rows, first)[Len(rows)]
BY Zenon DEF C!Load, LoadOver, LoadStep, RowChild

LEMMA LoadOverIs ==
  ASSUME NEW v, NEW rows \in Seq(Contracts), NEW first,
         NEW g, g = [i \in 0..Len(rows) |-> LoadStep(v, rows, first, g, i)]
  PROVE  \A i \in 0..Len(rows) : LoadOver(v, rows, first)[i] = LoadStep(v, rows, first, LoadOver(v, rows, first), i)
<1> DEFINE f == LoadOver(v, rows, first)
<1>1. f = [i \in 0..Len(rows) |-> LoadStep(v, rows, first, f, i)]
  BY Zenon DEF LoadOver
<1> HIDE DEF f
<1>2. \A i \in 0..Len(rows) : f[i] = LoadStep(v, rows, first, f, i)
  BY <1>1
<1> QED
  BY <1>2 DEF f

LEMMA FlushBlockType ==
  ASSUME NEW v \in Seq(Children), NEW c \in Children
  PROVE  C!FlushBlock(v, c) \in Seq(Children)
<1> DEFINE i == C!PlaceOf(v, c.eco, c.name)
           A == {j \in 1..Len(v) : v[j].eco = c.eco /\ v[j].name = c.name}
<1>1. C!FlushBlock(v, c) = IF i = 0 THEN Append(v, c) ELSE [v EXCEPT ![i] = c]
  BY DEF C!FlushBlock
<1>2. i = 0 \/ i \in 1..Len(v)
  <2>1. i = IF A = {} THEN 0 ELSE CHOOSE j \in A : TRUE
    BY DEF C!PlaceOf
  <2>2. A # {} => (CHOOSE j \in A : TRUE) \in A
    OBVIOUS
  <2> QED
    BY <2>1, <2>2
<1> HIDE DEF i
<1>3. Append(v, c) \in Seq(Children)
  OBVIOUS
<1>4. i \in 1..Len(v) => [v EXCEPT ![i] = c] \in Seq(Children)
  OBVIOUS
<1> QED
  BY <1>1, <1>2, <1>3, <1>4

LEMMA LoadAll ==
  ASSUME NEW rows \in Seq(Contracts), AreUnique(rows)
  PROVE  Shows(C!Load(<<>>, rows, 1), rows)
<1> DEFINE n == Len(rows)
           F == [i \in 1..n |-> [w \in Seq(Children) |-> C!FlushBlock(w, RowChild(rows, i))]]
           f == LoadOver(<<>>, rows, 1)
<1>1. n \in Nat /\ \A i \in 1..n : rows[i] \in Contracts /\ i \in Nat
  OBVIOUS
<1>2. \A i \in 1..n : RowChild(rows, i) \in Children /\ SameContract(RowChild(rows, i), rows[i]) /\ RowChild(rows, i).id = i
  BY <1>1, ChildIs DEF RowChild, SameContract
<1>3. <<>> \in Seq(Children) /\ \A i \in 1..n, w \in Seq(Children) : F[i][w] = C!FlushBlock(w, RowChild(rows, i)) /\ F[i][w] \in Seq(Children)
  BY <1>2, FlushBlockType
<1> HIDE DEF n, F
<1>4. PICK g : Steps(Seq(Children), n, F, <<>>, g)
  BY <1>1, <1>3, Recursion
<1>5. \A i \in 0..n : g[i] = LoadStep(<<>>, rows, 1, g, i)
  <2> SUFFICES ASSUME NEW i \in 0..n PROVE g[i] = LoadStep(<<>>, rows, 1, g, i)
    OBVIOUS
  <2>1. CASE i = 0
    BY <1>4, <2>1 DEF Steps, LoadStep
  <2>2. CASE i # 0
    <3>1. i \in 1..n /\ ~(i < 1) /\ i - 1 \in 0..n
      BY <2>2, <1>1
    <3>2. g[i] = F[i][g[i - 1]] /\ g[i - 1] \in Seq(Children)
      BY <1>4, <3>1 DEF Steps
    <3> QED
      BY <1>3, <3>1, <3>2 DEF LoadStep
  <2> QED
    BY <2>1, <2>2
<1>6. g = [i \in 0..n |-> LoadStep(<<>>, rows, 1, g, i)]
  <2>1. g \in [0..n -> Seq(Children)]
    BY <1>4 DEF Steps
  <2> QED
    BY <1>5, <2>1
<1>7. \A i \in 0..n : f[i] = LoadStep(<<>>, rows, 1, f, i)
  BY <1>6, LoadOverIs DEF n
<1> HIDE DEF f
<1> DEFINE G == {i \in 0..n : Shows(f[i], SubSeq(rows, 1, i))}
<1>8. 0 \in G
  <2>1. f[0] = <<>> /\ 0 \in 0..n
    BY <1>1, <1>7 DEF LoadStep
  <2>2. SubSeq(rows, 1, 0) = <<>>
    OBVIOUS
  <2>3. Shows(<<>>, <<>>)
    BY DEF Shows
  <2> QED
    BY <2>1, <2>2, <2>3
<1>9. ASSUME NEW i \in 1..n, i - 1 \in G PROVE i \in G
  <2> DEFINE s == SubSeq(rows, 1, i - 1)
  <2>1. /\ i \in Nat /\ i - 1 \in Nat /\ i <= Len(rows)
        /\ s \in Seq(Contracts) /\ Len(s) = i - 1 /\ \A j \in 1..(i - 1) : s[j] = rows[j]
    <3>1. i \in Nat /\ i - 1 \in Nat /\ i <= Len(rows) /\ i - 1 \in 0..Len(rows)
      BY <1>1 DEF n
    <3> QED
      BY <3>1, PrefixOf
  <2>2. SubSeq(rows, 1, i) = Append(s, rows[i])
    BY <2>1, NextPrefix DEF n
  <2>3. Shows(f[i - 1], s) /\ f[i] = C!FlushBlock(f[i - 1], RowChild(rows, i))
    BY <1>7, <1>9, <2>1 DEF LoadStep
  <2> HIDE DEF s
  <2>4. AreUnique(s) /\ \A j \in 1..Len(s) : ~(s[j].eco = rows[i].eco /\ s[j].name = rows[i].name)
    <3>1. \A j \in 1..Len(s) : j \in 1..Len(rows) /\ j # i /\ s[j] = rows[j]
      BY <2>1
    <3>2. i \in 1..Len(rows)
      BY DEF n
    <3> QED
      BY <1>1, <3>1, <3>2 DEF AreUnique
  <2>5. RowChild(rows, i).id = Len(s) + 1 /\ rows[i] \in Contracts
    BY <1>1, <1>2, <2>1
  <2>6. Shows(f[i], Append(s, rows[i]))
    <3> DEFINE c == RowChild(rows, i)
               v == f[i - 1]
    <3>1. /\ s \in Seq(Contracts) /\ AreUnique(s) /\ Shows(v, s) /\ rows[i] \in Contracts /\ c \in Children
          /\ SameContract(c, rows[i]) /\ c.id = Len(s) + 1
      BY <1>2, <2>1, <2>3, <2>4, <2>5
    <3>2. f[i] = C!FlushBlock(v, c)
      BY <2>3
    <3> HIDE DEF c, v
    <3>3. C!FlushBlock(v, c) = Append(v, c) /\ Shows(Append(v, c), Append(s, rows[i]))
      BY <2>4, <3>1, FlushNew
    <3> QED
      BY <3>2, <3>3
  <2>7. i \in 0..n
    BY <1>1
  <2> QED
    BY <2>2, <2>6, <2>7
<1>10. n \in G
  <2> HIDE DEF G
  <2>1. G \in SUBSET (0..n) /\ n \in 0..n
    BY <1>1 DEF G
  <2>2. \A i \in 1..n : i - 1 \in G => i \in G
    BY <1>9
  <2>3. \A i \in 0..n : i \in G
    BY <1>1, <1>8, <2>1, <2>2, UpTo
  <2> QED
    BY <2>1, <2>3
<1>11. SubSeq(rows, 1, n) = rows
  BY <1>1 DEF n
<1> QED
  BY <1>10, <1>11, LoadIs DEF f, n

\* The last row compiled after the others (LoadContract of a new ecosystem).
LEMMA LoadLast ==
  ASSUME NEW v, NEW s \in Seq(Contracts), NEW r \in Contracts
  PROVE  C!Load(v, Append(s, r), Len(Append(s, r))) = C!FlushBlock(v, C!Child(r.eco, r.name, r.src, r.wallet, Len(s) + 1))
<1> DEFINE rows == Append(s, r)
           n == Len(rows)
           w == C!FlushBlock(v, RowChild(rows, n))
           g == [i \in 0..n |-> IF i < n THEN v ELSE w]
           f == LoadOver(v, rows, n)
<1>1. n = Len(s) + 1 /\ n \in Nat /\ n - 1 \in 0..n /\ n \in 0..n /\ n - 1 < n /\ rows[n] = r /\ rows \in Seq(Contracts)
  OBVIOUS
<1> HIDE DEF n, rows
<1>2. ASSUME NEW i \in 0..n PROVE g[i] = LoadStep(v, rows, n, g, i)
  <2>1. CASE i < n
    BY <2>1 DEF LoadStep
  <2>2. CASE ~(i < n)
    <3>1. i = n /\ g[i] = w /\ g[n - 1] = v
      BY <1>1, <2>2
    <3> QED
      BY <2>2, <3>1, Zenon DEF LoadStep
  <2> QED
    BY <2>1, <2>2
<1>3. g = [i \in 0..n |-> LoadStep(v, rows, n, g, i)]
  BY <1>2
<1>4. \A i \in 0..n : f[i] = LoadStep(v, rows, n, f, i)
  <2> HIDE DEF g
  <2>1. n = Len(rows)
    BY DEF n
  <2> QED
    BY <1>1, <1>3, <2>1, LoadOverIs
<1> HIDE DEF f
<1>5. f[n - 1] = v
  BY <1>1, <1>4 DEF LoadStep
<1>6. f[n] = w
  <2>1. ~(n < n)
    BY <1>1
  <2> QED
    BY <1>1, <1>4, <1>5, <2>1 DEF LoadStep
<1>7. RowChild(rows, n) = C!Child(r.eco, r.name, r.src, r.wallet, Len(s) + 1)
  BY <1>1 DEF RowChild
<1> QED
  BY <1>6, <1>7, LoadIs DEF f, n, rows

\* The rows that are left of an ecosystem and those before it
\* (SysRollbackEcosystem).
DeleteStep(rows, e, f, i) ==
  IF i = 0 THEN <<>> ELSE IF rows[i].eco = e THEN f[i - 1] ELSE Append(f[i - 1], rows[i])
DeleteOver(rows, e) == CHOOSE f : f = [i \in 0..Len(rows) |-> DeleteStep(rows, e, f, i)]

LEMMA DeleteIs ==
  ASSUME NEW rows, NEW e
  PROVE  C!DeleteEcosystem(rows, e) = DeleteOver(rows, e)[Len(rows)]
BY Zenon DEF C!DeleteEcosystem, DeleteOver, DeleteStep

LEMMA DeleteLast ==
  ASSUME NEW s \in Seq(Contracts), NEW r \in Contracts, \A i \in 1..Len(s) : s[i].eco # r.eco
  PROVE  C!DeleteEcosystem(Append(s, r), r.eco) = s
<1> DEFINE rows == Append(s, r)
           m == Len(s)
           n == Len(rows)
           g == [i \in 0..n |-> IF i <= m THEN SubSeq(s, 1, i) ELSE s]
           f == DeleteOver(rows, r.eco)
<1>1. m \in Nat /\ n = m + 1 /\ rows \in Seq(Contracts) /\ rows[n] = r /\ \A i \in 1..m : rows[i] = s[i] /\ s[i].eco # r.eco
  OBVIOUS
<1>2. SubSeq(s, 1, 0) = <<>> /\ SubSeq(s, 1, m) = s
  OBVIOUS
<1> HIDE DEF rows, m, n
<1>3. ASSUME NEW i \in 0..n PROVE g[i] = DeleteStep(rows, r.eco, g, i)
  <2>1. CASE i = 0
    BY <1>1, <1>2, <2>1 DEF DeleteStep
  <2>2. CASE i \in 1..m
    <3>1. i <= m /\ i # 0 /\ i - 1 \in 0..n /\ i - 1 <= m /\ rows[i].eco # r.eco
      BY <1>1, <2>2
    <3>2. g[i] = SubSeq(s, 1, i) /\ g[i - 1] = SubSeq(s, 1, i - 1) /\ rows[i] = s[i]
      BY <1>1, <2>2, <3>1
    <3>3. SubSeq(s, 1, i) = Append(SubSeq(s, 1, i - 1), s[i])
      BY <2>2, NextPrefix DEF m
    <3> HIDE DEF g
    <3> QED
      BY <3>1, <3>2, <3>3 DEF DeleteStep
  <2>3. CASE i = n
    <3>1. i # 0 /\ rows[i].eco = r.eco /\ i - 1 \in 0..n /\ i - 1 = m /\ ~(i <= m)
      BY <1>1, <2>3
    <3>2. g[i] = s /\ g[i - 1] = s
      BY <1>2, <3>1
    <3> HIDE DEF g
    <3> QED
      BY <3>1, <3>2 DEF DeleteStep
  <2> QED
    BY <1>1, <2>1, <2>2, <2>3
<1>4. g = [i \in 0..n |-> DeleteStep(rows, r.eco, g, i)]
  BY <1>3
<1>5. f = [i \in 0..n |-> DeleteStep(rows, r.eco, f, i)]
  <2> HIDE DEF g
  <2> QED
    BY <1>4, Zenon DEF n, DeleteOver
<1> HIDE DEF f
<1>6. \A i \in 0..n : f[i] = DeleteStep(rows, r.eco, f, i)
  BY <1>5
<1> DEFINE G == {i \in 0..n : f[i] = g[i]}
<1>7. 0 \in G
  <2>1. 0 \in 0..n
    BY <1>1
  <2>2. f[0] = DeleteStep(rows, r.eco, f, 0) /\ g[0] = DeleteStep(rows, r.eco, g, 0)
    BY <1>3, <1>6, <2>1
  <2> HIDE DEF g
  <2>3. f[0] = g[0]
    BY <2>2 DEF DeleteStep
  <2> QED
    BY <2>1, <2>3
<1>8. \A i \in 1..n : i - 1 \in G => i \in G
  <2> SUFFICES ASSUME NEW i \in 1..n, i - 1 \in G PROVE i \in G
    OBVIOUS
  <2>1. i \in 0..n /\ i # 0 /\ f[i - 1] = g[i - 1]
    BY <1>1
  <2>2. f[i] = DeleteStep(rows, r.eco, f, i) /\ g[i] = DeleteStep(rows, r.eco, g, i)
    BY <1>3, <1>6, <2>1
  <2> HIDE DEF g
  <2>3. f[i] = g[i]
    BY <2>1, <2>2 DEF DeleteStep
  <2> QED
    BY <2>1, <2>3
<1>9. f[n] = g[n]
  <2>1. G \in SUBSET (0..n) /\ n \in Nat /\ n \in 0..n
    BY <1>1
  <2> HIDE DEF G
  <2>2. n \in G
    BY <1>7, <1>8, <2>1, UpTo
  <2> QED
    BY <2>2 DEF G
<1>10. g[n] = s
  BY <1>1
<1> QED
  BY <1>9, <1>10, DeleteIs DEF f, n, rows

\* Undoing the notes of a failed transaction (block.Play).  The note f leads back
\* from the contracts t to the contracts s.
FlushNotes == [place : Nat \ {0}, new : BOOLEAN, prev : Children]
NoteLeadsBack(f, t, s) ==
  \/ f.new /\ f.place = Len(t) /\ Len(t) = Len(s) + 1 /\ \A i \in 1..Len(s) : SameContract(t[i], s[i])
  \/ /\ ~f.new /\ f.place \in 1..Len(s) /\ f.prev.id = f.place /\ SameContract(f.prev, s[f.place])
     /\ Len(t) = Len(s) /\ \A i \in 1..Len(s) : i # f.place => SameContract(t[i], s[i])

UndoNote(w, f) == IF ~f.new THEN [w EXCEPT ![f.place] = f.prev] ELSE IF f.place = Len(w) THEN C!Front(w) ELSE w

LEMMA UndoNoteType ==
  ASSUME NEW w \in Seq(Children), NEW f \in FlushNotes
  PROVE  UndoNote(w, f) \in Seq(Children)
<1>1. f.place \in Nat \ {0} /\ f.new \in BOOLEAN /\ f.prev \in Children
  BY DEF FlushNotes
<1>2. [w EXCEPT ![f.place] = f.prev] \in Seq(Children)
  <2>1. CASE f.place \in 1..Len(w)
    BY <1>1, <2>1
  <2>2. CASE f.place \notin 1..Len(w)
    <3>1. DOMAIN w = 1..Len(w)
      OBVIOUS
    <3>2. [w EXCEPT ![f.place] = f.prev] = w
      BY <2>2, <3>1
    <3> QED
      BY <3>2
  <2> QED
    BY <2>1, <2>2
<1>3. f.place = Len(w) => C!Front(w) \in Seq(Children)
  BY <1>1, FrontOf
<1> QED
  BY <1>2, <1>3 DEF UndoNote

LEMMA UndoNoteIs ==
  ASSUME NEW s \in Seq(Contracts), NEW t \in Seq(Contracts), NEW w, Shows(w, t), NEW f \in FlushNotes, NoteLeadsBack(f, t, s)
  PROVE  Shows(UndoNote(w, f), s)
<1>1. w \in Seq(Children) /\ Len(w) = Len(t) /\ \A i \in 1..Len(w) : SameContract(w[i], t[i]) /\ w[i].id = i
  BY DEF Shows
<1>2. Len(s) \in Nat /\ f.prev \in Children
  BY DEF FlushNotes
<1>3. CASE f.new
  <2>1. f.place = Len(t) /\ Len(t) = Len(s) + 1 /\ \A i \in 1..Len(s) : SameContract(t[i], s[i])
    BY <1>3 DEF NoteLeadsBack
  <2>2. UndoNote(w, f) = C!Front(w) /\ Len(w) # 0
    BY <1>1, <1>2, <1>3, <2>1 DEF UndoNote
  <2>3. C!Front(w) \in Seq(Children) /\ Len(C!Front(w)) = Len(w) - 1 /\ \A i \in 1..(Len(w) - 1) : C!Front(w)[i] = w[i]
    BY <1>1, <2>2, FrontOf
  <2>4. Len(C!Front(w)) = Len(s)
    BY <1>1, <1>2, <2>1, <2>3
  <2>5. ASSUME NEW i \in 1..Len(s) PROVE SameContract(C!Front(w)[i], s[i]) /\ C!Front(w)[i].id = i
    <3>1. i \in 1..Len(w) /\ C!Front(w)[i] = w[i]
      BY <1>1, <1>2, <2>1, <2>3
    <3> QED
      BY <1>1, <2>1, <3>1 DEF SameContract
  <2> QED
    BY <2>2, <2>3, <2>4, <2>5 DEF Shows
<1>4. CASE ~f.new
  <2> DEFINE k == f.place
             u == [w EXCEPT ![k] = f.prev]
  <2>1. /\ k \in 1..Len(s) /\ f.prev.id = k /\ SameContract(f.prev, s[k]) /\ Len(t) = Len(s)
        /\ \A i \in 1..Len(s) : i # k => SameContract(t[i], s[i])
    BY <1>4 DEF NoteLeadsBack
  <2>2. UndoNote(w, f) = u
    BY <1>4 DEF UndoNote
  <2>3. u \in Seq(Children) /\ Len(u) = Len(s) /\ \A i \in 1..Len(s) : u[i] = IF i = k THEN f.prev ELSE w[i]
    BY <1>1, <1>2, <2>1
  <2> HIDE DEF k, u
  <2>4. ASSUME NEW i \in 1..Len(s) PROVE SameContract(u[i], s[i]) /\ u[i].id = i
    <3>1. CASE i = k
      BY <2>1, <2>3, <3>1
    <3>2. CASE i # k
      <4>1. u[i] = w[i] /\ SameContract(w[i], t[i]) /\ SameContract(t[i], s[i]) /\ w[i].id = i
        BY <1>1, <2>1, <2>3, <3>2
      <4> QED
        BY <4>1 DEF SameContract
    <3> QED
      BY <3>1, <3>2
  <2> QED
    BY <2>2, <2>3, <2>4 DEF Shows
<1> QED
  BY <1>3, <1>4

UnflushStep(v, fs, f, i) == IF i = 0 THEN v ELSE UndoNote(f[i - 1], fs[Len(fs) + 1 - i])
UnflushOver(v, fs) == CHOOSE f : f = [i \in 0..Len(fs) |-> UnflushStep(v, fs, f, i)]

LEMMA UnflushIs ==
  ASSUME NEW v, NEW fs
  PROVE  C!Unflush(v, fs) = UnflushOver(v, fs)[Len(fs)]
BY Zenon DEF C!Unflush, UnflushOver, UnflushStep, UndoNote

LEMMA UnflushShows ==
  ASSUME NEW fs \in Seq(FlushNotes), NEW u \in [0..Len(fs) -> Seq(Contracts)], NEW v, Shows(v, u[Len(fs)]),
         \A k \in 1..Len(fs) : NoteLeadsBack(fs[k], u[k], u[k - 1])
  PROVE  Shows(C!Unflush(v, fs), u[0])
<1> DEFINE n == Len(fs)
           F == [i \in 1..n |-> [w \in Seq(Children) |-> UndoNote(w, fs[n + 1 - i])]]
           f == UnflushOver(v, fs)
<1>1. n \in Nat /\ v \in Seq(Children) /\ \A i \in 1..n : n + 1 - i \in 1..n /\ fs[n + 1 - i] \in FlushNotes
  BY DEF Shows
<1>2. \A i \in 1..n, w \in Seq(Children) : F[i][w] = UndoNote(w, fs[n + 1 - i]) /\ F[i][w] \in Seq(Children)
  BY <1>1, UndoNoteType
<1> HIDE DEF F
<1>3. PICK g : Steps(Seq(Children), n, F, v, g)
  <2> HIDE DEF n
  <2> QED
    BY <1>1, <1>2, Recursion
<1> HIDE DEF n
<1>4. \A i \in 0..n : g[i] = UnflushStep(v, fs, g, i)
  <2> SUFFICES ASSUME NEW i \in 0..n PROVE g[i] = UnflushStep(v, fs, g, i)
    OBVIOUS
  <2>1. CASE i = 0
    BY <1>3, <2>1 DEF Steps, UnflushStep
  <2>2. CASE i # 0
    <3>1. i \in 1..n /\ i - 1 \in 0..n
      BY <2>2, <1>1
    <3>2. g[i] = F[i][g[i - 1]] /\ g[i - 1] \in Seq(Children)
      BY <1>3, <3>1 DEF Steps
    <3>3. g[i] = UndoNote(g[i - 1], fs[n + 1 - i])
      BY <1>2, <3>1, <3>2
    <3> QED
      BY <2>2, <3>3 DEF UnflushStep, n
  <2> QED
    BY <2>1, <2>2
<1>5. g = [i \in 0..n |-> UnflushStep(v, fs, g, i)]
  <2>1. g \in [0..n -> Seq(Children)]
    BY <1>3 DEF Steps
  <2> QED
    BY <1>4, <2>1
<1>6. f = [i \in 0..n |-> UnflushStep(v, fs, f, i)]
  BY <1>5, Zenon DEF UnflushOver, n
<1> HIDE DEF f
<1>7. \A i \in 0..n : f[i] = UnflushStep(v, fs, f, i)
  BY <1>6
<1> DEFINE G == {i \in 0..n : Shows(f[i], u[n - i])}
<1>8. 0 \in G
  <2>1. f[0] = v /\ 0 \in 0..n /\ n - 0 = n
    BY <1>1, <1>7 DEF UnflushStep
  <2> QED
    BY <2>1 DEF n
<1>9. \A i \in 1..n : i - 1 \in G => i \in G
  <2> SUFFICES ASSUME NEW i \in 1..n, i - 1 \in G PROVE i \in G
    OBVIOUS
  <2> DEFINE k == n + 1 - i
  <2>1. i \in 0..n /\ i # 0 /\ k \in 1..n /\ n - (i - 1) = k /\ n - i = k - 1 /\ k \in 0..n /\ k - 1 \in 0..n
    BY <1>1
  <2>2. Shows(f[i - 1], u[k])
    BY <2>1
  <2>3. f[i] = UndoNote(f[i - 1], fs[k])
    BY <1>7, <2>1 DEF UnflushStep, n
  <2>4. u[k] \in Seq(Contracts) /\ u[k - 1] \in Seq(Contracts) /\ fs[k] \in FlushNotes /\ NoteLeadsBack(fs[k], u[k], u[k - 1])
    BY <1>1, <2>1 DEF n
  <2> HIDE DEF k
  <2>5. Shows(f[i], u[k - 1])
    BY <2>2, <2>3, <2>4, UndoNoteIs
  <2> QED
    BY <2>1, <2>5
<1>10. Shows(f[n], u[0])
  <2>1. G \in SUBSET (0..n) /\ n \in 0..n /\ n - n = 0
    BY <1>1
  <2> HIDE DEF G
  <2>2. n \in G
    BY <1>1, <1>8, <1>9, <2>1, UpTo
  <2> QED
    BY <2>1, <2>2 DEF G
<1> QED
  BY <1>10, UnflushIs DEF f, n

(***************************************************************************)
(* The records of rollback_tx.  A point is a database and the contracts    *)
(* that the virtual machine has there; between two records of one change   *)
(* they differ.  Undoing a record leads from one point to the one before.  *)
(***************************************************************************)
Records ==
  [type : {"insert"}, id : Nat] \cup [type : {"update"}, id : Nat, old : Contracts]
  \cup [type : {"NewContract"}, eco : EcoIds, name : Names \cup {C!Main}]
  \cup [type : {"EditContract"}, eco : EcoIds, id : Nat] \cup [type : {"NewEcosystem"}, eco : EcoIds]
Databases == [rows : Seq(Contracts), ecos : SUBSET EcoIds, log : Seq(Records), chain : Seq(Nat)]
Points == [rows : Seq(Contracts), code : Seq(Contracts), ecos : SUBSET EcoIds]

IsSound(h) ==
  /\ AreUnique(h.rows) /\ AreUnique(h.code)
  /\ \A i \in 1..Len(h.rows) : h.rows[i].eco \in h.ecos
  /\ \A i \in 1..Len(h.code) : h.code[i].eco \in h.ecos

\* The last contract that the virtual machine has at h is one of this ecosystem,
\* and the others are those of g.
LastIsNew(h, g, eco) == h.code # <<>> /\ C!Last(h.code).eco = eco /\ SameCode(C!Front(h.code), g.code)

CodeLeadsBack(rec, h, g) ==
  \/ rec.type \in {"insert", "update"} /\ SameCode(h.code, g.code)
  \/ rec.type = "NewContract" /\ LastIsNew(h, g, rec.eco) /\ C!Last(h.code).name = rec.name
  \/ /\ rec.type = "EditContract" /\ rec.id \in 1..Len(g.rows) /\ rec.eco = g.rows[rec.id].eco
     /\ g.code = g.rows /\ Len(h.code) = Len(g.rows)
     /\ \A i \in 1..Len(g.rows) : h.code[i].eco = g.rows[i].eco /\ h.code[i].name = g.rows[i].name
     /\ \A i \in 1..Len(g.rows) : i # rec.id => SameContract(h.code[i], g.rows[i])
  \/ rec.type = "NewEcosystem" /\ LastIsNew(h, g, rec.eco) /\ rec.eco \notin g.ecos

RowsLeadBack(rec, h, g) ==
  \/ rec.type = "insert" /\ C!Front(h.rows) = g.rows /\ h.ecos = g.ecos
  \/ rec.type = "update" /\ [h.rows EXCEPT ![rec.id] = rec.old] = g.rows /\ h.ecos = g.ecos
  \/ rec.type \in {"NewContract", "EditContract"} /\ h.rows = g.rows /\ h.ecos = g.ecos
  \/ rec.type = "NewEcosystem" /\ C!DeleteEcosystem(h.rows, rec.eco) = g.rows /\ h.ecos \ {rec.eco} = g.ecos

\* H is the history of a database: a point for each length of its log.  At the
\* start of a block the virtual machine has the rows.
History(d, H) ==
  /\ d \in Databases /\ H \in [0..Len(d.log) -> Points]
  /\ H[Len(d.log)].rows = d.rows /\ H[Len(d.log)].ecos = d.ecos
  /\ \A k \in 0..Len(d.log) : IsSound(H[k])
  /\ \A k \in 1..Len(d.log) : CodeLeadsBack(d.log[k], H[k], H[k - 1]) /\ RowsLeadBack(d.log[k], H[k], H[k - 1])
  /\ \A c \in 1..Len(d.chain) : d.chain[c] \in 0..Len(d.log) /\ H[d.chain[c]].code = H[d.chain[c]].rows
  /\ \A c \in 1..Len(d.chain), e \in 1..Len(d.chain) : c <= e => d.chain[c] <= d.chain[e]

Recorded(d) == \E H : History(d, H) /\ H[Len(d.log)].code = d.rows

\* Undoing a record in the virtual machine (SysRollbackNewContract,
\* SysRollbackEditContract, SysRollbackEcosystem).
LEMMA RollbackContractIs ==
  ASSUME NEW h \in Points, NEW g \in Points, IsSound(h), NEW v, Shows(v, h.code), NEW e, NEW n,
         LastIsNew(h, g, e), C!Last(h.code).name = n
  PROVE  Shows(C!RollbackContract(v, e, n), g.code)
<1>1. h.code \in Seq(Contracts) /\ h.code # <<>> /\ AreUnique(h.code) /\ SameCode(C!Front(h.code), g.code)
  BY DEF Points, LastIsNew, IsSound
<1>2. Len(h.code) \in Nat \ {0} /\ Len(v) = Len(h.code) /\ Shows(C!Front(v), C!Front(h.code))
  BY <1>1, FrontShows
<1>3. Len(h.code) \in 1..Len(h.code) /\ h.code[Len(h.code)].eco = e /\ h.code[Len(h.code)].name = n
  BY <1>2 DEF C!Last, LastIsNew
<1>4. C!PlaceOf(v, e, n) = Len(h.code)
  BY <1>1, <1>3, PlaceIs
<1>5. C!RollbackContract(v, e, n) = C!Front(v)
  BY <1>2, <1>4 DEF C!RollbackContract
<1> QED
  BY <1>1, <1>2, <1>5, ShowsSame

LEMMA RollbackEditIs ==
  ASSUME NEW h \in Points, NEW g \in Points, IsSound(h), NEW v, Shows(v, h.code),
         NEW rec, rec.type = "EditContract", CodeLeadsBack(rec, h, g), h.rows = g.rows
  PROVE  Shows(C!RollbackEdit(v, h.rows, rec.eco, rec.id), g.code)
<1> DEFINE k == rec.id
           c == C!Child(rec.eco, h.rows[k].name, h.rows[k].src, h.rows[k].wallet, k)
<1>1. /\ k \in 1..Len(g.rows) /\ rec.eco = g.rows[k].eco /\ g.code = g.rows /\ Len(h.code) = Len(g.rows)
      /\ \A i \in 1..Len(g.rows) : h.code[i].eco = g.rows[i].eco /\ h.code[i].name = g.rows[i].name
      /\ \A i \in 1..Len(g.rows) : i # k => SameContract(h.code[i], g.rows[i])
  BY DEF CodeLeadsBack
<1>2. h.code \in Seq(Contracts) /\ g.rows \in Seq(Contracts) /\ AreUnique(h.code) /\ g.rows[k] \in Contracts /\ k \in Nat
  <2>1. h.code \in Seq(Contracts) /\ g.rows \in Seq(Contracts)
    BY DEF Points
  <2>2. g.rows[k] \in Contracts /\ k \in Nat
    BY <1>1, <2>1
  <2> QED
    BY <2>1, <2>2 DEF IsSound
<1>3. c \in Children /\ SameContract(c, g.code[k]) /\ c.id = k /\ c.eco = h.code[k].eco /\ c.name = h.code[k].name
  <2>1. h.rows[k] = g.rows[k] /\ rec.eco = h.rows[k].eco /\ g.code[k] = g.rows[k]
    BY <1>1
  <2>2. c \in Children /\ SameContract(c, g.rows[k]) /\ c.id = k
    <3> DEFINE r == g.rows[k]
    <3>1. r \in Contracts /\ k \in Nat /\ c = C!Child(r.eco, r.name, r.src, r.wallet, k)
      BY <1>2, <2>1
    <3> HIDE DEF r, c, k
    <3>2. c \in Children /\ c.eco = r.eco /\ c.name = r.name /\ c.src = r.src /\ c.id = k
      BY <3>1, ChildIs
    <3> QED
      BY <3>2 DEF SameContract, r
  <2>3. h.code[k].eco = g.rows[k].eco /\ h.code[k].name = g.rows[k].name
    BY <1>1
  <2> QED
    BY <2>1, <2>2, <2>3 DEF SameContract
<1>4. k \in {i \in 1..Len(v) : v[i].id = k /\ v[i].eco = rec.eco}
  BY <1>1 DEF Shows, SameContract
<1>5. C!RollbackEdit(v, h.rows, rec.eco, k) = C!FlushBlock(v, c)
  BY <1>4 DEF C!RollbackEdit
<1> HIDE DEF c, k
<1>6. Replaces(c, k, h.code, g.code) /\ k \in 1..Len(h.code)
  BY <1>1, <1>3 DEF Replaces
<1>7. Shows(C!FlushBlock(v, c), g.code)
  BY <1>2, <1>3, <1>6, FlushOld
<1> QED
  BY <1>5, <1>7 DEF k

LEMMA RollbackEcosystemIs ==
  ASSUME NEW h \in Points, NEW g \in Points, IsSound(g), NEW v, Shows(v, h.code), NEW e, e \notin g.ecos, LastIsNew(h, g, e)
  PROVE  Shows(C!RollbackEcosystem(v, e), g.code)
<1> DEFINE keep == {i \in 0..Len(v) : \A j \in (i + 1)..Len(v) : v[j].eco = e}
           m == CHOOSE i \in keep : \A j \in keep : i <= j
           n == Len(v)
<1>1. h.code \in Seq(Contracts) /\ h.code # <<>> /\ SameCode(C!Front(h.code), g.code) /\ C!Last(h.code).eco = e
  BY DEF Points, LastIsNew
<1>2. /\ n \in Nat \ {0} /\ n = Len(h.code) /\ Shows(C!Front(v), C!Front(h.code)) /\ C!Front(v) = SubSeq(v, 1, n - 1)
      /\ Len(C!Front(h.code)) = n - 1 /\ \A i \in 1..Len(h.code) - 1 : C!Front(h.code)[i] = h.code[i]
  BY <1>1, FrontShows
<1>3. v[n].eco = e
  BY <1>1, <1>2 DEF C!Last, Shows, SameContract
<1>4. \A i \in 1..(n - 1) : v[i].eco # e
  <2> SUFFICES ASSUME NEW i \in 1..(n - 1) PROVE v[i].eco # e
    OBVIOUS
  <2>1. i \in 1..n /\ i \in 1..Len(g.code) /\ i \in 1..Len(C!Front(h.code)) /\ C!Front(h.code)[i] = h.code[i]
    BY <1>1, <1>2 DEF SameCode
  <2>2. v[i].eco = h.code[i].eco /\ C!Front(h.code)[i].eco = g.code[i].eco
    BY <1>1, <1>2, <2>1 DEF Shows, SameContract, SameCode
  <2>3. g.code[i].eco \in g.ecos
    BY <2>1 DEF IsSound
  <2> QED
    BY <2>1, <2>2, <2>3
<1>5. n - 1 \in keep
  BY <1>2, <1>3
<1>6. \A i \in keep : n - 1 <= i
  <2> SUFFICES ASSUME NEW i \in keep, i < n - 1 PROVE FALSE
    BY <1>2
  <2>1. n - 1 \in (i + 1)..n /\ n - 1 \in 1..(n - 1)
    BY <1>2
  <2> QED
    BY <1>4, <2>1
<1> HIDE DEF keep
<1>7. m = n - 1
  <2>1. m \in keep /\ \A j \in keep : m <= j
    BY <1>5, <1>6
  <2>2. keep \subseteq 0..n
    BY DEF keep
  <2> HIDE DEF m
  <2> QED
    BY <1>2, <1>5, <1>6, <2>1, <2>2
<1>8. C!RollbackEcosystem(v, e) = SubSeq(v, 1, m)
  BY DEF C!RollbackEcosystem, keep
<1> QED
  BY <1>1, <1>2, <1>7, <1>8, ShowsSame

\* One more record at the end of a history, and one less.
LEMMA AddRecord ==
  ASSUME NEW d, NEW H, History(d, H), NEW rec \in Records, NEW h \in Points, IsSound(h),
         CodeLeadsBack(rec, h, H[Len(d.log)]), RowsLeadBack(rec, h, H[Len(d.log)]),
         NEW c \in Databases, c.log = Append(d.log, rec), c.chain = d.chain, c.rows = h.rows, c.ecos = h.ecos
  PROVE  \E G : History(c, G) /\ G[Len(c.log)] = h
<1> DEFINE n == Len(d.log)
           G == [k \in 0..(n + 1) |-> IF k = n + 1 THEN h ELSE H[k]]
<1>1. /\ d \in Databases /\ H \in [0..n -> Points]
      /\ \A k \in 0..n : IsSound(H[k])
      /\ \A k \in 1..n : CodeLeadsBack(d.log[k], H[k], H[k - 1]) /\ RowsLeadBack(d.log[k], H[k], H[k - 1])
      /\ \A i \in 1..Len(d.chain) : d.chain[i] \in 0..n /\ H[d.chain[i]].code = H[d.chain[i]].rows
      /\ \A i \in 1..Len(d.chain), e \in 1..Len(d.chain) : i <= e => d.chain[i] <= d.chain[e]
  BY DEF History
<1>2. d.log \in Seq(Records) /\ n \in Nat
  BY <1>1 DEF Databases
<1>3. Len(c.log) = n + 1 /\ c.log[n + 1] = rec /\ \A k \in 1..n : c.log[k] = d.log[k]
  BY <1>2
<1> HIDE DEF n
<1>4. G \in [0..(n + 1) -> Points] /\ G[n + 1] = h /\ \A k \in 0..n : G[k] = H[k]
  BY <1>1, <1>2
<1> HIDE DEF G
<1>5. ASSUME NEW k \in 0..(n + 1) PROVE IsSound(G[k])
  <2>1. CASE k = n + 1
    BY <1>4, <2>1
  <2>2. CASE k # n + 1
    <3>1. k \in 0..n
      BY <1>2, <2>2
    <3> QED
      BY <1>1, <1>4, <3>1
  <2> QED
    BY <2>1, <2>2
<1>6. ASSUME NEW k \in 1..(n + 1) PROVE CodeLeadsBack(c.log[k], G[k], G[k - 1]) /\ RowsLeadBack(c.log[k], G[k], G[k - 1])
  <2>1. CASE k = n + 1
    <3>1. k - 1 = n /\ n \in 0..n
      BY <1>2, <2>1
    <3>2. c.log[k] = rec /\ G[k] = h /\ G[k - 1] = H[n]
      BY <1>3, <1>4, <2>1, <3>1
    <3> QED
      BY <3>2 DEF n
  <2>2. CASE k # n + 1
    <3>1. k \in 1..n /\ k \in 0..n /\ k - 1 \in 0..n
      BY <1>2, <2>2
    <3>2. c.log[k] = d.log[k] /\ G[k] = H[k] /\ G[k - 1] = H[k - 1]
      BY <1>3, <1>4, <3>1
    <3> QED
      BY <1>1, <3>1, <3>2
  <2> QED
    BY <2>1, <2>2
<1>7. ASSUME NEW i \in 1..Len(c.chain)
      PROVE  c.chain[i] \in 0..(n + 1) /\ G[c.chain[i]].code = G[c.chain[i]].rows
  <2>1. c.chain[i] \in 0..n /\ H[c.chain[i]].code = H[c.chain[i]].rows
    BY <1>1
  <2>2. G[c.chain[i]] = H[c.chain[i]]
    BY <1>4, <2>1
  <2> QED
    BY <1>2, <2>1, <2>2
<1>8. \A i \in 1..Len(c.chain), e \in 1..Len(c.chain) : i <= e => c.chain[i] <= c.chain[e]
  BY <1>1
<1>9. History(c, G)
  BY <1>3, <1>4, <1>5, <1>6, <1>7, <1>8 DEF History
<1> QED
  BY <1>3, <1>4, <1>9

LEMMA DropRecord ==
  ASSUME NEW d, NEW H, History(d, H), Len(d.log) # 0,
         NEW c \in Databases, c.log = C!Front(d.log), c.chain = d.chain,
         c.rows = H[Len(d.log) - 1].rows, c.ecos = H[Len(d.log) - 1].ecos,
         \A i \in 1..Len(d.chain) : d.chain[i] < Len(d.log)
  PROVE  LET G == [k \in 0..(Len(d.log) - 1) |-> H[k]]
         IN  History(c, G) /\ Len(c.log) = Len(d.log) - 1 /\ G[Len(c.log)] = H[Len(d.log) - 1]
<1> DEFINE n == Len(d.log)
           G == [k \in 0..(n - 1) |-> H[k]]
<1>1. /\ d \in Databases /\ H \in [0..n -> Points]
      /\ \A k \in 0..n : IsSound(H[k])
      /\ \A k \in 1..n : CodeLeadsBack(d.log[k], H[k], H[k - 1]) /\ RowsLeadBack(d.log[k], H[k], H[k - 1])
      /\ \A i \in 1..Len(d.chain) : d.chain[i] \in 0..n /\ H[d.chain[i]].code = H[d.chain[i]].rows
      /\ \A i \in 1..Len(d.chain), e \in 1..Len(d.chain) : i <= e => d.chain[i] <= d.chain[e]
  BY DEF History
<1>2. d.log \in Seq(Records) /\ n \in Nat /\ n # 0
  BY <1>1 DEF Databases
<1>3. Len(c.log) = n - 1 /\ \A k \in 1..(n - 1) : c.log[k] = d.log[k]
  BY <1>2, FrontOf
<1>4. \A i \in 1..Len(d.chain) : d.chain[i] < n
  BY DEF n
<1> HIDE DEF n
<1>5. G \in [0..(n - 1) -> Points] /\ (\A k \in 0..(n - 1) : G[k] = H[k] /\ k \in 0..n) /\ n - 1 \in 0..(n - 1)
  BY <1>1, <1>2
<1> HIDE DEF G
<1>6. \A k \in 0..(n - 1) : IsSound(G[k])
  BY <1>1, <1>5
<1>7. ASSUME NEW k \in 1..(n - 1) PROVE CodeLeadsBack(c.log[k], G[k], G[k - 1]) /\ RowsLeadBack(c.log[k], G[k], G[k - 1])
  <2>1. k \in 1..n /\ k \in 0..(n - 1) /\ k - 1 \in 0..(n - 1)
    BY <1>2
  <2>2. c.log[k] = d.log[k] /\ G[k] = H[k] /\ G[k - 1] = H[k - 1]
    BY <1>3, <1>5, <2>1
  <2> QED
    BY <1>1, <2>1, <2>2
<1>8. ASSUME NEW i \in 1..Len(c.chain)
      PROVE  c.chain[i] \in 0..(n - 1) /\ G[c.chain[i]].code = G[c.chain[i]].rows
  <2>1. c.chain[i] \in 0..n /\ c.chain[i] < n /\ H[c.chain[i]].code = H[c.chain[i]].rows
    BY <1>1, <1>4
  <2>2. c.chain[i] \in 0..(n - 1)
    BY <1>2, <2>1
  <2> QED
    BY <1>5, <2>1, <2>2
<1>9. \A i \in 1..Len(c.chain), e \in 1..Len(c.chain) : i <= e => c.chain[i] <= c.chain[e]
  BY <1>1
<1>10. G[n - 1] = H[n - 1] /\ c.rows = H[n - 1].rows /\ c.ecos = H[n - 1].ecos
  BY <1>5 DEF n
<1>11. History(c, G)
  BY <1>3, <1>5, <1>6, <1>7, <1>8, <1>9, <1>10 DEF History
<1> QED
  BY <1>3, <1>10, <1>11 DEF G, n

(***************************************************************************)
(* The invariant.  Between blocks and in a block the virtual machine shows *)
(* the rows; while a block is undone, the contracts of the point that is   *)
(* reached.  The notes of the transaction lead from the rows back to those *)
(* of the savepoint, unless it has created an ecosystem.                   *)
(***************************************************************************)
Noted(fs, s, t) ==
  /\ fs \in Seq(FlushNotes)
  /\ \E u \in [0..Len(fs) -> Seq(Contracts)] :
        /\ SameCode(u[0], s) /\ SameCode(t, u[Len(fs)])
        /\ \A k \in 1..Len(fs) : NoteLeadsBack(fs[k], u[k], u[k - 1])

\* The log of d is that of c or longer, and if it is no longer, nothing changed.
Extends(d, c) == Len(c.log) <= Len(d.log) /\ (Len(c.log) = Len(d.log) => c.rows = d.rows)

InBlock ==
  /\ Recorded(sp) /\ Extends(sp, saved) /\ Extends(db, saved) /\ sp.ecos \subseteq db.ecos
  /\ ~dirty /\ db.ecos = sp.ecos => Noted(flush, sp.rows, db.rows)

InUndo ==
  /\ db.chain # <<>> /\ Extends(saved, db) /\ (~dirty /\ Len(db.log) = Len(saved.log) => Shows(vm, db.rows))
  /\ \E H : History(db, H) /\ (~dirty => Shows(vm, H[Len(db.log)].code))

ContractInv ==
  /\ mode \in {"idle", "block", "undo"} /\ dirty \in BOOLEAN /\ Recorded(saved)
  /\ mode = "idle" => db = saved
  /\ mode = "block" => InBlock
  /\ mode = "undo" => InUndo
  /\ mode # "undo" => Recorded(db) /\ (~dirty => Shows(vm, db.rows))

LEMMA RecordedIs ==
  ASSUME NEW d, Recorded(d)
  PROVE  /\ d \in Databases /\ d.rows \in Seq(Contracts) /\ d.ecos \in SUBSET EcoIds /\ d.log \in Seq(Records)
         /\ d.chain \in Seq(Nat) /\ Len(d.log) \in Nat
         /\ AreUnique(d.rows) /\ \A i \in 1..Len(d.rows) : d.rows[i] \in Contracts /\ d.rows[i].eco \in d.ecos
<1>1. PICK H : History(d, H)
  BY DEF Recorded
<1>2. d \in Databases /\ H[Len(d.log)].rows = d.rows /\ H[Len(d.log)].ecos = d.ecos /\ \A k \in 0..Len(d.log) : IsSound(H[k])
  BY <1>1 DEF History
<1>3. d.rows \in Seq(Contracts) /\ d.ecos \in SUBSET EcoIds /\ d.log \in Seq(Records) /\ d.chain \in Seq(Nat)
  BY <1>2 DEF Databases
<1>4. Len(d.log) \in Nat /\ Len(d.log) \in 0..Len(d.log)
  BY <1>3
<1>5. IsSound(H[Len(d.log)])
  BY <1>2, <1>4
<1>6. AreUnique(d.rows) /\ \A i \in 1..Len(d.rows) : d.rows[i].eco \in d.ecos
  BY <1>2, <1>5 DEF IsSound
<1> QED
  BY <1>2, <1>3, <1>4, <1>6

LEMMA SameAsItself ==
  ASSUME NEW s
  PROVE  SameCode(s, s)
BY DEF SameCode, SameContract

\* No notes, one more, and rows of the same code.
LEMMA NotedEmpty ==
  ASSUME NEW s \in Seq(Contracts)
  PROVE  Noted(<<>>, s, s)
<1> DEFINE u == [i \in 0..0 |-> s]
<1>1. <<>> \in Seq(FlushNotes) /\ Len(<<>>) = 0
  OBVIOUS
<1>2. u \in [0..0 -> Seq(Contracts)] /\ u[0] = s /\ 1..0 = {}
  OBVIOUS
<1> HIDE DEF u
<1> QED
  BY <1>1, <1>2, SameAsItself DEF Noted

LEMMA NotedSame ==
  ASSUME NEW fs, NEW s, NEW t, NEW w, Noted(fs, s, t), SameCode(w, t)
  PROVE  Noted(fs, s, w)
<1>1. PICK u \in [0..Len(fs) -> Seq(Contracts)] :
        /\ SameCode(u[0], s) /\ SameCode(t, u[Len(fs)])
        /\ \A k \in 1..Len(fs) : NoteLeadsBack(fs[k], u[k], u[k - 1])
  BY DEF Noted
<1>2. SameCode(w, u[Len(fs)])
  BY <1>1 DEF SameCode, SameContract
<1> QED
  BY <1>1, <1>2 DEF Noted

LEMMA NotedMore ==
  ASSUME NEW fs, NEW s, NEW t, Noted(fs, s, t), NEW f \in FlushNotes, NEW w \in Seq(Contracts), NoteLeadsBack(f, w, t)
  PROVE  Noted(Append(fs, f), s, w)
<1>1. PICK u \in [0..Len(fs) -> Seq(Contracts)] :
        /\ SameCode(u[0], s) /\ SameCode(t, u[Len(fs)])
        /\ \A k \in 1..Len(fs) : NoteLeadsBack(fs[k], u[k], u[k - 1])
  BY DEF Noted
<1> DEFINE n == Len(fs)
           x == [k \in 0..(n + 1) |-> IF k = n + 1 THEN w ELSE u[k]]
<1>2. fs \in Seq(FlushNotes) /\ n \in Nat
  BY DEF Noted
<1>3. Append(fs, f) \in Seq(FlushNotes) /\ Len(Append(fs, f)) = n + 1 /\ Append(fs, f)[n + 1] = f /\ \A k \in 1..n : Append(fs, f)[k] = fs[k]
  BY <1>2
<1>4. SameCode(u[0], s) /\ SameCode(t, u[n]) /\ (\A k \in 1..n : NoteLeadsBack(fs[k], u[k], u[k - 1])) /\ u \in [0..n -> Seq(Contracts)]
  BY <1>1
<1> HIDE DEF n
<1>5. x \in [0..(n + 1) -> Seq(Contracts)] /\ x[n + 1] = w /\ (\A k \in 0..n : x[k] = u[k]) /\ 0 \in 0..n
  BY <1>2, <1>4
<1> HIDE DEF x
<1>6. NoteLeadsBack(f, w, u[n])
  BY <1>4 DEF NoteLeadsBack, SameCode, SameContract
<1>7. ASSUME NEW k \in 1..(n + 1) PROVE NoteLeadsBack(Append(fs, f)[k], x[k], x[k - 1])
  <2>1. CASE k = n + 1
    <3>1. k - 1 = n /\ n \in 0..n
      BY <1>2, <2>1
    <3> QED
      BY <1>3, <1>5, <1>6, <2>1, <3>1
  <2>2. CASE k # n + 1
    <3>1. k \in 1..n /\ k \in 0..n /\ k - 1 \in 0..n
      BY <1>2, <2>2
    <3> QED
      BY <1>3, <1>4, <1>5, <3>1
  <2> QED
    BY <2>1, <2>2
<1>8. SameCode(x[0], s) /\ SameCode(w, x[n + 1])
  BY <1>4, <1>5, SameAsItself
<1> QED
  BY <1>3, <1>5, <1>7, <1>8 DEF Noted

\* What a step of a transaction has to show.
LEMMA PlayedKeepsContractInv ==
  ASSUME ContractInv, NEW d, NEW v, NEW fs, C!Played(d, v, fs), Recorded(d), Len(db.log) < Len(d.log), db.ecos \subseteq d.ecos,
         ~dirty => Shows(v, d.rows),
         ~dirty /\ db.ecos = d.ecos /\ Noted(flush, sp.rows, db.rows) => Noted(fs, sp.rows, d.rows)
  PROVE  ContractInv'
<1>1. mode = "block" /\ db' = d /\ vm' = v /\ flush' = fs /\ saved' = saved /\ sp' = sp /\ mode' = mode /\ dirty' = dirty
  BY DEF C!Played
<1>2. dirty \in BOOLEAN /\ Recorded(saved) /\ InBlock
  BY <1>1 DEF ContractInv
<1>3. Recorded(sp) /\ Extends(sp, saved) /\ Extends(db, saved) /\ sp.ecos \subseteq db.ecos
  BY <1>2 DEF InBlock
<1>4. Len(db.log) \in Nat /\ Len(saved.log) \in Nat /\ Len(d.log) \in Nat
  BY <1>1, <1>2, RecordedIs DEF ContractInv
<1>5. Extends(d, saved)
  BY <1>3, <1>4 DEF Extends
<1>6. ~dirty /\ d.ecos = sp.ecos => Noted(fs, sp.rows, d.rows)
  <2> SUFFICES ASSUME ~dirty, d.ecos = sp.ecos PROVE Noted(fs, sp.rows, d.rows)
    OBVIOUS
  <2>1. db.ecos = sp.ecos /\ db.ecos = d.ecos
    BY <1>3
  <2> QED
    BY <1>2, <2>1 DEF InBlock
<1>7. InBlock'
  BY <1>1, <1>3, <1>5, <1>6 DEF InBlock, Recorded
<1> QED
  BY <1>1, <1>2, <1>7 DEF ContractInv, Recorded

LEMMA ConcatIs ==
  ASSUME NEW A, NEW s \in Seq(A), NEW t \in Seq(A)
  PROVE  /\ s \o t \in Seq(A) /\ Len(s \o t) = Len(s) + Len(t)
         /\ \A i \in 1..(Len(s) + Len(t)) : (s \o t)[i] = IF i <= Len(s) THEN s[i] ELSE t[i - Len(s)]
<1>1. s \o t \in Seq(A)
  OBVIOUS
<1>2. Len(s \o t) = Len(s) + Len(t)
  OBVIOUS
<1>3. \A i \in 1..(Len(s) + Len(t)) : (s \o t)[i] = IF i <= Len(s) THEN s[i] ELSE t[i - Len(s)]
  OBVIOUS
<1> QED
  BY <1>1, <1>2, <1>3

LEMMA OneMore ==
  ASSUME NEW A, NEW s \in Seq(A), NEW a \in A
  PROVE  /\ s \o <<a>> = Append(s, a) /\ Append(s, a) \in Seq(A) /\ Len(Append(s, a)) = Len(s) + 1
         /\ Append(s, a)[Len(s) + 1] = a /\ \A i \in 1..Len(s) : Append(s, a)[i] = s[i]
<1>1. Append(s, a) \in Seq(A) /\ Len(Append(s, a)) = Len(s) + 1 /\ Append(s, a)[Len(s) + 1] = a
  OBVIOUS
<1>2. \A i \in 1..Len(s) : Append(s, a)[i] = s[i]
  OBVIOUS
<1>3. s \o <<a>> = Append(s, a)
  OBVIOUS
<1> QED
  BY <1>1, <1>2, <1>3

LEMMA TwoMore ==
  ASSUME NEW A, NEW s \in Seq(A), NEW a \in A, NEW b \in A
  PROVE  s \o <<a, b>> = Append(Append(s, a), b)
<1>1. <<a, b>> \in Seq(A) /\ Len(<<a, b>>) = 2 /\ <<a, b>>[1] = a /\ <<a, b>>[2] = b
  OBVIOUS
<1> DEFINE t == <<a, b>>
           u == Append(s, a)
<1>2. Len(s) \in Nat /\ t \in Seq(A) /\ Len(t) = 2 /\ t[1] = a /\ t[2] = b
  BY <1>1
<1>3. u \in Seq(A) /\ Len(u) = Len(s) + 1 /\ u[Len(s) + 1] = a /\ \A i \in 1..Len(s) : u[i] = s[i]
  BY OneMore
<1>4. Append(u, b) \in Seq(A) /\ Len(Append(u, b)) = Len(s) + 2 /\ Append(u, b)[Len(s) + 2] = b /\ \A i \in 1..(Len(s) + 1) : Append(u, b)[i] = u[i]
  <2> HIDE DEF u
  <2>1. Len(u) \in Nat /\ Len(u) + 1 = Len(s) + 2
    BY <1>2, <1>3
  <2> QED
    BY <1>3, <2>1, OneMore
<1> HIDE DEF t, u
<1>5. s \o t \in Seq(A) /\ Len(s \o t) = Len(s) + 2
  <2>1. s \o t \in Seq(A) /\ Len(s \o t) = Len(s) + Len(t)
    BY <1>2, ConcatIs
  <2> QED
    BY <1>2, <2>1
<1>6. \A i \in 1..(Len(s) + 2) : (s \o t)[i] = IF i <= Len(s) THEN s[i] ELSE t[i - Len(s)]
  <2>1. \A i \in 1..(Len(s) + Len(t)) : (s \o t)[i] = IF i <= Len(s) THEN s[i] ELSE t[i - Len(s)]
    BY <1>2, ConcatIs
  <2> QED
    BY <1>2, <2>1
<1>7. ASSUME NEW i \in 1..(Len(s) + 2) PROVE (s \o t)[i] = Append(u, b)[i]
  <2>1. CASE i <= Len(s)
    <3>1. i \in 1..Len(s) /\ i \in 1..(Len(s) + 1)
      BY <1>2, <2>1
    <3> QED
      BY <1>3, <1>4, <1>6, <2>1, <3>1
  <2>2. CASE i = Len(s) + 1
    <3>1. ~(i <= Len(s)) /\ i - Len(s) = 1 /\ i \in 1..(Len(s) + 1)
      BY <1>2, <2>2
    <3> QED
      BY <1>2, <1>3, <1>4, <1>6, <2>2, <3>1
  <2>3. CASE i = Len(s) + 2
    <3>1. ~(i <= Len(s)) /\ i - Len(s) = 2
      BY <1>2, <2>3
    <3> QED
      BY <1>2, <1>4, <1>6, <2>3, <3>1
  <2>4. i <= Len(s) \/ i = Len(s) + 1 \/ i = Len(s) + 2
    BY <1>2
  <2> QED
    BY <2>1, <2>2, <2>3, <2>4
<1>8. s \o t = Append(u, b)
  BY <1>4, <1>5, <1>7, SameElements
<1> QED
  BY <1>8 DEF t, u

\* A change that leaves one record, and one that leaves two.  The contracts of the
\* last point are its rows.
LEMMA RecordedOne ==
  ASSUME NEW d, Recorded(d), NEW rec \in Records, NEW h \in Points, IsSound(h), h.code = h.rows,
         NEW g, g = [rows |-> d.rows, code |-> d.rows, ecos |-> d.ecos],
         CodeLeadsBack(rec, h, g), RowsLeadBack(rec, h, g),
         NEW c \in Databases, c.log = d.log \o <<rec>>, c.chain = d.chain, c.rows = h.rows, c.ecos = h.ecos
  PROVE  Recorded(c) /\ Len(d.log) < Len(c.log)
<1>1. PICK H : History(d, H) /\ H[Len(d.log)].code = d.rows
  BY DEF Recorded
<1>2. d.log \in Seq(Records) /\ Len(d.log) \in Nat /\ Len(d.log) \in 0..Len(d.log)
  BY RecordedIs
<1>3. H[Len(d.log)] \in Points /\ H[Len(d.log)].rows = d.rows /\ H[Len(d.log)].ecos = d.ecos
  BY <1>1, <1>2 DEF History
<1>4. H[Len(d.log)] = g
  BY <1>1, <1>3 DEF Points
<1>5. c.log = Append(d.log, rec) /\ Len(c.log) = Len(d.log) + 1
  BY <1>2, OneMore
<1>6. PICK G : History(c, G) /\ G[Len(c.log)] = h
  BY <1>1, <1>4, <1>5, AddRecord
<1> QED
  BY <1>2, <1>5, <1>6 DEF Recorded

LEMMA RecordedTwo ==
  ASSUME NEW d, Recorded(d), NEW rec \in Records, NEW bis \in Records,
         NEW i \in Points, IsSound(i), NEW h \in Points, IsSound(h), h.code = h.rows,
         NEW g, g = [rows |-> d.rows, code |-> d.rows, ecos |-> d.ecos],
         CodeLeadsBack(rec, i, g), RowsLeadBack(rec, i, g), CodeLeadsBack(bis, h, i), RowsLeadBack(bis, h, i),
         NEW c \in Databases, c.log = d.log \o <<rec, bis>>, c.chain = d.chain, c.rows = h.rows, c.ecos = h.ecos
  PROVE  Recorded(c) /\ Len(d.log) < Len(c.log)
<1>1. PICK H : History(d, H) /\ H[Len(d.log)].code = d.rows
  BY DEF Recorded
<1>2. d.log \in Seq(Records) /\ d.chain \in Seq(Nat) /\ Len(d.log) \in Nat /\ Len(d.log) \in 0..Len(d.log)
  BY RecordedIs
<1>3. H[Len(d.log)] \in Points /\ H[Len(d.log)].rows = d.rows /\ H[Len(d.log)].ecos = d.ecos
  BY <1>1, <1>2 DEF History
<1>4. H[Len(d.log)] = g
  BY <1>1, <1>3 DEF Points
<1> DEFINE b == [rows |-> i.rows, ecos |-> i.ecos, log |-> Append(d.log, rec), chain |-> d.chain]
<1>5. /\ c.log = Append(Append(d.log, rec), bis) /\ Append(d.log, rec) \in Seq(Records) /\ Len(Append(d.log, rec)) = Len(d.log) + 1
      /\ Len(c.log) = Len(Append(d.log, rec)) + 1
  BY <1>2, OneMore, TwoMore
<1>6. b \in Databases /\ b.log = Append(d.log, rec) /\ b.chain = d.chain /\ b.rows = i.rows /\ b.ecos = i.ecos
  BY <1>2, <1>5 DEF Databases, Points
<1> HIDE DEF b
<1>7. PICK G : History(b, G) /\ G[Len(b.log)] = i
  <2>1. CodeLeadsBack(rec, i, H[Len(d.log)]) /\ RowsLeadBack(rec, i, H[Len(d.log)])
    BY <1>4
  <2> QED
    BY <1>1, <1>6, <2>1, AddRecord
<1>8. c.log = Append(b.log, bis) /\ c.chain = b.chain
  BY <1>5, <1>6
<1>9. PICK F : History(c, F) /\ F[Len(c.log)] = h
  BY <1>7, <1>8, AddRecord
<1> QED
  BY <1>2, <1>5, <1>9 DEF Recorded

\* What is known while a transaction is played.
LEMMA InBlockIs ==
  ASSUME ContractInv, mode = "block"
  PROVE  /\ Recorded(db) /\ (~dirty => Shows(vm, db.rows)) /\ dirty \in BOOLEAN
         /\ db \in Databases /\ db.rows \in Seq(Contracts) /\ db.ecos \in SUBSET EcoIds /\ db.log \in Seq(Records)
         /\ db.chain \in Seq(Nat) /\ Len(db.rows) \in Nat /\ AreUnique(db.rows)
         /\ \A i \in 1..Len(db.rows) : db.rows[i] \in Contracts /\ db.rows[i].eco \in db.ecos
<1>1. Recorded(db) /\ (~dirty => Shows(vm, db.rows)) /\ dirty \in BOOLEAN
  BY DEF ContractInv
<1>2. /\ db \in Databases /\ db.rows \in Seq(Contracts) /\ db.ecos \in SUBSET EcoIds /\ db.log \in Seq(Records)
      /\ db.chain \in Seq(Nat) /\ AreUnique(db.rows)
      /\ \A i \in 1..Len(db.rows) : db.rows[i] \in Contracts /\ db.rows[i].eco \in db.ecos
  BY <1>1, RecordedIs
<1>3. Len(db.rows) \in Nat
  BY <1>2
<1> QED
  BY <1>1, <1>2, <1>3

\* A database with other rows and ecosystems, and records of it.
LEMMA LoggedIs ==
  ASSUME NEW d \in Databases, NEW recs
  PROVE  C!Logged(d, recs) = [rows |-> d.rows, ecos |-> d.ecos, log |-> d.log \o recs, chain |-> d.chain]
<1> DEFINE l == d.log \o recs
<1>1. C!Logged(d, recs) = [d EXCEPT !.log = l]
  BY DEF C!Logged
<1>2. d = [rows |-> d.rows, ecos |-> d.ecos, log |-> d.log, chain |-> d.chain]
  BY DEF Databases
<1> HIDE DEF l
<1>3. [d EXCEPT !.log = l] = [rows |-> d.rows, ecos |-> d.ecos, log |-> l, chain |-> d.chain]
  BY <1>2
<1> QED
  BY <1>1, <1>3 DEF l

LEMMA OtherRows ==
  ASSUME NEW d \in Databases, NEW s \in Seq(Contracts)
  PROVE  /\ [d EXCEPT !.rows = s] \in Databases /\ [d EXCEPT !.rows = s].rows = s /\ [d EXCEPT !.rows = s].ecos = d.ecos
         /\ [d EXCEPT !.rows = s].log = d.log /\ [d EXCEPT !.rows = s].chain = d.chain
BY DEF Databases

LEMMA LoggedType ==
  ASSUME NEW d \in Databases, NEW recs \in Seq(Records)
  PROVE  LET c == C!Logged(d, recs)
         IN  c \in Databases /\ c.rows = d.rows /\ c.ecos = d.ecos /\ c.log = d.log \o recs /\ c.chain = d.chain
<1>1. d.rows \in Seq(Contracts) /\ d.ecos \in SUBSET EcoIds /\ d.log \in Seq(Records) /\ d.chain \in Seq(Nat)
  BY DEF Databases
<1> DEFINE l == d.log \o recs
<1>2. l \in Seq(Records)
  BY <1>1, ConcatIs
<1>3. C!Logged(d, recs) = [rows |-> d.rows, ecos |-> d.ecos, log |-> l, chain |-> d.chain]
  BY LoggedIs
<1> HIDE DEF l
<1>4. LET c == [rows |-> d.rows, ecos |-> d.ecos, log |-> l, chain |-> d.chain]
      IN  c \in Databases /\ c.rows = d.rows /\ c.ecos = d.ecos /\ c.log = l /\ c.chain = d.chain
  BY <1>1, <1>2 DEF Databases
<1> QED
  BY <1>3, <1>4 DEF l

\* A row with a new name.
LEMMA NewRow ==
  ASSUME NEW s \in Seq(Contracts), AreUnique(s), NEW r \in Contracts,
         \A i \in 1..Len(s) : ~(s[i].eco = r.eco /\ s[i].name = r.name)
  PROVE  LET t == Append(s, r)
         IN  /\ t \in Seq(Contracts) /\ Len(t) = Len(s) + 1 /\ AreUnique(t) /\ t # <<>> /\ C!Last(t) = r /\ C!Front(t) = s
             /\ t[Len(t)] = r /\ \A i \in 1..Len(s) : t[i] = s[i]
<1> DEFINE t == Append(s, r)
<1> DEFINE n == Len(s)
<1>1. n \in Nat /\ t \in Seq(Contracts) /\ Len(t) = n + 1 /\ t[n + 1] = r /\ \A i \in 1..n : t[i] = s[i]
  BY OneMore
<1> HIDE DEF t
<1>2. /\ C!Front(t) \in Seq(Contracts) /\ Len(C!Front(t)) = n /\ \A i \in 1..n : C!Front(t)[i] = t[i]
  <2>1. Len(t) # 0 /\ Len(t) - 1 = n
    BY <1>1
  <2>2. /\ C!Front(t) \in Seq(Contracts) /\ Len(C!Front(t)) = Len(t) - 1
        /\ \A i \in 1..(Len(t) - 1) : C!Front(t)[i] = t[i]
    BY <1>1, <2>1, FrontOf
  <2> QED
    BY <2>1, <2>2
<1>3. C!Front(t) = s
  BY <1>1, <1>2, SameElements
<1>4. AreUnique(t)
  <2> SUFFICES ASSUME NEW i \in 1..(n + 1), NEW j \in 1..(n + 1), t[i].eco = t[j].eco, t[i].name = t[j].name
               PROVE  i = j
    BY <1>1 DEF AreUnique
  <2>1. CASE i = n + 1 /\ j # n + 1
    <3>1. j \in 1..n /\ t[j] = s[j] /\ t[i] = r
      BY <1>1, <2>1
    <3> QED
      BY <3>1
  <2>2. CASE i # n + 1 /\ j = n + 1
    <3>1. i \in 1..n /\ t[i] = s[i] /\ t[j] = r
      BY <1>1, <2>2
    <3> QED
      BY <3>1
  <2>3. CASE i # n + 1 /\ j # n + 1
    <3>1. i \in 1..n /\ j \in 1..n /\ t[i] = s[i] /\ t[j] = s[j]
      BY <1>1, <2>3
    <3> QED
      BY <3>1 DEF AreUnique
  <2> QED
    BY <2>1, <2>2, <2>3
<1>5. C!Last(t) = r /\ t # <<>>
  BY <1>1 DEF C!Last
<1> QED
  BY <1>1, <1>3, <1>4, <1>5 DEF t

\* A contract is created (CreateContract).
LEMMA CreateContractKeepsContractInv ==
  ASSUME ContractInv, NEW e \in Ecosystems \cup {1}, NEW n \in Names, NEW x \in Sources, C!CreateContract(e, n, x)
  PROVE  ContractInv'
<1> DEFINE s == db.rows
           id == Len(s) + 1
           r == [eco |-> e, name |-> n, src |-> x, wallet |-> 0]
           t == Append(s, r)
           c == C!Child(e, n, x, 0, id)
           rec == [type |-> "insert", id |-> id]
           bis == [type |-> "NewContract", eco |-> e, name |-> n]
           d == C!Logged([db EXCEPT !.rows = t], <<rec, bis>>)
           fs == Append(flush, C!FlushInfo(vm, c))
<1>1. /\ e \in db.ecos /\ C!PlaceOf(vm, e, n) = 0
      /\ \A i \in 1..Len(s) : ~(s[i].eco = e /\ s[i].name = n)
      /\ C!Played(d, C!FlushBlock(vm, c), fs)
  BY DEF C!CreateContract
<1>2. mode = "block"
  BY <1>1 DEF C!Played
<1>3. /\ Recorded(db) /\ (~dirty => Shows(vm, s)) /\ dirty \in BOOLEAN /\ db \in Databases /\ s \in Seq(Contracts)
      /\ db.ecos \in SUBSET EcoIds /\ db.log \in Seq(Records) /\ db.chain \in Seq(Nat) /\ Len(s) \in Nat /\ AreUnique(s)
      /\ \A i \in 1..Len(s) : s[i] \in Contracts /\ s[i].eco \in db.ecos
  BY <1>2, InBlockIs
<1>4. r \in Contracts /\ r.eco = e /\ r.name = n /\ r.src = x
  BY ContractIs DEF EcoIds, SourceTexts
<1>5. rec \in Records /\ bis \in Records /\ rec.type = "insert" /\ bis.type = "NewContract" /\ bis.eco = e /\ bis.name = n
  BY <1>3 DEF Records, EcoIds
<1>6. c \in Children /\ SameContract(c, r) /\ c.id = Len(s) + 1 /\ c.eco = e /\ c.name = n
  <2>1. r.wallet = 0 /\ id \in Nat
    BY <1>3
  <2> QED
    BY <1>4, <2>1, ChildIs DEF SameContract
<1>7. \A i \in 1..Len(s) : ~(s[i].eco = r.eco /\ s[i].name = r.name)
  BY <1>1, <1>4
<1> HIDE DEF r, c, rec, bis, id
<1>8. /\ t \in Seq(Contracts) /\ Len(t) = Len(s) + 1 /\ AreUnique(t) /\ t # <<>> /\ C!Last(t) = r /\ C!Front(t) = s
      /\ t[Len(t)] = r /\ \A i \in 1..Len(s) : t[i] = s[i]
  <2>1. s \in Seq(Contracts) /\ AreUnique(s)
    BY <1>3
  <2> HIDE DEF s
  <2> QED
    BY <1>4, <1>7, <2>1, NewRow
<1>9. \A i \in 1..Len(t) : t[i].eco \in db.ecos
  BY <1>1, <1>3, <1>4, <1>8
<1>10. d \in Databases /\ d.rows = t /\ d.ecos = db.ecos /\ d.log = db.log \o <<rec, bis>> /\ d.chain = db.chain
  <2> DEFINE b == [db EXCEPT !.rows = t]
  <2>1. <<rec, bis>> \in Seq(Records)
    BY <1>5
  <2>2. b \in Databases /\ b.rows = t /\ b.ecos = db.ecos /\ b.log = db.log /\ b.chain = db.chain
    <3> HIDE DEF t
    <3> QED
      BY <1>3, <1>8, OtherRows
  <2> HIDE DEF b
  <2>3. LET q == C!Logged(b, <<rec, bis>>)
        IN  q \in Databases /\ q.rows = b.rows /\ q.ecos = b.ecos /\ q.log = b.log \o <<rec, bis>> /\ q.chain = b.chain
    BY <2>1, <2>2, LoggedType
  <2> QED
    BY <2>2, <2>3 DEF b
<1> HIDE DEF t, d
<1>11. Recorded(d) /\ Len(db.log) < Len(d.log)
  <2> DEFINE g == [rows |-> s, code |-> s, ecos |-> db.ecos]
             i == [rows |-> t, code |-> s, ecos |-> db.ecos]
             h == [rows |-> t, code |-> t, ecos |-> db.ecos]
  <2>1. i \in Points /\ h \in Points /\ IsSound(i) /\ IsSound(h) /\ h.code = h.rows /\ d.rows = h.rows /\ d.ecos = h.ecos
    BY <1>3, <1>8, <1>9, <1>10 DEF Points, IsSound
  <2>2. CodeLeadsBack(rec, i, g) /\ RowsLeadBack(rec, i, g)
    BY <1>5, <1>8, SameAsItself DEF CodeLeadsBack, RowsLeadBack
  <2>3. LastIsNew(h, i, e) /\ C!Last(h.code).name = n
    BY <1>4, <1>8, SameAsItself DEF LastIsNew
  <2>4. CodeLeadsBack(bis, h, i) /\ RowsLeadBack(bis, h, i)
    BY <1>5, <2>3 DEF CodeLeadsBack, RowsLeadBack
  <2> HIDE DEF i, h
  <2> QED
    BY <1>3, <1>5, <1>10, <2>1, <2>2, <2>4, RecordedTwo
<1>12. ~dirty => Shows(C!FlushBlock(vm, c), t)
  <2> HIDE DEF s
  <2> QED
    BY <1>3, <1>4, <1>6, <1>7, FlushNew DEF t
<1>13. ASSUME ~dirty, Noted(flush, sp.rows, s) PROVE Noted(fs, sp.rows, t)
  <2> DEFINE f == C!FlushInfo(vm, c)
  <2>1. f = [place |-> Len(vm) + 1, new |-> TRUE, prev |-> c]
    BY <1>1, <1>6 DEF C!FlushInfo
  <2>2. Len(vm) = Len(s)
    BY <1>3, <1>13 DEF Shows
  <2>3. f \in FlushNotes /\ f.new /\ f.place = Len(t)
    BY <1>3, <1>6, <1>8, <2>1, <2>2 DEF FlushNotes
  <2>4. NoteLeadsBack(f, t, s)
    BY <1>8, <2>3 DEF NoteLeadsBack, SameContract
  <2> HIDE DEF f
  <2>5. Noted(Append(flush, f), sp.rows, t)
    BY <1>8, <1>13, <2>3, <2>4, NotedMore
  <2> QED
    BY <2>5 DEF f
<1> HIDE DEF fs
<1> QED
  BY <1>1, <1>10, <1>11, <1>12, <1>13, PlayedKeepsContractInv

\* A row with another text or wallet.
LEMMA OtherRow ==
  ASSUME NEW s \in Seq(Contracts), AreUnique(s), NEW k \in 1..Len(s), NEW r \in Contracts, r.eco = s[k].eco, r.name = s[k].name
  PROVE  LET t == [s EXCEPT ![k] = r]
         IN  /\ t \in Seq(Contracts) /\ Len(t) = Len(s) /\ t[k] = r /\ AreUnique(t)
             /\ \A i \in 1..Len(s) : t[i].eco = s[i].eco /\ t[i].name = s[i].name /\ (i # k => t[i] = s[i])
<1> DEFINE t == [s EXCEPT ![k] = r]
<1>1. t \in Seq(Contracts) /\ Len(t) = Len(s) /\ t[k] = r /\ \A i \in 1..Len(s) : i # k => t[i] = s[i]
  OBVIOUS
<1> HIDE DEF t
<1>3. \A i \in 1..Len(s) : t[i].eco = s[i].eco /\ t[i].name = s[i].name
  BY <1>1
<1>4. AreUnique(t)
  BY <1>1, <1>3 DEF AreUnique
<1> QED
  BY <1>1, <1>3, <1>4 DEF t

LEMMA OldRowBack ==
  ASSUME NEW s \in Seq(Contracts), NEW k \in 1..Len(s), NEW t \in Seq(Contracts), Len(t) = Len(s),
         \A i \in 1..Len(s) : i # k => t[i] = s[i]
  PROVE  [t EXCEPT ![k] = s[k]] = s
<1> DEFINE u == [t EXCEPT ![k] = s[k]]
<1>1. s[k] \in Contracts
  OBVIOUS
<1>2. u \in Seq(Contracts) /\ Len(u) = Len(s) /\ \A i \in 1..Len(s) : u[i] = IF i = k THEN s[k] ELSE t[i]
  BY <1>1
<1> HIDE DEF u
<1>3. \A i \in 1..Len(u) : u[i] = s[i]
  BY <1>2
<1>4. u = s
  BY <1>2, <1>3, SameElements
<1> QED
  BY <1>4 DEF u

\* A database that is logged with two records for an edit.
LEMMA EditedIs ==
  ASSUME ContractInv, mode = "block", NEW k \in 1..Len(db.rows), NEW r \in Contracts,
         r.eco = db.rows[k].eco, r.name = db.rows[k].name,
         NEW t, t = [db.rows EXCEPT ![k] = r], NEW b, b \in Databases, b.rows = t, b.ecos = db.ecos, b.log = db.log, b.chain = db.chain,
         NEW d, d = C!Logged(b, C!EditRecords(db.rows[k].eco, k))
  PROVE  Recorded(d) /\ Len(db.log) < Len(d.log) /\ d.rows = t /\ d.ecos = db.ecos
<1> DEFINE s == db.rows
           e == s[k].eco
           rec == [type |-> "EditContract", eco |-> e, id |-> k]
           bis == [type |-> "update", id |-> k, old |-> s[k]]
<1>1. C!EditRecords(e, k) = <<rec, bis>>
  BY DEF C!EditRecords
<1>2. /\ Recorded(db) /\ db \in Databases /\ s \in Seq(Contracts)
      /\ db.ecos \in SUBSET EcoIds /\ db.log \in Seq(Records) /\ db.chain \in Seq(Nat) /\ Len(s) \in Nat /\ AreUnique(s)
      /\ \A i \in 1..Len(s) : s[i] \in Contracts /\ s[i].eco \in db.ecos
  BY InBlockIs
<1>3. s[k] \in Contracts /\ e \in EcoIds /\ k \in Nat
  BY <1>2
<1>4. /\ rec \in Records /\ bis \in Records /\ rec.type = "EditContract" /\ rec.eco = e /\ rec.id = k
      /\ bis.type = "update" /\ bis.id = k /\ bis.old = s[k]
  BY <1>3 DEF Records
<1>5. k \in 1..Len(s) /\ r.eco = s[k].eco /\ r.name = s[k].name /\ t = [s EXCEPT ![k] = r]
  OBVIOUS
<1> HIDE DEF s, rec, bis
<1>6. /\ t \in Seq(Contracts) /\ Len(t) = Len(s) /\ t[k] = r /\ AreUnique(t) /\ [t EXCEPT ![k] = s[k]] = s
      /\ \A i \in 1..Len(s) : t[i].eco = s[i].eco /\ t[i].name = s[i].name /\ (i # k => t[i] = s[i])
  <2> DEFINE w == [s EXCEPT ![k] = r]
  <2>1. /\ w \in Seq(Contracts) /\ Len(w) = Len(s) /\ w[k] = r /\ AreUnique(w)
        /\ \A i \in 1..Len(s) : w[i].eco = s[i].eco /\ w[i].name = s[i].name /\ (i # k => w[i] = s[i])
    <3>1. s \in Seq(Contracts) /\ AreUnique(s) /\ k \in 1..Len(s) /\ r.eco = s[k].eco /\ r.name = s[k].name
      BY <1>2, <1>5
    <3> QED
      BY <3>1, OtherRow
  <2>2. t = w
    BY <1>5
  <2> HIDE DEF w
  <2>3. [t EXCEPT ![k] = s[k]] = s
    BY <1>2, <1>5, <2>1, <2>2, OldRowBack
  <2> QED
    BY <2>1, <2>2, <2>3
<1>7. d \in Databases /\ d.rows = t /\ d.ecos = db.ecos /\ d.log = db.log \o <<rec, bis>> /\ d.chain = db.chain
  <2>1. <<rec, bis>> \in Seq(Records)
    BY <1>4
  <2>2. LET q == C!Logged(b, <<rec, bis>>)
        IN  q \in Databases /\ q.rows = b.rows /\ q.ecos = b.ecos /\ q.log = b.log \o <<rec, bis>> /\ q.chain = b.chain
    BY <2>1, LoggedType
  <2>3. d = C!Logged(b, <<rec, bis>>)
    BY <1>1 DEF s
  <2> QED
    BY <2>2, <2>3
<1> DEFINE g == [rows |-> s, code |-> s, ecos |-> db.ecos]
           i == [rows |-> s, code |-> t, ecos |-> db.ecos]
           h == [rows |-> t, code |-> t, ecos |-> db.ecos]
<1>8. i \in Points /\ h \in Points /\ h.code = h.rows /\ d.rows = h.rows /\ d.ecos = h.ecos
  BY <1>2, <1>6, <1>7 DEF Points
<1>9. IsSound(i) /\ IsSound(h)
  BY <1>2, <1>6 DEF IsSound
<1>10. CodeLeadsBack(rec, i, g)
  <2>1. \A j \in 1..Len(s) : j # k => SameContract(t[j], s[j])
    BY <1>6 DEF SameContract
  <2> QED
    BY <1>4, <1>5, <1>6, <2>1 DEF CodeLeadsBack
<1>11. RowsLeadBack(rec, i, g)
  BY <1>4 DEF RowsLeadBack
<1>12. CodeLeadsBack(bis, h, i) /\ RowsLeadBack(bis, h, i)
  BY <1>4, <1>6, SameAsItself DEF CodeLeadsBack, RowsLeadBack
<1> HIDE DEF i, h
<1>13. Recorded(d) /\ Len(db.log) < Len(d.log)
  <2>1. Recorded(db) /\ rec \in Records /\ bis \in Records
    BY <1>2, <1>4
  <2>2. g = [rows |-> db.rows, code |-> db.rows, ecos |-> db.ecos]
    BY DEF s
  <2>3. d \in Databases /\ d.log = db.log \o <<rec, bis>> /\ d.chain = db.chain
    BY <1>7
  <2> HIDE DEF g
  <2> QED
    BY <1>8, <1>9, <1>10, <1>11, <1>12, <2>1, <2>2, <2>3, RecordedTwo
<1> QED
  BY <1>7, <1>13

\* A contract gets a new text (UpdateContract).
LEMMA UpdateContractKeepsContractInv ==
  ASSUME ContractInv, NEW k \in 1..Len(db.rows), NEW x \in Sources, C!UpdateContract(k, x)
  PROVE  ContractInv'
<1> DEFINE s == db.rows
           r == [s[k] EXCEPT !.src = x]
           t == [s EXCEPT ![k] = r]
           b == [db EXCEPT !.rows = t]
           c == C!Child(s[k].eco, s[k].name, x, s[k].wallet, k)
           d == C!Logged(b, C!EditRecords(s[k].eco, k))
           fs == Append(flush, C!FlushInfo(vm, c))
<1>1. mode = "block"
  BY DEF C!UpdateContract, C!Played
<1>2. /\ Recorded(db) /\ (~dirty => Shows(vm, s)) /\ dirty \in BOOLEAN /\ db \in Databases /\ s \in Seq(Contracts)
      /\ Len(s) \in Nat /\ AreUnique(s) /\ s[k] \in Contracts
  BY <1>1, InBlockIs
<1>3. C!Played(d, C!FlushBlock(vm, c), fs)
  <2>1. [db EXCEPT !.rows[k].src = x] = b
    BY <1>2
  <2> QED
    BY <2>1, Zenon DEF C!UpdateContract
<1>4. r \in Contracts /\ r.eco = s[k].eco /\ r.name = s[k].name /\ r.src = x /\ r.wallet = s[k].wallet
  BY <1>2 DEF Contracts, SourceTexts
<1>5. c \in Children /\ SameContract(c, r) /\ c.id = k /\ c.eco = s[k].eco /\ c.name = s[k].name
  <2>1. k \in Nat
    BY <1>2
  <2> HIDE DEF r
  <2>2. C!Child(r.eco, r.name, r.src, r.wallet, k) = c
    BY <1>4
  <2> QED
    BY <1>4, <2>1, <2>2, ChildIs DEF SameContract
<1> HIDE DEF r, c
<1>6. /\ t \in Seq(Contracts) /\ Len(t) = Len(s) /\ t[k] = r /\ AreUnique(t)
      /\ \A i \in 1..Len(s) : t[i].eco = s[i].eco /\ t[i].name = s[i].name /\ (i # k => t[i] = s[i])
  BY <1>2, <1>4, OtherRow
<1>7. t = [db.rows EXCEPT ![k] = r]
  OBVIOUS
<1> HIDE DEF t
<1>8. b \in Databases /\ b.rows = t /\ b.ecos = db.ecos /\ b.log = db.log /\ b.chain = db.chain
  BY <1>2, <1>6, OtherRows
<1>9. d = C!Logged(b, C!EditRecords(db.rows[k].eco, k)) /\ r.eco = db.rows[k].eco /\ r.name = db.rows[k].name
  BY <1>4
<1> HIDE DEF b, d
<1>10. Recorded(d) /\ Len(db.log) < Len(d.log) /\ d.rows = t /\ d.ecos = db.ecos
  BY <1>1, <1>4, <1>7, <1>8, <1>9, EditedIs
<1>11. Replaces(c, k, s, t)
  BY <1>5, <1>6 DEF Replaces, SameContract
<1>12. ~dirty => C!PlaceOf(vm, c.eco, c.name) = k /\ Shows(C!FlushBlock(vm, c), t)
  <2>1. k \in 1..Len(s)
    OBVIOUS
  <2> HIDE DEF s
  <2> QED
    BY <1>2, <1>5, <1>11, <2>1, FlushOld
<1>13. ASSUME ~dirty, Noted(flush, sp.rows, s) PROVE Noted(fs, sp.rows, t)
  <2> DEFINE f == C!FlushInfo(vm, c)
  <2>1. k # 0 /\ k \in Nat
    BY <1>2
  <2>2. f = [place |-> k, new |-> FALSE, prev |-> vm[k]]
    BY <1>12, <1>13, <2>1 DEF C!FlushInfo
  <2>3. vm[k] \in Children /\ vm[k].id = k /\ SameContract(vm[k], s[k])
    <3>1. Shows(vm, s) /\ k \in 1..Len(s)
      BY <1>2, <1>13
    <3> HIDE DEF s
    <3> QED
      BY <3>1 DEF Shows
  <2>4. f \in FlushNotes /\ ~f.new /\ f.place = k /\ f.prev = vm[k]
    BY <2>1, <2>2, <2>3 DEF FlushNotes
  <2>5. NoteLeadsBack(f, t, s)
    BY <1>6, <2>3, <2>4 DEF NoteLeadsBack, SameContract
  <2> HIDE DEF f
  <2>6. Noted(Append(flush, f), sp.rows, t)
    BY <1>6, <1>13, <2>4, <2>5, NotedMore
  <2> QED
    BY <2>6 DEF f
<1> HIDE DEF fs
<1> QED
  BY <1>3, <1>10, <1>12, <1>13, PlayedKeepsContractInv

\* New conditions only: the records of an edit, and nothing changes.
LEMMA UpdateConditionsKeepsContractInv ==
  ASSUME ContractInv, NEW k \in 1..Len(db.rows), C!UpdateConditions(k)
  PROVE  ContractInv'
<1> DEFINE s == db.rows
           d == C!Logged(db, C!EditRecords(s[k].eco, k))
<1>1. C!Played(d, vm, flush)
  BY DEF C!UpdateConditions
<1>2. mode = "block"
  BY <1>1 DEF C!Played
<1>3. (~dirty => Shows(vm, s)) /\ db \in Databases /\ s \in Seq(Contracts) /\ s[k] \in Contracts
  BY <1>2, InBlockIs
<1>4. [db.rows EXCEPT ![k] = s[k]] = db.rows
  BY <1>3
<1> HIDE DEF d
<1>5. Recorded(d) /\ Len(db.log) < Len(d.log) /\ d.rows = db.rows /\ d.ecos = db.ecos
  BY <1>2, <1>3, <1>4, EditedIs DEF d
<1> QED
  BY <1>1, <1>3, <1>5, PlayedKeepsContractInv

\* A contract is bound to a wallet (BndWallet, UnbndWallet): every child keeps its
\* code and its id.
LEMMA SetWalletShows ==
  ASSUME NEW s, NEW v, Shows(v, s), NEW k, NEW e, NEW w \in Wallets \cup {0}
  PROVE  Shows(C!SetWallet(v, k, e, w), s)
<1> DEFINE u == C!SetWallet(v, k, e, w)
<1>1. v \in Seq(Children) /\ Len(v) = Len(s) /\ Len(v) \in Nat /\ \A i \in 1..Len(v) : SameContract(v[i], s[i]) /\ v[i].id = i
  BY DEF Shows
<1>2. ASSUME NEW c \in Children
      PROVE  LET b == [c EXCEPT !.wallet = w] IN b \in Children /\ SameContract(b, c) /\ b.id = c.id
  BY DEF Children, SameContract
<1>3. u = [i \in 1..Len(v) |-> IF v[i].id = k /\ v[i].eco = e THEN [v[i] EXCEPT !.wallet = w] ELSE v[i]]
  BY DEF C!SetWallet
<1>4. \A i \in 1..Len(v) : v[i] \in Children
  BY <1>1
<1>5. \A i \in 1..Len(v) : u[i] \in Children /\ SameContract(u[i], v[i]) /\ u[i].id = v[i].id
  <2> SUFFICES ASSUME NEW i \in 1..Len(v) PROVE u[i] \in Children /\ SameContract(u[i], v[i]) /\ u[i].id = v[i].id
    OBVIOUS
  <2>1. u[i] = [v[i] EXCEPT !.wallet = w] \/ u[i] = v[i]
    BY <1>3
  <2>2. v[i] \in Children /\ SameContract(v[i], v[i])
    BY <1>4 DEF SameContract
  <2>3. LET b == [v[i] EXCEPT !.wallet = w] IN b \in Children /\ SameContract(b, v[i]) /\ b.id = v[i].id
    BY <1>2, <2>2
  <2> HIDE DEF u
  <2> QED
    BY <2>1, <2>2, <2>3
<1>6. u \in Seq(Children) /\ Len(u) = Len(v)
  <2>1. u \in [1..Len(v) -> Children]
    <3>1. u = [i \in 1..Len(v) |-> u[i]]
      BY <1>3
    <3> HIDE DEF u
    <3> QED
      BY <1>5, <3>1
  <2> HIDE DEF u
  <2> QED
    BY <1>1, <2>1
<1> HIDE DEF u
<1>7. Shows(u, s)
  BY <1>1, <1>5, <1>6 DEF Shows, SameContract
<1> QED
  BY <1>7 DEF u

LEMMA BindWalletKeepsContractInv ==
  ASSUME ContractInv, NEW k \in 1..Len(db.rows), NEW w \in Wallets, C!BindWallet(k, w)
  PROVE  ContractInv'
<1> DEFINE s == db.rows
           r == [s[k] EXCEPT !.wallet = w]
           t == [s EXCEPT ![k] = r]
           b == [db EXCEPT !.rows = t]
           rec == [type |-> "update", id |-> k, old |-> s[k]]
           d == C!Logged(b, <<rec>>)
           v == C!SetWallet(vm, k, s[k].eco, w)
<1>1. mode = "block"
  BY DEF C!BindWallet, C!Played
<1>2. /\ Recorded(db) /\ (~dirty => Shows(vm, s)) /\ dirty \in BOOLEAN /\ db \in Databases /\ s \in Seq(Contracts)
      /\ db.ecos \in SUBSET EcoIds /\ Len(s) \in Nat /\ AreUnique(s) /\ s[k] \in Contracts
      /\ \A i \in 1..Len(s) : s[i] \in Contracts /\ s[i].eco \in db.ecos
  BY <1>1, InBlockIs
<1>3. C!Played(d, v, flush)
  <2>1. [db EXCEPT !.rows[k].wallet = w] = b
    BY <1>2
  <2> QED
    BY <2>1, Zenon DEF C!BindWallet
<1>4. r \in Contracts /\ r.eco = s[k].eco /\ r.name = s[k].name /\ r.src = s[k].src /\ k \in Nat
  BY <1>2 DEF Contracts
<1>5. rec \in Records /\ rec.type = "update" /\ rec.id = k /\ rec.old = s[k]
  BY <1>2, <1>4 DEF Records
<1> HIDE DEF r, rec
<1>6. /\ t \in Seq(Contracts) /\ Len(t) = Len(s) /\ t[k] = r /\ AreUnique(t)
      /\ \A i \in 1..Len(s) : t[i].eco = s[i].eco /\ t[i].name = s[i].name /\ (i # k => t[i] = s[i])
  BY <1>2, <1>4, OtherRow
<1> HIDE DEF t
<1>7. [t EXCEPT ![k] = s[k]] = s
  BY <1>2, <1>6, OldRowBack
<1>8. SameCode(t, s)
  BY <1>4, <1>6 DEF SameCode, SameContract
<1>9. b \in Databases /\ b.rows = t /\ b.ecos = db.ecos /\ b.log = db.log /\ b.chain = db.chain
  BY <1>2, <1>6, OtherRows
<1> HIDE DEF b
<1>10. d \in Databases /\ d.rows = t /\ d.ecos = db.ecos /\ d.log = db.log \o <<rec>> /\ d.chain = db.chain
  <2>1. <<rec>> \in Seq(Records)
    BY <1>5
  <2>2. LET q == C!Logged(b, <<rec>>)
        IN  q \in Databases /\ q.rows = b.rows /\ q.ecos = b.ecos /\ q.log = b.log \o <<rec>> /\ q.chain = b.chain
    BY <1>9, <2>1, LoggedType
  <2> QED
    BY <1>9, <2>2
<1> HIDE DEF d
<1>11. Recorded(d) /\ Len(db.log) < Len(d.log)
  <2> DEFINE g == [rows |-> s, code |-> s, ecos |-> db.ecos]
             h == [rows |-> t, code |-> t, ecos |-> db.ecos]
  <2>1. h \in Points /\ IsSound(h) /\ h.code = h.rows /\ d.rows = h.rows /\ d.ecos = h.ecos
    BY <1>2, <1>6, <1>10 DEF Points, IsSound
  <2>2. CodeLeadsBack(rec, h, g) /\ RowsLeadBack(rec, h, g)
    BY <1>5, <1>7, <1>8 DEF CodeLeadsBack, RowsLeadBack
  <2>3. Recorded(db) /\ g = [rows |-> db.rows, code |-> db.rows, ecos |-> db.ecos]
    BY <1>2
  <2> HIDE DEF g, h
  <2> QED
    BY <1>5, <1>10, <2>1, <2>2, <2>3, RecordedOne
<1>12. ~dirty => Shows(v, t)
  <2> SUFFICES ASSUME ~dirty PROVE Shows(v, t)
    OBVIOUS
  <2>1. Shows(v, s)
    BY <1>2, SetWalletShows
  <2>2. SameCode(s, t)
    BY <1>8 DEF SameCode, SameContract
  <2> HIDE DEF v
  <2> QED
    BY <2>1, <2>2, ShowsSame
<1>13. Noted(flush, sp.rows, s) => Noted(flush, sp.rows, t)
  BY <1>8, NotedSame
<1> HIDE DEF v
<1> QED
  BY <1>3, <1>10, <1>11, <1>12, <1>13, PlayedKeepsContractInv

\* An ecosystem is created: a row of a new ecosystem, compiled at the end.
LEMMA CreateEcosystemKeepsContractInv ==
  ASSUME ContractInv, NEW e \in Ecosystems, C!CreateEcosystem(e)
  PROVE  ContractInv'
<1> DEFINE s == db.rows
           x == CHOOSE q \in Sources : TRUE
           r == [eco |-> e, name |-> C!Main, src |-> x, wallet |-> 0]
           t == Append(s, r)
           E == db.ecos \cup {e}
           b == [db EXCEPT !.rows = t, !.ecos = E]
           rec == [type |-> "NewEcosystem", eco |-> e]
           d == C!Logged(b, <<rec>>)
           c == C!Child(r.eco, r.name, r.src, r.wallet, Len(s) + 1)
           v == C!Load(vm, t, Len(t))
<1>1. mode = "block" /\ e \notin db.ecos
  BY DEF C!CreateEcosystem, C!Played
<1>2. /\ Recorded(db) /\ (~dirty => Shows(vm, s)) /\ dirty \in BOOLEAN /\ db \in Databases /\ s \in Seq(Contracts)
      /\ db.ecos \in SUBSET EcoIds /\ Len(s) \in Nat /\ AreUnique(s)
      /\ \A i \in 1..Len(s) : s[i] \in Contracts /\ s[i].eco \in db.ecos
  BY <1>1, InBlockIs
<1>3. r \in Contracts /\ r.eco = e /\ r.name = C!Main /\ E \in SUBSET EcoIds
  BY <1>2 DEF EcoIds, SourceTexts, Contracts
<1>4. rec \in Records /\ rec.type = "NewEcosystem" /\ rec.eco = e
  BY DEF Records, EcoIds
<1>5. \A i \in 1..Len(s) : s[i].eco # r.eco
  BY <1>1, <1>2, <1>3
<1>6. b.rows = t
  BY <1>2 DEF Databases
<1>7. C!Played(d, v, flush)
  <2>1. C!Played(C!Logged(b, <<rec>>), C!Load(vm, b.rows, Len(b.rows)), flush)
    BY Zenon DEF C!CreateEcosystem
  <2> QED
    BY <1>6, <2>1
<1> HIDE DEF r, rec
<1>8. /\ t \in Seq(Contracts) /\ Len(t) = Len(s) + 1 /\ AreUnique(t) /\ t # <<>> /\ C!Last(t) = r /\ C!Front(t) = s
      /\ t[Len(t)] = r /\ \A i \in 1..Len(s) : t[i] = s[i]
  BY <1>2, <1>3, <1>5, NewRow
<1>9. C!DeleteEcosystem(t, e) = s
  BY <1>2, <1>3, <1>5, DeleteLast
<1>10. ~dirty => Shows(v, t)
  <2>1. v = C!FlushBlock(vm, c)
    BY <1>2, <1>3, LoadLast
  <2>2. c \in Children /\ SameContract(c, r) /\ c.id = Len(s) + 1
    BY <1>2, <1>3, ChildIs DEF SameContract
  <2>3. \A i \in 1..Len(s) : ~(s[i].eco = r.eco /\ s[i].name = r.name)
    BY <1>5
  <2> HIDE DEF c, s
  <2>4. ~dirty => C!FlushBlock(vm, c) = Append(vm, c) /\ Shows(Append(vm, c), Append(s, r))
    BY <1>2, <1>3, <2>2, <2>3, FlushNew
  <2> QED
    BY <2>1, <2>4
<1> HIDE DEF t, E, v
<1>11. b \in Databases /\ b.rows = t /\ b.ecos = E /\ b.log = db.log /\ b.chain = db.chain
  <2>1. LET q == [db EXCEPT !.rows = t, !.ecos = E]
        IN  q \in Databases /\ q.rows = t /\ q.ecos = E /\ q.log = db.log /\ q.chain = db.chain
    BY <1>2, <1>3, <1>8 DEF Databases
  <2> QED
    BY <2>1
<1> HIDE DEF b
<1>12. d \in Databases /\ d.rows = t /\ d.ecos = E /\ d.log = db.log \o <<rec>> /\ d.chain = db.chain
  <2>1. <<rec>> \in Seq(Records)
    BY <1>4
  <2>2. LET q == C!Logged(b, <<rec>>)
        IN  q \in Databases /\ q.rows = b.rows /\ q.ecos = b.ecos /\ q.log = b.log \o <<rec>> /\ q.chain = b.chain
    BY <1>11, <2>1, LoggedType
  <2> QED
    BY <1>11, <2>2
<1> HIDE DEF d
<1>13. E \ {e} = db.ecos /\ e \in E /\ db.ecos \subseteq E
  BY <1>1 DEF E
<1>14. Recorded(d) /\ Len(db.log) < Len(d.log)
  <2> DEFINE g == [rows |-> s, code |-> s, ecos |-> db.ecos]
             h == [rows |-> t, code |-> t, ecos |-> E]
  <2>0. \A i \in 1..Len(t) : t[i].eco \in E
    BY <1>2, <1>3, <1>8, <1>13
  <2>1. h \in Points /\ IsSound(h) /\ h.code = h.rows /\ d.rows = h.rows /\ d.ecos = h.ecos
    BY <1>3, <1>8, <1>12, <2>0 DEF Points, IsSound
  <2>2. LastIsNew(h, g, e)
    BY <1>3, <1>8, SameAsItself DEF LastIsNew
  <2>3. CodeLeadsBack(rec, h, g) /\ RowsLeadBack(rec, h, g)
    BY <1>1, <1>4, <1>9, <1>13, <2>2 DEF CodeLeadsBack, RowsLeadBack
  <2>4. Recorded(db) /\ g = [rows |-> db.rows, code |-> db.rows, ecos |-> db.ecos]
    BY <1>2
  <2> HIDE DEF g, h
  <2> QED
    BY <1>4, <1>12, <2>1, <2>3, <2>4, RecordedOne
<1>15. db.ecos # d.ecos /\ db.ecos \subseteq d.ecos
  BY <1>1, <1>12, <1>13
<1> QED
  BY <1>7, <1>10, <1>12, <1>14, <1>15, PlayedKeepsContractInv

\* The chain gets a block, and loses its last one.
LEMMA ChainExtended ==
  ASSUME NEW d, Recorded(d), NEW c, c = [d EXCEPT !.chain = Append(@, Len(d.log))]
  PROVE  Recorded(c) /\ c.rows = d.rows /\ c.ecos = d.ecos /\ c.log = d.log
<1> DEFINE n == Len(d.log)
           q == d.chain
           a == Append(q, n)
<1>1. PICK H : History(d, H) /\ H[n].code = d.rows
  BY DEF Recorded
<1>2. d \in Databases /\ n \in Nat /\ q \in Seq(Nat)
  BY RecordedIs
<1>3. a \in Seq(Nat) /\ Len(a) = Len(q) + 1 /\ Len(q) \in Nat /\ a[Len(q) + 1] = n /\ \A i \in 1..Len(q) : a[i] = q[i]
  BY <1>2, OneMore
<1>4. c = [d EXCEPT !.chain = a]
  OBVIOUS
<1> HIDE DEF a
<1>5. c \in Databases /\ c.rows = d.rows /\ c.ecos = d.ecos /\ c.log = d.log /\ c.chain = a
  BY <1>2, <1>3, <1>4 DEF Databases
<1>6. /\ H \in [0..n -> Points] /\ H[n].rows = d.rows /\ H[n].ecos = d.ecos
      /\ \A k \in 0..n : IsSound(H[k])
      /\ \A k \in 1..n : CodeLeadsBack(d.log[k], H[k], H[k - 1]) /\ RowsLeadBack(d.log[k], H[k], H[k - 1])
      /\ \A i \in 1..Len(q) : q[i] \in 0..n /\ H[q[i]].code = H[q[i]].rows
      /\ \A i \in 1..Len(q), e \in 1..Len(q) : i <= e => q[i] <= q[e]
  BY <1>1 DEF History
<1>7. ASSUME NEW i \in 1..Len(a) PROVE a[i] \in 0..n /\ H[a[i]].code = H[a[i]].rows
  <2>1. CASE i \in 1..Len(q)
    BY <1>3, <1>6, <2>1
  <2>2. CASE i = Len(q) + 1
    BY <1>1, <1>2, <1>3, <1>6, <2>2
  <2> QED
    BY <1>3, <2>1, <2>2
<1>8. ASSUME NEW i \in 1..Len(a), NEW e \in 1..Len(a), i <= e PROVE a[i] <= a[e]
  <2>1. CASE e \in 1..Len(q)
    <3>1. i \in 1..Len(q)
      BY <1>3, <1>8, <2>1
    <3> QED
      BY <1>3, <1>6, <1>8, <2>1, <3>1
  <2>2. CASE e = Len(q) + 1
    BY <1>2, <1>3, <1>7, <2>2
  <2> QED
    BY <1>3, <2>1, <2>2
<1> HIDE DEF q
<1>9. History(c, H)
  BY <1>5, <1>6, <1>7, <1>8 DEF History
<1> QED
  BY <1>1, <1>5, <1>9 DEF Recorded

LEMMA ChainCut ==
  ASSUME NEW d, NEW H, History(d, H), d.chain # <<>>, Len(d.log) = C!Last(d.chain),
         NEW c, c = [d EXCEPT !.chain = C!Front(@)]
  PROVE  Recorded(c) /\ c.rows = d.rows /\ H[Len(d.log)].code = c.rows
<1> DEFINE n == Len(d.log)
           q == d.chain
           a == C!Front(q)
<1>1. /\ d \in Databases /\ H \in [0..n -> Points] /\ H[n].rows = d.rows /\ H[n].ecos = d.ecos
      /\ \A k \in 0..n : IsSound(H[k])
      /\ \A k \in 1..n : CodeLeadsBack(d.log[k], H[k], H[k - 1]) /\ RowsLeadBack(d.log[k], H[k], H[k - 1])
      /\ \A i \in 1..Len(q) : q[i] \in 0..n /\ H[q[i]].code = H[q[i]].rows
      /\ \A i \in 1..Len(q), e \in 1..Len(q) : i <= e => q[i] <= q[e]
  BY DEF History
<1>2. q \in Seq(Nat) /\ d.log \in Seq(Records) /\ n \in Nat
  BY <1>1 DEF Databases
<1>3. Len(q) \in Nat /\ Len(q) # 0 /\ q[Len(q)] = n
  BY <1>2 DEF C!Last
<1>4. a \in Seq(Nat) /\ Len(a) = Len(q) - 1 /\ \A i \in 1..(Len(q) - 1) : a[i] = q[i]
  BY <1>2, <1>3, FrontOf
<1>5. c = [d EXCEPT !.chain = a]
  OBVIOUS
<1> HIDE DEF a
<1>6. c \in Databases /\ c.rows = d.rows /\ c.ecos = d.ecos /\ c.log = d.log /\ c.chain = a
  BY <1>1, <1>4, <1>5 DEF Databases
<1> HIDE DEF q
<1>7. \A i \in 1..Len(a) : i \in 1..Len(q) /\ a[i] = q[i]
  BY <1>3, <1>4
<1>8. History(c, H)
  BY <1>1, <1>6, <1>7 DEF History
<1>9. H[n].code = H[n].rows
  BY <1>1, <1>3
<1> QED
  BY <1>1, <1>6, <1>8, <1>9 DEF Recorded

\* Blocks.
LEMMA BeginBlockKeepsContractInv ==
  ASSUME ContractInv, C!BeginBlock
  PROVE  ContractInv'
<1> DEFINE c == [db EXCEPT !.chain = Append(@, Len(db.log))]
<1>1. /\ mode = "idle" /\ db' = c /\ sp' = c /\ flush' = <<>> /\ mode' = "block"
      /\ saved' = saved /\ vm' = vm /\ dirty' = dirty
  BY DEF C!BeginBlock
<1>2. dirty \in BOOLEAN /\ Recorded(saved) /\ db = saved /\ (~dirty => Shows(vm, db.rows))
  BY <1>1 DEF ContractInv
<1>3. Recorded(c) /\ c.rows = db.rows /\ c.ecos = db.ecos /\ c.log = db.log
  BY <1>2, ChainExtended
<1> HIDE DEF c
<1>4. c.rows \in Seq(Contracts) /\ Len(c.log) \in Nat
  BY <1>3, RecordedIs
<1>5. Noted(<<>>, c.rows, c.rows) /\ Extends(c, saved)
  BY <1>2, <1>3, <1>4, NotedEmpty DEF Extends
<1>6. InBlock'
  BY <1>1, <1>3, <1>5 DEF InBlock, Recorded
<1> QED
  BY <1>1, <1>2, <1>3, <1>6 DEF ContractInv, Recorded

LEMMA ReleaseSavepointKeepsContractInv ==
  ASSUME ContractInv, C!ReleaseSavepoint
  PROVE  ContractInv'
<1>1. /\ mode = "block" /\ db' = db /\ sp' = db /\ flush' = <<>> /\ mode' = mode
      /\ saved' = saved /\ vm' = vm /\ dirty' = dirty
  BY DEF C!ReleaseSavepoint
<1>2. dirty \in BOOLEAN /\ Recorded(saved) /\ InBlock /\ Recorded(db) /\ (~dirty => Shows(vm, db.rows))
  BY <1>1 DEF ContractInv
<1>3. Extends(db, saved) /\ Noted(<<>>, db.rows, db.rows)
  BY <1>2, RecordedIs, NotedEmpty DEF InBlock
<1>4. InBlock'
  BY <1>1, <1>2, <1>3 DEF InBlock, Recorded
<1> QED
  BY <1>1, <1>2, <1>4 DEF ContractInv, Recorded

\* The notes of the failed transaction put the virtual machine back (Unflush).
LEMMA RollbackSavepointKeepsContractInv ==
  ASSUME ContractInv, C!RollbackSavepoint
  PROVE  ContractInv'
<1>1. /\ mode = "block" /\ db' = sp /\ sp' = sp /\ flush' = <<>> /\ mode' = mode
      /\ saved' = saved /\ vm' = C!Unflush(vm, flush) /\ dirty' = (dirty \/ db.ecos # sp.ecos)
  BY DEF C!RollbackSavepoint
<1>2. dirty \in BOOLEAN /\ Recorded(saved) /\ InBlock /\ (~dirty => Shows(vm, db.rows))
  BY <1>1 DEF ContractInv
<1>3. Recorded(sp) /\ Extends(sp, saved) /\ Noted(<<>>, sp.rows, sp.rows)
  BY <1>2, RecordedIs, NotedEmpty DEF InBlock
<1>4. dirty' \in BOOLEAN /\ (~dirty' => ~dirty /\ db.ecos = sp.ecos)
  BY <1>1, <1>2, Zenon
<1>5. ASSUME ~dirty' PROVE Shows(vm', sp.rows)
  <2>1. Shows(vm, db.rows) /\ Noted(flush, sp.rows, db.rows)
    BY <1>2, <1>4, <1>5 DEF InBlock
  <2>2. flush \in Seq(FlushNotes)
    BY <2>1 DEF Noted
  <2>3. PICK u \in [0..Len(flush) -> Seq(Contracts)] :
          /\ SameCode(u[0], sp.rows) /\ SameCode(db.rows, u[Len(flush)])
          /\ \A k \in 1..Len(flush) : NoteLeadsBack(flush[k], u[k], u[k - 1])
    BY <2>1 DEF Noted
  <2>4. Shows(vm, u[Len(flush)])
    BY <2>1, <2>3, ShowsSame
  <2>5. Shows(C!Unflush(vm, flush), u[0])
    BY <2>2, <2>3, <2>4, UnflushShows
  <2>6. Shows(C!Unflush(vm, flush), sp.rows)
    BY <2>3, <2>5, ShowsSame
  <2> QED
    BY <1>1, <2>6
<1>6. InBlock'
  BY <1>1, <1>3 DEF InBlock, Recorded
<1> QED
  BY <1>1, <1>2, <1>3, <1>4, <1>5, <1>6 DEF ContractInv, Recorded

LEMMA CommitKeepsContractInv ==
  ASSUME ContractInv, C!Commit
  PROVE  ContractInv'
<1>1. mode = "block" /\ db' = db /\ saved' = db /\ mode' = "idle" /\ vm' = vm /\ dirty' = dirty
  BY DEF C!Commit
<1>2. dirty \in BOOLEAN /\ Recorded(db) /\ (~dirty => Shows(vm, db.rows))
  BY <1>1 DEF ContractInv
<1> QED
  BY <1>1, <1>2 DEF ContractInv, Recorded

\* The virtual machine is not put back: it shows the rows if nothing was logged.
LEMMA AbortKeepsContractInv ==
  ASSUME ContractInv, C!Abort
  PROVE  ContractInv'
<1>1. /\ mode # "idle" /\ db' = saved /\ saved' = saved /\ mode' = "idle" /\ vm' = vm
      /\ dirty' = (dirty \/ db.log # saved.log)
  BY DEF C!Abort
<1>2. dirty \in BOOLEAN /\ Recorded(saved) /\ mode \in {"idle", "block", "undo"}
  BY <1>1 DEF ContractInv
<1>3. dirty' \in BOOLEAN /\ (~dirty' => ~dirty /\ db.log = saved.log)
  BY <1>1, <1>2, Zenon
<1>4. ASSUME ~dirty' PROVE Shows(vm, saved.rows)
  <2>1. CASE mode = "block"
    <3>1. Shows(vm, db.rows) /\ Extends(db, saved)
      BY <1>3, <1>4, <2>1 DEF ContractInv, InBlock
    <3> QED
      BY <1>3, <1>4, <3>1 DEF Extends
  <2>2. CASE mode = "undo"
    <3>1. Shows(vm, db.rows) /\ Extends(saved, db)
      BY <1>3, <1>4, <2>2 DEF ContractInv, InUndo
    <3> QED
      BY <1>3, <1>4, <3>1 DEF Extends
  <2> QED
    BY <1>1, <1>2, <2>1, <2>2
<1> QED
  BY <1>1, <1>2, <1>3, <1>4 DEF ContractInv, Recorded

LEMMA RestartKeepsContractInv ==
  ASSUME ContractInv, C!Restart
  PROVE  ContractInv'
<1>1. /\ db' = saved /\ saved' = saved /\ mode' = "idle" /\ vm' = C!Load(<<>>, saved.rows, 1) /\ dirty' = FALSE
  BY DEF C!Restart
<1>2. Recorded(saved)
  BY DEF ContractInv
<1>3. saved.rows \in Seq(Contracts) /\ AreUnique(saved.rows)
  BY <1>2, RecordedIs
<1>4. Shows(C!Load(<<>>, saved.rows, 1), saved.rows)
  BY <1>3, LoadAll
<1> QED
  BY <1>1, <1>2, <1>4 DEF ContractInv, Recorded

\* A block is undone, record by record.
LEMMA BeginRollbackKeepsContractInv ==
  ASSUME ContractInv, C!BeginRollback
  PROVE  ContractInv'
<1>1. mode = "idle" /\ db.chain # <<>> /\ mode' = "undo" /\ db' = db /\ saved' = saved /\ vm' = vm /\ dirty' = dirty
  BY DEF C!BeginRollback
<1>2. dirty \in BOOLEAN /\ Recorded(saved) /\ db = saved /\ (~dirty => Shows(vm, db.rows)) /\ Recorded(db)
  BY <1>1 DEF ContractInv
<1>3. PICK H : History(db, H) /\ H[Len(db.log)].code = db.rows
  BY <1>2 DEF Recorded
<1>4. Extends(saved, db)
  <2>1. Len(db.log) \in Nat
    BY <1>2, RecordedIs
  <2> QED
    BY <1>2, <2>1 DEF Extends
<1>5. \E G : History(db, G) /\ (~dirty => Shows(vm, G[Len(db.log)].code))
  BY <1>2, <1>3
<1>6. InUndo'
  BY <1>1, <1>2, <1>4, <1>5 DEF InUndo
<1> QED
  BY <1>1, <1>2, <1>6 DEF ContractInv, Recorded

\* Undoing the last record leads from its point to the one before it.
LEMMA UndoneIs ==
  ASSUME NEW h \in Points, NEW g \in Points, IsSound(h), IsSound(g), NEW rec \in Records,
         CodeLeadsBack(rec, h, g), RowsLeadBack(rec, h, g), db.rows = h.rows
  PROVE  /\ C!UndoRows(rec) = g.rows /\ (Shows(vm, h.code) => Shows(C!UndoVM(rec), g.code))
         /\ (IF rec.type = "NewEcosystem" THEN h.ecos \ {rec.eco} ELSE h.ecos) = g.ecos
<1>1. CASE rec.type = "insert"
  <2>1. C!Front(h.rows) = g.rows /\ h.ecos = g.ecos /\ SameCode(h.code, g.code)
    BY <1>1 DEF CodeLeadsBack, RowsLeadBack
  <2>2. C!UndoRows(rec) = C!Front(db.rows) /\ C!UndoVM(rec) = vm
    BY <1>1 DEF C!UndoRows, C!UndoVM
  <2> QED
    BY <1>1, <2>1, <2>2, ShowsSame
<1>2. CASE rec.type = "update"
  <2>1. [h.rows EXCEPT ![rec.id] = rec.old] = g.rows /\ h.ecos = g.ecos /\ SameCode(h.code, g.code)
    BY <1>2 DEF CodeLeadsBack, RowsLeadBack
  <2>2. C!UndoRows(rec) = [db.rows EXCEPT ![rec.id] = rec.old] /\ C!UndoVM(rec) = vm
    BY <1>2 DEF C!UndoRows, C!UndoVM
  <2> QED
    BY <1>2, <2>1, <2>2, ShowsSame
<1>3. CASE rec.type = "NewContract"
  <2>1. h.rows = g.rows /\ h.ecos = g.ecos /\ LastIsNew(h, g, rec.eco) /\ C!Last(h.code).name = rec.name
    BY <1>3 DEF CodeLeadsBack, RowsLeadBack
  <2>2. C!UndoRows(rec) = db.rows /\ C!UndoVM(rec) = C!RollbackContract(vm, rec.eco, rec.name)
    BY <1>3 DEF C!UndoRows, C!UndoVM
  <2>3. Shows(vm, h.code) => Shows(C!RollbackContract(vm, rec.eco, rec.name), g.code)
    BY <2>1, RollbackContractIs
  <2> QED
    BY <1>3, <2>1, <2>2, <2>3
<1>4. CASE rec.type = "EditContract"
  <2>1. h.rows = g.rows /\ h.ecos = g.ecos
    BY <1>4 DEF RowsLeadBack
  <2>2. C!UndoRows(rec) = db.rows /\ C!UndoVM(rec) = C!RollbackEdit(vm, db.rows, rec.eco, rec.id)
    BY <1>4 DEF C!UndoRows, C!UndoVM
  <2>3. Shows(vm, h.code) => Shows(C!RollbackEdit(vm, h.rows, rec.eco, rec.id), g.code)
    BY <1>4, <2>1, RollbackEditIs
  <2> QED
    BY <1>4, <2>1, <2>2, <2>3
<1>5. CASE rec.type = "NewEcosystem"
  <2>1. /\ C!DeleteEcosystem(h.rows, rec.eco) = g.rows /\ h.ecos \ {rec.eco} = g.ecos
        /\ LastIsNew(h, g, rec.eco) /\ rec.eco \notin g.ecos
    BY <1>5 DEF CodeLeadsBack, RowsLeadBack
  <2>2. C!UndoRows(rec) = C!DeleteEcosystem(db.rows, rec.eco) /\ C!UndoVM(rec) = C!RollbackEcosystem(vm, rec.eco)
    BY <1>5 DEF C!UndoRows, C!UndoVM
  <2>3. Shows(vm, h.code) => Shows(C!RollbackEcosystem(vm, rec.eco), g.code)
    BY <2>1, RollbackEcosystemIs
  <2> QED
    BY <1>5, <2>1, <2>2, <2>3
<1>6. rec.type \in {"insert", "update", "NewContract", "EditContract", "NewEcosystem"}
  BY DEF CodeLeadsBack
<1> QED
  BY <1>1, <1>2, <1>3, <1>4, <1>5, <1>6

LEMMA UndoRecordKeepsContractInv ==
  ASSUME ContractInv, C!UndoRecord
  PROVE  ContractInv'
<1> DEFINE n == Len(db.log)
           rec == C!Last(db.log)
           s == C!UndoRows(rec)
           l == C!Front(db.log)
           E == IF rec.type = "NewEcosystem" THEN db.ecos \ {rec.eco} ELSE db.ecos
           c == [rows |-> s, ecos |-> E, log |-> l, chain |-> db.chain]
<1>1. mode = "undo" /\ n > C!Last(db.chain) /\ mode' = mode /\ saved' = saved /\ dirty' = dirty /\ vm' = C!UndoVM(rec)
  BY DEF C!UndoRecord
<1>2. dirty \in BOOLEAN /\ Recorded(saved) /\ InUndo
  BY <1>1 DEF ContractInv
<1>3. db.chain # <<>> /\ Extends(saved, db)
  BY <1>2 DEF InUndo
<1>4. PICK H : History(db, H) /\ (~dirty => Shows(vm, H[n].code))
  BY <1>2 DEF InUndo
<1>5. /\ db \in Databases /\ H \in [0..n -> Points] /\ H[n].rows = db.rows /\ H[n].ecos = db.ecos
      /\ \A k \in 0..n : IsSound(H[k])
      /\ \A k \in 1..n : CodeLeadsBack(db.log[k], H[k], H[k - 1]) /\ RowsLeadBack(db.log[k], H[k], H[k - 1])
      /\ \A i \in 1..Len(db.chain) : db.chain[i] \in 0..n
      /\ \A i \in 1..Len(db.chain), e \in 1..Len(db.chain) : i <= e => db.chain[i] <= db.chain[e]
  BY <1>4 DEF History
<1>6. db.log \in Seq(Records) /\ db.chain \in Seq(Nat) /\ n \in Nat
  BY <1>5 DEF Databases
<1>7. Len(db.chain) \in Nat /\ Len(db.chain) # 0 /\ db.chain[Len(db.chain)] < n
  BY <1>1, <1>3, <1>6 DEF C!Last
<1>8. \A i \in 1..Len(db.chain) : db.chain[i] < n
  <2> SUFFICES ASSUME NEW i \in 1..Len(db.chain) PROVE db.chain[i] < n
    OBVIOUS
  <2>1. i <= Len(db.chain) /\ Len(db.chain) \in 1..Len(db.chain)
    BY <1>7
  <2>2. db.chain[i] <= db.chain[Len(db.chain)] /\ db.chain[i] \in Nat /\ db.chain[Len(db.chain)] \in Nat
    BY <1>5, <1>6, <2>1
  <2> QED
    BY <1>6, <1>7, <2>2
<1>9. n # 0 /\ n \in 1..n /\ n \in 0..n /\ n - 1 \in 0..n
  BY <1>5, <1>6, <1>7
<1>10. rec = db.log[n] /\ rec \in Records
  BY <1>6, <1>9 DEF C!Last
<1>11. /\ H[n] \in Points /\ H[n - 1] \in Points /\ IsSound(H[n]) /\ IsSound(H[n - 1])
       /\ CodeLeadsBack(rec, H[n], H[n - 1]) /\ RowsLeadBack(rec, H[n], H[n - 1])
  BY <1>5, <1>9, <1>10
<1>12. db' = c
  <2>1. db' = [db EXCEPT !.rows = s, !.log = l, !.ecos = E]
    BY DEF C!UndoRecord
  <2> HIDE DEF s, l, E
  <2>2. db = [rows |-> db.rows, ecos |-> db.ecos, log |-> db.log, chain |-> db.chain]
    BY <1>5 DEF Databases
  <2> QED
    BY <2>1, <2>2
<1> HIDE DEF rec
<1>13. s = H[n - 1].rows /\ E = H[n - 1].ecos /\ (~dirty => Shows(C!UndoVM(rec), H[n - 1].code))
  <2> DEFINE h == H[n]
             g == H[n - 1]
  <2>1. /\ h \in Points /\ g \in Points /\ IsSound(h) /\ IsSound(g) /\ rec \in Records
        /\ CodeLeadsBack(rec, h, g) /\ RowsLeadBack(rec, h, g) /\ db.rows = h.rows /\ db.ecos = h.ecos
    BY <1>5, <1>10, <1>11
  <2>2. ~dirty => Shows(vm, h.code)
    BY <1>4
  <2> HIDE DEF h, g
  <2>3. /\ C!UndoRows(rec) = g.rows /\ (Shows(vm, h.code) => Shows(C!UndoVM(rec), g.code))
        /\ (IF rec.type = "NewEcosystem" THEN h.ecos \ {rec.eco} ELSE h.ecos) = g.ecos
    BY <2>1, UndoneIs
  <2>4. E = g.ecos
    BY <2>1, <2>3
  <2> QED
    BY <2>2, <2>3, <2>4 DEF g
<1>14. l \in Seq(Records) /\ Len(l) = n - 1
  BY <1>6, <1>9, FrontOf
<1> HIDE DEF s, E
<1>15. c \in Databases /\ c.log = l /\ c.log = C!Front(db.log) /\ c.chain = db.chain /\ c.rows = H[n - 1].rows /\ c.ecos = H[n - 1].ecos
  <2>1. s \in Seq(Contracts) /\ E \in SUBSET EcoIds
    BY <1>11, <1>13 DEF Points
  <2>2. c.log = l /\ c.log = C!Front(db.log)
    OBVIOUS
  <2> HIDE DEF l
  <2> QED
    BY <1>6, <1>13, <1>14, <2>1, <2>2 DEF Databases
<1> HIDE DEF c, l
<1> DEFINE G == [k \in 0..(Len(db.log) - 1) |-> H[k]]
<1>16. History(c, G) /\ Len(c.log) = n - 1 /\ G[Len(c.log)] = H[n - 1]
  BY <1>4, <1>8, <1>9, <1>15, DropRecord
<1> HIDE DEF G
<1>17. \E F : History(c, F) /\ (~dirty => Shows(C!UndoVM(rec), F[Len(c.log)].code))
  <2>1. ~dirty => Shows(C!UndoVM(rec), G[Len(c.log)].code)
    BY <1>13, <1>16
  <2> QED
    BY <1>16, <2>1
<1>18. Extends(saved, c) /\ Len(c.log) # Len(saved.log)
  <2>1. Len(saved.log) \in Nat /\ n <= Len(saved.log)
    BY <1>2, <1>3, RecordedIs DEF Extends
  <2> QED
    BY <1>6, <1>16, <2>1 DEF Extends
<1>19. InUndo'
  BY <1>1, <1>3, <1>12, <1>15, <1>17, <1>18 DEF InUndo
<1> QED
  BY <1>1, <1>2, <1>19 DEF ContractInv, Recorded

LEMMA CommitRollbackKeepsContractInv ==
  ASSUME ContractInv, C!CommitRollback
  PROVE  ContractInv'
<1> DEFINE c == [db EXCEPT !.chain = C!Front(@)]
<1>1. mode = "undo" /\ Len(db.log) = C!Last(db.chain) /\ db' = c /\ saved' = c /\ mode' = "idle" /\ vm' = vm /\ dirty' = dirty
  BY DEF C!CommitRollback
<1>2. dirty \in BOOLEAN /\ InUndo
  BY <1>1 DEF ContractInv
<1>3. PICK H : History(db, H) /\ (~dirty => Shows(vm, H[Len(db.log)].code))
  BY <1>2 DEF InUndo
<1>4. db.chain # <<>>
  BY <1>2 DEF InUndo
<1>5. Recorded(c) /\ c.rows = db.rows /\ H[Len(db.log)].code = c.rows
  BY <1>1, <1>3, <1>4, ChainCut
<1> HIDE DEF c
<1>6. ~dirty => Shows(vm, c.rows)
  BY <1>3, <1>5
<1> QED
  BY <1>1, <1>2, <1>5, <1>6 DEF ContractInv, Recorded

LEMMA ContractInvInit ==
  ASSUME C!Init
  PROVE  ContractInv
<1> DEFINE x == CHOOSE q \in Sources : TRUE
           r == [eco |-> 1, name |-> C!Main, src |-> x, wallet |-> 0]
           s == <<r>>
           d == [rows |-> s, ecos |-> {1}, log |-> <<>>, chain |-> <<>>]
           h == [rows |-> s, code |-> s, ecos |-> {1}]
           H == [k \in 0..0 |-> h]
<1>1. db = d /\ saved = db /\ mode = "idle" /\ dirty = FALSE /\ vm = C!Load(<<>>, db.rows, 1)
  BY DEF C!Init
<1>2. r \in Contracts /\ r.eco = 1
  BY ContractIs DEF EcoIds, SourceTexts
<1> HIDE DEF r
<1>3. s \in Seq(Contracts) /\ Len(s) = 1 /\ s[1] = r /\ {1} \in SUBSET EcoIds
  BY <1>2 DEF EcoIds
<1> HIDE DEF s
<1>4. AreUnique(s) /\ \A i \in 1..Len(s) : s[i].eco \in {1}
  BY <1>2, <1>3 DEF AreUnique
<1>5. h \in Points /\ IsSound(h) /\ h.rows = s /\ h.code = s /\ h.ecos = {1}
  BY <1>3, <1>4 DEF Points, IsSound
<1>6. d \in Databases /\ d.rows = s /\ d.ecos = {1} /\ d.log = <<>> /\ d.chain = <<>> /\ Len(d.log) = 0 /\ Len(d.chain) = 0
  <2>1. <<>> \in Seq(Records) /\ <<>> \in Seq(Nat) /\ Len(<<>>) = 0
    OBVIOUS
  <2> QED
    BY <1>3, <2>1 DEF Databases
<1> HIDE DEF h, d
<1>7. H \in [0..0 -> Points] /\ H[0] = h /\ 0..0 = {0} /\ 1..0 = {}
  BY <1>5
<1> HIDE DEF H
<1>8. History(d, H) /\ H[Len(d.log)].code = d.rows
  BY <1>5, <1>6, <1>7 DEF History
<1>9. Recorded(d)
  BY <1>8 DEF Recorded
<1>10. Shows(C!Load(<<>>, s, 1), s)
  BY <1>3, <1>4, LoadAll
<1> QED
  BY <1>1, <1>6, <1>9, <1>10 DEF ContractInv

\* Every step.
LEMMA ContractStepKeeps ==
  ASSUME ContractInv, C!Next
  PROVE  ContractInv'
<1>1. ASSUME NEW e \in Ecosystems \cup {1}, NEW n \in Names, NEW x \in Sources, C!CreateContract(e, n, x) PROVE ContractInv'
  BY <1>1, CreateContractKeepsContractInv
<1>2. ASSUME NEW k \in 1..Len(db.rows), NEW x \in Sources, C!UpdateContract(k, x) PROVE ContractInv'
  BY <1>2, UpdateContractKeepsContractInv
<1>3. ASSUME NEW k \in 1..Len(db.rows), C!UpdateConditions(k) PROVE ContractInv'
  BY <1>3, UpdateConditionsKeepsContractInv
<1>4. ASSUME NEW k \in 1..Len(db.rows), NEW w \in Wallets, C!BindWallet(k, w) PROVE ContractInv'
  BY <1>4, BindWalletKeepsContractInv
<1>5. ASSUME NEW e \in Ecosystems, C!CreateEcosystem(e) PROVE ContractInv'
  BY <1>5, CreateEcosystemKeepsContractInv
<1>6. CASE C!BeginBlock
  BY <1>6, BeginBlockKeepsContractInv
<1>7. CASE C!ReleaseSavepoint
  BY <1>7, ReleaseSavepointKeepsContractInv
<1>8. CASE C!RollbackSavepoint
  BY <1>8, RollbackSavepointKeepsContractInv
<1>9. CASE C!Commit
  BY <1>9, CommitKeepsContractInv
<1>10. CASE C!Abort
  BY <1>10, AbortKeepsContractInv
<1>11. CASE C!Restart
  BY <1>11, RestartKeepsContractInv
<1>12. CASE C!BeginRollback
  BY <1>12, BeginRollbackKeepsContractInv
<1>13. CASE C!UndoRecord
  BY <1>13, UndoRecordKeepsContractInv
<1>14. CASE C!CommitRollback
  BY <1>14, CommitRollbackKeepsContractInv
<1> QED
  BY <1>1, <1>2, <1>3, <1>4, <1>5, <1>6, <1>7, <1>8, <1>9, <1>10, <1>11, <1>12, <1>13, <1>14, Zenon DEF C!Next

LEMMA ContractInvNext == ContractInv /\ [Next]_vars => ContractInv'
<1> SUFFICES ASSUME ContractInv, [Next]_vars PROVE ContractInv'
  OBVIOUS
<1>1. C!Next \/ UNCHANGED ctr
  BY DEF Next, vars, ctr
<1>2. CASE UNCHANGED ctr
  BY <1>2 DEF ctr, ContractInv, InBlock, InUndo, Recorded, Noted
<1> QED
  BY <1>1, <1>2, ContractStepKeeps

\* Two virtual machines that show the same rows have the same code.
LEMMA SameRowsSameCode ==
  ASSUME NEW s, NEW v, NEW w, Shows(v, s), Shows(w, s)
  PROVE  C!Code(v) = C!Code(w)
<1>1. /\ v \in Seq(Children) /\ w \in Seq(Children) /\ Len(v) = Len(w)
      /\ \A i \in 1..Len(v) : SameContract(v[i], s[i]) /\ v[i].id = i
      /\ \A i \in 1..Len(v) : SameContract(w[i], s[i]) /\ w[i].id = i
  BY DEF Shows
<1>2. ASSUME NEW c \in Children
      PROVE  [c EXCEPT !.wallet = 0] = [eco |-> c.eco, name |-> c.name, src |-> c.src, wallet |-> 0, id |-> c.id]
  BY DEF Children
<1>3. ASSUME NEW i \in 1..Len(v) PROVE [v[i] EXCEPT !.wallet = 0] = [w[i] EXCEPT !.wallet = 0]
  <2>1. v[i] \in Children /\ w[i] \in Children
    BY <1>1
  <2>2. v[i].eco = w[i].eco /\ v[i].name = w[i].name /\ v[i].src = w[i].src /\ v[i].id = w[i].id
    BY <1>1 DEF SameContract
  <2> QED
    BY <1>2, <2>1, <2>2
<1> QED
  BY <1>1, <1>3 DEF C!Code

LEMMA ContractInvEnough ==
  ASSUME ContractInv
  PROVE  C!CompiledIsStored
<1>1. C!SameCodeAsRestarted
  <2> SUFFICES ASSUME mode = "idle", ~dirty PROVE C!Code(vm) = C!Code(C!Load(<<>>, saved.rows, 1))
    BY DEF C!SameCodeAsRestarted
  <2>1. Recorded(saved) /\ Shows(vm, saved.rows)
    BY DEF ContractInv
  <2>2. saved.rows \in Seq(Contracts) /\ AreUnique(saved.rows)
    BY <2>1, RecordedIs
  <2>3. Shows(C!Load(<<>>, saved.rows, 1), saved.rows)
    BY <2>2, LoadAll
  <2> QED
    BY <2>1, <2>3, SameRowsSameCode
<1>2. C!ContractsAreFound
  <2> SUFFICES ASSUME mode # "undo", ~dirty, NEW id \in 1..Len(db.rows)
               PROVE  \E c \in C!GetContractByID(vm, id) : c.name = db.rows[id].name /\ c.eco = db.rows[id].eco
    BY DEF C!ContractsAreFound
  <2>1. Shows(vm, db.rows)
    BY DEF ContractInv
  <2>2. id \in 1..Len(vm) /\ vm[id].id = id /\ vm[id].name = db.rows[id].name /\ vm[id].eco = db.rows[id].eco
    BY <2>1 DEF Shows, SameContract
  <2> QED
    BY <2>2 DEF C!GetContractByID
<1> QED
  BY <1>1, <1>2 DEF C!CompiledIsStored

\* Whatever contracts were created, edited, bound to wallets and rolled back, and
\* however many transactions failed, the code in the virtual machine is the code
\* that a restart would compile from 1_contracts, at the same places, and a
\* transaction finds the contract whose id it names (FlushContract, block.Play,
\* SysRollbackNewContract, SysRollbackEditContract, SysRollbackEcosystem,
\* VMGetContractByID).
THEOREM CompiledIsAlwaysStored == Spec => []CompiledIsStored
<1>1. Init => ContractInv
  BY ContractInvInit DEF Init
<1>2. ContractInv => CompiledIsStored
  BY ContractInvEnough DEF CompiledIsStored
<1> QED
  BY <1>1, <1>2, ContractInvNext, PTL DEF Spec

-----------------------------------------------------------------------------
(***************************************************************************)
(* The import of applications.  Rows only grow by an item: a row stays a   *)
(* row, and a menu keeps its texts.  So what a piece has brought stays,    *)
(* whatever is imported later, by whomever.                                *)
(***************************************************************************)
ImportItems == UNION {{file.data[i] : i \in DOMAIN file.data} : file \in ImportFiles}
ImportValues == {"old"} \cup {a.value : a \in ImportItems}
ImportRows == [ImportSlots -> SUBSET ImportValues]

Grows(r, s) ==
  \A x \in ImportSlots : (r[x] # {} => s[x] # {}) /\ (x[1] = "menu" => r[x] \subseteq s[x])
HasItem(r, a) == r[I!Slot(a)] # {} /\ (a.type = "menu" => a.value \in r[I!Slot(a)])

LEMMA ImportItemIs ==
  ASSUME NEW r \in ImportRows, NEW a \in ImportItems, I!Slot(a) \in ImportSlots
  PROVE  LET s == I!ImportItem(r, a) IN s \in ImportRows /\ Grows(r, s) /\ HasItem(s, a)
<1> DEFINE x == I!Slot(a)
           s == I!ImportItem(r, a)
           v == IF a.type = "menu" THEN r[x] \cup {a.value} ELSE {a.value}
<1>1. x[1] = a.type /\ I!Locked[1] = "contracts"
  BY DEF I!Slot, I!Locked
<1>2. a.value \in ImportValues /\ r[x] \in SUBSET ImportValues
  BY DEF ImportValues, ImportRows
<1>3. s = IF r[x] # {} /\ (a.type = "tables" \/ x = I!Locked) THEN r ELSE [r EXCEPT ![x] = v]
  BY DEF I!ImportItem
<1>4. v \in SUBSET ImportValues /\ v # {} /\ (a.type = "menu" => a.value \in v /\ r[x] \subseteq v)
  BY <1>2
<1>5. x \in ImportSlots
  OBVIOUS
<1> HIDE DEF x, v, s
<1>6. CASE r[x] # {} /\ (a.type = "tables" \/ x = I!Locked)
  <2>1. s = r /\ a.type # "menu"
    BY <1>1, <1>3, <1>6
  <2> QED
    BY <1>6, <2>1 DEF Grows, HasItem, x, s
<1>7. CASE ~(r[x] # {} /\ (a.type = "tables" \/ x = I!Locked))
  <2>1. s = [r EXCEPT ![x] = v]
    BY <1>3, <1>7
  <2>2. s \in ImportRows /\ s[x] = v /\ \A y \in ImportSlots : y # x => s[y] = r[y]
    BY <1>4, <1>5, <2>1 DEF ImportRows
  <2>3. Grows(r, s)
    BY <1>1, <1>4, <2>2 DEF Grows
  <2>4. HasItem(s, a)
    BY <1>4, <2>2 DEF HasItem, x
  <2> QED
    BY <2>2, <2>3, <2>4 DEF s
<1> QED
  BY <1>6, <1>7

LEMMA GrowsOn ==
  ASSUME NEW r, NEW s, NEW t, Grows(r, s), Grows(s, t)
  PROVE  Grows(r, t)
BY DEF Grows

LEMMA GrowsKeeps ==
  ASSUME NEW r, NEW s, Grows(r, s), NEW a, I!Slot(a) \in ImportSlots, HasItem(r, a)
  PROVE  HasItem(s, a)
<1>1. I!Slot(a)[1] = a.type
  BY DEF I!Slot
<1> QED
  BY <1>1 DEF Grows, HasItem

\* The items of a piece, one after the other.
AlongStep(r, piece, f, i) == IF i = 0 THEN r ELSE I!ImportItem(f[i - 1], piece[i])

LEMMA AlongIs ==
  ASSUME NEW r \in ImportRows, NEW piece \in Seq(ImportItems), \A i \in 1..Len(piece) : I!Slot(piece[i]) \in ImportSlots
  PROVE  LET h == I!Along(r, piece)
         IN  h \in [0..Len(piece) -> ImportRows] /\ h[0] = r /\ \A i \in 1..Len(piece) : h[i] = I!ImportItem(h[i - 1], piece[i])
<1> DEFINE n == Len(piece)
           F == [i \in 1..n |-> [w \in ImportRows |-> I!ImportItem(w, piece[i])]]
           h == I!Along(r, piece)
<1>1. n \in Nat /\ \A i \in 1..n : piece[i] \in ImportItems
  OBVIOUS
<1>2. \A i \in 1..n, w \in ImportRows : F[i][w] = I!ImportItem(w, piece[i]) /\ F[i][w] \in ImportRows
  BY <1>1, ImportItemIs
<1> HIDE DEF F
<1>3. PICK g : Steps(ImportRows, n, F, r, g)
  BY <1>1, <1>2, Recursion
<1>4. g \in [0..n -> ImportRows] /\ g[0] = r /\ \A i \in 1..n : g[i] = F[i][g[i - 1]]
  BY <1>3 DEF Steps
<1>5. ASSUME NEW i \in 0..n PROVE g[i] = AlongStep(r, piece, g, i)
  <2>1. CASE i = 0
    BY <1>4, <2>1 DEF AlongStep
  <2>2. CASE i # 0
    <3>1. i \in 1..n /\ i - 1 \in 0..n
      BY <1>1, <2>2
    <3>2. g[i] = F[i][g[i - 1]] /\ g[i - 1] \in ImportRows
      BY <1>4, <3>1
    <3> QED
      BY <1>2, <2>2, <3>1, <3>2 DEF AlongStep
  <2> QED
    BY <2>1, <2>2
<1>6. g = [i \in 0..n |-> AlongStep(r, piece, g, i)]
  BY <1>4, <1>5
<1>7. h = CHOOSE f : f = [i \in 0..n |-> AlongStep(r, piece, f, i)]
  BY Zenon DEF I!Along, AlongStep
<1> HIDE DEF h
<1>8. h = [i \in 0..n |-> AlongStep(r, piece, h, i)]
  BY <1>6, <1>7, Zenon
<1>9. h[0] = r /\ \A i \in 1..n : h[i] = I!ImportItem(h[i - 1], piece[i])
  <2>1. \A i \in 0..n : h[i] = AlongStep(r, piece, h, i)
    BY <1>8
  <2>2. 0 \in 0..n /\ \A i \in 1..n : i \in 0..n /\ i # 0
    BY <1>1
  <2> QED
    BY <2>1, <2>2 DEF AlongStep
<1> DEFINE G == {i \in 0..n : h[i] \in ImportRows}
<1>10. \A i \in 1..n : i - 1 \in G => i \in G
  <2> SUFFICES ASSUME NEW i \in 1..n, i - 1 \in G PROVE i \in G
    OBVIOUS
  <2>1. h[i - 1] \in ImportRows /\ i \in 0..n /\ piece[i] \in ImportItems /\ I!Slot(piece[i]) \in ImportSlots
    BY <1>1
  <2>2. I!ImportItem(h[i - 1], piece[i]) \in ImportRows
    BY <2>1, ImportItemIs
  <2> QED
    BY <1>9, <2>1, <2>2
<1>11. 0 \in G /\ G \in SUBSET (0..n)
  BY <1>1, <1>9
<1> HIDE DEF G
<1>12. \A i \in 0..n : i \in G
  BY <1>1, <1>10, <1>11, UpTo
<1>13. h \in [0..n -> ImportRows]
  BY <1>8, <1>12 DEF G
<1> QED
  BY <1>9, <1>13 DEF h

\* After i of the items the rows have grown, and the items so far have arrived.
LEMMA AlongGrows ==
  ASSUME NEW r \in ImportRows, NEW piece \in Seq(ImportItems), \A i \in 1..Len(piece) : I!Slot(piece[i]) \in ImportSlots
  PROVE  \A i \in 0..Len(piece) :
           /\ I!Along(r, piece)[i] \in ImportRows /\ Grows(r, I!Along(r, piece)[i])
           /\ \A j \in 1..i : HasItem(I!Along(r, piece)[i], piece[j])
<1> DEFINE n == Len(piece)
           h == I!Along(r, piece)
           G == {i \in 0..n : Grows(r, h[i]) /\ \A j \in 1..i : HasItem(h[i], piece[j])}
<1>1. n \in Nat /\ (\A i \in 1..n : piece[i] \in ImportItems)
  OBVIOUS
<1>2. h \in [0..n -> ImportRows] /\ h[0] = r /\ \A i \in 1..n : h[i] = I!ImportItem(h[i - 1], piece[i])
  BY AlongIs
<1> HIDE DEF h
<1>3. 0 \in G
  <2>1. Grows(r, r) /\ 0 \in 0..n /\ 1..0 = {}
    BY <1>1 DEF Grows
  <2> QED
    BY <1>2, <2>1
<1>4. ASSUME NEW i \in 1..n, i - 1 \in G PROVE i \in G
  <2>1. /\ i \in 0..n /\ i - 1 \in 0..n /\ Grows(r, h[i - 1]) /\ \A j \in 1..(i - 1) : HasItem(h[i - 1], piece[j])
    BY <1>1, <1>4
  <2>2. h[i] \in ImportRows /\ h[i - 1] \in ImportRows /\ piece[i] \in ImportItems /\ I!Slot(piece[i]) \in ImportSlots
    BY <1>1, <1>2, <2>1
  <2>3. Grows(h[i - 1], h[i]) /\ HasItem(h[i], piece[i])
    BY <1>2, <2>2, ImportItemIs
  <2>4. Grows(r, h[i])
    BY <2>1, <2>3, GrowsOn
  <2>5. ASSUME NEW j \in 1..i PROVE HasItem(h[i], piece[j])
    <3>1. CASE j = i
      BY <2>3, <3>1
    <3>2. CASE j # i
      <4>1. j \in 1..(i - 1) /\ j \in 1..n
        BY <1>1, <3>2
      <4>2. HasItem(h[i - 1], piece[j]) /\ I!Slot(piece[j]) \in ImportSlots
        BY <2>1, <4>1
      <4> QED
        BY <2>3, <4>2, GrowsKeeps
    <3> QED
      BY <3>1, <3>2
  <2> QED
    BY <2>1, <2>4, <2>5
<1>5. G \in SUBSET (0..n)
  OBVIOUS
<1> HIDE DEF G
<1>6. \A i \in 0..n : i \in G
  BY <1>1, <1>3, <1>4, <1>5, UpTo
<1> QED
  BY <1>2, <1>6 DEF G, h

\* The items that are contracts, or those that are not: they keep their order.
ItemStep(data, b, f, i) ==
  IF i = 0 THEN <<>> ELSE IF (data[i].type = "contracts") = b THEN Append(f[i - 1], data[i]) ELSE f[i - 1]
KeepsOrder(data, b, n, s) ==
  /\ \A p \in 1..Len(s) : \E i \in 1..n :
       /\ s[p] = data[i] /\ (data[i].type = "contracts") = b
       /\ \A j \in 1..(i - 1) : (data[j].type = "contracts") = b => \E q \in 1..(p - 1) : s[q] = data[j]
  /\ \A j \in 1..n : (data[j].type = "contracts") = b => \E q \in 1..Len(s) : s[q] = data[j]

LEMMA KeepsOrderOn ==
  ASSUME NEW A, NEW data \in Seq(A), NEW b \in BOOLEAN, NEW i \in 1..Len(data), NEW s \in Seq(A), KeepsOrder(data, b, i - 1, s)
  PROVE  /\ (data[i].type = "contracts") = b => KeepsOrder(data, b, i, Append(s, data[i]))
         /\ (data[i].type = "contracts") # b => KeepsOrder(data, b, i, s)
<1> DEFINE t == Append(s, data[i])
           m == Len(s)
<1>1. i \in Nat /\ data[i] \in A /\ m \in Nat
  OBVIOUS
<1>2. Len(t) = m + 1 /\ t[m + 1] = data[i] /\ \A p \in 1..m : t[p] = s[p]
  BY <1>1, OneMore
<1>3. /\ \A p \in 1..m : \E k \in 1..(i - 1) :
           /\ s[p] = data[k] /\ (data[k].type = "contracts") = b
           /\ \A j \in 1..(k - 1) : (data[j].type = "contracts") = b => \E q \in 1..(p - 1) : s[q] = data[j]
      /\ \A j \in 1..(i - 1) : (data[j].type = "contracts") = b => \E q \in 1..m : s[q] = data[j]
  BY DEF KeepsOrder
<1> HIDE DEF t, m
<1>4. ASSUME (data[i].type = "contracts") = b PROVE KeepsOrder(data, b, i, t)
  <2>1. ASSUME NEW p \in 1..(m + 1)
        PROVE  \E k \in 1..i : /\ t[p] = data[k] /\ (data[k].type = "contracts") = b
                               /\ \A j \in 1..(k - 1) : (data[j].type = "contracts") = b => \E q \in 1..(p - 1) : t[q] = data[j]
    <3>1. CASE p = m + 1
      <4>1. \A j \in 1..(i - 1) : (data[j].type = "contracts") = b => \E q \in 1..(p - 1) : t[q] = data[j]
        BY <1>1, <1>2, <1>3, <3>1
      <4>2. i \in 1..i
        BY <1>1
      <4> QED
        BY <1>2, <1>4, <3>1, <4>1, <4>2
    <3>2. CASE p # m + 1
      <4>1. p \in 1..m
        BY <1>1, <3>2
      <4>2. PICK k \in 1..(i - 1) :
              /\ s[p] = data[k] /\ (data[k].type = "contracts") = b
              /\ \A j \in 1..(k - 1) : (data[j].type = "contracts") = b => \E q \in 1..(p - 1) : s[q] = data[j]
        BY <1>3, <4>1
      <4>3. \A q \in 1..(p - 1) : t[q] = s[q]
        BY <1>1, <1>2, <4>1
      <4>4. k \in 1..i /\ t[p] = s[p]
        BY <1>1, <1>2, <4>1
      <4> QED
        BY <4>2, <4>3, <4>4
    <3> QED
      BY <3>1, <3>2
  <2>2. ASSUME NEW j \in 1..i, (data[j].type = "contracts") = b PROVE \E q \in 1..(m + 1) : t[q] = data[j]
    <3>1. CASE j = i
      BY <1>1, <1>2, <3>1
    <3>2. CASE j # i
      <4>1. j \in 1..(i - 1)
        BY <1>1, <3>2
      <4>2. PICK q \in 1..m : s[q] = data[j]
        BY <1>3, <2>2, <4>1
      <4> QED
        BY <1>1, <1>2, <4>2
    <3> QED
      BY <3>1, <3>2
  <2> QED
    BY <1>2, <2>1, <2>2 DEF KeepsOrder
<1>5. ASSUME (data[i].type = "contracts") # b PROVE KeepsOrder(data, b, i, s)
  <2>1. \A k \in 1..(i - 1) : k \in 1..i
    BY <1>1
  <2>2. \A j \in 1..i : j = i \/ j \in 1..(i - 1)
    BY <1>1
  <2>3. \A p \in 1..m : \E k \in 1..i :
           /\ s[p] = data[k] /\ (data[k].type = "contracts") = b
           /\ \A j \in 1..(k - 1) : (data[j].type = "contracts") = b => \E q \in 1..(p - 1) : s[q] = data[j]
    BY <1>3, <2>1
  <2>4. \A j \in 1..i : (data[j].type = "contracts") = b => \E q \in 1..m : s[q] = data[j]
    BY <1>3, <1>5, <2>2
  <2> QED
    BY <2>3, <2>4 DEF KeepsOrder, m
<1> QED
  BY <1>4, <1>5 DEF t

LEMMA ItemsOfIs ==
  ASSUME NEW A, NEW data \in Seq(A), NEW b \in BOOLEAN
  PROVE  I!ItemsOf(data, b) \in Seq(A) /\ KeepsOrder(data, b, Len(data), I!ItemsOf(data, b))
<1> DEFINE n == Len(data)
           Next1(i, w) == IF (data[i].type = "contracts") = b THEN Append(w, data[i]) ELSE w
           F == [i \in 1..n |-> [w \in Seq(A) |-> Next1(i, w)]]
           f == CHOOSE h : h = [i \in 0..n |-> ItemStep(data, b, h, i)]
<1>1. n \in Nat /\ \A i \in 1..n : data[i] \in A
  OBVIOUS
<1>2. \A i \in 1..n, w \in Seq(A) : F[i][w] = Next1(i, w) /\ F[i][w] \in Seq(A)
  BY <1>1
<1>3. <<>> \in Seq(A) /\ Len(<<>>) = 0
  OBVIOUS
<1> HIDE DEF F
<1>4. PICK g : Steps(Seq(A), n, F, <<>>, g)
  BY <1>1, <1>2, <1>3, Recursion
<1>5. g \in [0..n -> Seq(A)] /\ g[0] = <<>> /\ \A i \in 1..n : g[i] = F[i][g[i - 1]]
  BY <1>4 DEF Steps
<1>6. ASSUME NEW i \in 0..n PROVE g[i] = ItemStep(data, b, g, i)
  <2>1. CASE i = 0
    BY <1>5, <2>1 DEF ItemStep
  <2>2. CASE i # 0
    <3>1. i \in 1..n /\ i - 1 \in 0..n
      BY <1>1, <2>2
    <3>2. g[i] = F[i][g[i - 1]] /\ g[i - 1] \in Seq(A)
      BY <1>5, <3>1
    <3>3. g[i] = Next1(i, g[i - 1])
      BY <1>2, <3>1, <3>2
    <3> QED
      BY <2>2, <3>3 DEF ItemStep
  <2> QED
    BY <2>1, <2>2
<1>7. g = [i \in 0..n |-> ItemStep(data, b, g, i)]
  BY <1>5, <1>6
<1>8. I!ItemsOf(data, b) = f[n]
  BY Zenon DEF I!ItemsOf, ItemStep
<1>9. f = [i \in 0..n |-> ItemStep(data, b, f, i)]
  BY <1>7, Zenon
<1> HIDE DEF f
<1>10. f[0] = <<>> /\ \A i \in 1..n : f[i] = Next1(i, f[i - 1])
  <2>1. \A i \in 0..n : f[i] = ItemStep(data, b, f, i)
    BY <1>9
  <2>2. 0 \in 0..n /\ \A i \in 1..n : i \in 0..n /\ i # 0
    BY <1>1
  <2> QED
    BY <2>1, <2>2 DEF ItemStep
<1> DEFINE G == {i \in 0..n : f[i] \in Seq(A) /\ KeepsOrder(data, b, i, f[i])}
<1>11. 0 \in G
  <2>1. 1..0 = {} /\ 0 \in 0..n
    BY <1>1
  <2>2. KeepsOrder(data, b, 0, <<>>)
    BY <1>3, <2>1 DEF KeepsOrder
  <2> QED
    BY <1>3, <1>10, <2>1, <2>2
<1>12. ASSUME NEW i \in 1..n, i - 1 \in G PROVE i \in G
  <2>1. f[i - 1] \in Seq(A) /\ KeepsOrder(data, b, i - 1, f[i - 1]) /\ i \in 0..n /\ f[i] = Next1(i, f[i - 1])
    BY <1>1, <1>10, <1>12
  <2> DEFINE s == f[i - 1]
  <2>2. s \in Seq(A) /\ KeepsOrder(data, b, i - 1, s) /\ i \in 1..Len(data)
    BY <2>1
  <2> HIDE DEF s
  <2>3. /\ (data[i].type = "contracts") = b => KeepsOrder(data, b, i, Append(s, data[i]))
        /\ (data[i].type = "contracts") # b => KeepsOrder(data, b, i, s)
    BY <2>2, KeepsOrderOn
  <2>4. Append(s, data[i]) \in Seq(A)
    BY <1>1, <2>2
  <2>5. f[i] = IF (data[i].type = "contracts") = b THEN Append(s, data[i]) ELSE s
    BY <2>1 DEF s
  <2>6. f[i] \in Seq(A) /\ KeepsOrder(data, b, i, f[i])
    BY <2>2, <2>3, <2>4, <2>5
  <2> QED
    BY <2>1, <2>6
<1>13. G \in SUBSET (0..n) /\ n \in 0..n
  BY <1>1
<1> HIDE DEF G
<1>14. n \in G
  BY <1>1, <1>11, <1>12, <1>13, UpTo
<1> QED
  BY <1>8, <1>14 DEF G

\* How many times a piece goes into a file.
LEMMA PieceOf ==
  ASSUME NEW a \in Nat, NEW z \in Nat \ {0}
  PROVE  a \div z \in Nat /\ (a \div z) * z <= a /\ a < (a \div z) * z + z
<1>1. a \div z \in Int /\ a % z \in 0..(z - 1) /\ a = z * (a \div z) + (a % z)
  OBVIOUS
<1> DEFINE q == a \div z
           m == a % z
<1>2. q \in Int /\ m \in 0..(z - 1) /\ a = z * q + m
  BY <1>1
<1> HIDE DEF q, m
<1>3. q >= 0
  <2> SUFFICES ASSUME q <= 0 - 1 PROVE FALSE
    BY <1>2
  <2>1. z * q <= 0 - z
    BY <1>2
  <2> QED
    BY <1>2, <2>1
<1>4. q * z = z * q
  BY <1>2
<1> QED
  BY <1>2, <1>3, <1>4 DEF q

LEMMA LesserIs ==
  ASSUME NEW a \in Nat, NEW b \in Nat
  PROVE  I!Min({a, b}) \in {a, b} /\ I!Min({a, b}) <= a /\ I!Min({a, b}) <= b
<1> DEFINE m == CHOOSE x \in {a, b} : \A y \in {a, b} : x <= y
<1>1. I!Min({a, b}) = m
  BY DEF I!Min
<1>2. \E x \in {a, b} : \A y \in {a, b} : x <= y
  OBVIOUS
<1>3. m \in {a, b} /\ \A y \in {a, b} : m <= y
  BY <1>2
<1> QED
  BY <1>1, <1>3

\* A stretch of a sequence.
LEMMA StretchIs ==
  ASSUME NEW A, NEW s \in Seq(A), NEW m \in Nat, NEW n \in 0..Len(s)
  PROVE  LET t == SubSeq(s, m + 1, n)
         IN  t \in Seq(A) /\ \A i \in (m + 1)..n : i - m \in 1..Len(t) /\ t[i - m] = s[i]
<1> DEFINE t == SubSeq(s, m + 1, n)
<1>1. n \in Nat /\ Len(s) \in Nat /\ n <= Len(s)
  OBVIOUS
<1>2. t = [i \in 1..(n - m) |-> s[i + m]]
  BY <1>1
<1>3. CASE n <= m
  <2>1. 1..(n - m) = {} /\ (m + 1)..n = {}
    BY <1>1, <1>3
  <2>2. t = <<>>
    BY <1>1, <1>3
  <2> QED
    BY <2>1, <2>2
<1>4. CASE m < n
  <2>1. n - m \in Nat /\ \A i \in 1..(n - m) : i + m \in 1..Len(s)
    BY <1>1, <1>4
  <2>2. t \in [1..(n - m) -> A]
    <3>1. \A i \in 1..(n - m) : s[i + m] \in A
      BY <2>1
    <3> HIDE DEF t
    <3> QED
      BY <1>2, <3>1
  <2>3. t \in Seq(A) /\ Len(t) = n - m
    <3> HIDE DEF t
    <3> QED
      BY <2>1, <2>2
  <2>4. ASSUME NEW i \in (m + 1)..n PROVE i - m \in 1..Len(t) /\ t[i - m] = s[i]
    <3>1. i - m \in 1..(n - m) /\ (i - m) + m = i
      BY <1>1
    <3>2. t[i - m] = s[i]
      BY <1>2, <3>1
    <3> QED
      BY <2>3, <3>1, <3>2
  <2> QED
    BY <2>3, <2>4
<1> QED
  BY <1>1, <1>3, <1>4

\* A piece is all the contracts or has none.
ContractsApart(data, pieces) == \A q \in 1..Len(pieces) :
  pieces[q] = I!ItemsOf(data, TRUE) \/ \A p \in 1..Len(pieces[q]) : pieces[q][p].type # "contracts"

\* The pieces of a file have its items only, each piece contracts or others: the
\* contracts are all of them, in their order.
LEMMA SlicesAre ==
  ASSUME NEW A, NEW data \in Seq(A)
  PROVE  /\ I!Slices(data) \in Seq(Seq(A))
         /\ ContractsApart(data, I!Slices(data))
         /\ \A k \in 1..Len(data) : \E q \in 1..Len(I!Slices(data)) : \E p \in 1..Len(I!Slices(data)[q]) : I!Slices(data)[q][p] = data[k]
<1> DEFINE n == Len(data)
           z == PieceSize
           all == I!ItemsOf(data, TRUE)
           to(m) == I!Min({(m + 1) * z, n})
           part(m) == I!ItemsOf(SubSeq(data, m * z + 1, to(m)), FALSE)
           count == (n + z - 1) \div z
           parts == [m \in 1..count |-> part(m - 1)]
           end == IF all = <<>> THEN <<>> ELSE <<all>>
           slices == I!Slices(data)
<1>1. n \in Nat /\ z \in Nat \ {0} /\ n + z - 1 \in Nat
  BY ImportAssumption
<1>2. slices = parts \o end
  BY DEF I!Slices
<1>3. all \in Seq(A) /\ KeepsOrder(data, TRUE, n, all)
  BY ItemsOfIs
<1>4. count \in Nat /\ count * z <= n + z - 1 /\ n + z - 1 < count * z + z
  BY <1>1, PieceOf
<1>5. \A m \in Nat : m * z \in Nat /\ (m + 1) * z \in Nat /\ (m + 1) * z = m * z + z
  BY <1>1
<1>6. \A m \in Nat : to(m) \in 0..n /\ (to(m) = n \/ to(m) = (m + 1) * z)
  <2> SUFFICES ASSUME NEW m \in Nat PROVE to(m) \in 0..n /\ (to(m) = n \/ to(m) = (m + 1) * z)
    OBVIOUS
  <2>1. (m + 1) * z \in Nat
    BY <1>5
  <2> QED
    BY <1>1, <2>1, LesserIs
<1> HIDE DEF n, z, to, count, all
<1>7. ASSUME NEW m \in Nat
      PROVE  /\ part(m) \in Seq(A) /\ \A p \in 1..Len(part(m)) : part(m)[p].type # "contracts"
             /\ \A k \in (m * z + 1)..to(m) : data[k].type # "contracts" => \E p \in 1..Len(part(m)) : part(m)[p] = data[k]
  <2> DEFINE t == SubSeq(data, m * z + 1, to(m))
             r == I!ItemsOf(t, FALSE)
  <2>1. t \in Seq(A) /\ \A i \in (m * z + 1)..to(m) : i - m * z \in 1..Len(t) /\ t[i - m * z] = data[i]
    <3> DEFINE a == m * z
               b == to(m)
    <3>1. a \in Nat /\ b \in 0..Len(data)
      BY <1>5, <1>6 DEF n
    <3> HIDE DEF a, b
    <3>2. LET u == SubSeq(data, a + 1, b)
          IN  u \in Seq(A) /\ \A i \in (a + 1)..b : i - a \in 1..Len(u) /\ u[i - a] = data[i]
      BY <3>1, StretchIs
    <3> QED
      BY <3>2 DEF a, b
  <2> HIDE DEF t
  <2>2. r \in Seq(A) /\ KeepsOrder(t, FALSE, Len(t), r)
    BY <2>1, ItemsOfIs
  <2> HIDE DEF r
  <2>3. \A p \in 1..Len(r) : r[p].type # "contracts"
    BY <2>2 DEF KeepsOrder
  <2>4. ASSUME NEW k \in (m * z + 1)..to(m), data[k].type # "contracts" PROVE \E p \in 1..Len(r) : r[p] = data[k]
    <3>1. k - m * z \in 1..Len(t) /\ t[k - m * z] = data[k]
      BY <2>1
    <3> DEFINE j == k - m * z
    <3>2. j \in 1..Len(t) /\ t[j] = data[k] /\ (t[j].type = "contracts") = FALSE
      BY <2>4, <3>1
    <3> HIDE DEF j
    <3>3. \E q \in 1..Len(r) : r[q] = t[j]
      BY <2>2, <3>2 DEF KeepsOrder
    <3> QED
      BY <3>2, <3>3
  <2> QED
    BY <2>2, <2>3, <2>4 DEF r, t
<1> HIDE DEF part
<1>8. parts \in Seq(Seq(A)) /\ Len(parts) = count /\ \A m \in 1..count : parts[m] = part(m - 1)
  <2>1. \A m \in 1..count : part(m - 1) \in Seq(A)
    BY <1>4, <1>7
  <2>2. parts \in [1..count -> Seq(A)] /\ \A m \in 1..count : parts[m] = part(m - 1)
    BY <2>1
  <2> HIDE DEF parts
  <2> QED
    BY <1>4, <2>2
<1>9. end \in Seq(Seq(A)) /\ (all = <<>> => Len(end) = 0) /\ (all # <<>> => Len(end) = 1 /\ end[1] = all)
  BY <1>3
<1> HIDE DEF parts, end, slices
<1>10. /\ slices \in Seq(Seq(A)) /\ Len(slices) = count + Len(end) /\ Len(end) \in Nat
       /\ \A i \in 1..(count + Len(end)) : slices[i] = IF i <= count THEN parts[i] ELSE end[i - count]
  <2>1. /\ parts \o end \in Seq(Seq(A)) /\ Len(parts \o end) = Len(parts) + Len(end)
        /\ \A i \in 1..(Len(parts) + Len(end)) : (parts \o end)[i] = IF i <= Len(parts) THEN parts[i] ELSE end[i - Len(parts)]
    BY <1>8, <1>9, ConcatIs
  <2> QED
    BY <1>2, <1>8, <1>9, <2>1
<1>11. ASSUME NEW q \in 1..Len(slices) PROVE slices[q] = all \/ \A p \in 1..Len(slices[q]) : slices[q][p].type # "contracts"
  <2>1. CASE q <= count
    <3>1. q \in 1..count /\ q - 1 \in Nat /\ slices[q] = parts[q]
      BY <1>4, <1>10, <2>1
    <3>2. slices[q] = part(q - 1)
      BY <1>8, <3>1
    <3> QED
      BY <1>7, <3>1, <3>2
  <2>2. CASE ~(q <= count)
    <3>1. slices[q] = end[q - count] /\ q - count \in 1..Len(end)
      BY <1>4, <1>10, <2>2
    <3>2. Len(end) = 1 /\ end[1] = all
      BY <1>9, <1>10, <3>1
    <3>3. q - count = 1
      BY <1>4, <3>1, <3>2
    <3> QED
      BY <3>1, <3>2, <3>3
  <2> QED
    BY <2>1, <2>2
<1>12. ASSUME NEW k \in 1..n PROVE \E q \in 1..Len(slices) : \E p \in 1..Len(slices[q]) : slices[q][p] = data[k]
  <2>1. CASE data[k].type = "contracts"
    <3>1. PICK p \in 1..Len(all) : all[p] = data[k]
      BY <1>3, <2>1 DEF KeepsOrder
    <3>2. all # <<>>
      BY <1>3, <3>1
    <3>3. count + 1 \in 1..Len(slices) /\ slices[count + 1] = all
      <4>1. Len(end) = 1 /\ end[1] = all
        BY <1>9, <3>2
      <4>2. count + 1 \in 1..(count + Len(end)) /\ ~(count + 1 <= count) /\ (count + 1) - count = 1
        BY <1>4, <4>1
      <4> QED
        BY <1>10, <4>1, <4>2
    <3> QED
      BY <3>1, <3>3
  <2>2. CASE data[k].type # "contracts"
    <3> DEFINE m == (k - 1) \div z
    <3>1. k - 1 \in Nat /\ k \in Nat /\ k <= n
      BY <1>1
    <3>2. m \in Nat /\ m * z <= k - 1 /\ k - 1 < m * z + z
      BY <1>1, <3>1, PieceOf
    <3> HIDE DEF m
    <3>3. (m + 1) * z = m * z + z /\ m * z \in Nat
      BY <1>5, <3>2
    <3>4. k \in (m * z + 1)..to(m)
      <4>1. to(m) = n \/ to(m) = (m + 1) * z
        BY <1>6, <3>2
      <4>2. m * z + 1 <= k /\ k <= to(m) /\ to(m) \in Nat
        BY <1>1, <3>1, <3>2, <3>3, <4>1
      <4> QED
        BY <3>1, <3>3, <4>2
    <3>5. m + 1 \in 1..count
      <4>1. m * z < count * z
        BY <1>1, <1>4, <3>1, <3>2, <3>3
      <4>2. m < count
        <5> SUFFICES ASSUME count <= m PROVE FALSE
          BY <1>4, <3>2
        <5>1. count * z <= m * z
          BY <1>1, <1>4, <3>2
        <5>2. count * z \in Nat
          BY <1>1, <1>4
        <5> QED
          BY <3>3, <4>1, <5>1, <5>2
      <4> QED
        BY <1>4, <3>2, <4>2
    <3>6. m + 1 \in 1..Len(slices) /\ slices[m + 1] = part(m)
      <4>1. m + 1 \in 1..(count + Len(end)) /\ m + 1 <= count /\ (m + 1) - 1 = m
        BY <1>4, <1>10, <3>2, <3>5
      <4> QED
        BY <1>8, <1>10, <3>5, <4>1
    <3>7. \E p \in 1..Len(part(m)) : part(m)[p] = data[k]
      BY <1>7, <2>2, <3>2, <3>4
    <3> QED
      BY <3>6, <3>7
  <2> QED
    BY <2>1, <2>2
<1>13. ContractsApart(data, slices)
  BY <1>11 DEF ContractsApart, all
<1> QED
  BY <1>10, <1>12, <1>13 DEF slices, n

\* What a file has, also when there is none.
LEMMA FileIs ==
  ASSUME NEW file \in ImportFiles \cup {I!NoFile}
  PROVE  file.data \in Seq({file.data[i] : i \in 1..Len(file.data)}) /\ file.data \in Seq(ImportItems)
<1> DEFINE data == file.data
           A == {data[i] : i \in DOMAIN data}
<1>1. CASE file \in ImportFiles
  <2>1. data \in Seq(A)
    BY <1>1, ImportAssumption
  <2>2. DOMAIN data = 1..Len(data) /\ Len(data) \in Nat
    BY <2>1
  <2>3. \A i \in 1..Len(data) : data[i] \in ImportItems
    BY <1>1, <2>2 DEF ImportItems
  <2>4. data = [i \in 1..Len(data) |-> data[i]]
    BY <2>1, <2>2
  <2>5. data \in Seq(ImportItems)
    <3> HIDE DEF data
    <3> QED
      BY <2>2, <2>3, <2>4
  <2> QED
    BY <2>1, <2>2, <2>5
<1>2. CASE file = I!NoFile
  <2>1. data = <<>>
    BY <1>2 DEF I!NoFile
  <2>2. \A x : <<>> \in Seq(x)
    OBVIOUS
  <2> QED
    BY <2>1, <2>2
<1> QED
  BY <1>1, <1>2

\* The items of the files are for rows there may be.
LEMMA SlotsAre ==
  \A a \in ImportItems : I!Slot(a) \in ImportSlots
BY ImportAssumption DEF ImportItems, I!Slot

\* Each item of a piece has its row.
Brought(r, piece) == \A p \in 1..Len(piece) : HasItem(r, piece[p])

\* A page has a file; the pieces sent of it are pieces of it, and what they
\* brought is still in the rows.
ImportInv ==
  /\ items \in ImportRows
  /\ buffer \in [Importers -> ImportFiles \cup {I!NoFile}] /\ page \in [Importers -> ImportFiles \cup {I!NoFile}]
  /\ sent \in [Importers -> SUBSET Nat]
  /\ \A k \in Importers : \A i \in sent[k] :
       i \in 1..Len(I!Slices(page[k].data)) /\ Brought(items, I!Slices(page[k].data)[i])

\* A piece is imported.
LEMMA PieceIs ==
  ASSUME NEW r \in ImportRows, NEW data \in Seq(ImportItems), NEW i \in 1..Len(I!Slices(data))
  PROVE  LET piece == I!Slices(data)[i]
         IN  /\ piece \in Seq(ImportItems) /\ Len(piece) \in Nat
             /\ \A j \in 1..Len(piece) : I!Slot(piece[j]) \in ImportSlots
             /\ \A m \in 0..Len(piece) :
                  /\ I!Along(r, piece)[m] \in ImportRows /\ Grows(r, I!Along(r, piece)[m])
                  /\ \A j \in 1..m : HasItem(I!Along(r, piece)[m], piece[j])
<1> DEFINE piece == I!Slices(data)[i]
<1>1. I!Slices(data) \in Seq(Seq(ImportItems))
  BY SlicesAre
<1>2. piece \in Seq(ImportItems)
  BY <1>1
<1> HIDE DEF piece
<1>3. Len(piece) \in Nat /\ \A j \in 1..Len(piece) : I!Slot(piece[j]) \in ImportSlots
  BY <1>2, SlotsAre
<1>4. \A m \in 0..Len(piece) :
         /\ I!Along(r, piece)[m] \in ImportRows /\ Grows(r, I!Along(r, piece)[m])
         /\ \A j \in 1..m : HasItem(I!Along(r, piece)[m], piece[j])
  BY <1>2, <1>3, AlongGrows
<1> QED
  BY <1>2, <1>3, <1>4 DEF piece

LEMMA ImportInvInit ==
  ASSUME I!Init
  PROVE  ImportInv
<1>1. items \in ImportRows
  BY DEF I!Init, ImportRows, ImportValues
<1>2. /\ buffer \in [Importers -> ImportFiles \cup {I!NoFile}] /\ page \in [Importers -> ImportFiles \cup {I!NoFile}]
      /\ sent \in [Importers -> SUBSET Nat] /\ \A k \in Importers : sent[k] = {}
  BY DEF I!Init
<1> QED
  BY <1>1, <1>2 DEF ImportInv

LEMMA ImportStepKeeps ==
  ASSUME ImportInv, NEW k \in Importers, NEW i \in DOMAIN I!Slices(page[k].data), I!Import(k, i)
  PROVE  ImportInv'
<1> DEFINE data == page[k].data
           piece == I!Slices(data)[i]
           n == Len(piece)
           r == I!Along(items, piece)[n]
<1>1. /\ items \in ImportRows /\ sent \in [Importers -> SUBSET Nat] /\ page[k] \in ImportFiles \cup {I!NoFile}
      /\ page \in [Importers -> ImportFiles \cup {I!NoFile}] /\ buffer \in [Importers -> ImportFiles \cup {I!NoFile}]
      /\ \A x \in Importers : \A j \in sent[x] :
           j \in 1..Len(I!Slices(page[x].data)) /\ Brought(items, I!Slices(page[x].data)[j])
  BY DEF ImportInv
<1>2. /\ i \in DOMAIN I!Slices(data) /\ items' = r /\ sent' = [sent EXCEPT ![k] = @ \cup {i}]
      /\ page' = page /\ buffer' = buffer
  BY DEF I!Import
<1>3. data \in Seq(ImportItems)
  BY <1>1, FileIs
<1> HIDE DEF data
<1>4. i \in 1..Len(I!Slices(data))
  <2>1. I!Slices(data) \in Seq(Seq(ImportItems))
    BY <1>3, SlicesAre
  <2> QED
    BY <1>2, <2>1
<1>5. /\ piece \in Seq(ImportItems) /\ n \in Nat
      /\ \A m \in 0..n :
           /\ I!Along(items, piece)[m] \in ImportRows /\ Grows(items, I!Along(items, piece)[m])
           /\ \A j \in 1..m : HasItem(I!Along(items, piece)[m], piece[j])
  BY <1>1, <1>3, <1>4, PieceIs
<1> HIDE DEF piece
<1>6. n \in 0..n
  BY <1>5
<1>7. r \in ImportRows /\ Grows(items, r) /\ Brought(r, piece)
  BY <1>5, <1>6 DEF Brought
<1> HIDE DEF r
<1>8. ASSUME NEW x \in Importers, NEW j \in sent[x] PROVE Brought(r, I!Slices(page[x].data)[j])
  <2> DEFINE q == I!Slices(page[x].data)[j]
  <2>1. j \in 1..Len(I!Slices(page[x].data)) /\ Brought(items, q) /\ page[x] \in ImportFiles \cup {I!NoFile}
    BY <1>1
  <2>2. page[x].data \in Seq(ImportItems)
    BY <2>1, FileIs
  <2>3. \A p \in 1..Len(q) : I!Slot(q[p]) \in ImportSlots
    BY <1>1, <2>1, <2>2, PieceIs
  <2> HIDE DEF q
  <2>4. Brought(r, q)
    <3> SUFFICES ASSUME NEW p \in 1..Len(q) PROVE HasItem(r, q[p])
      BY DEF Brought
    <3>1. HasItem(items, q[p]) /\ I!Slot(q[p]) \in ImportSlots
      BY <2>1, <2>3 DEF Brought
    <3> QED
      BY <1>7, <3>1, GrowsKeeps
  <2> QED
    BY <2>4 DEF q
<1>9. sent' \in [Importers -> SUBSET Nat] /\ \A x \in Importers : sent'[x] = IF x = k THEN sent[x] \cup {i} ELSE sent[x]
  <2>1. i \in Nat /\ sent[k] \in SUBSET Nat
    BY <1>1, <1>4
  <2>2. sent[k] \cup {i} \in SUBSET Nat
    BY <2>1
  <2>3. sent' = [x \in Importers |-> IF x = k THEN sent[x] \cup {i} ELSE sent[x]]
    BY <1>1, <1>2
  <2> QED
    BY <1>1, <2>2, <2>3
<1>10. ASSUME NEW x \in Importers, NEW j \in sent'[x]
       PROVE  j \in 1..Len(I!Slices(page[x].data)) /\ Brought(r, I!Slices(page[x].data)[j])
  <2>1. CASE j \in sent[x]
    BY <1>1, <1>8, <2>1
  <2>2. CASE j \notin sent[x]
    <3>1. x = k /\ j = i
      BY <1>9, <2>2
    <3> QED
      BY <1>4, <1>7, <3>1 DEF piece, data
  <2> QED
    BY <2>1, <2>2
<1> QED
  BY <1>1, <1>2, <1>7, <1>9, <1>10 DEF ImportInv

LEMMA ImportInvNext == ImportInv /\ [Next]_vars => ImportInv'
<1> SUFFICES ASSUME ImportInv, [Next]_vars PROVE ImportInv'
  OBVIOUS
<1>1. I!Next \/ UNCHANGED imp
  BY DEF Next, vars, imp
<1>2. ASSUME NEW k \in Importers, NEW file \in ImportFiles, I!ImportUpload(k, file) PROVE ImportInv'
  <2>1. items' = items /\ page' = page /\ sent' = sent /\ buffer' = [buffer EXCEPT ![k] = file]
    BY <1>2 DEF I!ImportUpload
  <2>2. buffer' \in [Importers -> ImportFiles \cup {I!NoFile}]
    BY <2>1 DEF ImportInv
  <2> QED
    BY <2>1, <2>2 DEF ImportInv
<1>3. ASSUME NEW k \in Importers, I!ReadBuffer(k) PROVE ImportInv'
  <2>1. items' = items /\ buffer' = buffer /\ page' = [page EXCEPT ![k] = buffer[k]] /\ sent' = [sent EXCEPT ![k] = {}]
    BY <1>3 DEF I!ReadBuffer
  <2>2. /\ page' \in [Importers -> ImportFiles \cup {I!NoFile}] /\ sent' \in [Importers -> SUBSET Nat]
        /\ \A x \in Importers : x # k => page'[x] = page[x] /\ sent'[x] = sent[x]
        /\ sent'[k] = {}
    BY <2>1 DEF ImportInv
  <2>3. \A x \in Importers : \A i \in sent'[x] :
          i \in 1..Len(I!Slices(page'[x].data)) /\ Brought(items, I!Slices(page'[x].data)[i])
    BY <2>2 DEF ImportInv
  <2> QED
    BY <2>1, <2>2, <2>3 DEF ImportInv
<1>4. ASSUME NEW k \in Importers, NEW i \in DOMAIN I!Slices(page[k].data), I!Import(k, i) PROVE ImportInv'
  BY <1>4, ImportStepKeeps
<1>5. CASE UNCHANGED imp
  BY <1>5 DEF imp, ImportInv
<1> QED
  BY <1>1, <1>2, <1>3, <1>4, <1>5, Zenon DEF I!Next

LEMMA ImportInvEnough ==
  ASSUME ImportInv
  PROVE  I!ImportArrives
<1>1. I!ImportIsWhole
  <2> SUFFICES ASSUME NEW k \in Importers, sent[k] = DOMAIN I!Slices(page[k].data), NEW i \in DOMAIN page[k].data
               PROVE  HasItem(items, page[k].data[i])
    BY DEF I!ImportIsWhole, HasItem
  <2> DEFINE data == page[k].data
             S1 == I!Slices(data)
  <2>1. page[k] \in ImportFiles \cup {I!NoFile}
    BY DEF ImportInv
  <2>2. data \in Seq(ImportItems)
    BY <2>1, FileIs
  <2> HIDE DEF data
  <2>3. i \in 1..Len(data)
    BY <2>2 DEF data
  <2>4. /\ S1 \in Seq(Seq(ImportItems))
        /\ \A j \in 1..Len(data) : \E q \in 1..Len(S1) : \E p \in 1..Len(S1[q]) : S1[q][p] = data[j]
    BY <2>2, SlicesAre
  <2> HIDE DEF S1
  <2>5. PICK q \in 1..Len(S1) : \E p \in 1..Len(S1[q]) : S1[q][p] = data[i]
    BY <2>3, <2>4
  <2>6. q \in sent[k]
    BY <2>4 DEF S1, data
  <2>7. Brought(items, S1[q])
    BY <2>6 DEF ImportInv, S1, data
  <2>8. HasItem(items, data[i])
    BY <2>5, <2>7 DEF Brought
  <2> QED
    BY <2>8 DEF data
<1>2. I!ImportGoesOn
  <2> SUFFICES ASSUME NEW k \in Importers, I!CallsAreEarlier(page[k].data), NEW q \in DOMAIN I!Slices(page[k].data)
               PROVE  I!Compiles(items, I!Slices(page[k].data)[q])
    BY DEF I!ImportGoesOn
  <2> DEFINE data == page[k].data
             A == {data[i] : i \in 1..Len(data)}
             all == I!ItemsOf(data, TRUE)
             piece == I!Slices(data)[q]
  <2>1. page[k] \in ImportFiles \cup {I!NoFile} /\ items \in ImportRows
    BY DEF ImportInv
  <2>2. data \in Seq(A) /\ data \in Seq(ImportItems)
    BY <2>1, FileIs
  <2>3. I!CallsAreEarlier(data) /\ q \in DOMAIN I!Slices(data)
    OBVIOUS
  <2> HIDE DEF data
  <2>4. Len(data) \in Nat /\ DOMAIN data = 1..Len(data) /\ \A x \in A : \E i \in 1..Len(data) : x = data[i]
    BY <2>2
  <2> HIDE DEF A
  <2>5. I!Slices(data) \in Seq(Seq(A)) /\ ContractsApart(data, I!Slices(data))
    BY <2>2, SlicesAre
  <2>6. q \in 1..Len(I!Slices(data)) /\ piece \in Seq(A)
    BY <2>3, <2>5
  <2>7. /\ piece \in Seq(ImportItems) /\ Len(piece) \in Nat
        /\ \A m \in 0..Len(piece) :
             /\ I!Along(items, piece)[m] \in ImportRows
             /\ \A j \in 1..m : HasItem(I!Along(items, piece)[m], piece[j])
    BY <2>1, <2>2, <2>6, PieceIs
  <2>8. piece = all \/ \A p \in 1..Len(piece) : piece[p].type # "contracts"
    BY <2>5, <2>6 DEF ContractsApart
  <2> HIDE DEF piece
  <2>9. ASSUME NEW p \in 1..Len(piece), NEW n \in piece[p].needs PROVE I!Along(items, piece)[p - 1][<<"contracts", n>>] # {}
    <3>1. CASE piece = all
      <4>1. KeepsOrder(data, TRUE, Len(data), all)
        BY <2>2, ItemsOfIs
      <4> HIDE DEF all
      <4>2. PICK i \in 1..Len(data) :
              /\ piece[p] = data[i]
              /\ \A j \in 1..(i - 1) : (data[j].type = "contracts") = TRUE => \E x \in 1..(p - 1) : piece[x] = data[j]
        BY <3>1, <4>1 DEF KeepsOrder
      <4>3. PICK j \in 1..(i - 1) : data[j].type = "contracts" /\ data[j].name = n
        BY <2>3, <2>4, <2>9, <4>2 DEF I!CallsAreEarlier
      <4>4. PICK x \in 1..(p - 1) : piece[x] = data[j]
        BY <4>2, <4>3
      <4>5. p - 1 \in 0..Len(piece)
        BY <2>7
      <4>6. HasItem(I!Along(items, piece)[p - 1], piece[x])
        BY <2>7, <4>5
      <4>7. I!Slot(piece[x]) = <<"contracts", n>>
        BY <4>3, <4>4 DEF I!Slot
      <4> QED
        BY <4>6, <4>7 DEF HasItem
    <3>2. CASE \A x \in 1..Len(piece) : piece[x].type # "contracts"
      <4>1. piece[p] \in A
        BY <2>6
      <4>2. PICK i \in 1..Len(data) : piece[p] = data[i]
        BY <2>4, <4>1
      <4>3. data[i].type = "contracts"
        BY <2>3, <2>4, <2>9, <4>2 DEF I!CallsAreEarlier
      <4> QED
        BY <3>2, <4>2, <4>3
    <3> QED
      BY <2>8, <3>1, <3>2
  <2>10. DOMAIN piece = 1..Len(piece)
    BY <2>7
  <2>11. I!Compiles(items, piece)
    BY <2>9, <2>10 DEF I!Compiles
  <2> QED
    BY <2>11 DEF piece, data
<1> QED
  BY <1>1, <1>2 DEF I!ImportArrives

\* For any files and any size of the pieces, when all the pieces of a file have
\* been imported every item of it has its row and every menu the text that it
\* adds, whatever others imported meanwhile; and a file that has each contract
\* after those it calls never stops half way (ImportUpload, Import).
THEOREM ImportAlwaysArrives == Spec => []ImportArrives
<1>1. Init => ImportInv
  BY ImportInvInit DEF Init
<1>2. ImportInv => ImportArrives
  BY ImportInvEnough DEF ImportArrives
<1> QED
  BY <1>1, <1>2, ImportInvNext, PTL DEF Spec
=============================================================================
