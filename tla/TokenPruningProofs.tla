-------------------------- MODULE TokenPruningProofs --------------------------
(***************************************************************************)
(* Proofs about TokenPruning: for every model output, special mask and     *)
(* rate, the tokens kept are the right ones, the right number of them, and *)
(* in the right order.                                                     *)
(***************************************************************************)
EXTENDS TokenPruning, ArithmeticProofs

------------------------------------------------------------------------------
\* Drop probabilities.

\* The sum of a row's terms is a number, and none of them exceeds it.
LEMMA RowSum ==
  ASSUME NEW n \in Nat, NEW f \in [1 .. n -> Nat], NEW k \in 1 .. n
  PROVE  Total(f) \in Nat /\ f[k] <= Total(f)
<1>1. IsFiniteSet(DOMAIN f) /\ \A x \in DOMAIN f : f[x] \in Nat
  BY UpTo
<1> QED BY <1>1, TotalType, ValueInTotal

\* Whatever logits the model gives, NaN and infinities included, the drop
\* probability is a number of [0, 1].
LEMMA DropProbInUnit ==
  ASSUME NEW n \in Nat, n >= DropClass, NEW row \in [1 .. n -> Logits]
  PROVE  DropProb(row) \in Unit
<1>1. CASE SumIsNaN(row)
  BY <1>1 DEF DropProb, Zero, Fraction, Unit
<1>2. CASE ~SumIsNaN(row)
  <2> DEFINE f == Terms(row)
  <2>1. ASSUME NEW i \in 1 .. n
        PROVE  /\ row[i].den \in {0, 1}
               /\ Term(row[i]) \in Nat
               /\ row[i].den = 1 => Term(row[i]) > 0
    <3>1. row[i] \in Logits
      OBVIOUS
    <3>2. row[i] \in [num : Int, den : {0, 1}]
          /\ (row[i].den = 1 => Exp[row[i].num] \in Nat \ {0})
      BY <3>1, LogitsAssumption
    <3> QED BY <3>2 DEF Term
  <2>2. f \in [1 .. n -> Nat] /\ \A i \in 1 .. n : f[i] = Term(row[i])
    BY <2>1 DEF Terms
  <2>3. PICK i \in 1 .. n : row[i].den = 1
    BY <1>2, <2>1 DEF SumIsNaN, MaxIsInfinite
  <2> HIDE DEF f
  <2>4. Total(f) \in Nat /\ Total(f) > 0
    <3>1. f[i] \in Nat /\ f[i] > 0
      BY <2>1, <2>2, <2>3
    <3>2. Total(f) \in Nat /\ f[i] <= Total(f)
      BY <2>2, RowSum
    <3> QED BY <3>1, <3>2
  <2>5. /\ DropClass \in 1 .. n
        /\ f[DropClass] \in Nat /\ f[DropClass] <= Total(f)
        /\ Term(row[DropClass]) = f[DropClass]
    <3>1. DropClass \in 1 .. n
      BY DEF DropClass
    <3> QED BY <2>2, <3>1, RowSum
  <2>6. DropProb(row) = [num |-> f[DropClass], den |-> Total(f)]
    BY <1>2, <2>5 DEF DropProb, Softmax, Fraction, f
  <2> QED BY <2>4, <2>5, <2>6 DEF Unit
<1> QED BY <1>1, <1>2

------------------------------------------------------------------------------
\* The invariant.

\* The tokens of the window are finitely many, and so are those that may go.
Encoded == special \in UNION {[1 .. n -> BOOLEAN] : n \in 0 .. MaxTokens}

LEMMA WindowShape ==
  ASSUME Encoded
  PROVE  /\ IsFiniteSet(Window) /\ Window \in SUBSET Nat
         /\ \A i \in Window : special[i] \in BOOLEAN
         /\ IsFiniteSet(NonSpecial) /\ Cardinality(NonSpecial) \in Nat
<1>1. PICK n \in 0 .. MaxTokens : special \in [1 .. n -> BOOLEAN]
  BY DEF Encoded
<1>2. n \in Nat /\ Len(special) = n
  BY <1>1, BoundsAssumption
<1>3. PICK m \in Nat : Window = 1 .. m /\ m <= n
  BY <1>2, BoundsAssumption DEF Window
<1>4. IsFiniteSet(Window)
  BY <1>3, UpTo
<1>5. NonSpecial \in SUBSET Window
  BY DEF NonSpecial
<1>6. \A i \in Window : special[i] \in BOOLEAN
  BY <1>1, <1>2, <1>3
<1>7. Window \in SUBSET Nat
  BY <1>3
<1> QED BY <1>4, <1>5, <1>6, <1>7, FS_Subset, FS_CardinalityType

Probed == DOMAIN probs = Window /\ \A i \in Window : probs[i] \in Unit
Ordered == [k \in 1 .. Cardinality(keep) |-> Survivor(k)]

\* Each phase holds what the one before it computed.
PruneInv ==
  /\ Encoded
  /\ rate \in Rates
  /\ phase \in {"encoded", "probed", "selected", "done", "err"}
  /\ phase \in {"encoded", "err"} => DOMAIN probs = {} /\ keep = {} /\ surviving = << >>
  /\ phase = "probed" => Probed /\ keep = {}
  /\ phase = "selected" => Probed /\ keep = Kept
  /\ phase = "done" =>
       \/ Probed /\ keep = Kept /\ surviving = Ordered
       \/ Window = {} /\ DOMAIN probs = {} /\ keep = {} /\ surviving = << >>

LEMMA PruneStep == PruneInv /\ [Next]_vars => PruneInv'
<1> SUFFICES ASSUME PruneInv, [Next]_vars PROVE PruneInv'
  OBVIOUS
<1>1. CASE NoTokens
  <2>1. /\ phase = "encoded" /\ phase' = "done" /\ Window = {}
        /\ UNCHANGED <<special, rate, probs, keep, surviving>>
    BY <1>1 DEF NoTokens
  <2>2. Window' = {}
    BY <2>1 DEF Window
  <2> QED BY <2>1, <2>2 DEF PruneInv, Encoded
<1>2. ASSUME NEW classes \in Classes, Infer(classes)
      PROVE  PruneInv'
  <2>1. /\ phase = "encoded" /\ UNCHANGED <<special, rate, keep, surviving>>
        /\ IF classes < DropClass
           THEN phase' = "err" /\ probs' = probs
           ELSE /\ phase' = "probed"
                /\ probs' \in [Window -> {DropProb(row) : row \in [1 .. classes -> Logits]}]
    BY <1>2 DEF Infer
  <2>2. Window' = Window /\ Encoded' /\ rate' \in Rates /\ keep' = {}
    BY <2>1 DEF PruneInv, Encoded, Window
  <2>3. CASE classes < DropClass
    BY <2>1, <2>2, <2>3 DEF PruneInv
  <2>4. CASE ~(classes < DropClass)
    <3>1. probs' \in [Window -> {DropProb(row) : row \in [1 .. classes -> Logits]}]
      BY <2>1, <2>4
    <3>2. ASSUME NEW row \in [1 .. classes -> Logits]
          PROVE  DropProb(row) \in Unit
      <4>1. classes \in Nat
        BY ClassesAssumption
      <4>2. classes >= DropClass
        BY <2>4, <4>1 DEF DropClass
      <4> QED BY <4>1, <4>2, DropProbInUnit
    <3>3. Probed'
      BY <2>2, <3>1, <3>2 DEF Probed
    <3> QED BY <2>1, <2>2, <2>4, <3>3 DEF PruneInv
  <2> QED BY <2>3, <2>4
<1>3. CASE Select
  <2>1. /\ phase = "probed" /\ phase' = "selected" /\ keep' = Kept
        /\ UNCHANGED <<special, rate, probs, surviving>>
    BY <1>3 DEF Select
  <2>2. Kept' = Kept /\ Window' = Window
    BY <2>1 DEF Kept, NonSpecial, Window, Rank, Precedes, Less, KeepCount
  <2> QED BY <2>1, <2>2 DEF PruneInv, Encoded, Probed
<1>4. CASE Survive
  <2>1. /\ phase = "selected" /\ phase' = "done" /\ surviving' = Ordered
        /\ UNCHANGED <<special, rate, probs, keep>>
    BY <1>4 DEF Survive, Ordered
  <2>2. Kept' = Kept /\ Window' = Window /\ Ordered' = Ordered
    BY <2>1 DEF Kept, NonSpecial, Window, Rank, Precedes, Less, KeepCount, Ordered, Survivor
  <2> QED BY <2>1, <2>2 DEF PruneInv, Encoded, Probed
<1>5. CASE UNCHANGED vars
  <2>1. UNCHANGED <<special, rate, phase, probs, keep, surviving>>
    BY <1>5 DEF vars
  <2>2. Kept' = Kept /\ Window' = Window /\ Ordered' = Ordered
    BY <2>1 DEF Kept, NonSpecial, Window, Rank, Precedes, Less, KeepCount, Ordered, Survivor
  <2> QED BY <2>1, <2>2 DEF PruneInv, Encoded, Probed
<1> QED BY <1>1, <1>2, <1>3, <1>4, <1>5 DEF Next

LEMMA PruneHolds == Spec => []PruneInv
<1>1. Init => PruneInv
  BY DEF Init, PruneInv, Encoded
<1> QED BY <1>1, PruneStep, PTL DEF Spec

LEMMA KeptInWindow == Kept \subseteq Window /\ \A i \in Window : special[i] => i \in Kept
BY DEF Kept, NonSpecial

\* Probabilities are numbers of [0, 1] whatever logits the model gives: the sort
\* that follows is on a total order, as no NaN is left to compare.
THEOREM TypeCorrect == Spec => []TypeOK
<1>1. PruneInv => TypeOK
  <2> SUFFICES ASSUME PruneInv PROVE TypeOK
    OBVIOUS
  <2>1. DOMAIN probs \in {{}, Window} /\ \A i \in DOMAIN probs : probs[i] \in Unit
    BY DEF PruneInv, Probed
  <2>2. keep \subseteq Window
    BY KeptInWindow DEF PruneInv
  <2> QED BY <2>1, <2>2 DEF PruneInv, TypeOK, Unit
<1> QED BY <1>1, PruneHolds, PTL

------------------------------------------------------------------------------
\* The order of the sort.

\* Without a NaN, partial_cmp and the position make a strict total order.
LEMMA PrecedesOrder ==
  ASSUME Encoded, Probed
  PROVE  /\ \A i \in NonSpecial : ~Precedes(i, i)
         /\ \A i, j \in NonSpecial : i = j \/ Precedes(i, j) \/ Precedes(j, i)
         /\ \A i, j, k \in NonSpecial : Precedes(i, j) /\ Precedes(j, k) => Precedes(i, k)
<1> DEFINE ge(i, j) == AtLeast(probs[i], probs[j])
<1>1. \A i \in NonSpecial : i \in Nat /\ probs[i] \in Unit
  BY WindowShape DEF NonSpecial, Probed
<1>2. \A i, j \in NonSpecial : ge(i, j) \/ ge(j, i)
  BY <1>1, AtLeastTotal
<1>3. \A i, j, k \in NonSpecial : ge(i, j) /\ ge(j, k) => ge(i, k)
  BY <1>1, AtLeastTransitive
<1>4. \A i, j \in NonSpecial : Precedes(i, j) <=>
        (ge(j, i) /\ ~ge(i, j)) \/ (~(ge(i, j) /\ ~ge(j, i)) /\ i < j)
  BY DEF Precedes, Less
<1> HIDE DEF ge
<1>5. \A i, j \in NonSpecial : Precedes(i, j) <=> ge(j, i) /\ (ge(i, j) => i < j)
  BY <1>2, <1>4
<1>6. \A i \in NonSpecial : ~Precedes(i, i)
  BY <1>1, <1>5
<1>7. \A i, j \in NonSpecial : i = j \/ Precedes(i, j) \/ Precedes(j, i)
  BY <1>1, <1>2, <1>5
<1>8. ASSUME NEW i \in NonSpecial, NEW j \in NonSpecial, NEW k \in NonSpecial,
             Precedes(i, j), Precedes(j, k)
      PROVE  Precedes(i, k)
  <2>1. ge(j, i) /\ ge(k, j) /\ (ge(i, j) => i < j) /\ (ge(j, k) => j < k)
    BY <1>5, <1>8
  <2>2. ge(k, i)
    BY <1>3, <2>1
  <2>3. ASSUME ge(i, k)
        PROVE  i < k
    <3>1. ge(i, j) /\ ge(j, k)
      BY <1>3, <2>1, <2>3
    <3> QED BY <1>1, <2>1, <3>1
  <2> QED BY <1>5, <2>2, <2>3
<1> QED BY <1>6, <1>7, <1>8

\* So the sort gives every token that may go a place of its own.
LEMMA RankShape ==
  ASSUME Encoded, Probed
  PROVE  /\ [i \in NonSpecial |-> Rank(i)]
              \in Bijection(NonSpecial, 0 .. Cardinality(NonSpecial) - 1)
         /\ \A i, j \in NonSpecial : Precedes(i, j) <=> Rank(i) < Rank(j)
<1> DEFINE S == NonSpecial
           R == {p \in S \X S : Precedes(p[1], p[2])}
           rank == [i \in S |-> Cardinality({j \in S : <<j, i>> \in R})]
<1>1. \A i, j \in S : <<i, j>> \in R <=> Precedes(i, j)
  OBVIOUS
<1>2. ASSUME NEW i \in S
      PROVE  {j \in S : <<j, i>> \in R} = {j \in S : Precedes(j, i)}
  BY <1>1
<1>3. rank = [i \in S |-> Rank(i)]
  BY <1>2 DEF Rank
<1>4. /\ IsFiniteSet(S)
      /\ \A i \in S : ~Precedes(i, i)
      /\ \A i, j \in S : i = j \/ Precedes(i, j) \/ Precedes(j, i)
      /\ \A i, j, k \in S : Precedes(i, j) /\ Precedes(j, k) => Precedes(i, k)
  BY WindowShape, PrecedesOrder
<1> HIDE DEF R, S
<1>5. /\ \A x \in S : <<x, x>> \notin R
      /\ \A x, y \in S : x = y \/ <<x, y>> \in R \/ <<y, x>> \in R
      /\ \A x, y, z \in S : <<x, y>> \in R /\ <<y, z>> \in R => <<x, z>> \in R
  BY <1>1, <1>4
<1>6. /\ rank \in Bijection(S, 0 .. Cardinality(S) - 1)
      /\ \A x, y \in S : <<x, y>> \in R <=> rank[x] < rank[y]
  <2> DEFINE r == rank
  <2>1. r = [x \in S |-> Cardinality({y \in S : <<y, x>> \in R})]
    OBVIOUS
  <2> HIDE DEF r
  <2>2. /\ r \in Bijection(S, 0 .. Cardinality(S) - 1)
        /\ \A x, y \in S : <<x, y>> \in R <=> r[x] < r[y]
    BY <1>4, <1>5, <2>1, RankBijection
  <2> QED BY <2>2 DEF r
<1>7. \A i, j \in S : Precedes(i, j) <=> Rank(i) < Rank(j)
  BY <1>1, <1>3, <1>6
<1> QED BY <1>3, <1>6, <1>7 DEF S

LEMMA RankInNat ==
  ASSUME Encoded, NEW i \in NonSpecial
  PROVE  Rank(i) \in Nat
<1> DEFINE before == {j \in NonSpecial : Precedes(j, i)}
<1>1. before \in SUBSET NonSpecial
  OBVIOUS
<1> HIDE DEF before
<1>2. IsFiniteSet(before)
  BY <1>1, WindowShape, FS_Subset
<1> QED BY <1>2, FS_CardinalityType DEF Rank, before

------------------------------------------------------------------------------
\* The number of tokens to keep.

\* ceil: the least number of tokens not under the rate, never more than there
\* are.
LEMMA KeepCountIsCeil ==
  ASSUME Encoded, rate \in Rates
  PROVE  /\ KeepCount \in Nat /\ KeepCount <= Cardinality(NonSpecial)
         /\ rate # NaN =>
              LET total == Cardinality(NonSpecial)
                  r == ClampUnit(rate)
              IN  /\ r.num * total <= KeepCount * r.den
                  /\ (KeepCount - 1) * r.den < r.num * total
<1> DEFINE total == Cardinality(NonSpecial)
           r == ClampUnit(rate)
<1>1. total \in Nat
  BY WindowShape
<1>2. rate \in [num : Int, den : Nat] /\ (rate.den = 0 => rate = NaN)
  BY RatesAssumption
<1>3. CASE rate = NaN
  <2>1. IsNaN(r)
    BY <1>3 DEF ClampUnit, NaN, Fraction, IsNaN
  <2> QED BY <1>1, <1>3, <2>1 DEF KeepCount
<1>4. CASE rate # NaN
  <2>1. r.num \in Nat /\ r.den \in Nat /\ r.den > 0 /\ r.num <= r.den
    BY <1>2, <1>4 DEF ClampUnit, Zero, One, Fraction
  <2>2. KeepCount = (r.num * total + r.den - 1) \div r.den
    BY <2>1 DEF KeepCount, IsNaN
  <2> DEFINE n == r.num
             d == r.den
             q == KeepCount
             a == n * total
  <2>3. n \in Nat /\ d \in Nat /\ d > 0 /\ n <= d /\ q = (a + d - 1) \div d
    BY <2>1, <2>2
  <2> HIDE DEF n, d, q, r, total
  <2>4. a \in Nat /\ a <= total * d /\ a + d - 1 \in Nat
    BY <1>1, <2>3, TimesMonotone
  <2> HIDE DEF a
  <2>5. q \in Nat /\ q * d <= a + d - 1 /\ a + d - 1 < q * d + d
    BY <2>3, <2>4, DivBounds
  <2>6. a <= q * d /\ (q - 1) * d < a
    BY <2>3, <2>4, <2>5
  <2>7. (q - 1) * d < total * d
    BY <1>1, <2>3, <2>4, <2>5, <2>6
  <2>8. q - 1 < total
    BY <1>1, <2>3, <2>5, <2>7, TimesMonotone
  <2> QED BY <1>1, <1>4, <2>5, <2>6, <2>8 DEF a, n, d, q, r, total
<1> QED BY <1>3, <1>4

\* Special tokens survive at any rate, and no pruned token is more informative
\* than a kept one; of equals the earliest are kept.
THEOREM MostInformativeKept == Spec => []KeepsMostInformative
<1>1. PruneInv => KeepsMostInformative
  <2> SUFFICES ASSUME PruneInv, Chosen, NEW j \in Window \ keep
               PROVE  ~special[j] /\ \A i \in keep : special[i] \/ Precedes(i, j)
    BY DEF KeepsMostInformative, Precedes
  <2>1. Encoded /\ Probed /\ keep = Kept
    BY DEF PruneInv, Chosen
  <2>2. ~special[j] /\ j \in NonSpecial /\ ~(Rank(j) < KeepCount)
    BY <2>1 DEF Kept, NonSpecial
  <2>3. ASSUME NEW i \in keep, ~special[i]
        PROVE  Precedes(i, j)
    <3>1. i \in NonSpecial /\ Rank(i) < KeepCount
      BY <2>1, <2>3 DEF Kept, NonSpecial
    <3>2. Rank(i) \in Nat /\ Rank(j) \in Nat /\ KeepCount \in Nat
      BY <2>1, <2>2, <3>1, RankInNat, KeepCountIsCeil DEF PruneInv
    <3> QED BY <2>1, <2>2, <3>1, <3>2, RankShape
  <2> QED BY <2>2, <2>3
<1> QED BY <1>1, PruneHolds, PTL


\* Of the tokens that may go exactly KeepCount stay.
LEMMA KeptCount ==
  ASSUME Encoded, Probed, rate \in Rates
  PROVE  Cardinality(Kept \ {i \in Window : special[i]}) = KeepCount
<1> DEFINE S == NonSpecial
           rank == [i \in S |-> Rank(i)]
<1>1. /\ IsFiniteSet(S) /\ KeepCount \in Nat /\ KeepCount <= Cardinality(S)
      /\ rank \in Bijection(S, 0 .. Cardinality(S) - 1)
  BY WindowShape, KeepCountIsCeil, RankShape
<1>2. Kept \ {i \in Window : special[i]} = {i \in S : rank[i] < KeepCount}
  BY DEF Kept, NonSpecial
<1> HIDE DEF rank, S
<1> QED BY <1>1, <1>2, RankedBelow

\* "ceil(target_rate * count)": the least number of tokens not under the rate
\* is kept, so a rate above 0 keeps one.
THEOREM RateKept == Spec => []KeepsTheRate
<1>1. PruneInv => KeepsTheRate
  <2> SUFFICES ASSUME PruneInv, Chosen, rate # NaN PROVE KeepsTheRate
    BY DEF KeepsTheRate
  <2>1. Encoded /\ Probed /\ keep = Kept /\ rate \in Rates
    BY DEF PruneInv, Chosen
  <2>2. Cardinality(keep \ {i \in Window : special[i]}) = KeepCount
    BY <2>1, KeptCount
  <2> QED BY <2>1, <2>2, KeepCountIsCeil DEF KeepsTheRate
<1> QED BY <1>1, PruneHolds, PTL

------------------------------------------------------------------------------
\* The survivors.

\* The k-th survivor is the kept token of rank k - 1 in the order of the text.
LEMMA SurvivorShape ==
  ASSUME NEW S, IsFiniteSet(S), S \in SUBSET Nat, keep = S
  PROVE  /\ \A k \in 1 .. Cardinality(S) : Survivor(k) \in S
         /\ \A i \in S : \E k \in 1 .. Cardinality(S) : Survivor(k) = i
         /\ \A k, m \in 1 .. Cardinality(S) : k < m => Survivor(k) < Survivor(m)
<1> DEFINE n == Cardinality(S)
           R == {p \in S \X S : p[1] < p[2]}
           rank == [i \in S |-> Cardinality({j \in S : <<j, i>> \in R})]
           before(i) == {j \in S : j < i}
<1>1. \A i, j \in S : <<i, j>> \in R <=> i < j
  OBVIOUS
<1>2. \A i \in S : rank[i] = Cardinality(before(i))
  <2>1. ASSUME NEW i \in S
        PROVE  {j \in S : <<j, i>> \in R} = before(i)
    BY <1>1
  <2> HIDE DEF before, R
  <2> QED BY <2>1
<1>3. n \in Nat
  BY FS_CardinalityType
<1>4. /\ \A i \in S : rank[i] \in 0 .. n - 1
      /\ \A i, j \in S : rank[i] = rank[j] => i = j
      /\ \A m \in 0 .. n - 1 : \E i \in S : rank[i] = m
      /\ \A i, j \in S : i < j <=> rank[i] < rank[j]
  <2> DEFINE V == 0 .. n - 1
             r == rank
  <2>1. r = [i \in S |-> Cardinality({j \in S : <<j, i>> \in R})]
    OBVIOUS
  <2>2. /\ \A x \in S : <<x, x>> \notin R
        /\ \A x, y \in S : x = y \/ <<x, y>> \in R \/ <<y, x>> \in R
        /\ \A x, y, z \in S : <<x, y>> \in R /\ <<y, z>> \in R => <<x, z>> \in R
    BY <1>1
  <2> HIDE DEF R, r
  <2>3. /\ r \in Bijection(S, V)
        /\ \A x, y \in S : <<x, y>> \in R <=> r[x] < r[y]
    BY <2>1, <2>2, RankBijection
  <2> HIDE DEF V
  <2>4. \A x \in S : r[x] \in V
    BY <2>3, Fun_BijectionProperties
  <2>5. \A x, y \in S : r[x] = r[y] => x = y
    BY <2>3, Fun_BijectionProperties
  <2>6. \A m \in V : \E x \in S : r[x] = m
    BY <2>3, Fun_BijectionProperties
  <2> QED BY <1>1, <2>3, <2>4, <2>5, <2>6 DEF V, r
<1> HIDE DEF rank, R
<1>5. \A k : Survivor(k) = CHOOSE i \in S : Cardinality(before(i)) = k - 1
  BY DEF Survivor
<1> HIDE DEF before
<1>6. ASSUME NEW k \in 1 .. n
      PROVE  Survivor(k) \in S /\ rank[Survivor(k)] = k - 1
  <2>1. k - 1 \in 0 .. n - 1
    BY <1>3
  <2>2. PICK i \in S : rank[i] = k - 1
    BY <1>4, <2>1
  <2>3. \E j \in S : Cardinality(before(j)) = k - 1
    BY <1>2, <2>2
  <2>4. Survivor(k) \in S /\ Cardinality(before(Survivor(k))) = k - 1
    BY <1>5, <2>3
  <2> QED BY <1>2, <2>4
<1>7. ASSUME NEW i \in S
      PROVE  \E k \in 1 .. n : Survivor(k) = i
  <2>1. rank[i] \in 0 .. n - 1
    BY <1>4
  <2>2. PICK k \in 1 .. n : k - 1 = rank[i]
    <3>1. rank[i] + 1 \in 1 .. n /\ (rank[i] + 1) - 1 = rank[i]
      BY <1>3, <2>1
    <3> QED BY <3>1
  <2>3. Survivor(k) \in S /\ rank[Survivor(k)] = rank[i]
    BY <1>6, <2>2
  <2> QED BY <1>4, <2>3
<1>8. ASSUME NEW k \in 1 .. n, NEW m \in 1 .. n, k < m
      PROVE  Survivor(k) < Survivor(m)
  <2>1. k - 1 < m - 1
    BY <1>3, <1>8
  <2> QED BY <1>4, <1>6, <2>1
<1> QED BY <1>6, <1>7, <1>8

\* The survivors keep their order and none is doubled or missing.
THEOREM OrderKept == Spec => []OrderPreserved
<1>1. PruneInv => OrderPreserved
  <2> SUFFICES ASSUME PruneInv, phase = "done" PROVE OrderPreserved
    BY DEF OrderPreserved
  <2>1. CASE keep = {} /\ surviving = << >>
    BY <2>1 DEF OrderPreserved
  <2>2. CASE Probed /\ keep = Kept /\ surviving = Ordered
    <3>1. keep \in SUBSET Window /\ IsFiniteSet(Window) /\ Window \in SUBSET Nat
      BY <2>2, KeptInWindow, WindowShape DEF PruneInv
    <3>2. IsFiniteSet(keep) /\ keep \in SUBSET Nat
      BY <3>1, FS_Subset
    <3>3. /\ \A k \in 1 .. Cardinality(keep) : Survivor(k) \in keep
          /\ \A i \in keep : \E k \in 1 .. Cardinality(keep) : Survivor(k) = i
          /\ \A k, m \in 1 .. Cardinality(keep) : k < m => Survivor(k) < Survivor(m)
      BY <3>2, SurvivorShape
    <3>4. /\ DOMAIN surviving = 1 .. Cardinality(keep)
          /\ \A k \in 1 .. Cardinality(keep) : surviving[k] = Survivor(k)
      BY <2>2 DEF Ordered
    <3>5. {surviving[k] : k \in DOMAIN surviving} = keep
      BY <3>3, <3>4
    <3> QED BY <3>3, <3>4, <3>5 DEF OrderPreserved
  <2> QED BY <2>1, <2>2 DEF PruneInv
<1> QED BY <1>1, PruneHolds, PTL

===============================================================================
