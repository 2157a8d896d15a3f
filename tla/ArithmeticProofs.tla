--------------------------- MODULE ArithmeticProofs ---------------------------
(***************************************************************************)
(* Facts about the similarity arithmetic, about sums, integer division and *)
(* ranks, least and greatest positions, and recursion over a sequence, for *)
(* all token sets, thresholds and sequences.                               *)
(***************************************************************************)
EXTENDS Jaccard, Sums, SequencesExt, SequenceTheorems, FiniteSetTheorems, FunctionTheorems, WellFoundedInduction, TLAPS

------------------------------------------------------------------------------
\* Least and greatest numbers of a set: what the head-first scan and max_by find.

\* A non-empty set of naturals has a least element.
LEMMA LeastExists ==
  ASSUME NEW S \in SUBSET Nat, S # {}
  PROVE  \E m \in S : \A k \in S : m <= k
<1> DEFINE R == {p \in Nat \X Nat : p[1] < p[2]}
<1>1. IsWellFoundedOn(R, Nat)
  BY NatLessThanWellFounded DEF OpToRel
<1>2. PICK m \in S : \A y \in S : ~(<<y, m>> \in R)
  <2> HIDE DEF R
  <2> QED BY <1>1, WFMin
<1>3. ASSUME NEW k \in S, k < m
      PROVE  FALSE
  <2> DEFINE p == <<k, m>>
  <2>1. p \in Nat \X Nat /\ p[1] < p[2]
    BY <1>3
  <2>2. p \in R
    <3> HIDE DEF p
    <3> QED BY <2>1
  <2>3. QED
    BY <1>2, <2>2
<1>4. QED
  BY <1>3

\* A non-empty set of positions of a sequence has a last one.
LEMMA GreatestExists ==
  ASSUME NEW n \in Nat, NEW S \in SUBSET (1 .. n), S # {}
  PROVE  \E m \in S : \A k \in S : k <= m
<1> DEFINE T == {k \in Nat : n - k \in S}
<1>1. T \in SUBSET Nat /\ T # {}
  <2>1. PICK k \in S : TRUE
    OBVIOUS
  <2>2. n - k \in Nat /\ n - (n - k) = k
    OBVIOUS
  <2>3. n - k \in T
    BY <2>1, <2>2
  <2> QED BY <2>3
<1>2. PICK t \in T : \A k \in T : t <= k
  <2> HIDE DEF T
  <2> QED BY <1>1, LeastExists
<1>3. n - t \in S
  BY <1>2
<1>4. ASSUME NEW k \in S
      PROVE  k <= n - t
  <2>1. n - k \in T
    <3>1. n - k \in Nat /\ n - (n - k) = k
      OBVIOUS
    <3> QED BY <3>1
  <2>2. t <= n - k /\ t \in Nat
    BY <1>2, <2>1
  <2> QED BY <2>2
<1> QED BY <1>3, <1>4

------------------------------------------------------------------------------
\* The values of the arithmetic.

\* Similarities are fractions of [0, 1].
Unit == {x \in [num : Nat, den : Nat] : x.den > 0 /\ x.num <= x.den}

\* The code's |A| + |B| - |A n B| is the size of the union.
LEMMA UnionSize ==
  ASSUME NEW a, NEW b, IsFiniteSet(a), IsFiniteSet(b)
  PROVE  /\ Cardinality(a) + Cardinality(b) - Cardinality(a \cap b)
              = Cardinality(a \cup b)
         /\ Cardinality(a \cup b) \in Nat
         /\ Cardinality(a \cap b) \in Nat
         /\ Cardinality(a \cap b) <= Cardinality(a \cup b)
<1>1. /\ IsFiniteSet(a \cup b)
      /\ Cardinality(a \cup b) =
           Cardinality(a) + Cardinality(b) - Cardinality(a \cap b)
  BY FS_Union
<1>2. IsFiniteSet(a \cap b)
  BY FS_Intersection
<1>3. Cardinality(a \cup b) \in Nat /\ Cardinality(a \cap b) \in Nat
  BY <1>1, <1>2, FS_CardinalityType
<1>4. Cardinality(a \cap b) <= Cardinality(a \cup b)
  BY <1>1, FS_Subset
<1> QED BY <1>1, <1>3, <1>4

\* jaccard() is the size of the intersection over the size of the union.
LEMMA SimilarityIsJaccard ==
  ASSUME NEW a, NEW b, IsFiniteSet(a), IsFiniteSet(b)
  PROVE  Similarity(a, b) =
           IF Cardinality(a \cup b) = 0 THEN One
           ELSE Fraction(Cardinality(a \cap b), Cardinality(a \cup b))
<1>1. Cardinality(a) + Cardinality(b) - Cardinality(a \cap b) = Cardinality(a \cup b)
  BY UnionSize
<1> QED BY <1>1 DEF Similarity

\* jaccard() returns a number of [0, 1], never a NaN.
LEMMA SimilarityInUnit ==
  ASSUME NEW a, NEW b, IsFiniteSet(a), IsFiniteSet(b)
  PROVE  Similarity(a, b) \in Unit
<1> DEFINE inter == Cardinality(a \cap b)
           union == Cardinality(a \cup b)
<1>1. inter \in Nat /\ union \in Nat /\ inter <= union
  BY UnionSize
<1>2. Similarity(a, b) = IF union = 0 THEN One ELSE Fraction(inter, union)
  BY SimilarityIsJaccard
<1> HIDE DEF inter, union
<1>3. One \in Unit
  BY DEF One, Fraction, Unit
<1>4. union # 0 => Fraction(inter, union) \in Unit
  BY <1>1 DEF Fraction, Unit
<1> QED BY <1>2, <1>3, <1>4

\* jaccard() does not depend on which of the two sets is the new line's.
LEMMA SimilaritySymmetric ==
  ASSUME NEW a, NEW b, IsFiniteSet(a), IsFiniteSet(b)
  PROVE  Similarity(a, b) = Similarity(b, a)
<1>1. a \cap b = b \cap a /\ a \cup b = b \cup a
  OBVIOUS
<1>2. Similarity(a, b) = IF Cardinality(a \cup b) = 0 THEN One
                         ELSE Fraction(Cardinality(a \cap b), Cardinality(a \cup b))
  BY SimilarityIsJaccard
<1>3. Similarity(b, a) = IF Cardinality(b \cup a) = 0 THEN One
                         ELSE Fraction(Cardinality(b \cap a), Cardinality(b \cup a))
  BY SimilarityIsJaccard
<1> QED BY <1>1, <1>2, <1>3

\* A line clears every threshold that is a number against itself.
LEMMA SelfSimilar ==
  ASSUME NEW a, IsFiniteSet(a), NEW t \in Thresholds, ~IsNaN(t)
  PROVE  AtLeast(Similarity(a, a), t)
<1> DEFINE c == Cardinality(a)
<1>1. t.num \in Nat /\ t.den \in Nat /\ t.den > 0 /\ t.num <= t.den
  BY DEF Thresholds, IsNaN, NaN, Fraction
<1>2. c \in Nat
  BY FS_CardinalityType
<1>3. a \cap a = a /\ a \cup a = a
  OBVIOUS
<1>4. Similarity(a, a) = IF c = 0 THEN One ELSE Fraction(c, c)
  BY <1>3, SimilarityIsJaccard
<1> HIDE DEF c
<1>5. AtLeast(One, t)
  BY <1>1 DEF AtLeast, IsNaN, One, Fraction
<1>6. c # 0 => AtLeast(Fraction(c, c), t)
  <2>1. c * t.den >= t.num * c
    BY <1>1, <1>2
  <2> QED BY <2>1, <1>1, <1>2 DEF AtLeast, IsNaN, Fraction
<1> QED BY <1>4, <1>5, <1>6

\* with_params stores a number of [0, 1], or the NaN it was given.
LEMMA ClampUnitInThresholds ==
  ASSUME NEW t \in [num : Int, den : Nat], t.den = 0 => t = NaN
  PROVE  ClampUnit(t) \in Thresholds
BY DEF ClampUnit, Thresholds, Zero, One, NaN, Fraction

------------------------------------------------------------------------------
\* AtLeast orders the numbers of [0, 1], so a best score exists.

LEMMA AtLeastTotal ==
  ASSUME NEW x \in Unit, NEW y \in Unit
  PROVE  AtLeast(x, y) \/ AtLeast(y, x)
<1>1. x.num * y.den \in Int /\ y.num * x.den \in Int
  BY DEF Unit
<1> QED BY <1>1 DEF Unit, AtLeast, IsNaN

LEMMA AtLeastTransitive ==
  ASSUME NEW x \in Unit, NEW y \in Unit, NEW z \in Unit,
         AtLeast(x, y), AtLeast(y, z)
  PROVE  AtLeast(x, z)
<1>1. ASSUME NEW a \in Nat, NEW b \in Nat \ {0}, NEW c \in Nat, NEW d \in Nat \ {0},
             NEW e \in Nat, NEW f \in Nat \ {0}, a * d >= c * b, c * f >= e * d
      PROVE  a * f >= e * b
  <2>1. (a * d) * f >= (c * b) * f
    BY <1>1
  <2>2. (c * f) * b >= (e * d) * b
    BY <1>1
  <2>3. (a * f) * d >= (e * b) * d
    BY <2>1, <2>2
  <2> QED BY <2>3
<1> QED BY <1>1 DEF Unit, AtLeast, IsNaN

\* Among finitely many scores one is at least every other: max_by finds one.
LEMMA BestExists ==
  ASSUME NEW n \in Nat \ {0}, NEW s \in [1 .. n -> Unit]
  PROVE  \E i \in 1 .. n : \A j \in 1 .. n : AtLeast(s[i], s[j])
<1> DEFINE Above(i) == {j \in 1 .. n : ~AtLeast(s[i], s[j])}
           T == {Cardinality(Above(i)) : i \in 1 .. n}
<1>1. \A i \in 1 .. n : IsFiniteSet(Above(i)) /\ Cardinality(Above(i)) \in Nat
  <2>1. IsFiniteSet(1 .. n)
    BY FS_Interval
  <2>2. \A i \in 1 .. n : Above(i) \in SUBSET (1 .. n)
    OBVIOUS
  <2> QED BY <2>1, <2>2, FS_Subset, FS_CardinalityType
<1>2. T \in SUBSET Nat /\ T # {}
  <2> HIDE DEF Above
  <2>1. Cardinality(Above(1)) \in T
    <3>1. 1 \in 1 .. n
      OBVIOUS
    <3> QED BY <3>1
  <2>2. T \in SUBSET Nat
    BY <1>1
  <2> HIDE DEF T
  <2> QED BY <2>1, <2>2
<1>3. PICK i \in 1 .. n :
        \A k \in 1 .. n : Cardinality(Above(i)) <= Cardinality(Above(k))
  <2> HIDE DEF Above
  <2>1. PICK m \in T : \A c \in T : m <= c
    <3> HIDE DEF T
    <3> QED BY <1>2, LeastExists
  <2> QED BY <2>1
<1>4. ASSUME NEW j \in 1 .. n, ~AtLeast(s[i], s[j])
      PROVE  FALSE
  <2>1. AtLeast(s[j], s[i]) /\ AtLeast(s[j], s[j])
    BY <1>4, AtLeastTotal
  <2>2. ASSUME NEW k \in 1 .. n, ~AtLeast(s[j], s[k])
        PROVE  ~AtLeast(s[i], s[k])
    BY <2>1, <2>2, AtLeastTransitive
  <2>3. Above(j) \subseteq Above(i) /\ j \in Above(i) /\ j \notin Above(j)
    BY <1>4, <2>1, <2>2
  <2> HIDE DEF Above
  <2>4. Cardinality(Above(j)) <= Cardinality(Above(i))
        /\ (Cardinality(Above(i)) = Cardinality(Above(j)) => Above(i) = Above(j))
    BY <1>1, <2>3, FS_Subset
  <2>5. Cardinality(Above(i)) <= Cardinality(Above(j))
    BY <1>3
  <2>6. Cardinality(Above(i)) \in Nat /\ Cardinality(Above(j)) \in Nat
    BY <1>1
  <2> QED BY <2>3, <2>4, <2>5, <2>6
<1> QED BY <1>4


------------------------------------------------------------------------------
\* Intervals.

LEMMA UpTo ==
  ASSUME NEW n \in Nat
  PROVE  /\ IsFiniteSet(1 .. n) /\ Cardinality(1 .. n) = n
         /\ IsFiniteSet(0 .. n - 1) /\ Cardinality(0 .. n - 1) = n
<1>1. /\ IsFiniteSet(1 .. n)
      /\ Cardinality(1 .. n) = IF 1 > n THEN 0 ELSE n - 1 + 1
  BY FS_Interval
<1>2. /\ IsFiniteSet(0 .. n - 1)
      /\ Cardinality(0 .. n - 1) = IF 0 > n - 1 THEN 0 ELSE (n - 1) - 0 + 1
  <2>1. n - 1 \in Int
    OBVIOUS
  <2> QED BY <2>1, FS_Interval
<1> QED BY <1>1, <1>2

------------------------------------------------------------------------------
\* Sums.

\* The tally marks of x stand next to those of the rest.
LEMMA TallyMarks ==
  ASSUME NEW f, NEW p
  PROVE  p \in Tally(f) <=> \E x \in DOMAIN f : \E k \in 1 .. f[x] : p = <<x, k>>
BY DEF Tally

LEMMA MarksOfOne ==
  ASSUME NEW x, NEW n \in Nat
  PROVE  IsFiniteSet({x} \X (1 .. n)) /\ Cardinality({x} \X (1 .. n)) = n
<1>1. IsFiniteSet({x}) /\ Cardinality({x}) = 1
  BY FS_Singleton
<1>2. IsFiniteSet(1 .. n) /\ Cardinality(1 .. n) = n
  BY UpTo
<1>3. /\ IsFiniteSet({x} \X (1 .. n))
      /\ Cardinality({x} \X (1 .. n)) = Cardinality({x}) * Cardinality(1 .. n)
  BY <1>1, <1>2, FS_Product
<1> QED BY <1>1, <1>2, <1>3

\* Sums of numbers over a finite set are numbers.
LEMMA TotalType ==
  ASSUME NEW f, IsFiniteSet(DOMAIN f), \A x \in DOMAIN f : f[x] \in Nat
  PROVE  IsFiniteSet(Tally(f)) /\ Total(f) \in Nat
<1> DEFINE S == DOMAIN f
           T == {{x} \X (1 .. f[x]) : x \in S}
           g == [x \in S |-> {x} \X (1 .. f[x])]
<1>1. IsFiniteSet(T)
  <2>1. g \in [S -> T] /\ \A t \in T : \E x \in S : g[x] = t
    OBVIOUS
  <2> HIDE DEF g, T, S
  <2>2. g \in Surjection(S, T)
    BY <2>1, Fun_IsSurj
  <2> QED BY <2>2, FS_Surjection DEF S
<1>2. \A t \in T : IsFiniteSet(t)
  <2> SUFFICES ASSUME NEW x \in S PROVE IsFiniteSet({x} \X (1 .. f[x]))
    OBVIOUS
  <2>1. IsFiniteSet({x}) /\ IsFiniteSet(1 .. f[x])
    BY FS_Singleton, UpTo
  <2> QED BY <2>1, FS_Product
<1>3. Tally(f) = UNION T
  BY DEF Tally
<1> HIDE DEF T
<1>4. IsFiniteSet(Tally(f))
  BY <1>1, <1>2, <1>3, FS_UNION
<1> QED BY <1>4, FS_CardinalityType DEF Total

LEMMA TotalOfNone ==
  ASSUME NEW f, DOMAIN f = {}
  PROVE  Total(f) = 0
<1>1. Tally(f) = {}
  BY DEF Tally
<1> QED BY <1>1, FS_EmptySet DEF Total

\* A sum without one of its values.
Without(f, x) == [y \in DOMAIN f \ {x} |-> f[y]]

LEMMA TotalWithout ==
  ASSUME NEW g, IsFiniteSet(DOMAIN g), \A y \in DOMAIN g : g[y] \in Nat, NEW x \in DOMAIN g
  PROVE  Total(g) = Total(Without(g, x)) + g[x]
<1> DEFINE S == DOMAIN g \ {x}
           f == [y \in S |-> g[y]]
<1> DEFINE new == {x} \X (1 .. g[x])
<1>1. g[x] \in Nat
  OBVIOUS
<1>2. IsFiniteSet(Tally(f)) /\ Total(f) \in Nat
  <2>1. DOMAIN f = S /\ \A y \in S : f[y] \in Nat /\ f[y] = g[y]
    OBVIOUS
  <2>2. IsFiniteSet(S)
    <3>1. S \in SUBSET DOMAIN g
      OBVIOUS
    <3> QED BY <3>1, FS_Subset
  <2> HIDE DEF f
  <2> QED BY <2>1, <2>2, TotalType
<1>3. IsFiniteSet(new) /\ Cardinality(new) = g[x]
  BY <1>1, MarksOfOne
<1>4. Tally(g) = Tally(f) \cup new
  <2>1. ASSUME NEW p \in Tally(g)
        PROVE  p \in Tally(f) \cup new
    <3>1. PICK y \in DOMAIN g : \E k \in 1 .. g[y] : p = <<y, k>>
      BY <2>1, TallyMarks
    <3>2. PICK k \in 1 .. g[y] : p = <<y, k>>
      BY <3>1
    <3>3. CASE y = x
      BY <3>2, <3>3
    <3>4. CASE y # x
      <4>1. y \in DOMAIN f /\ g[y] = f[y]
        BY <3>4
      <4> QED BY <3>2, <4>1, TallyMarks
    <3> QED BY <3>3, <3>4
  <2>2. ASSUME NEW p \in Tally(f)
        PROVE  p \in Tally(g)
    <3>1. PICK y \in S : \E k \in 1 .. f[y] : p = <<y, k>>
      BY <2>2, TallyMarks
    <3>2. y \in DOMAIN g /\ g[y] = f[y]
      OBVIOUS
    <3> QED BY <3>1, <3>2, TallyMarks
  <2>3. ASSUME NEW p \in new
        PROVE  p \in Tally(g)
    <3>1. PICK k \in 1 .. g[x] : p = <<x, k>>
      BY <2>3
    <3>2. x \in DOMAIN g
      OBVIOUS
    <3> QED BY <3>1, <3>2, TallyMarks
  <2> QED BY <2>1, <2>2, <2>3
<1>5. Tally(f) \cap new = {}
  <2> SUFFICES ASSUME NEW p \in Tally(f), p \in new PROVE FALSE
    OBVIOUS
  <2>1. PICK y \in S : \E k \in 1 .. f[y] : p = <<y, k>>
    BY TallyMarks
  <2>2. PICK k \in 1 .. f[y] : p = <<y, k>>
    BY <2>1
  <2>3. p[1] = y /\ p[1] = x
    BY <2>2
  <2> QED BY <2>3
<1> HIDE DEF new
<1>6. Cardinality(Tally(f) \cap new) = 0
  BY <1>5, FS_EmptySet
<1>7. Cardinality(Tally(g)) = Cardinality(Tally(f)) + Cardinality(new) - 0
  BY <1>2, <1>3, <1>4, <1>6, FS_Union
<1> QED BY <1>1, <1>2, <1>3, <1>7 DEF Total, Without

LEMMA TotalAppend ==
  ASSUME NEW n \in Nat, NEW f \in [1 .. n -> Nat], NEW g \in [1 .. n + 1 -> Nat],
         \A k \in 1 .. n : g[k] = f[k]
  PROVE  Total(g) = Total(f) + g[n + 1]
<1>1. IsFiniteSet(DOMAIN g) /\ \A k \in DOMAIN g : g[k] \in Nat
  BY UpTo
<1>2. n + 1 \in DOMAIN g
  OBVIOUS
<1>3. f = [k \in DOMAIN g \ {n + 1} |-> g[k]]
  <2>1. DOMAIN g \ {n + 1} = 1 .. n
    OBVIOUS
  <2> QED BY <2>1
<1> QED BY <1>1, <1>2, <1>3, TotalWithout DEF Without

\* No value is above the sum.
LEMMA ValueInTotal ==
  ASSUME NEW f, IsFiniteSet(DOMAIN f), \A y \in DOMAIN f : f[y] \in Nat, NEW x \in DOMAIN f
  PROVE  f[x] <= Total(f)
<1>1. {x} \X (1 .. f[x]) \in SUBSET Tally(f)
  BY DEF Tally
<1>2. IsFiniteSet(Tally(f))
  BY TotalType
<1>3. Cardinality({x} \X (1 .. f[x])) <= Cardinality(Tally(f))
  BY <1>1, <1>2, FS_Subset
<1>4. Cardinality({x} \X (1 .. f[x])) = f[x]
  BY MarksOfOne
<1> QED BY <1>3, <1>4 DEF Total

------------------------------------------------------------------------------
\* Ranks.

\* In a finite set under a strict total order R, the number of elements before
\* an element is its rank: ranks run from 0 up, and follow the order.
LEMMA RankBijection ==
  ASSUME NEW S, IsFiniteSet(S), NEW R, NEW rank,
         \A x \in S : <<x, x>> \notin R,
         \A x, y \in S : x = y \/ <<x, y>> \in R \/ <<y, x>> \in R,
         \A x, y, z \in S : <<x, y>> \in R /\ <<y, z>> \in R => <<x, z>> \in R,
         rank = [x \in S |-> Cardinality({y \in S : <<y, x>> \in R})]
  PROVE  /\ rank \in Bijection(S, 0 .. Cardinality(S) - 1)
         /\ \A x, y \in S : <<x, y>> \in R <=> rank[x] < rank[y]
<1> DEFINE n == Cardinality(S)
           before(x) == {y \in S : <<y, x>> \in R}
<1>1. n \in Nat
  BY FS_CardinalityType
<1>2. ASSUME NEW x \in S
      PROVE  /\ IsFiniteSet(before(x))
             /\ rank[x] = Cardinality(before(x))
             /\ rank[x] \in Nat /\ rank[x] < n
  <2>1. before(x) \in SUBSET S /\ x \notin before(x) /\ rank[x] = Cardinality(before(x))
    OBVIOUS
  <2> HIDE DEF before
  <2>2. IsFiniteSet(before(x)) /\ Cardinality(before(x)) \in Nat
    BY <2>1, FS_Subset, FS_CardinalityType
  <2>3. Cardinality(before(x)) <= n /\ Cardinality(before(x)) # n
    BY <2>1, FS_Subset
  <2> QED BY <1>1, <2>1, <2>2, <2>3
<1>3. ASSUME NEW x \in S, NEW y \in S, <<x, y>> \in R
      PROVE  rank[x] < rank[y]
  <2>1. x \notin before(x) /\ before(x) \cup {x} \in SUBSET before(y)
    BY <1>3
  <2>2. /\ IsFiniteSet(before(x)) /\ rank[x] = Cardinality(before(x)) /\ rank[x] \in Nat
        /\ IsFiniteSet(before(y)) /\ rank[y] = Cardinality(before(y)) /\ rank[y] \in Nat
    BY <1>2
  <2> HIDE DEF before
  <2>3. Cardinality(before(x) \cup {x}) = Cardinality(before(x)) + 1
    BY <2>1, <2>2, FS_AddElement
  <2>4. Cardinality(before(x) \cup {x}) <= Cardinality(before(y))
    BY <2>1, <2>2, FS_Subset
  <2> QED BY <2>2, <2>3, <2>4
<1>4. ASSUME NEW x \in S, NEW y \in S
      PROVE  /\ <<x, y>> \in R <=> rank[x] < rank[y]
             /\ rank[x] = rank[y] => x = y
  <2>1. rank[x] \in Nat /\ rank[y] \in Nat
    BY <1>2
  <2>2. x = y \/ <<x, y>> \in R \/ <<y, x>> \in R
    OBVIOUS
  <2>3. <<y, x>> \in R => rank[y] < rank[x]
    BY <1>3
  <2> QED BY <1>3, <2>1, <2>2, <2>3
<1>5. rank \in [S -> 0 .. n - 1]
  <2>1. \A x \in S : rank[x] \in 0 .. n - 1
    BY <1>1, <1>2
  <2>2. rank = [x \in S |-> rank[x]]
    OBVIOUS
  <2> HIDE DEF n
  <2> QED BY <2>1, <2>2
<1>6. rank \in Injection(S, 0 .. n - 1)
  BY <1>4, <1>5, Fun_IsInj
<1>7. IsFiniteSet(0 .. n - 1) /\ Cardinality(0 .. n - 1) = n
  BY <1>1, UpTo
<1>8. rank \in Surjection(S, 0 .. n - 1)
  BY <1>6, <1>7, FS_Injection
<1>9. rank \in Bijection(S, 0 .. n - 1)
  BY <1>6, <1>8, Fun_IsBij
<1> QED BY <1>4, <1>9

\* As many elements as wanted have a rank below it.
LEMMA RankedBelow ==
  ASSUME NEW S, IsFiniteSet(S), NEW rank \in Bijection(S, 0 .. Cardinality(S) - 1),
         NEW k \in Nat, k <= Cardinality(S)
  PROVE  Cardinality({x \in S : rank[x] < k}) = k
<1> DEFINE n == Cardinality(S)
           T == {x \in S : rank[x] < k}
           U == 0 .. k - 1
           f == [x \in T |-> rank[x]]
<1>1. n \in Nat
  BY FS_CardinalityType
<1>2. /\ \A x \in S : rank[x] \in 0 .. n - 1
      /\ \A x, y \in S : rank[x] = rank[y] => x = y
      /\ \A m \in 0 .. n - 1 : \E x \in S : rank[x] = m
  <2> DEFINE V == 0 .. n - 1
  <2>1. rank \in Bijection(S, V)
    OBVIOUS
  <2> HIDE DEF V
  <2>2. \A x \in S : rank[x] \in V
    BY <2>1, Fun_BijectionProperties
  <2>3. \A x, y \in S : rank[x] = rank[y] => x = y
    BY <2>1, Fun_BijectionProperties
  <2>4. \A m \in V : \E x \in S : rank[x] = m
    BY <2>1, Fun_BijectionProperties
  <2> QED BY <2>2, <2>3, <2>4 DEF V
<1>3. f \in [T -> U]
  BY <1>1, <1>2
<1>4. \A x, y \in T : f[x] = f[y] => x = y
  BY <1>2
<1>5. ASSUME NEW m \in U
      PROVE  \E x \in T : f[x] = m
  <2>1. m \in 0 .. n - 1 /\ m < k
    BY <1>1, <1>5
  <2>2. PICK x \in S : rank[x] = m
    BY <1>2, <2>1
  <2> QED BY <2>1, <2>2
<1>6. IsFiniteSet(T)
  <2>1. T \in SUBSET S
    OBVIOUS
  <2> HIDE DEF T
  <2> QED BY <2>1, FS_Subset
<1>7. Cardinality(U) = k
  BY UpTo
<1> HIDE DEF f, T, U
<1>8. f \in Bijection(T, U)
  BY <1>3, <1>4, <1>5, Fun_IsBij
<1>9. Cardinality(U) = Cardinality(T)
  BY <1>6, <1>8, Fun_ExistsBij, FS_Bijection
<1> QED BY <1>7, <1>9 DEF T

------------------------------------------------------------------------------
\* Division and products.

\* Integer division rounds down.
LEMMA DivBounds ==
  ASSUME NEW a \in Nat, NEW d \in Nat, d > 0
  PROVE  a \div d \in Nat /\ (a \div d) * d <= a /\ a < (a \div d) * d + d
OBVIOUS

\* Products keep the order of their first factor, and cancel.
LEMMA TimesMonotone ==
  ASSUME NEW a \in Int, NEW b \in Int, NEW d \in Nat
  PROVE  /\ a <= b => a * d <= b * d
         /\ d > 0 /\ a * d < b * d => a < b
OBVIOUS


------------------------------------------------------------------------------
\* Induction, and what a recursion returns.

\* Induction over the naturals, for sets.
LEMMA SetInduction ==
  ASSUME NEW S \in SUBSET Nat, 0 \in S, \A k \in S : k + 1 \in S
  PROVE  S = Nat
<1> SUFFICES ASSUME Nat \ S # {} PROVE FALSE
  OBVIOUS
<1>1. PICK m \in Nat \ S : \A k \in Nat \ S : m <= k
  <2> DEFINE T == Nat \ S
  <2>1. T \in SUBSET Nat
    OBVIOUS
  <2> HIDE DEF T
  <2>2. \E m \in T : \A k \in T : m <= k
    BY <2>1, LeastExists DEF T
  <2> QED BY <2>2 DEF T
<1>2. m # 0 /\ m - 1 \in Nat
  BY <1>1
<1>3. m - 1 \in S
  BY <1>1, <1>2
<1>4. (m - 1) + 1 \in S
  BY <1>3
<1> QED BY <1>1, <1>4

\* The concatenation of sequences over S is one.
Flattens(f, seqs, n) == f = [i \in 1 .. n |-> IF i = 1 THEN seqs[i] ELSE f[i - 1] \o seqs[i]]

LEMMA FlattenExists ==
  ASSUME NEW seqs, NEW n \in Nat
  PROVE  \E f : Flattens(f, seqs, n)
<1> DEFINE T == {k \in Nat : \E f : Flattens(f, seqs, k)}
<1>1. 0 \in T
  <2>1. Flattens([i \in 1 .. 0 |-> seqs[i]], seqs, 0)
    BY DEF Flattens
  <2> QED BY <2>1
<1>2. ASSUME NEW k \in T
      PROVE  k + 1 \in T
  <2>1. PICK f : Flattens(f, seqs, k)
    OBVIOUS
  <2> DEFINE g == [i \in 1 .. k + 1 |-> IF i = 1 THEN seqs[i] ELSE f[i - 1] \o seqs[i]]
  <2>2. ASSUME NEW i \in 1 .. k
        PROVE  f[i] = g[i]
    <3>1. f[i] = IF i = 1 THEN seqs[i] ELSE f[i - 1] \o seqs[i]
      BY <2>1 DEF Flattens
    <3>2. i \in 1 .. k + 1
      OBVIOUS
    <3> QED BY <3>1, <3>2
  <2>3. ASSUME NEW i \in 1 .. k + 1, i # 1
        PROVE  f[i - 1] = g[i - 1]
    <3>1. i - 1 \in 1 .. k
      BY <2>3
    <3> HIDE DEF g
    <3> QED BY <2>2, <3>1
  <2>4. g = [i \in 1 .. k + 1 |-> IF i = 1 THEN seqs[i] ELSE g[i - 1] \o seqs[i]]
    BY <2>3
  <2> HIDE DEF g
  <2>5. Flattens(g, seqs, k + 1)
    BY <2>4 DEF Flattens
  <2> QED BY <2>5
<1> HIDE DEF T
<1>3. T = Nat
  <2>1. T \in SUBSET Nat
    BY DEF T
  <2> QED BY <1>1, <1>2, <2>1, SetInduction
<1> QED BY <1>3 DEF T

LEMMA FlattenShape ==
  ASSUME NEW S, NEW seqs \in Seq(Seq(S))
  PROVE  FlattenSeq(seqs) \in Seq(S)
<1> DEFINE n == Len(seqs)
           flatten == CHOOSE f : Flattens(f, seqs, n)
<1>1. n \in Nat /\ \A i \in 1 .. n : seqs[i] \in Seq(S)
  OBVIOUS
<1>2. CASE n = 0
  <2>1. seqs = << >>
    BY <1>2
  <2> QED BY <1>2, <2>1 DEF FlattenSeq
<1>3. CASE n # 0
  <2>1. FlattenSeq(seqs) = flatten[n]
    BY <1>3 DEF FlattenSeq, Flattens
  <2>2. Flattens(flatten, seqs, n)
    BY <1>1, FlattenExists
  <2> HIDE DEF flatten, n
  <2> DEFINE T == {k \in Nat : k \in 1 .. n => flatten[k] \in Seq(S)}
  <2>3. 0 \in T
    OBVIOUS
  <2>4. ASSUME NEW k \in T
        PROVE  k + 1 \in T
    <3> SUFFICES ASSUME k + 1 \in 1 .. n PROVE flatten[k + 1] \in Seq(S)
      OBVIOUS
    <3>1. flatten[k + 1] = IF k + 1 = 1 THEN seqs[k + 1] ELSE flatten[(k + 1) - 1] \o seqs[k + 1]
      BY <2>2 DEF Flattens
    <3>2. CASE k = 0
      BY <1>1, <3>1, <3>2
    <3>3. CASE k # 0
      <4>1. k \in 1 .. n /\ (k + 1) - 1 = k /\ k + 1 # 1
        BY <1>1, <3>3
      <4>2. flatten[k] \in Seq(S) /\ seqs[k + 1] \in Seq(S)
        BY <1>1, <4>1
      <4> QED BY <3>1, <4>1, <4>2, ConcatProperties
    <3> QED BY <3>2, <3>3
  <2> HIDE DEF T
  <2>5. T = Nat
    <3>1. T \in SUBSET Nat
      BY DEF T
    <3> QED BY <2>3, <2>4, <3>1, SetInduction
  <2>6. n \in T /\ n \in 1 .. n
    BY <1>1, <1>3, <2>5
  <2> QED BY <2>1, <2>6 DEF T
<1> QED BY <1>2, <1>3

\* What is appended to a sequence leaves its first element first.
LEMMA ConcatHead ==
  ASSUME NEW S, NEW a \in Seq(S), NEW b \in Seq(S), a # << >>
  PROVE  a \o b \in Seq(S) /\ a \o b # << >> /\ (a \o b)[1] = a[1]
<1>1. Len(a) \in Nat /\ Len(a) # 0 /\ Len(b) \in Nat
  BY EmptySeq, LenProperties
<1>2. /\ a \o b \in Seq(S)
      /\ Len(a \o b) = Len(a) + Len(b)
      /\ \A i \in 1 .. Len(a) + Len(b) : (a \o b)[i] = IF i <= Len(a) THEN a[i] ELSE b[i - Len(a)]
  BY ConcatProperties
<1>3. 1 \in 1 .. Len(a) + Len(b) /\ 1 <= Len(a)
  BY <1>1
<1>4. a \o b # << >>
  <2>1. Len(a \o b) # 0
    BY <1>1, <1>2
  <2> QED BY <2>1
<1> QED BY <1>2, <1>3, <1>4

\* Its first element is the first element of the first sequence.
LEMMA FlattenHead ==
  ASSUME NEW S, NEW seqs \in Seq(Seq(S)), seqs # << >>, seqs[1] # << >>
  PROVE  FlattenSeq(seqs) # << >> /\ FlattenSeq(seqs)[1] = seqs[1][1]
<1> DEFINE n == Len(seqs)
           flatten == CHOOSE f : Flattens(f, seqs, n)
<1>1. n \in Nat /\ n # 0 /\ \A i \in 1 .. n : seqs[i] \in Seq(S)
  OBVIOUS
<1>2. FlattenSeq(seqs) = flatten[n]
  BY <1>1 DEF FlattenSeq, Flattens
<1>3. Flattens(flatten, seqs, n)
  BY <1>1, FlattenExists
<1> HIDE DEF flatten, n
<1> DEFINE T == {k \in Nat : k \in 1 .. n => /\ flatten[k] \in Seq(S)
                                             /\ flatten[k] # << >>
                                             /\ flatten[k][1] = seqs[1][1]}
<1>4. ASSUME NEW k \in T
      PROVE  k + 1 \in T
  <2> SUFFICES ASSUME k + 1 \in 1 .. n
               PROVE  /\ flatten[k + 1] \in Seq(S)
                      /\ flatten[k + 1] # << >>
                      /\ flatten[k + 1][1] = seqs[1][1]
    OBVIOUS
  <2>1. flatten[k + 1] = IF k + 1 = 1 THEN seqs[k + 1] ELSE flatten[(k + 1) - 1] \o seqs[k + 1]
    BY <1>3 DEF Flattens
  <2>2. CASE k = 0
    BY <1>1, <2>1, <2>2
  <2>3. CASE k # 0
    <3>1. k \in 1 .. n /\ (k + 1) - 1 = k /\ k + 1 # 1
      BY <1>1, <2>3
    <3>2. flatten[k] \in Seq(S) /\ flatten[k] # << >> /\ seqs[k + 1] \in Seq(S)
      BY <1>1, <3>1
    <3>3. flatten[k + 1] = flatten[k] \o seqs[k + 1]
      BY <2>1, <3>1
    <3>4. flatten[k][1] = seqs[1][1]
      BY <3>1
    <3>5. /\ flatten[k] \o seqs[k + 1] \in Seq(S)
          /\ flatten[k] \o seqs[k + 1] # << >>
          /\ (flatten[k] \o seqs[k + 1])[1] = flatten[k][1]
      BY <3>2, ConcatHead
    <3> QED BY <3>3, <3>4, <3>5
  <2> QED BY <2>2, <2>3
<1>5. 0 \in T /\ T \in SUBSET Nat
  OBVIOUS
<1> HIDE DEF T
<1>6. T = Nat
  BY <1>4, <1>5, SetInduction
<1>7. n \in T /\ n \in 1 .. n
  BY <1>1, <1>6
<1> QED BY <1>2, <1>7 DEF T

\* A walk that writes head[i] and goes on at next[i], further on, up to n.
Writes(f, from, n, head, next) ==
  f = [i \in from .. n + 1 |-> IF i > n THEN << >> ELSE head[i] \o f[next[i]]]

LEMMA WalkType ==
  ASSUME NEW S, NEW n \in Nat, NEW head \in [1 .. n -> Seq(S)], NEW next \in [1 .. n -> Nat],
         \A i \in 1 .. n : i < next[i] /\ next[i] <= n + 1
  PROVE  /\ \E f : Writes(f, 1, n, head, next)
         /\ \A f : Writes(f, 1, n, head, next) => \A i \in 1 .. n + 1 : f[i] \in Seq(S)
<1> DEFINE T == {d \in Nat : d <= n => \E f : Writes(f, n + 1 - d, n, head, next)}
<1>1. 0 \in T
  <2> DEFINE g == [i \in n + 1 .. n + 1 |-> << >>]
  <2>1. \A i \in n + 1 .. n + 1 : i > n
    OBVIOUS
  <2>2. g = [i \in n + 1 .. n + 1 |-> IF i > n THEN << >> ELSE head[i] \o g[next[i]]]
    BY <2>1
  <2> HIDE DEF g
  <2>3. Writes(g, n + 1, n, head, next)
    BY <2>2 DEF Writes
  <2>4. n + 1 - 0 = n + 1
    OBVIOUS
  <2> QED BY <2>3, <2>4
<1>2. ASSUME NEW d \in T
      PROVE  d + 1 \in T
  <2> SUFFICES ASSUME d + 1 <= n
               PROVE  \E f : Writes(f, n + 1 - (d + 1), n, head, next)
    OBVIOUS
  <2> DEFINE from == n - d
  <2>0. d \in Nat /\ from \in 1 .. n /\ n + 1 - (d + 1) = from /\ n + 1 - d = from + 1
    OBVIOUS
  <2>1. PICK f : Writes(f, from + 1, n, head, next)
    BY <2>0
  <2> HIDE DEF from
  <2> DEFINE g == [i \in from .. n + 1 |-> IF i > n THEN << >> ELSE head[i] \o f[next[i]]]
  <2>2. ASSUME NEW i \in from + 1 .. n + 1
        PROVE  f[i] = g[i]
    <3>1. f[i] = IF i > n THEN << >> ELSE head[i] \o f[next[i]]
      BY <2>1 DEF Writes
    <3>2. i \in from .. n + 1
      BY <2>0
    <3> QED BY <3>1, <3>2
  <2>3. ASSUME NEW i \in from .. n + 1, ~(i > n)
        PROVE  f[next[i]] = g[next[i]]
    <3>1. next[i] \in from + 1 .. n + 1
      <4>1. i \in 1 .. n
        BY <2>0, <2>3
      <4>2. i < next[i] /\ next[i] <= n + 1 /\ next[i] \in Nat
        BY <4>1
      <4> QED BY <2>0, <2>3, <4>2
    <3> HIDE DEF g
    <3> QED BY <2>2, <3>1
  <2>4. g = [i \in from .. n + 1 |-> IF i > n THEN << >> ELSE head[i] \o g[next[i]]]
    BY <2>3
  <2> HIDE DEF g
  <2>5. Writes(g, from, n, head, next)
    BY <2>4 DEF Writes
  <2> QED BY <2>0, <2>5
<1>3. T \in SUBSET Nat
  OBVIOUS
<1> HIDE DEF T
<1>4. T = Nat
  BY <1>1, <1>2, <1>3, SetInduction
<1>5. \E f : Writes(f, 1, n, head, next)
  <2>1. n \in T
    BY <1>4
  <2>2. n + 1 - n = 1
    OBVIOUS
  <2> QED BY <2>1, <2>2 DEF T
<1>6. ASSUME NEW f, Writes(f, 1, n, head, next)
      PROVE  \A i \in 1 .. n + 1 : f[i] \in Seq(S)
  <2> DEFINE U == {d \in Nat : d <= n => \A i \in n + 1 - d .. n + 1 : f[i] \in Seq(S)}
  <2>0. \A i \in 1 .. n + 1 : f[i] = IF i > n THEN << >> ELSE head[i] \o f[next[i]]
    BY <1>6 DEF Writes
  <2>1. 0 \in U
    <3>1. f[n + 1] = << >>
      BY <2>0
    <3>2. << >> \in Seq(S)
      OBVIOUS
    <3>3. \A i \in n + 1 - 0 .. n + 1 : i = n + 1
      OBVIOUS
    <3>4. \A i \in n + 1 - 0 .. n + 1 : f[i] \in Seq(S)
      BY <3>1, <3>2, <3>3
    <3> QED BY <3>4
  <2>2. ASSUME NEW d \in U
        PROVE  d + 1 \in U
    <3> SUFFICES ASSUME d + 1 <= n, NEW i \in n + 1 - (d + 1) .. n + 1
                 PROVE  f[i] \in Seq(S)
      OBVIOUS
    <3>1. CASE i >= n + 1 - d
      BY <3>1
    <3>2. CASE i < n + 1 - d
      <4>1. i \in 1 .. n /\ ~(i > n) /\ next[i] \in Nat
        BY <3>2
      <4>2. next[i] \in n + 1 - d .. n + 1
        BY <4>1
      <4>3. f[next[i]] \in Seq(S) /\ head[i] \in Seq(S)
        BY <4>1, <4>2
      <4>4. f[i] = head[i] \o f[next[i]]
        <5>1. i \in 1 .. n + 1
          BY <4>1
        <5> QED BY <2>0, <4>1, <5>1
      <4> QED BY <4>3, <4>4, ConcatProperties
    <3> QED BY <3>1, <3>2
  <2>3. U \in SUBSET Nat
    OBVIOUS
  <2> HIDE DEF U
  <2>4. n \in U
    BY <2>1, <2>2, <2>3, SetInduction
  <2>5. n + 1 - n = 1
    OBVIOUS
  <2> QED BY <2>4, <2>5 DEF U
<1> QED BY <1>5, <1>6

\* Two walks over the same heads are one.
LEMMA WalkUnique ==
  ASSUME NEW n \in Nat, NEW head, NEW next \in [1 .. n -> Nat],
         \A i \in 1 .. n : i < next[i] /\ next[i] <= n + 1,
         NEW f, NEW g, Writes(f, 1, n, head, next), Writes(g, 1, n, head, next)
  PROVE  f = g
<1> DEFINE T == {d \in Nat : d <= n => \A i \in n + 1 - d .. n + 1 : f[i] = g[i]}
<1>0. /\ \A i \in 1 .. n + 1 : f[i] = IF i > n THEN << >> ELSE head[i] \o f[next[i]]
      /\ \A i \in 1 .. n + 1 : g[i] = IF i > n THEN << >> ELSE head[i] \o g[next[i]]
  BY DEF Writes
<1>1. 0 \in T
  <2>1. \A i \in n + 1 - 0 .. n + 1 : i = n + 1
    OBVIOUS
  <2>2. f[n + 1] = << >> /\ g[n + 1] = << >>
    BY <1>0
  <2> QED BY <2>1, <2>2
<1>2. ASSUME NEW d \in T
      PROVE  d + 1 \in T
  <2> SUFFICES ASSUME d + 1 <= n, NEW i \in n + 1 - (d + 1) .. n + 1
               PROVE  f[i] = g[i]
    OBVIOUS
  <2>1. CASE i >= n + 1 - d
    BY <2>1
  <2>2. CASE i < n + 1 - d
    <3>1. i \in 1 .. n /\ i \in 1 .. n + 1 /\ ~(i > n)
      BY <2>2
    <3>2. next[i] \in n + 1 - d .. n + 1
      BY <2>2, <3>1
    <3>3. f[next[i]] = g[next[i]]
      BY <3>2
    <3> QED BY <1>0, <3>1, <3>3
  <2> QED BY <2>1, <2>2
<1>3. T \in SUBSET Nat
  OBVIOUS
<1> HIDE DEF T
<1>4. n \in T
  BY <1>1, <1>2, <1>3, SetInduction
<1>5. \A i \in 1 .. n + 1 : f[i] = g[i]
  BY <1>0, <1>4 DEF T
<1> QED BY <1>5 DEF Writes

\* Induction over sequences, for sets.
LEMMA SeqInduction ==
  ASSUME NEW S, NEW T \in SUBSET Seq(S), << >> \in T, \A s \in T, e \in S : Append(s, e) \in T
  PROVE  T = Seq(S)
<1> DEFINE U == {n \in Nat : \A s \in Seq(S) : Len(s) = n => s \in T}
<1>1. 0 \in U
  <2>1. \A s \in Seq(S) : Len(s) = 0 => s = << >>
    BY EmptySeq
  <2> QED BY <2>1
<1>2. ASSUME NEW n \in U
      PROVE  n + 1 \in U
  <2> SUFFICES ASSUME NEW s \in Seq(S), Len(s) = n + 1 PROVE s \in T
    OBVIOUS
  <2>1. s # << >>
    BY EmptySeq
  <2>2. PICK r \in Seq(S), e \in S : s = Append(r, e)
    BY <2>1, SequenceEmptyOrAppend
  <2>3. Len(r) = n
    <3>1. Len(Append(r, e)) = Len(r) + 1 /\ Len(r) \in Nat
      BY AppendProperties, LenProperties
    <3> QED BY <2>2, <3>1
  <2> QED BY <2>2, <2>3
<1>3. U \in SUBSET Nat
  OBVIOUS
<1> HIDE DEF U
<1>4. U = Nat
  BY <1>1, <1>2, <1>3, SetInduction
<1>5. ASSUME NEW s \in Seq(S) PROVE s \in T
  <2>1. Len(s) \in U
    BY <1>4, LenProperties
  <2> QED BY <2>1 DEF U
<1> QED BY <1>5

LEMMA FlattenEmpty == FlattenSeq(<< >>) = << >>
BY DEF FlattenSeq

\* Flattening goes from left to right.
LEMMA FlattenAppend ==
  ASSUME NEW S, NEW seqs \in Seq(Seq(S)), NEW x \in Seq(S)
  PROVE  FlattenSeq(Append(seqs, x)) = FlattenSeq(seqs) \o x
<1> DEFINE n == Len(seqs)
           more == Append(seqs, x)
           f == CHOOSE h : Flattens(h, seqs, n)
           g == CHOOSE h : Flattens(h, more, Len(more))
<1>1. /\ n \in Nat /\ Len(more) = n + 1
      /\ \A i \in 1 .. n : more[i] = seqs[i]
      /\ more[n + 1] = x
  BY LenProperties, AppendProperties
<1>2. FlattenSeq(more) = g[n + 1]
  <2>1. Len(more) # 0
    BY <1>1
  <2>2. FlattenSeq(more) = g[Len(more)]
    <3> HIDE DEF more, n
    <3> QED BY <2>1 DEF FlattenSeq, Flattens
  <2> QED BY <1>1, <2>2
<1>3. n # 0 => FlattenSeq(seqs) = f[n]
  BY DEF FlattenSeq, Flattens
<1>4. Flattens(f, seqs, n) /\ Flattens(g, more, n + 1)
  <2>1. Len(more) \in Nat
    BY <1>1
  <2> HIDE DEF more, n
  <2>2. \E h : Flattens(h, seqs, n)
    BY <1>1, FlattenExists
  <2>3. \E h : Flattens(h, more, Len(more))
    BY <2>1, FlattenExists
  <2> QED BY <1>1, <2>2, <2>3
<1> HIDE DEF n, more, f, g
<1>5. /\ \A i \in 1 .. n : f[i] = IF i = 1 THEN seqs[i] ELSE f[i - 1] \o seqs[i]
      /\ \A i \in 1 .. n + 1 : g[i] = IF i = 1 THEN more[i] ELSE g[i - 1] \o more[i]
  BY <1>4 DEF Flattens
<1>6. CASE n = 0
  <2>1. seqs = << >>
    BY <1>6, EmptySeq DEF n
  <2>2. g[n + 1] = x
    BY <1>1, <1>5, <1>6
  <2>3. << >> \o x = x
    BY ConcatEmptySeq
  <2> QED BY <1>2, <2>1, <2>2, <2>3, FlattenEmpty DEF more
<1>7. CASE n # 0
  <2> DEFINE T == {k \in Nat : k \in 1 .. n => f[k] = g[k]}
  <2>1. 0 \in T
    OBVIOUS
  <2>2. ASSUME NEW k \in T
        PROVE  k + 1 \in T
    <3> SUFFICES ASSUME k + 1 \in 1 .. n PROVE f[k + 1] = g[k + 1]
      OBVIOUS
    <3>1. f[k + 1] = IF k = 0 THEN seqs[k + 1] ELSE f[k] \o seqs[k + 1]
      <4>1. k + 1 = 1 <=> k = 0
        OBVIOUS
      <4>2. (k + 1) - 1 = k
        OBVIOUS
      <4> QED BY <1>5, <4>1, <4>2
    <3>2. g[k + 1] = IF k = 0 THEN more[k + 1] ELSE g[k] \o more[k + 1]
      <4>1. k + 1 \in 1 .. n + 1 /\ (k + 1 = 1 <=> k = 0)
        BY <1>1
      <4>2. (k + 1) - 1 = k
        OBVIOUS
      <4> QED BY <1>5, <4>1, <4>2
    <3>3. more[k + 1] = seqs[k + 1]
      BY <1>1
    <3>4. k # 0 => f[k] = g[k]
      BY <1>1
    <3> QED BY <3>1, <3>2, <3>3, <3>4
  <2>3. T \in SUBSET Nat
    OBVIOUS
  <2> HIDE DEF T
  <2>4. n \in T
    BY <1>1, <2>1, <2>2, <2>3, SetInduction
  <2>5. f[n] = g[n]
    BY <1>1, <1>7, <2>4 DEF T
  <2>6. g[n + 1] = g[n] \o more[n + 1]
    <3>1. n + 1 \in 1 .. n + 1 /\ n + 1 # 1 /\ (n + 1) - 1 = n
      BY <1>1, <1>7
    <3> QED BY <1>5, <3>1
  <2> QED BY <1>1, <1>2, <1>3, <1>7, <2>5, <2>6 DEF more
<1> QED BY <1>6, <1>7

LEMMA FlattenConcat ==
  ASSUME NEW S, NEW a \in Seq(Seq(S)), NEW b \in Seq(Seq(S))
  PROVE  FlattenSeq(a \o b) = FlattenSeq(a) \o FlattenSeq(b)
<1> DEFINE T == {c \in Seq(Seq(S)) : FlattenSeq(a \o c) = FlattenSeq(a) \o FlattenSeq(c)}
<1>0. FlattenSeq(a) \in Seq(S)
  BY FlattenShape
<1>1. << >> \in T
  <2>1. a \o << >> = a /\ << >> \in Seq(Seq(S))
    BY ConcatEmptySeq, EmptySeq
  <2>2. FlattenSeq(a) \o << >> = FlattenSeq(a)
    BY <1>0, ConcatEmptySeq
  <2> QED BY <2>1, <2>2, FlattenEmpty
<1>2. ASSUME NEW c \in T, NEW e \in Seq(S)
      PROVE  Append(c, e) \in T
  <2>1. c \in Seq(Seq(S)) /\ FlattenSeq(a \o c) = FlattenSeq(a) \o FlattenSeq(c)
    OBVIOUS
  <2> HIDE DEF T
  <2>2. Append(c, e) \in Seq(Seq(S)) /\ FlattenSeq(c) \in Seq(S) /\ a \o c \in Seq(Seq(S))
    BY <2>1, AppendProperties, FlattenShape, ConcatProperties
  <2>3. a \o Append(c, e) = Append(a \o c, e)
    <3>1. Append(c, e) = c \o <<e>> /\ Append(a \o c, e) = (a \o c) \o <<e>>
      BY <2>1, <2>2, AppendIsConcat
    <3>2. <<e>> \in Seq(Seq(S))
      <4> DEFINE Q == Seq(S)
      <4>1. e \in Q
        OBVIOUS
      <4> HIDE DEF Q
      <4>2. <<e>> \in Seq(Q)
        BY <4>1
      <4> QED BY <4>2 DEF Q
    <3>3. (a \o c) \o <<e>> = a \o (c \o <<e>>)
      BY <2>1, <3>2, ConcatAssociative
    <3> QED BY <3>1, <3>3
  <2>4. FlattenSeq(Append(a \o c, e)) = FlattenSeq(a \o c) \o e
    BY <2>2, FlattenAppend
  <2>5. FlattenSeq(Append(c, e)) = FlattenSeq(c) \o e
    BY <2>1, FlattenAppend
  <2>6. (FlattenSeq(a) \o FlattenSeq(c)) \o e = FlattenSeq(a) \o (FlattenSeq(c) \o e)
    BY <1>0, <2>2, ConcatAssociative
  <2> QED BY <2>1, <2>2, <2>3, <2>4, <2>5, <2>6 DEF T
<1>3. T \in SUBSET Seq(Seq(S))
  OBVIOUS
<1> HIDE DEF T
<1>4. T = Seq(Seq(S))
  BY <1>1, <1>2, <1>3, SeqInduction
<1> QED BY <1>4 DEF T

===============================================================================
