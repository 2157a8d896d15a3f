---------------------------- MODULE PipelineProofs ----------------------------
(***************************************************************************)
(* Proofs about Pipeline::run.  What the clusterer guarantees on its own   *)
(* is taken over from JaccardClustererProofs: every step of the pipeline   *)
(* is a step of the clusterer or leaves it alone (IngestsOrLeaves).        *)
(***************************************************************************)
EXTENDS Pipeline, FiniteSetTheorems, FunctionTheorems, SequenceTheorems, TLAPS

P == INSTANCE JaccardClustererProofs
Arithmetic == INSTANCE ArithmeticProofs

------------------------------------------------------------------------------
\* Sums, taken over from ArithmeticProofs.

LEMMA SameSums ==
  ASSUME NEW f
  PROVE  Arithmetic!Tally(f) = Tally(f) /\ Arithmetic!Total(f) = Total(f)
BY DEF Arithmetic!Tally, Tally, Arithmetic!Total, Total, Arithmetic!Cardinality, Cardinality

LEMMA SameFiniteSets ==
  ASSUME NEW S
  PROVE  (Arithmetic!IsFiniteSet(S) <=> IsFiniteSet(S)) /\ Arithmetic!Cardinality(S) = Cardinality(S)
BY DEF Arithmetic!IsFiniteSet, IsFiniteSet, Arithmetic!Cardinality, Cardinality

LEMMA UpTo ==
  ASSUME NEW n \in Nat
  PROVE  IsFiniteSet(1 .. n) /\ Cardinality(1 .. n) = n
BY Arithmetic!UpTo, SameFiniteSets

LEMMA TotalType ==
  ASSUME NEW f, IsFiniteSet(DOMAIN f), \A x \in DOMAIN f : f[x] \in Nat
  PROVE  IsFiniteSet(Tally(f)) /\ Total(f) \in Nat
BY Arithmetic!TotalType, SameSums, SameFiniteSets

\* The tally marks of f.
LEMMA TallyMarks ==
  ASSUME NEW f, NEW p
  PROVE  p \in Tally(f) <=> \E x \in DOMAIN f : \E k \in 1 .. f[x] : p = <<x, k>>
BY DEF Tally

LEMMA TotalOfNone ==
  ASSUME NEW f, DOMAIN f = {}
  PROVE  Total(f) = 0
BY Arithmetic!TotalOfNone, SameSums

\* One value more at the end.
LEMMA TotalGrows ==
  ASSUME NEW n \in Nat, NEW f \in [1 .. n -> Nat], NEW g \in [1 .. n + 1 -> Nat],
         \A k \in 1 .. n : g[k] = f[k]
  PROVE  Total(g) = Total(f) + g[n + 1]
BY Arithmetic!TotalAppend, SameSums

------------------------------------------------------------------------------
\* Stage 0: what normalize returns is a text, for every text.

LEMMA SameFlatten ==
  ASSUME NEW seqs
  PROVE  Arithmetic!FlattenSeq(seqs) = FlattenSeq(seqs)
BY DEF Arithmetic!FlattenSeq, FlattenSeq

LEMMA FlattenShape ==
  ASSUME NEW S, NEW seqs \in Seq(Seq(S))
  PROVE  FlattenSeq(seqs) \in Seq(S)
BY Arithmetic!FlattenShape, SameFlatten

LEMMA FlattenHead ==
  ASSUME NEW S, NEW seqs \in Seq(Seq(S)), seqs # << >>, seqs[1] # << >>
  PROVE  FlattenSeq(seqs) # << >> /\ FlattenSeq(seqs)[1] = seqs[1][1]
BY Arithmetic!FlattenHead, SameFlatten

\* What is left of a line without its escape sequences.
Plain == Symbols \ {"esc"}

LEMMA StripAnsiType ==
  ASSUME NEW raw \in Seq(Symbols)
  PROVE  StripAnsi(raw) \in Seq(Plain)
<1> DEFINE seqs == [i \in DOMAIN raw |-> IF raw[i] \in Controls THEN << >> ELSE <<raw[i]>>]
<1>1. /\ Len(raw) \in Nat /\ DOMAIN raw = 1 .. Len(raw)
      /\ \A i \in 1 .. Len(raw) : raw[i] \in Symbols
  BY LenProperties, ElementOfSeq
<1>2. \A i \in 1 .. Len(raw) : raw[i] # "esc" => raw[i] \in Plain
  BY <1>1 DEF Plain
<1>3. \A i \in 1 .. Len(raw) : raw[i] \notin Controls => raw[i] # "esc"
  BY DEF Controls
<1> HIDE DEF Symbols, Plain, Controls
<1>4. \A i \in 1 .. Len(raw) : seqs[i] \in Seq(Plain)
  <2> SUFFICES ASSUME NEW i \in 1 .. Len(raw) PROVE seqs[i] \in Seq(Plain)
    OBVIOUS
  <2>1. CASE raw[i] \in Controls
    <3>1. << >> \in Seq(Plain)
      OBVIOUS
    <3> QED BY <1>1, <2>1, <3>1
  <2>2. CASE raw[i] \notin Controls
    <3>1. raw[i] \in Plain
      BY <1>2, <1>3, <2>2
    <3>2. <<raw[i]>> \in Seq(Plain)
      BY <3>1
    <3> QED BY <1>1, <2>2, <3>2
  <2> QED BY <2>1, <2>2
<1>5. seqs \in Seq(Seq(Plain))
  BY <1>1, <1>4
<1>6. Stripped(raw) \in Seq(Plain)
  <2> HIDE DEF seqs
  <2> QED BY <1>5, FlattenShape DEF Stripped, seqs
<1>7. CASE \E i \in DOMAIN raw : raw[i] = "esc"
  BY <1>6, <1>7 DEF StripAnsi
<1>8. CASE ~\E i \in DOMAIN raw : raw[i] = "esc"
  <2>1. raw \in [1 .. Len(raw) -> Plain]
    BY <1>1, <1>2, <1>8
  <2>2. raw \in Seq(Plain)
    BY <1>1, <2>1
  <2> QED BY <1>8, <2>2 DEF StripAnsi
<1> QED BY <1>7, <1>8

\* What a rule can take, and what none can.
Maskable == PathChar \cup {":", "/", "space"}
Barriers == Symbols \ Maskable

\* The items of a pattern, and the patterns some item of which takes a symbol.
Item == [class : SUBSET Maskable, min : Nat, max : Nat]
Consumes(pattern) == \E k \in 1 .. Len(pattern) : pattern[k].min >= 1 /\ pattern[k].max >= 1

LEMMA MatchItemBounds ==
  ASSUME NEW text \in Seq(Symbols), NEW ends \in SUBSET (1 .. Len(text) + 1), NEW item \in Item,
         NEW i \in Nat, \A j \in ends : i <= j
  PROVE  /\ MatchItem(text, ends, item) \in SUBSET (1 .. Len(text) + 1)
         /\ \A j \in MatchItem(text, ends, item) :
              i <= j /\ (item.min >= 1 /\ item.max >= 1 => i < j)
<1>1. Len(text) \in Nat /\ item.min \in Nat /\ item.max \in Nat
  BY LenProperties DEF Item
<1>2. CASE item = Edge
  <2>1. item.max = 0
    BY <1>2 DEF Edge, Runs
  <2>2. MatchItem(text, ends, item) \in SUBSET ends
    BY <1>2 DEF MatchItem
  <2>3. ~(item.max >= 1)
    BY <2>1
  <2> QED BY <2>2, <2>3
<1>3. CASE item # Edge
  <2>1. MatchItem(text, ends, item) \in SUBSET (1 .. Len(text) + 1)
    BY <1>3 DEF MatchItem
  <2>2. ASSUME NEW j \in MatchItem(text, ends, item)
        PROVE  i <= j /\ (item.min >= 1 => i < j)
    <3>1. \E k \in ends : k + item.min <= j
      BY <1>3 DEF MatchItem
    <3>2. j \in Nat
      BY <2>1, <1>1
    <3> QED BY <1>1, <3>1, <3>2
  <2> QED BY <2>1, <2>2
<1> QED BY <1>2, <1>3

\* The positions after each item, one item after the other.
After(after, text, i, pattern, n) ==
  after = [k \in 0 .. n |-> IF k = 0 THEN {i} ELSE MatchItem(text, after[k - 1], pattern[k])]

LEMMA AfterExists ==
  ASSUME NEW text, NEW i, NEW pattern, NEW n \in Nat
  PROVE  \E after : After(after, text, i, pattern, n)
<1> DEFINE T == {k \in Nat : \E after : After(after, text, i, pattern, k)}
<1>1. 0 \in T
  <2> DEFINE g == [k \in 0 .. 0 |-> {i}]
  <2>1. g = [k \in 0 .. 0 |-> IF k = 0 THEN {i} ELSE MatchItem(text, g[k - 1], pattern[k])]
    <3>1. \A k \in 0 .. 0 : k = 0
      OBVIOUS
    <3> QED BY <3>1
  <2> HIDE DEF g
  <2>2. After(g, text, i, pattern, 0)
    BY <2>1 DEF After
  <2> QED BY <2>2
<1>2. ASSUME NEW n0 \in T
      PROVE  n0 + 1 \in T
  <2>1. PICK f : After(f, text, i, pattern, n0)
    OBVIOUS
  <2> DEFINE g == [k \in 0 .. n0 + 1 |-> IF k = 0 THEN {i} ELSE MatchItem(text, f[k - 1], pattern[k])]
  <2>2. ASSUME NEW k \in 0 .. n0
        PROVE  f[k] = g[k]
    <3>1. f[k] = IF k = 0 THEN {i} ELSE MatchItem(text, f[k - 1], pattern[k])
      BY <2>1 DEF After
    <3>2. k \in 0 .. n0 + 1
      OBVIOUS
    <3> QED BY <3>1, <3>2
  <2>3. ASSUME NEW k \in 0 .. n0 + 1, k # 0
        PROVE  f[k - 1] = g[k - 1]
    <3>1. k - 1 \in 0 .. n0
      BY <2>3
    <3> HIDE DEF g
    <3> QED BY <2>2, <3>1
  <2>4. g = [k \in 0 .. n0 + 1 |-> IF k = 0 THEN {i} ELSE MatchItem(text, g[k - 1], pattern[k])]
    BY <2>3
  <2> HIDE DEF g
  <2>5. After(g, text, i, pattern, n0 + 1)
    BY <2>4 DEF After
  <2> QED BY <2>5
<1>3. T \in SUBSET Nat
  OBVIOUS
<1> HIDE DEF T
<1>4. T = Nat
  BY <1>1, <1>2, <1>3, Arithmetic!SetInduction
<1> QED BY <1>4 DEF T

\* A match stays in the text, and ends past its start if an item takes a symbol.
LEMMA EndsBounds ==
  ASSUME NEW text \in Seq(Symbols), NEW i \in 1 .. Len(text) + 1, NEW pattern \in Seq(Item)
  PROVE  /\ Ends(text, i, pattern) \in SUBSET (1 .. Len(text) + 1)
         /\ Consumes(pattern) => \A j \in Ends(text, i, pattern) : i < j
<1> DEFINE n == Len(pattern)
           after == CHOOSE f : After(f, text, i, pattern, n)
           U == 1 .. Len(text) + 1
<1>1. /\ n \in Nat /\ Len(text) \in Nat /\ i \in Nat
      /\ \A k \in 1 .. n : pattern[k] \in Item
  BY LenProperties, ElementOfSeq
<1>2. Ends(text, i, pattern) = after[n]
  BY DEF Ends, After
<1>3. After(after, text, i, pattern, n)
  BY <1>1, AfterExists
<1> HIDE DEF after, n
<1> DEFINE Beyond(k) == \E m \in 1 .. k : pattern[m].min >= 1 /\ pattern[m].max >= 1
           T == {k \in Nat : k <= n => /\ after[k] \in SUBSET U
                                       /\ \A j \in after[k] : i <= j
                                       /\ Beyond(k) => \A j \in after[k] : i + 1 <= j}
<1>4. 0 \in T
  <2>1. after[0] = {i}
    BY <1>1, <1>3 DEF After
  <2>2. ~Beyond(0)
    OBVIOUS
  <2> QED BY <1>1, <2>1, <2>2
<1>5. ASSUME NEW k \in T
      PROVE  k + 1 \in T
  <2> SUFFICES ASSUME k + 1 <= n
               PROVE  /\ after[k + 1] \in SUBSET U
                      /\ \A j \in after[k + 1] : i <= j
                      /\ Beyond(k + 1) => \A j \in after[k + 1] : i + 1 <= j
    OBVIOUS
  <2> DEFINE ends == after[k]
             item == pattern[k + 1]
  <2>1. /\ ends \in SUBSET U
        /\ \A j \in ends : i <= j
        /\ Beyond(k) => \A j \in ends : i + 1 <= j
    BY <1>1
  <2>2. item \in Item
    BY <1>1
  <2>3. after[k + 1] = MatchItem(text, ends, item)
    <3>1. k + 1 \in 0 .. n /\ k + 1 # 0 /\ (k + 1) - 1 = k
      BY <1>1
    <3> QED BY <1>3, <3>1 DEF After
  <2>4. Beyond(k + 1) => Beyond(k) \/ (item.min >= 1 /\ item.max >= 1)
    OBVIOUS
  <2> HIDE DEF ends, item, Beyond
  <2>5. /\ MatchItem(text, ends, item) \in SUBSET U
        /\ \A j \in MatchItem(text, ends, item) :
             i <= j /\ (item.min >= 1 /\ item.max >= 1 => i < j)
    BY <1>1, <2>1, <2>2, MatchItemBounds
  <2>6. Beyond(k) => \A j \in MatchItem(text, ends, item) : i + 1 <= j
    <3> SUFFICES ASSUME Beyond(k) PROVE \A j \in MatchItem(text, ends, item) : i + 1 <= j
      OBVIOUS
    <3>1. i + 1 \in Nat /\ \A j \in ends : i + 1 <= j
      BY <1>1, <2>1
    <3> QED BY <2>1, <2>2, <3>1, MatchItemBounds
  <2>7. \A j \in U : i < j => i + 1 <= j
    BY <1>1
  <2> QED BY <2>3, <2>4, <2>5, <2>6, <2>7
<1>6. T \in SUBSET Nat
  OBVIOUS
<1> HIDE DEF T, Beyond
<1>7. T = Nat
  BY <1>4, <1>5, <1>6, Arithmetic!SetInduction
<1>8. n \in T
  BY <1>1, <1>7
<1>9. Consumes(pattern) => Beyond(n)
  BY DEF Consumes, Beyond, n
<1>10. \A j \in U : i + 1 <= j => i < j
  BY <1>1
<1> QED BY <1>1, <1>2, <1>8, <1>9, <1>10 DEF T

\* The rules' patterns.

LEMMA ConsumesConcat ==
  ASSUME NEW a \in Seq(Item), NEW b \in Seq(Item), Consumes(a) \/ Consumes(b)
  PROVE  a \o b \in Seq(Item) /\ Consumes(a \o b)
<1>1. Len(a) \in Nat /\ Len(b) \in Nat
  BY LenProperties
<1>2. /\ a \o b \in Seq(Item)
      /\ Len(a \o b) = Len(a) + Len(b)
      /\ \A i \in 1 .. Len(a) + Len(b) : (a \o b)[i] = IF i <= Len(a) THEN a[i] ELSE b[i - Len(a)]
  BY ConcatProperties
<1>3. ASSUME NEW k \in 1 .. Len(a), a[k].min >= 1, a[k].max >= 1
      PROVE  Consumes(a \o b)
  <2>1. k \in 1 .. Len(a) + Len(b) /\ (a \o b)[k] = a[k]
    BY <1>1, <1>2
  <2> QED BY <1>2, <1>3, <2>1 DEF Consumes
<1>4. ASSUME NEW k \in 1 .. Len(b), b[k].min >= 1, b[k].max >= 1
      PROVE  Consumes(a \o b)
  <2>1. k + Len(a) \in 1 .. Len(a) + Len(b) /\ ~(k + Len(a) <= Len(a)) /\ k + Len(a) - Len(a) = k
    BY <1>1
  <2>2. (a \o b)[k + Len(a)] = b[k]
    BY <1>2, <2>1
  <2> QED BY <1>2, <1>4, <2>1, <2>2 DEF Consumes
<1> QED BY <1>2, <1>3, <1>4 DEF Consumes

\* The items of the rules.
LEMMA ItemTypes ==
  /\ Edge \in Item /\ Dash \in Item /\ Colon \in Item /\ Dot \in Item
  /\ Octet \in Item
  /\ \A n, m \in Nat : Digits(n, m) \in Item /\ Hexes(n, m) \in Item
  /\ One({"T", "space"}) \in Item /\ One({"Z"}) \in Item /\ One({"+", "-"}) \in Item
  /\ One({"zero"}) \in Item /\ One({"x"}) \in Item /\ One({"/"}) \in Item
  /\ Runs({":"}, 0, 1) \in Item /\ Runs({"/"}, 0, 1) \in Item
  /\ Runs(PathChar, 1, AnyLength) \in Item
<1>1. /\ {} \in SUBSET Maskable /\ {"-"} \in SUBSET Maskable /\ {":"} \in SUBSET Maskable
      /\ {"."} \in SUBSET Maskable /\ {"T", "space"} \in SUBSET Maskable /\ {"Z"} \in SUBSET Maskable
      /\ {"+", "-"} \in SUBSET Maskable /\ {"zero"} \in SUBSET Maskable /\ {"x"} \in SUBSET Maskable
      /\ {"/"} \in SUBSET Maskable
  BY DEF Maskable, PathChar, Word, HexDigit, Digit
<1>2. Digit \in SUBSET Maskable /\ HexDigit \in SUBSET Maskable /\ PathChar \in SUBSET Maskable
  BY DEF Maskable, PathChar, Word, HexDigit, Digit
<1>3. ASSUME NEW class \in SUBSET Maskable, NEW n \in Nat, NEW m \in Nat
      PROVE  Runs(class, n, m) \in Item
  BY DEF Runs, Item
<1>4. AnyLength \in Nat
  BY DEF AnyLength
<1> HIDE DEF Item
<1> QED BY <1>1, <1>2, <1>3, <1>4
      DEF Edge, Dash, Colon, Dot, Octet, Digits, Hexes, One

\* A pattern that is well-formed and ends a match past its start.
Whole(pattern) == pattern \in Seq(Item) /\ Consumes(pattern)

LEMMA WholeConcat ==
  ASSUME NEW a \in Seq(Item), NEW b \in Seq(Item), Whole(a) \/ Whole(b)
  PROVE  Whole(a \o b)
BY ConsumesConcat DEF Whole

LEMMA PathPatterns ==
  ASSUME NEW n \in 1 .. MaxSegments
  PROVE  Whole(FlattenSeq([i \in 1 .. n |-> Segment]) \o <<Runs({"/"}, 0, 1)>>)
<1> DEFINE slash == One({"/"})
           name == Runs(PathChar, 1, AnyLength)
           seqs == [i \in 1 .. n |-> Segment]
           flat == FlattenSeq(seqs)
<1>1. slash \in Item /\ name \in Item /\ Runs({"/"}, 0, 1) \in Item
  BY ItemTypes
<1>2. slash.min = 1 /\ slash.max = 1
  BY DEF One, Runs
<1> HIDE DEF slash, name
<1>3. Segment = <<slash, name>>
  BY DEF Segment, slash, name
<1>4. Segment \in Seq(Item) /\ Segment # << >> /\ Segment[1] = slash
  BY <1>1, <1>3
<1>5. n \in Nat /\ 1 \in 1 .. n
  BY MaxSegmentsAssumption
<1>6. seqs \in Seq(Seq(Item)) /\ Len(seqs) = n /\ seqs[1] = Segment
  <2> HIDE DEF Item
  <2> QED BY <1>4, <1>5
<1>7. seqs # << >>
  BY <1>5, <1>6
<1> HIDE DEF seqs, Item
<1>8. flat \in Seq(Item) /\ flat # << >> /\ flat[1] = slash
  BY <1>4, <1>6, <1>7, FlattenShape, FlattenHead
<1> HIDE DEF flat
<1>9. Whole(flat)
  <2>1. 1 \in 1 .. Len(flat)
    BY <1>8, EmptySeq, LenProperties
  <2> QED BY <1>2, <1>8, <2>1 DEF Whole, Consumes
<1>10. <<Runs({"/"}, 0, 1)>> \in Seq(Item)
  BY <1>1
<1> QED BY <1>8, <1>9, <1>10, WholeConcat DEF flat, seqs

\* What the rules write.
Given == Tags \cup {":"}

\* Every rule takes a symbol wherever it matches, and stands for a text.
LEMMA RulePatterns ==
  ASSUME NEW k \in DOMAIN Rules
  PROVE  /\ \A pattern \in Rules[k].patterns : Whole(pattern)
         /\ Rules[k].tags \in Seq(Given)
<1> DEFINE d1 == Digits(1, AnyLength)
           d2 == Digits(2, 2)
           d4 == Digits(4, 4)
           d5 == Digits(1, 5)
           d25 == Digits(2, 5)
           h1 == Hexes(1, AnyLength)
           h4 == Hexes(4, 4)
           h8 == Hexes(8, 8)
           h12 == Hexes(12, 12)
           h16 == Hexes(16, AnyLength)
           zero == One({"zero"})
           x == One({"x"})
           taking == {d1, d2, d4, d5, d25, h1, h4, h8, h12, h16, zero, x, Dash, Dot, Colon, Octet}
<1>1. \A item \in taking : item \in Item /\ item.min >= 1 /\ item.max >= 1
  <2>1. \A class, n, m \in Nat \ {0} :
          Runs(class, n, m).min >= 1 /\ Runs(class, n, m).max >= 1
    BY DEF Runs
  <2>2. \A item \in taking : item \in Item
    BY ItemTypes DEF AnyLength
  <2>3. \A item \in taking : item.min >= 1 /\ item.max >= 1
    BY DEF Runs, Digits, Hexes, One, Dash, Dot, Colon, Octet, AnyLength
  <2> QED BY <2>2, <2>3
<1>2. Edge \in Item
  BY ItemTypes
<1> HIDE DEF d1, d2, d4, d5, d25, h1, h4, h8, h12, h16, zero, x, Item
<1>3. Whole(Date)
  <2>1. Date = <<d4, Dash, d2, Dash, d2>>
    BY DEF Date, d4, d2
  <2> QED BY <1>1, <2>1 DEF Whole, Consumes
<1>4. Clock \in Seq(Item) /\ Fraction \in Seq(Item) /\ Offset \in Seq(Item) /\ <<One({"Z"})>> \in Seq(Item)
  <2>1. /\ Clock = <<One({"T", "space"}), d2, Colon, d2, Colon, d2>>
        /\ Fraction = <<Dot, d1>>
        /\ Offset = <<One({"+", "-"}), d2, Runs({":"}, 0, 1), d2>>
    BY DEF Clock, Fraction, Offset, d1, d2
  <2>2. One({"T", "space"}) \in Item /\ One({"+", "-"}) \in Item
        /\ Runs({":"}, 0, 1) \in Item /\ One({"Z"}) \in Item
    BY ItemTypes
  <2> QED BY <1>1, <2>1, <2>2
<1>5. \A pattern \in Ts : Whole(pattern)
  <2>1. ASSUME NEW fraction \in {<< >>, Fraction}, NEW zone \in {<< >>, <<One({"Z"})>>, Offset}
        PROVE  Whole(Date \o Clock \o fraction \o zone)
    <3>1. fraction \in Seq(Item) /\ zone \in Seq(Item)
      <4>1. << >> \in Seq(Item)
        OBVIOUS
      <4> QED BY <1>4, <4>1
    <3>2. Whole(Date \o Clock)
      BY <1>3, <1>4, WholeConcat DEF Whole
    <3>3. Whole((Date \o Clock) \o fraction)
      BY <3>1, <3>2, WholeConcat DEF Whole
    <3> QED BY <3>1, <3>3, WholeConcat DEF Whole
  <2> DEFINE fractions == {<< >>, Fraction}
             zones == {<< >>, <<One({"Z"})>>, Offset}
             stamp(fraction, zone) == Date \o Clock \o fraction \o zone
  <2>2. Ts = {Date} \cup {stamp(fraction, zone) : fraction \in fractions, zone \in zones}
    BY DEF Ts
  <2>3. \A fraction \in fractions, zone \in zones : Whole(stamp(fraction, zone))
    BY <2>1
  <2> HIDE DEF fractions, zones, stamp, Whole
  <2> QED BY <1>3, <2>2, <2>3
<1>6. \A pattern \in Uuid : Whole(pattern)
  <2> DEFINE uuid == <<Edge, h8, Dash, h4, Dash, h4, Dash, h4, Dash, h12, Edge>>
  <2>1. Uuid = {uuid}
    BY DEF Uuid, h8, h4, h12
  <2>2. uuid \in Seq(Item)
    BY <1>1, <1>2
  <2>3. Len(uuid) = 11 /\ uuid[2] = h8
    OBVIOUS
  <2>4. Whole(uuid)
    BY <1>1, <2>2, <2>3 DEF Whole, Consumes
  <2> QED BY <2>1, <2>4
<1>7. Whole(Quad)
  BY <1>1 DEF Quad, Whole, Consumes
<1>8. Whole(<<Edge>> \o Quad)
  <2>1. <<Edge>> \in Seq(Item)
    BY <1>2
  <2> QED BY <1>7, <2>1, WholeConcat DEF Whole
<1>9. \A pattern \in Ipv4Port : Whole(pattern)
  <2>1. <<Colon, d5, Edge>> \in Seq(Item)
    BY <1>1, <1>2
  <2> QED BY <1>8, <2>1, WholeConcat DEF Whole, Ipv4Port, d5
<1>10. \A pattern \in Ipv4 : Whole(pattern)
  <2>1. <<Edge>> \in Seq(Item)
    BY <1>2
  <2> QED BY <1>8, <2>1, WholeConcat DEF Whole, Ipv4
<1>11. \A pattern \in Port : Whole(pattern)
  <2> DEFINE pattern == <<Colon, d25, Edge>>
  <2>1. Port = {<<Colon, d25, Edge>>}
    BY DEF Port, d25
  <2>2. pattern \in Seq(Item)
    BY <1>1, <1>2
  <2>3. Consumes(pattern)
    BY <1>1 DEF Consumes
  <2> QED BY <2>1, <2>2, <2>3 DEF Whole
<1>12. \A pattern \in Hex0x : Whole(pattern)
  <2> DEFINE pattern == <<Edge, zero, x, h1, Edge>>
  <2>1. Hex0x = {<<Edge, zero, x, h1, Edge>>}
    BY DEF Hex0x, zero, x, h1
  <2>2. pattern \in Seq(Item)
    BY <1>1, <1>2
  <2>3. Consumes(pattern)
    BY <1>1 DEF Consumes
  <2> QED BY <2>1, <2>2, <2>3 DEF Whole
<1>13. \A pattern \in HexLong : Whole(pattern)
  <2> DEFINE pattern == <<Edge, h16, Edge>>
  <2>1. HexLong = {<<Edge, h16, Edge>>}
    BY DEF HexLong, h16
  <2>2. pattern \in Seq(Item)
    BY <1>1, <1>2
  <2>3. Consumes(pattern)
    BY <1>1 DEF Consumes
  <2> QED BY <2>1, <2>2, <2>3 DEF Whole
<1>14. \A pattern \in Path : Whole(pattern)
  BY PathPatterns DEF Path
<1>15. \A pattern \in Num : Whole(pattern)
  <2>1. Num = {<<Edge, d1, Edge>>, <<Edge, d1>> \o Fraction \o <<Edge>>}
    BY DEF Num, d1
  <2>2. Whole(<<Edge, d1, Edge>>) /\ Whole(<<Edge, d1>>)
    BY <1>1, <1>2 DEF Whole, Consumes
  <2>3. Whole(<<Edge, d1>> \o Fraction)
    BY <1>4, <2>2, WholeConcat DEF Whole
  <2>4. <<Edge>> \in Seq(Item)
    BY <1>2
  <2>5. Whole((<<Edge, d1>> \o Fraction) \o <<Edge>>)
    BY <2>3, <2>4, WholeConcat DEF Whole
  <2> QED BY <2>1, <2>2, <2>5
<1>16. \A pattern \in Rules[k].patterns : Whole(pattern)
  <2>1. k \in 1 .. 9
    BY DEF Rules
  <2>2. Rules[k].patterns \in {Ts, Uuid, Ipv4Port, Ipv4, Port, Hex0x, HexLong, Path, Num}
    BY <2>1 DEF Rules, Rule
  <2> QED BY <1>5, <1>6, <1>9, <1>10, <1>11, <1>12, <1>13, <1>14, <1>15, <2>2
<1>17. Rules[k].tags \in Seq(Given)
  <2>1. k \in 1 .. 9
    BY DEF Rules
  <2>2. Rules[k].tags \in {<<"<TS>">>, <<"<UUID>">>, <<"<IP>", ":", "<PORT>">>, <<"<IP>">>,
                           <<":", "<PORT>">>, <<"<HEX>">>, <<"<PATH>">>, <<"<NUM>">>}
    BY <2>1 DEF Rules, Rule
  <2>3. /\ "<IP>" \in Given /\ "<UUID>" \in Given /\ "<TS>" \in Given /\ "<HEX>" \in Given
        /\ "<NUM>" \in Given /\ "<PORT>" \in Given /\ "<PATH>" \in Given /\ ":" \in Given
    BY DEF Given, Tags
  <2>4. /\ \A s \in Given : <<s>> \in Seq(Given)
        /\ \A s, t \in Given : <<s, t>> \in Seq(Given)
        /\ \A s, t, u \in Given : <<s, t, u>> \in Seq(Given)
    OBVIOUS
  <2> HIDE DEF Given
  <2> QED BY <2>2, <2>3, <2>4
<1> QED BY <1>16, <1>17
\* Where a rule matches, its longest match ends in the text, past its start.
LEMMA LongestMatch ==
  ASSUME NEW text \in Seq(Symbols), NEW i \in 1 .. Len(text), NEW k \in DOMAIN Rules,
         RuleEnds(text, i, Rules[k]) # {}
  PROVE  /\ Max(RuleEnds(text, i, Rules[k])) \in Nat
         /\ i < Max(RuleEnds(text, i, Rules[k]))
         /\ Max(RuleEnds(text, i, Rules[k])) <= Len(text) + 1
<1> DEFINE ends == RuleEnds(text, i, Rules[k])
           n == Len(text) + 1
<1>1. n \in Nat /\ i \in 1 .. Len(text) + 1
  BY LenProperties
<1>2. ASSUME NEW pattern \in Rules[k].patterns
      PROVE  /\ Ends(text, i, pattern) \in SUBSET (1 .. n)
             /\ \A j \in Ends(text, i, pattern) : i < j
  BY <1>1, RulePatterns, EndsBounds DEF Whole
<1>3. ends \in SUBSET (1 .. n) /\ \A j \in ends : i < j
  BY <1>2 DEF RuleEnds
<1> HIDE DEF ends, n
<1>4. PICK m \in ends : \A j \in ends : j <= m
  BY <1>1, <1>3, Arithmetic!GreatestExists DEF ends
<1>5. \A j \in ends : j \in Nat
  BY <1>1, <1>3
<1>6. Max(ends) \in ends
  <2>1. \A j \in ends : m >= j
    BY <1>4, <1>5
  <2> QED BY <1>4, <2>1 DEF Max
<1>7. Max(ends) \in 1 .. n /\ i < Max(ends)
  BY <1>3, <1>6
<1> QED BY <1>1, <1>7 DEF ends, n

\* The first rule that matches is one that matches.
LEMMA FirstRule ==
  ASSUME NEW text, NEW i, Matching(text, i) # {}
  PROVE  /\ Min(Matching(text, i)) \in DOMAIN Rules
         /\ RuleEnds(text, i, Rules[Min(Matching(text, i))]) # {}
<1> DEFINE matching == Matching(text, i)
<1>1. matching \in SUBSET DOMAIN Rules /\ DOMAIN Rules = 1 .. 9
  BY DEF Matching, Rules
<1> HIDE DEF matching
<1>2. matching \in SUBSET Nat /\ matching # {}
  BY <1>1 DEF matching
<1>3. PICK m \in matching : \A k \in matching : m <= k
  BY <1>2, Arithmetic!LeastExists
<1>4. Min(matching) \in matching
  BY <1>3 DEF Min
<1> QED BY <1>4 DEF matching, Matching

\* What is written for the symbol at i, and where the search goes on.
Emits(text, i) ==
  IF Matching(text, i) = {} THEN <<text[i]>> ELSE Rules[Min(Matching(text, i))].tags
GoesOn(text, i) ==
  IF Matching(text, i) = {} THEN i + 1
  ELSE Max(RuleEnds(text, i, Rules[Min(Matching(text, i))]))

\* f[i] is what the text from i on becomes.
Walks(f, text) ==
  f = [i \in 1 .. Len(text) + 1 |->
         IF i > Len(text) THEN << >> ELSE Emits(text, i) \o f[GoesOn(text, i)]]

LEMMA EmitsType ==
  ASSUME NEW S \in SUBSET Symbols, Given \subseteq S, NEW text \in Seq(S), NEW i \in 1 .. Len(text)
  PROVE  /\ Emits(text, i) \in Seq(S)
         /\ GoesOn(text, i) \in Nat /\ i < GoesOn(text, i) /\ GoesOn(text, i) <= Len(text) + 1
<1>1. Len(text) \in Nat /\ text[i] \in S /\ text \in Seq(Symbols)
  BY LenProperties, ElementOfSeq, SeqMonotonic
<1>2. CASE Matching(text, i) = {}
  <2>1. Emits(text, i) = <<text[i]>> /\ GoesOn(text, i) = i + 1
    BY <1>2 DEF Emits, GoesOn
  <2> QED BY <1>1, <2>1
<1>3. CASE Matching(text, i) # {}
  <2> DEFINE k == Min(Matching(text, i))
  <2>1. Emits(text, i) = Rules[k].tags /\ GoesOn(text, i) = Max(RuleEnds(text, i, Rules[k]))
    BY <1>3 DEF Emits, GoesOn
  <2>2. k \in DOMAIN Rules /\ RuleEnds(text, i, Rules[k]) # {}
    BY <1>3, FirstRule
  <2> HIDE DEF k
  <2>3. Rules[k].tags \in Seq(S)
    <3>1. Rules[k].tags \in Seq(Given)
      BY <2>2, RulePatterns
    <3> QED BY <3>1, SeqMonotonic
  <2>4. /\ Max(RuleEnds(text, i, Rules[k])) \in Nat
        /\ i < Max(RuleEnds(text, i, Rules[k]))
        /\ Max(RuleEnds(text, i, Rules[k])) <= Len(text) + 1
    BY <1>1, <2>2, LongestMatch
  <2> QED BY <2>1, <2>3, <2>4
<1> QED BY <1>2, <1>3

\* The search, as a walk of ArithmeticProofs.
LEMMA WalksAsWrites ==
  ASSUME NEW S \in SUBSET Symbols, Given \subseteq S, NEW text \in Seq(S)
  PROVE  \E head \in [1 .. Len(text) -> Seq(S)], next \in [1 .. Len(text) -> Nat] :
           /\ \A i \in 1 .. Len(text) :
                /\ i < next[i] /\ next[i] <= Len(text) + 1
                /\ head[i] = Emits(text, i) /\ next[i] = GoesOn(text, i)
           /\ \A f : Walks(f, text) <=> Arithmetic!Writes(f, 1, Len(text), head, next)
<1> DEFINE n == Len(text)
           head == [i \in 1 .. n |-> Emits(text, i)]
           next == [i \in 1 .. n |-> GoesOn(text, i)]
<1>1. n \in Nat
  BY LenProperties
<1>2. \A i \in 1 .. n : /\ head[i] \in Seq(S) /\ next[i] \in Nat
                        /\ i < next[i] /\ next[i] <= n + 1
                        /\ head[i] = Emits(text, i) /\ next[i] = GoesOn(text, i)
  BY EmitsType
<1>3. head \in [1 .. n -> Seq(S)] /\ next \in [1 .. n -> Nat]
  BY <1>2
<1>4. ASSUME NEW f
      PROVE  Walks(f, text) <=> Arithmetic!Writes(f, 1, n, head, next)
  <2> HIDE DEF head, next
  <2>1. \A i \in 1 .. n + 1 : ~(i > n) => i \in 1 .. n
    BY <1>1
  <2>2. [i \in 1 .. n + 1 |-> IF i > n THEN << >> ELSE Emits(text, i) \o f[GoesOn(text, i)]]
          = [i \in 1 .. n + 1 |-> IF i > n THEN << >> ELSE head[i] \o f[next[i]]]
    BY <1>2, <2>1
  <2> QED BY <2>2 DEF Walks, Arithmetic!Writes
<1> HIDE DEF head, next
<1> QED BY <1>2, <1>3, <1>4

\* There is one walk, and it is what the search computes.
LEMMA MaskedWalks ==
  ASSUME NEW S \in SUBSET Symbols, Given \subseteq S, NEW text \in Seq(S)
  PROVE  /\ Masked(text) \in Seq(S)
         /\ \E f : /\ Walks(f, text) /\ Masked(text) = f[1]
                  /\ \A i \in 1 .. Len(text) + 1 : f[i] \in Seq(S)
         /\ \A f : Walks(f, text) => Masked(text) = f[1]
<1> DEFINE n == Len(text)
           walk == CHOOSE f : Walks(f, text)
<1>1. n \in Nat
  BY LenProperties
<1>2. PICK head \in [1 .. n -> Seq(S)], next \in [1 .. n -> Nat] :
        /\ \A i \in 1 .. n : i < next[i] /\ next[i] <= n + 1
        /\ \A f : Walks(f, text) <=> Arithmetic!Writes(f, 1, n, head, next)
  BY WalksAsWrites
<1>3. Masked(text) = walk[1]
  <2> DEFINE Body(f) ==
               f = [i \in 1 .. n + 1 |->
                      IF i > n THEN << >>
                      ELSE LET matching == Matching(text, i)
                           IN  IF matching = {} THEN <<text[i]>> \o f[i + 1]
                               ELSE LET r == Rules[Min(matching)]
                                    IN  r.tags \o f[Max(RuleEnds(text, i, r))]]
  <2>1. Masked(text) = (CHOOSE f : Body(f))[1]
    BY DEF Masked
  <2>2. ASSUME NEW f
        PROVE  Walks(f, text) <=> Body(f)
    <3>1. \A i : Emits(text, i) \o f[GoesOn(text, i)]
                   = IF Matching(text, i) = {} THEN <<text[i]>> \o f[i + 1]
                     ELSE Rules[Min(Matching(text, i))].tags
                            \o f[Max(RuleEnds(text, i, Rules[Min(Matching(text, i))]))]
      BY DEF Emits, GoesOn
    <3> QED BY <3>1 DEF Walks
  <2> HIDE DEF Body
  <2>3. walk = CHOOSE f : Body(f)
    BY <2>2
  <2> QED BY <2>1, <2>3
<1> HIDE DEF n
<1>4. (\E f : Arithmetic!Writes(f, 1, n, head, next))
      /\ \A f : Arithmetic!Writes(f, 1, n, head, next) => \A i \in 1 .. n + 1 : f[i] \in Seq(S)
  BY <1>1, <1>2, Arithmetic!WalkType
<1>5. Walks(walk, text)
  BY <1>2, <1>4
<1> HIDE DEF walk
<1>6. ASSUME NEW f, Walks(f, text)
      PROVE  f = walk
  BY <1>1, <1>2, <1>5, <1>6, Arithmetic!WalkUnique
<1>7. \A i \in 1 .. n + 1 : walk[i] \in Seq(S)
  BY <1>2, <1>4, <1>5
<1>8. walk[1] \in Seq(S)
  BY <1>1, <1>7
<1> QED BY <1>3, <1>5, <1>6, <1>7, <1>8 DEF n

LEMMA MaskedType ==
  ASSUME NEW text \in Seq(Symbols)
  PROVE  Masked(text) \in Seq(Symbols)
<1>1. Symbols \in SUBSET Symbols /\ Given \subseteq Symbols
  BY DEF Given, Symbols
<1> HIDE DEF Symbols
<1> QED BY <1>1, MaskedWalks

\* normalize() returns a text, for every line: each match moves the search on.
THEOREM NormalizeType ==
  ASSUME NEW raw \in Seq(Symbols)
  PROVE  Normalize(raw) \in Seq(Symbols)
<1>1. Plain \in SUBSET Symbols /\ Given \subseteq Plain
  BY DEF Plain, Given, Symbols, Tags
<1> HIDE DEF Plain
<1>2. Masked(StripAnsi(raw)) \in Seq(Plain)
  BY <1>1, StripAnsiType, MaskedWalks
<1> QED BY <1>1, <1>2, SeqMonotonic DEF Normalize

\* A line without a color is masked as it is.
LEMMA StripAnsiPlain ==
  ASSUME NEW text \in Seq(Plain)
  PROVE  StripAnsi(text) = text
<1> HIDE DEF Symbols
<1>1. \A i \in DOMAIN text : text[i] # "esc"
  <2>1. \A x \in Plain : x # "esc"
    BY DEF Plain
  <2> HIDE DEF Plain
  <2> QED BY <2>1, LenProperties, ElementOfSeq
<1> QED BY <1>1 DEF StripAnsi

\* Locality: what no rule can take separates what is on both sides of it.  A
\* space does so, too, unless a date stands before it, whose time it may lead to.

\* Items that take no space.  Of the patterns that have another, each begins with
\* a date, and it is behind the date that it takes one.
Solid == [class : SUBSET (Maskable \ {"space"}), min : Nat, max : Nat]
Dated(pattern) ==
  /\ pattern \in Seq(Item) /\ Len(pattern) >= 5
  /\ \A k \in 1 .. 5 : pattern[k] = Date[k]
  /\ \A k \in 1 .. Len(pattern) : "space" \in pattern[k].class => k = 6 /\ pattern[k].max <= 1

EndsInDay(text) == \E i \in 1 .. Len(text) + 1 : Len(text) + 1 \in Ends(text, i, Date)
Separates(text, s) == s \in Barriers \/ (s = "space" /\ ~EndsInDay(text))

LEMMA SolidItems ==
  /\ Edge \in Solid /\ Dash \in Solid /\ Colon \in Solid /\ Dot \in Solid
  /\ Octet \in Solid
  /\ \A n, m \in Nat : Digits(n, m) \in Solid /\ Hexes(n, m) \in Solid
  /\ One({"Z"}) \in Solid /\ One({"+", "-"}) \in Solid
  /\ One({"zero"}) \in Solid /\ One({"x"}) \in Solid /\ One({"/"}) \in Solid
  /\ Runs({":"}, 0, 1) \in Solid /\ Runs({"/"}, 0, 1) \in Solid
  /\ Runs(PathChar, 1, AnyLength) \in Solid
<1> DEFINE S == Maskable \ {"space"}
<1>1. /\ {} \in SUBSET S /\ {"-"} \in SUBSET S /\ {":"} \in SUBSET S
      /\ {"."} \in SUBSET S /\ {"Z"} \in SUBSET S
      /\ {"+", "-"} \in SUBSET S /\ {"zero"} \in SUBSET S /\ {"x"} \in SUBSET S
      /\ {"/"} \in SUBSET S
  BY DEF Maskable, PathChar, Word, HexDigit, Digit
<1>2. Digit \in SUBSET S /\ HexDigit \in SUBSET S /\ PathChar \in SUBSET S
  BY DEF Maskable, PathChar, Word, HexDigit, Digit
<1>3. ASSUME NEW class \in SUBSET S, NEW n \in Nat, NEW m \in Nat
      PROVE  Runs(class, n, m) \in Solid
  BY DEF Runs, Solid
<1>4. AnyLength \in Nat
  BY DEF AnyLength
<1> HIDE DEF Solid, S
<1> QED BY <1>1, <1>2, <1>3, <1>4
      DEF Edge, Dash, Colon, Dot, Octet, Digits, Hexes, One

LEMMA SolidIsItem ==
  /\ Solid \subseteq Item
  /\ \A item \in Solid : "space" \notin item.class
BY DEF Solid, Item

LEMMA DatedConcat ==
  ASSUME NEW a, Dated(a), NEW b \in Seq(Solid)
  PROVE  Dated(a \o b)
<1>1. b \in Seq(Item)
  BY SolidIsItem, SeqMonotonic
<1>2. /\ a \in Seq(Item) /\ Len(a) >= 5 /\ Len(a) \in Nat /\ Len(b) \in Nat
      /\ \A k \in 1 .. Len(b) : "space" \notin b[k].class
  BY SolidIsItem, LenProperties, ElementOfSeq DEF Dated
<1>3. a \o b \in Seq(Item)
  BY <1>1, <1>2, ConcatProperties
<1>4. /\ Len(a \o b) = Len(a) + Len(b)
      /\ \A i \in 1 .. Len(a) + Len(b) : (a \o b)[i] = IF i <= Len(a) THEN a[i] ELSE b[i - Len(a)]
  BY <1>1, <1>2, ConcatProperties
<1> HIDE DEF Item, Solid
<1>5. \A k \in 1 .. 5 : (a \o b)[k] = Date[k]
  <2>1. \A k \in 1 .. 5 : k \in 1 .. Len(a) + Len(b) /\ k <= Len(a)
    BY <1>2
  <2>2. \A k \in 1 .. 5 : a[k] = Date[k]
    BY DEF Dated
  <2> QED BY <1>4, <2>1, <2>2
<1>6. ASSUME NEW k \in 1 .. Len(a \o b), "space" \in (a \o b)[k].class
      PROVE  k = 6 /\ (a \o b)[k].max <= 1
  <2>1. k \in 1 .. Len(a) + Len(b)
    BY <1>4
  <2>2. CASE k <= Len(a)
    <3>1. k \in 1 .. Len(a) /\ (a \o b)[k] = a[k]
      BY <1>2, <1>4, <2>1, <2>2
    <3> QED BY <1>6, <3>1 DEF Dated
  <2>3. CASE ~(k <= Len(a))
    <3>1. k - Len(a) \in 1 .. Len(b) /\ (a \o b)[k] = b[k - Len(a)]
      BY <1>2, <1>4, <2>1, <2>3
    <3> QED BY <1>2, <1>6, <3>1
  <2> QED BY <2>2, <2>3
<1>7. Len(a \o b) >= 5
  BY <1>2, <1>4
<1> QED BY <1>3, <1>5, <1>6, <1>7 DEF Dated

\* Every pattern of the rules is one of the two, those of timestamps the latter.
LEMMA RulePatternsStop ==
  ASSUME NEW k \in DOMAIN Rules, NEW pattern \in Rules[k].patterns
  PROVE  /\ pattern \in Seq(Solid) \/ Dated(pattern)
         /\ pattern \in Ts => Dated(pattern)
<1> DEFINE d1 == Digits(1, AnyLength)
           d2 == Digits(2, 2)
           d4 == Digits(4, 4)
           d5 == Digits(1, 5)
           d25 == Digits(2, 5)
           h1 == Hexes(1, AnyLength)
           h4 == Hexes(4, 4)
           h8 == Hexes(8, 8)
           h12 == Hexes(12, 12)
           h16 == Hexes(16, AnyLength)
           zero == One({"zero"})
           x == One({"x"})
           z == One({"Z"})
           sign == One({"+", "-"})
           colons == Runs({":"}, 0, 1)
           slash == One({"/"})
           name == Runs(PathChar, 1, AnyLength)
           slashes == Runs({"/"}, 0, 1)
           gap == One({"T", "space"})
           day == <<d4, Dash, d2, Dash, d2>>
           clock == <<gap, d2, Colon, d2, Colon, d2>>
<1>1. \A item \in {d1, d2, d4, d5, d25, h1, h4, h8, h12, h16, zero, x, z, sign, colons, slash, name,
                   slashes, Dash, Dot, Colon, Octet, Edge} : item \in Solid
  BY SolidItems DEF AnyLength
<1>2. gap \in Item /\ gap.max <= 1
  BY ItemTypes DEF One, Runs
<1>3. Date = day /\ Clock = clock /\ Segment = <<slash, name>>
  BY DEF Date, Clock, Segment, d4, d2
<1> HIDE DEF d1, d2, d4, d5, d25, h1, h4, h8, h12, h16, zero, x, z, sign, colons, slash, name,
             slashes, gap, Solid, Item
<1>4. /\ day \in Seq(Solid) /\ <<Edge>> \in Seq(Solid) /\ <<z>> \in Seq(Solid)
      /\ <<slash, name>> \in Seq(Solid) /\ <<slashes>> \in Seq(Solid)
      /\ <<Edge, d1>> \in Seq(Solid) /\ << >> \in Seq(Solid)
  BY <1>1
<1>5. Fraction \in Seq(Solid) /\ Offset \in Seq(Solid) /\ Quad \in Seq(Solid)
  BY <1>1 DEF Fraction, Offset, Quad, d1, d2, sign, colons
<1>6. Dated(Date \o Clock)
  <2>1. /\ day \in Seq(Item) /\ Len(day) = 5
        /\ clock \in Seq(Item) /\ Len(clock) = 6
    <3>1. \A item \in {d4, d2, Dash, Colon} : item \in Item
      BY <1>1, SolidIsItem
    <3> QED BY <1>2, <3>1
  <2>2. \A item \in {d4, d2, Dash, Colon} : "space" \notin item.class
    BY <1>1, SolidIsItem
  <2>3. \A i \in 1 .. 5 : "space" \notin day[i].class
    BY <2>2
  <2>4. \A i \in 1 .. 6 : "space" \in clock[i].class => i = 1 /\ clock[i].max <= 1
    BY <1>2, <2>2
  <2> HIDE DEF day, clock
  <2>5. day \o clock \in Seq(Item)
    BY <2>1, ConcatProperties
  <2>6. /\ Len(day \o clock) = Len(day) + Len(clock)
        /\ \A i \in 1 .. Len(day) + Len(clock) :
             (day \o clock)[i] = IF i <= Len(day) THEN day[i] ELSE clock[i - Len(day)]
    BY <2>1, ConcatProperties
  <2>7. /\ Len(day \o clock) = 11
        /\ \A i \in 1 .. 5 : (day \o clock)[i] = day[i]
        /\ \A i \in 6 .. 11 : (day \o clock)[i] = clock[i - 5] /\ i - 5 \in 1 .. 6
    BY <2>1, <2>6
  <2>8. ASSUME NEW i \in 1 .. 11, "space" \in (day \o clock)[i].class
        PROVE  i = 6 /\ (day \o clock)[i].max <= 1
    <3>1. i \notin 1 .. 5
      BY <2>3, <2>7, <2>8
    <3>2. i \in 6 .. 11
      BY <3>1
    <3>3. i - 5 = 1 /\ clock[i - 5].max <= 1
      BY <2>4, <2>7, <2>8, <3>2
    <3> QED BY <2>7, <3>2, <3>3
  <2> DEFINE stamp == day \o clock
  <2>9. /\ stamp \in Seq(Item)
        /\ Len(stamp) = 11
        /\ \A i \in 1 .. 5 : stamp[i] = Date[i]
    <3>1. \A i \in 1 .. 5 : day[i] = Date[i]
      BY <1>3
    <3> QED BY <2>5, <2>7, <3>1
  <2>10. \A i \in 1 .. Len(stamp) : "space" \in stamp[i].class => i = 6 /\ stamp[i].max <= 1
    BY <2>7, <2>8
  <2>11. Date \o Clock = stamp
    BY <1>3
  <2> HIDE DEF stamp
  <2>12. Dated(stamp)
    BY <2>9, <2>10 DEF Dated
  <2> HIDE DEF Dated
  <2> QED BY <2>11, <2>12
<1> HIDE DEF clock
<1>7. \A stamp \in Ts : Dated(stamp)
  <2> DEFINE fractions == {<< >>, Fraction}
             zones == {<< >>, <<One({"Z"})>>, Offset}
             stamp(fraction, zone) == Date \o Clock \o fraction \o zone
  <2>1. ASSUME NEW fraction \in fractions, NEW zone \in zones
        PROVE  Dated(stamp(fraction, zone))
    <3>1. fraction \in Seq(Solid) /\ zone \in Seq(Solid)
      BY <1>4, <1>5 DEF z
    <3>2. Dated((Date \o Clock) \o fraction)
      BY <1>6, <3>1, DatedConcat
    <3> QED BY <3>1, <3>2, DatedConcat
  <2>2. Ts = {Date} \cup {stamp(fraction, zone) : fraction \in fractions, zone \in zones}
    BY DEF Ts
  <2>3. Dated(Date)
    <3>1. day \in Seq(Item) /\ Len(day) = 5
      BY <1>4, SolidIsItem, SeqMonotonic
    <3>2. \A i \in 1 .. 5 : "space" \notin day[i].class
      BY <1>1, SolidIsItem
    <3> QED BY <1>3, <3>1, <3>2 DEF Dated
  <2> HIDE DEF fractions, zones, stamp, Dated
  <2> QED BY <2>1, <2>2, <2>3
<1> HIDE DEF day
<1>8. \A p \in Uuid \cup Port \cup Hex0x \cup HexLong : p \in Seq(Solid)
  <2>1. /\ Uuid = {<<Edge, h8, Dash, h4, Dash, h4, Dash, h4, Dash, h12, Edge>>}
        /\ Port = {<<Colon, d25, Edge>>}
        /\ Hex0x = {<<Edge, zero, x, h1, Edge>>}
        /\ HexLong = {<<Edge, h16, Edge>>}
    BY DEF Uuid, Port, Hex0x, HexLong, h8, h4, h12, d25, zero, x, h1, h16
  <2>2. /\ <<Edge, h8, Dash, h4, Dash, h4, Dash, h4, Dash, h12, Edge>> \in Seq(Solid)
        /\ <<Colon, d25, Edge>> \in Seq(Solid)
        /\ <<Edge, zero, x, h1, Edge>> \in Seq(Solid)
        /\ <<Edge, h16, Edge>> \in Seq(Solid)
    BY <1>1
  <2> QED BY <2>1, <2>2
<1>9. <<Edge>> \o Quad \in Seq(Solid)
  BY <1>4, <1>5, ConcatProperties
<1>10. \A p \in Ipv4Port \cup Ipv4 : p \in Seq(Solid)
  <2>1. <<Colon, d5, Edge>> \in Seq(Solid)
    BY <1>1
  <2>2. /\ (<<Edge>> \o Quad) \o <<Colon, d5, Edge>> \in Seq(Solid)
        /\ (<<Edge>> \o Quad) \o <<Edge>> \in Seq(Solid)
    BY <1>4, <1>9, <2>1, ConcatProperties
  <2>3. /\ Ipv4Port = {(<<Edge>> \o Quad) \o <<Colon, d5, Edge>>}
        /\ Ipv4 = {(<<Edge>> \o Quad) \o <<Edge>>}
    BY DEF Ipv4Port, Ipv4, d5
  <2> QED BY <2>2, <2>3
<1>11. \A p \in Path : p \in Seq(Solid)
  <2>1. ASSUME NEW n \in 1 .. MaxSegments
        PROVE  FlattenSeq([i \in 1 .. n |-> Segment]) \o <<Runs({"/"}, 0, 1)>> \in Seq(Solid)
    <3> DEFINE seqs == [i \in 1 .. n |-> Segment]
    <3>1. n \in Nat /\ Segment \in Seq(Solid)
      BY <1>3, <1>4, MaxSegmentsAssumption
    <3>2. seqs \in Seq(Seq(Solid))
      BY <3>1
    <3> HIDE DEF seqs
    <3>3. FlattenSeq(seqs) \in Seq(Solid)
      BY <3>2, FlattenShape
    <3> QED BY <1>4, <3>3, ConcatProperties DEF seqs, slashes
  <2> QED BY <2>1 DEF Path
<1>12. \A p \in Num : p \in Seq(Solid)
  <2>1. Num = {<<Edge, d1, Edge>>, (<<Edge, d1>> \o Fraction) \o <<Edge>>}
    BY DEF Num, d1
  <2>2. <<Edge, d1, Edge>> \in Seq(Solid)
    BY <1>1
  <2>3. <<Edge, d1>> \o Fraction \in Seq(Solid)
    BY <1>4, <1>5, ConcatProperties
  <2>4. (<<Edge, d1>> \o Fraction) \o <<Edge>> \in Seq(Solid)
    BY <1>4, <2>3, ConcatProperties
  <2> QED BY <2>1, <2>2, <2>4
<1>13. Rules[k].patterns \in {Ts, Uuid, Ipv4Port, Ipv4, Port, Hex0x, HexLong, Path, Num}
  <2>1. k \in 1 .. 9
    BY DEF Rules
  <2> QED BY <2>1 DEF Rules, Rule
<1> QED BY <1>7, <1>8, <1>10, <1>11, <1>12, <1>13

\* part is the stretch of text behind position d, kept apart on both sides.
Sits(part, text, d) ==
  /\ part \in Seq(Symbols) /\ text \in Seq(Symbols)
  /\ d \in Nat /\ d + Len(part) <= Len(text)
  /\ \A i \in 1 .. Len(part) : text[i + d] = part[i]
  /\ d = 0 \/ text[d] \in Barriers \cup {"space"}
  /\ d + Len(part) = Len(text) \/ Separates(part, text[d + Len(part) + 1])

Shifted(set, d) == {j + d : j \in set}

LEMMA WordSits ==
  ASSUME NEW part, NEW text, NEW d, Sits(part, text, d), NEW j \in 0 .. Len(part) + 1
  PROVE  IsWord(text, j + d) <=> IsWord(part, j)
<1>1. /\ Len(part) \in Nat /\ Len(text) \in Nat
      /\ DOMAIN part = 1 .. Len(part) /\ DOMAIN text = 1 .. Len(text)
  BY LenProperties DEF Sits
<1>0. d \in Nat /\ d + Len(part) <= Len(text) /\ \A i \in 1 .. Len(part) : text[i + d] = part[i]
  BY DEF Sits
<1>2. \A s \in Barriers \cup {"space"} : s \notin Word
  BY DEF Barriers, Maskable, PathChar, Word, HexDigit, Digit
<1> HIDE DEF Barriers, Word
<1>3. CASE j \in 1 .. Len(part)
  <2>1. j + d \in 1 .. Len(text) /\ text[j + d] = part[j]
    BY <1>0, <1>1, <1>3
  <2> QED BY <1>1, <1>3, <2>1 DEF IsWord
<1>4. CASE j = 0
  <2>1. ~IsWord(part, j)
    BY <1>1, <1>4 DEF IsWord
  <2>2. j + d = d /\ (d = 0 \/ text[d] \in Barriers \cup {"space"})
    BY <1>4 DEF Sits
  <2> QED BY <1>1, <1>2, <2>1, <2>2 DEF IsWord
<1>5. CASE j = Len(part) + 1
  <2>1. ~IsWord(part, j)
    BY <1>1, <1>5 DEF IsWord
  <2>2. d \in Nat /\ j + d = d + Len(part) + 1
    BY <1>0, <1>1, <1>5
  <2>3. d + Len(part) = Len(text) => j + d \notin 1 .. Len(text)
    BY <1>1, <2>2
  <2>4. d + Len(part) = Len(text) \/ text[j + d] \in Barriers \cup {"space"}
    BY <2>2 DEF Sits, Separates
  <2> QED BY <1>1, <1>2, <2>1, <2>3, <2>4 DEF IsWord
<1>6. j \in 1 .. Len(part) \/ j = 0 \/ j = Len(part) + 1
  BY <1>1
<1> QED BY <1>3, <1>4, <1>5, <1>6

LEMMA MatchItemSits ==
  ASSUME NEW part, NEW text, NEW d, Sits(part, text, d), NEW item \in Item,
         NEW ends \in SUBSET (1 .. Len(part) + 1),
         "space" \in item.class => item.max <= 1 /\ (Len(part) + 1 \in ends => EndsInDay(part))
  PROVE  MatchItem(text, Shifted(ends, d), item) = Shifted(MatchItem(part, ends, item), d)
<1>1. /\ Len(part) \in Nat /\ Len(text) \in Nat /\ d \in Nat
      /\ d + Len(part) <= Len(text)
      /\ \A i \in 1 .. Len(part) : text[i + d] = part[i]
      /\ d + Len(part) = Len(text) \/ Separates(part, text[d + Len(part) + 1])
  BY LenProperties DEF Sits
<1>2. item.class \in SUBSET Maskable /\ item.min \in Nat /\ item.max \in Nat
  BY DEF Item
<1>3. \A s \in Barriers : s \notin item.class
  BY <1>2 DEF Barriers
<1> HIDE DEF Barriers, Maskable
<1>4. CASE item = Edge
  <2>1. ASSUME NEW j \in ends
        PROVE  /\ IsWord(text, (j + d) - 1) <=> IsWord(part, j - 1)
               /\ IsWord(text, j + d) <=> IsWord(part, j)
    <3>1. j \in 1 .. Len(part) + 1 /\ j - 1 \in 0 .. Len(part) + 1 /\ (j - 1) + d = (j + d) - 1
      BY <1>1
    <3>2. IsWord(text, (j - 1) + d) <=> IsWord(part, j - 1)
      BY <3>1, WordSits
    <3>3. IsWord(text, j + d) <=> IsWord(part, j)
      <4>1. j \in 0 .. Len(part) + 1
        BY <1>1, <3>1
      <4> QED BY <4>1, WordSits
    <3> QED BY <3>1, <3>2, <3>3
  <2> DEFINE Turns(t, j) == IsWord(t, j - 1) # IsWord(t, j)
  <2>2. \A j \in ends : Turns(text, j + d) <=> Turns(part, j)
    BY <2>1 DEF IsWord
  <2>3. /\ MatchItem(text, Shifted(ends, d), item) = {j \in Shifted(ends, d) : Turns(text, j)}
        /\ MatchItem(part, ends, item) = {j \in ends : Turns(part, j)}
    BY <1>4 DEF MatchItem
  <2> HIDE DEF Turns
  <2>4. {j \in Shifted(ends, d) : Turns(text, j)} = Shifted({j \in ends : Turns(part, j)}, d)
    BY <2>2 DEF Shifted
  <2> QED BY <2>3, <2>4
<1>5. CASE item # Edge
  <2> DEFINE Spans(t, i, j) == /\ i + item.min <= j
                               /\ item.max = AnyLength \/ j <= i + item.max
                               /\ \A k \in i .. j - 1 : t[k] \in item.class
  <2>1. /\ MatchItem(text, Shifted(ends, d), item)
             = {j \in 1 .. Len(text) + 1 : \E i \in Shifted(ends, d) : Spans(text, i, j)}
        /\ MatchItem(part, ends, item) = {j \in 1 .. Len(part) + 1 : \E i \in ends : Spans(part, i, j)}
    BY <1>5 DEF MatchItem
  <2>2. ASSUME NEW i \in 1 .. Len(part) + 1, NEW j \in 1 .. Len(part) + 1
        PROVE  Spans(text, i + d, j + d) <=> Spans(part, i, j)
    <3>1. /\ (i + d) + item.min <= j + d <=> i + item.min <= j
          /\ j + d <= (i + d) + item.max <=> j <= i + item.max
      BY <1>1, <1>2
    <3>2. ASSUME \A k \in i + d .. (j + d) - 1 : text[k] \in item.class, NEW k \in i .. j - 1
          PROVE  part[k] \in item.class
      <4>1. k + d \in i + d .. (j + d) - 1 /\ k \in 1 .. Len(part)
        BY <1>1
      <4> QED BY <1>1, <3>2, <4>1
    <3>3. ASSUME \A k \in i .. j - 1 : part[k] \in item.class, NEW k \in i + d .. (j + d) - 1
          PROVE  text[k] \in item.class
      <4>1. k - d \in i .. j - 1 /\ k - d \in 1 .. Len(part) /\ (k - d) + d = k
        BY <1>1
      <4> QED BY <1>1, <3>3, <4>1
    <3> QED BY <3>1, <3>2, <3>3
  <2>3. ASSUME NEW i \in ends, NEW j \in 1 .. Len(text) + 1, Spans(text, i + d, j)
        PROVE  j - d \in 1 .. Len(part) + 1 /\ (j - d) + d = j
    <3>1. i + d <= j
      BY <1>1, <1>2, <2>3
    <3>2. ~(j > d + Len(part) + 1)
      <4> SUFFICES ASSUME j > d + Len(part) + 1 PROVE FALSE
        OBVIOUS
      <4> DEFINE k == d + Len(part) + 1
      <4>1. k \in i + d .. j - 1
        BY <1>1
      <4>2. text[k] \in item.class
        BY <2>3, <4>1
      <4>3. d + Len(part) # Len(text)
        BY <1>1
      <4>4. text[k] = "space" /\ ~EndsInDay(part)
        BY <1>1, <1>3, <4>2, <4>3 DEF Separates
      <4>5. item.max <= 1 /\ i # Len(part) + 1
        BY <4>2, <4>4
      <4>6. j <= (i + d) + item.max
        BY <2>3, <4>5 DEF AnyLength
      <4> QED BY <1>1, <1>2, <4>5, <4>6
    <3> QED BY <1>1, <3>1, <3>2
  <2>4. \A j \in 1 .. Len(part) + 1 : j + d \in 1 .. Len(text) + 1
    BY <1>1
  <2> HIDE DEF Spans
  <2>5. {j \in 1 .. Len(text) + 1 : \E i \in Shifted(ends, d) : Spans(text, i, j)}
          \subseteq Shifted({j \in 1 .. Len(part) + 1 : \E i \in ends : Spans(part, i, j)}, d)
    <3> SUFFICES ASSUME NEW j \in 1 .. Len(text) + 1, NEW i0 \in Shifted(ends, d), Spans(text, i0, j)
                 PROVE  j \in Shifted({m \in 1 .. Len(part) + 1 : \E i \in ends : Spans(part, i, m)}, d)
      OBVIOUS
    <3>1. PICK i \in ends : i0 = i + d
      BY DEF Shifted
    <3>2. j - d \in 1 .. Len(part) + 1 /\ (j - d) + d = j
      BY <2>3, <3>1
    <3>3. Spans(part, i, j - d)
      BY <2>2, <3>1, <3>2
    <3> QED BY <3>2, <3>3 DEF Shifted
  <2>6. Shifted({j \in 1 .. Len(part) + 1 : \E i \in ends : Spans(part, i, j)}, d)
          \subseteq {j \in 1 .. Len(text) + 1 : \E i \in Shifted(ends, d) : Spans(text, i, j)}
    <3> SUFFICES ASSUME NEW j \in 1 .. Len(part) + 1, NEW i \in ends, Spans(part, i, j)
                 PROVE  j + d \in {m \in 1 .. Len(text) + 1 : \E i1 \in Shifted(ends, d) : Spans(text, i1, m)}
      BY DEF Shifted
    <3>1. i + d \in Shifted(ends, d)
      BY DEF Shifted
    <3> QED BY <2>2, <2>4, <3>1
  <2> QED BY <2>1, <2>5, <2>6
<1> QED BY <1>4, <1>5

LEMMA EndsAfter ==
  ASSUME NEW text, NEW i, NEW pattern \in Seq(Item)
  PROVE  \E after : /\ After(after, text, i, pattern, Len(pattern))
                    /\ Ends(text, i, pattern) = after[Len(pattern)]
<1> DEFINE n == Len(pattern)
           after == CHOOSE f : After(f, text, i, pattern, n)
<1>1. n \in Nat
  BY LenProperties
<1>2. Ends(text, i, pattern) = after[n]
  BY DEF Ends, After
<1>3. After(after, text, i, pattern, n)
  BY <1>1, AfterExists
<1> QED BY <1>2, <1>3

\* Behind its date a pattern that begins with one stands where the date ends.
LEMMA DateEnds ==
  ASSUME NEW text, NEW i, NEW pattern, Dated(pattern), NEW after,
         After(after, text, i, pattern, Len(pattern))
  PROVE  after[5] = Ends(text, i, Date)
<1>1. /\ Len(pattern) \in Nat /\ Len(pattern) >= 5
      /\ \A k \in 1 .. 5 : pattern[k] = Date[k]
  BY LenProperties DEF Dated
<1>2. Date \in Seq(Item) /\ Len(Date) = 5
  <2> DEFINE d2 == Digits(2, 2)
             d4 == Digits(4, 4)
  <2>1. d2 \in Item /\ d4 \in Item /\ Dash \in Item
    BY ItemTypes
  <2>2. Date = <<d4, Dash, d2, Dash, d2>>
    BY DEF Date
  <2> HIDE DEF d2, d4, Item
  <2> QED BY <2>1, <2>2
<1>3. PICK day : After(day, text, i, Date, 5) /\ Ends(text, i, Date) = day[5]
  BY <1>2, EndsAfter
<1> DEFINE T == {k \in Nat : k <= 5 => after[k] = day[k]}
<1>4. 0 \in T
  <2>1. after[0] = {i} /\ day[0] = {i}
    BY <1>1, <1>3 DEF After
  <2> QED BY <2>1
<1>5. ASSUME NEW k \in T
      PROVE  k + 1 \in T
  <2> SUFFICES ASSUME k + 1 <= 5 PROVE after[k + 1] = day[k + 1]
    OBVIOUS
  <2>1. after[k] = day[k]
    OBVIOUS
  <2>2. /\ k + 1 \in 0 .. Len(pattern) /\ k + 1 \in 0 .. 5 /\ k + 1 \in 1 .. 5
        /\ k + 1 # 0 /\ (k + 1) - 1 = k
    BY <1>1
  <2>3. /\ after[k + 1] = MatchItem(text, after[k], pattern[k + 1])
        /\ day[k + 1] = MatchItem(text, day[k], Date[k + 1])
    BY <1>3, <2>2 DEF After
  <2> QED BY <1>1, <2>1, <2>2, <2>3
<1>6. T \in SUBSET Nat
  OBVIOUS
<1> HIDE DEF T
<1>7. T = Nat
  BY <1>4, <1>5, <1>6, Arithmetic!SetInduction
<1>8. after[5] = day[5]
  BY <1>7 DEF T
<1> QED BY <1>3, <1>8

\* A pattern matches in the stretch what it matches in the text.
LEMMA EndsSits ==
  ASSUME NEW part, NEW text, NEW d, Sits(part, text, d), NEW i \in 1 .. Len(part) + 1,
         NEW pattern \in Seq(Item), pattern \in Seq(Solid) \/ Dated(pattern)
  PROVE  Ends(text, i + d, pattern) = Shifted(Ends(part, i, pattern), d)
<1> DEFINE n == Len(pattern)
           U == 1 .. Len(part) + 1
<1>1. /\ n \in Nat /\ Len(part) \in Nat /\ d \in Nat /\ part \in Seq(Symbols)
      /\ \A k \in 1 .. n : pattern[k] \in Item
  BY LenProperties, ElementOfSeq DEF Sits
<1>2. PICK there : After(there, text, i + d, pattern, n) /\ Ends(text, i + d, pattern) = there[n]
  BY EndsAfter
<1>3. PICK here : After(here, part, i, pattern, n) /\ Ends(part, i, pattern) = here[n]
  BY EndsAfter
<1>4. ASSUME NEW k \in 1 .. n, "space" \in pattern[k].class
      PROVE  pattern[k].max <= 1 /\ (Len(part) + 1 \in here[k - 1] => EndsInDay(part))
  <2>1. CASE pattern \in Seq(Solid)
    <3>1. pattern[k] \in Solid
      BY <2>1, ElementOfSeq
    <3> QED BY <1>4, <3>1, SolidIsItem
  <2>2. CASE Dated(pattern)
    <3>1. k = 6 /\ pattern[k].max <= 1
      BY <1>4, <2>2 DEF Dated
    <3>2. here[k - 1] = Ends(part, i, Date)
      <4>1. here[5] = Ends(part, i, Date)
        BY <1>3, <2>2, DateEnds
      <4> QED BY <3>1, <4>1
    <3> QED BY <3>1, <3>2 DEF EndsInDay
  <2> QED BY <2>1, <2>2
<1> HIDE DEF n
<1> DEFINE T == {k \in Nat : k <= n => here[k] \in SUBSET U /\ there[k] = Shifted(here[k], d)}
<1>5. 0 \in T
  <2>1. here[0] = {i} /\ there[0] = {i + d}
    BY <1>1, <1>2, <1>3 DEF After
  <2> QED BY <2>1 DEF Shifted
<1>6. ASSUME NEW k \in T
      PROVE  k + 1 \in T
  <2> SUFFICES ASSUME k + 1 <= n
               PROVE  here[k + 1] \in SUBSET U /\ there[k + 1] = Shifted(here[k + 1], d)
    OBVIOUS
  <2> DEFINE ends == here[k]
             item == pattern[k + 1]
  <2>1. ends \in SUBSET U /\ there[k] = Shifted(ends, d)
    BY <1>1
  <2>2. item \in Item /\ k + 1 \in 1 .. n /\ k + 1 \in 0 .. n /\ k + 1 # 0 /\ (k + 1) - 1 = k
    BY <1>1
  <2>3. "space" \in item.class => item.max <= 1 /\ (Len(part) + 1 \in ends => EndsInDay(part))
    BY <1>4, <2>2
  <2>4. /\ here[k + 1] = MatchItem(part, ends, item)
        /\ there[k + 1] = MatchItem(text, there[k], item)
    BY <1>2, <1>3, <2>2 DEF After
  <2> HIDE DEF ends, item
  <2>5. MatchItem(text, Shifted(ends, d), item) = Shifted(MatchItem(part, ends, item), d)
    BY <2>1, <2>2, <2>3, MatchItemSits
  <2>6. MatchItem(part, ends, item) \in SUBSET U
    <3>1. 0 \in Nat /\ \A j \in ends : 0 <= j
      BY <1>1, <2>1
    <3> QED BY <1>1, <2>1, <2>2, <3>1, MatchItemBounds
  <2> QED BY <2>1, <2>4, <2>5, <2>6
<1>7. T \in SUBSET Nat
  OBVIOUS
<1> HIDE DEF T
<1>8. T = Nat
  BY <1>5, <1>6, <1>7, Arithmetic!SetInduction
<1>9. n \in T
  BY <1>1, <1>8
<1>10. there[n] = Shifted(here[n], d)
  BY <1>1, <1>9 DEF T
<1> QED BY <1>2, <1>3, <1>10 DEF n

LEMMA RuleEndsSits ==
  ASSUME NEW part, NEW text, NEW d, Sits(part, text, d), NEW i \in 1 .. Len(part) + 1,
         NEW k \in DOMAIN Rules
  PROVE  RuleEnds(text, i + d, Rules[k]) = Shifted(RuleEnds(part, i, Rules[k]), d)
<1> DEFINE patterns == Rules[k].patterns
<1>1. \A pattern \in patterns :
        Ends(text, i + d, pattern) = Shifted(Ends(part, i, pattern), d)
  BY RulePatterns, RulePatternsStop, EndsSits DEF Whole
<1> HIDE DEF patterns
<1>2. UNION {Ends(text, i + d, pattern) : pattern \in patterns}
        = {j + d : j \in UNION {Ends(part, i, pattern) : pattern \in patterns}}
  <2>1. \A pattern \in patterns : \A x :
          x \in Ends(text, i + d, pattern) <=> \E j \in Ends(part, i, pattern) : x = j + d
    BY <1>1 DEF Shifted
  <2> QED BY <2>1
<1> QED BY <1>2 DEF RuleEnds, Shifted, patterns

LEMMA MatchingSits ==
  ASSUME NEW part, NEW text, NEW d, Sits(part, text, d), NEW i \in 1 .. Len(part) + 1
  PROVE  Matching(text, i + d) = Matching(part, i)
<1>1. \A set : Shifted(set, d) # {} <=> set # {}
  BY DEF Shifted
<1>2. \A k \in DOMAIN Rules : RuleEnds(text, i + d, Rules[k]) # {} <=> RuleEnds(part, i, Rules[k]) # {}
  <2> SUFFICES ASSUME NEW k \in DOMAIN Rules
               PROVE  RuleEnds(text, i + d, Rules[k]) # {} <=> RuleEnds(part, i, Rules[k]) # {}
    OBVIOUS
  <2>1. RuleEnds(text, i + d, Rules[k]) = Shifted(RuleEnds(part, i, Rules[k]), d)
    BY RuleEndsSits
  <2> HIDE DEF Rules
  <2> QED BY <1>1, <2>1
<1> QED BY <1>2 DEF Matching

LEMMA ShiftedMax ==
  ASSUME NEW n \in Nat, NEW set \in SUBSET (1 .. n), set # {}, NEW d \in Nat
  PROVE  Max(Shifted(set, d)) = Max(set) + d
<1>1. PICK m \in set : \A j \in set : j <= m
  BY Arithmetic!GreatestExists
<1>2. \A j \in set : j \in Nat
  OBVIOUS
<1>3. Max(set) = m
  <2>1. \A x \in set : (\A y \in set : x >= y) <=> x = m
    BY <1>1, <1>2
  <2> QED BY <2>1 DEF Max
<1>4. m + d \in Shifted(set, d) /\ \A x \in Shifted(set, d) : x \in Nat /\ x <= m + d
  BY <1>1, <1>2 DEF Shifted
<1>5. Max(Shifted(set, d)) = m + d
  <2>1. \A x \in Shifted(set, d) : (\A y \in Shifted(set, d) : x >= y) <=> x = m + d
    BY <1>2, <1>4
  <2> HIDE DEF Shifted
  <2> QED BY <1>4, <2>1 DEF Max
<1> QED BY <1>3, <1>5

\* What is written for a symbol of the stretch, and how far the search moves.
LEMMA EmitsSits ==
  ASSUME NEW part, NEW text, NEW d, Sits(part, text, d), NEW i \in 1 .. Len(part)
  PROVE  /\ Emits(text, i + d) = Emits(part, i)
         /\ GoesOn(text, i + d) = GoesOn(part, i) + d
<1>1. /\ Len(part) \in Nat /\ d \in Nat /\ part \in Seq(Symbols)
      /\ text[i + d] = part[i] /\ i \in 1 .. Len(part) + 1
  BY LenProperties DEF Sits
<1>2. Matching(text, i + d) = Matching(part, i)
  BY <1>1, MatchingSits
<1>3. CASE Matching(part, i) = {}
  <2>1. (i + d) + 1 = (i + 1) + d
    BY <1>1
  <2> QED BY <1>1, <1>2, <1>3, <2>1 DEF Emits, GoesOn
<1>4. CASE Matching(part, i) # {}
  <2> DEFINE k == Min(Matching(part, i))
             ends == RuleEnds(part, i, Rules[k])
  <2>1. /\ Emits(text, i + d) = Emits(part, i)
        /\ GoesOn(text, i + d) = Max(RuleEnds(text, i + d, Rules[k]))
        /\ GoesOn(part, i) = Max(ends)
    BY <1>2, <1>4 DEF Emits, GoesOn
  <2>2. k \in DOMAIN Rules /\ ends # {}
    BY <1>4, FirstRule
  <2> HIDE DEF k
  <2>3. RuleEnds(text, i + d, Rules[k]) = Shifted(ends, d)
    BY <1>1, <2>2, RuleEndsSits
  <2>4. ends \in SUBSET (1 .. Len(part) + 1)
    <3>1. \A pattern \in Rules[k].patterns : Ends(part, i, pattern) \in SUBSET (1 .. Len(part) + 1)
      BY <1>1, <2>2, RulePatterns, EndsBounds DEF Whole
    <3> QED BY <3>1 DEF RuleEnds
  <2> HIDE DEF ends
  <2>5. Max(Shifted(ends, d)) = Max(ends) + d
    <3>1. Len(part) + 1 \in Nat
      BY <1>1
    <3> QED BY <1>1, <2>2, <2>4, <3>1, ShiftedMax
  <2> QED BY <2>1, <2>3, <2>5
<1> QED BY <1>3, <1>4

\* No rule takes the barrier behind the stretch: its match would leave the stretch.
LEMMA BarrierStands ==
  ASSUME NEW part, NEW text, NEW d, Sits(part, text, d)
  PROVE  Matching(text, d + Len(part) + 1) = {}
<1> DEFINE n == Len(part) + 1
<1>1. n \in 1 .. Len(part) + 1 /\ n + d = d + Len(part) + 1 /\ part \in Seq(Symbols)
  BY LenProperties DEF Sits
<1>2. Matching(text, n + d) = Matching(part, n)
  BY <1>1, MatchingSits
<1>3. ASSUME NEW k \in DOMAIN Rules
      PROVE  RuleEnds(part, n, Rules[k]) = {}
  <2>1. ASSUME NEW pattern \in Rules[k].patterns
        PROVE  Ends(part, n, pattern) = {}
    <3>1. /\ Ends(part, n, pattern) \in SUBSET (1 .. Len(part) + 1)
          /\ \A j \in Ends(part, n, pattern) : n < j
      BY <1>1, RulePatterns, EndsBounds DEF Whole
    <3>2. Len(part) \in Nat
      BY <1>1, LenProperties
    <3> QED BY <3>1, <3>2
  <2> QED BY <2>1 DEF RuleEnds
<1> QED BY <1>1, <1>2, <1>3 DEF Matching

\* A text in two stretches with a barrier between them.
LEMMA TwoStretches ==
  ASSUME NEW a \in Seq(Symbols), NEW b \in Seq(Symbols), NEW s \in Symbols, Separates(a, s)
  PROVE  LET text == (a \o <<s>>) \o b
         IN  /\ text \in Seq(Symbols) /\ Len(text) = (Len(a) + 1) + Len(b)
             /\ text[Len(a) + 1] = s
             /\ Sits(a, text, 0) /\ Sits(b, text, Len(a) + 1)
<1> DEFINE text == (a \o <<s>>) \o b
           left == a \o <<s>>
<1>1. Len(a) \in Nat /\ Len(b) \in Nat
  BY LenProperties
<1>2. s \in Barriers \cup {"space"}
  BY DEF Separates
<1> HIDE DEF Symbols, Barriers, Separates
<1>3. <<s>> \in Seq(Symbols) /\ Len(<<s>>) = 1 /\ <<s>>[1] = s
  OBVIOUS
<1>4. /\ left \in Seq(Symbols) /\ Len(left) = Len(a) + 1
      /\ \A i \in 1 .. Len(a) + 1 : left[i] = IF i <= Len(a) THEN a[i] ELSE s
  <2>1. left \in Seq(Symbols)
    BY <1>3, ConcatProperties
  <2>2. Len(left) = Len(a) + Len(<<s>>)
    BY <1>3, ConcatProperties
  <2>3. \A i \in 1 .. Len(a) + Len(<<s>>) : left[i] = IF i <= Len(a) THEN a[i] ELSE <<s>>[i - Len(a)]
    BY <1>3, ConcatProperties
  <2>4. \A i \in 1 .. Len(a) + 1 : ~(i <= Len(a)) => i - Len(a) = 1
    BY <1>1
  <2> HIDE DEF left
  <2> QED BY <1>3, <2>1, <2>2, <2>3, <2>4
<1> HIDE DEF left
<1>5. /\ text \in Seq(Symbols) /\ Len(text) = (Len(a) + 1) + Len(b)
      /\ \A i \in 1 .. (Len(a) + 1) + Len(b) : text[i] = IF i <= Len(a) + 1 THEN left[i] ELSE b[i - (Len(a) + 1)]
  <2>1. left \o b \in Seq(Symbols)
    BY <1>4, ConcatProperties
  <2>2. Len(left \o b) = Len(left) + Len(b)
    BY <1>4, ConcatProperties
  <2>3. \A i \in 1 .. Len(left) + Len(b) : (left \o b)[i] = IF i <= Len(left) THEN left[i] ELSE b[i - Len(left)]
    BY <1>4, ConcatProperties
  <2> QED BY <1>4, <2>1, <2>2, <2>3 DEF left
<1> HIDE DEF text
<1>6. \A i \in 1 .. Len(a) : text[i] = a[i] /\ i + 0 = i
  BY <1>1, <1>4, <1>5
<1>7. text[Len(a) + 1] = s
  BY <1>1, <1>4, <1>5
<1>8. Sits(a, text, 0)
  <2>1. 0 + Len(a) <= Len(text) /\ 0 + Len(a) + 1 = Len(a) + 1 /\ 0 \in Nat
    BY <1>1, <1>5
  <2> QED BY <1>5, <1>6, <1>7, <2>1 DEF Sits
<1>9. Sits(b, text, Len(a) + 1)
  <2>1. /\ Len(a) + 1 \in Nat /\ (Len(a) + 1) + Len(b) <= Len(text)
        /\ (Len(a) + 1) + Len(b) = Len(text)
    BY <1>1, <1>5
  <2>2. \A i \in 1 .. Len(b) : text[i + (Len(a) + 1)] = b[i]
    BY <1>1, <1>5
  <2> QED BY <1>2, <1>5, <1>7, <2>1, <2>2 DEF Sits
<1> QED BY <1>5, <1>7, <1>8, <1>9 DEF text

LEMMA WalkStep ==
  ASSUME NEW text \in Seq(Symbols), NEW f, Walks(f, text)
  PROVE  /\ f[Len(text) + 1] = << >>
         /\ \A i \in 1 .. Len(text) : f[i] = Emits(text, i) \o f[GoesOn(text, i)]
<1>1. Len(text) \in Nat
  BY LenProperties
<1>2. \A i \in 1 .. Len(text) + 1 :
        f[i] = IF i > Len(text) THEN << >> ELSE Emits(text, i) \o f[GoesOn(text, i)]
  BY DEF Walks
<1>3. Len(text) + 1 \in 1 .. Len(text) + 1 /\ Len(text) + 1 > Len(text)
  BY <1>1
<1>4. \A i \in 1 .. Len(text) : i \in 1 .. Len(text) + 1 /\ ~(i > Len(text))
  BY <1>1
<1>5. f[Len(text) + 1] = << >>
  BY <1>2, <1>3
<1>6. \A i \in 1 .. Len(text) : f[i] = Emits(text, i) \o f[GoesOn(text, i)]
  BY <1>2, <1>4
<1> QED BY <1>5, <1>6

\* replace_all masks a line field by field: a tag already there, a control, a
\* space that no date stands before, or any other symbol no rule takes, is kept
\* where it is, and the fields on its two sides become what each becomes alone,
\* so no value of one is read as part of, or changes, a value of the other.
THEOREM FieldsApart ==
  ASSUME NEW a \in Seq(Symbols), NEW b \in Seq(Symbols), NEW s \in Symbols, Separates(a, s)
  PROVE  Masked((a \o <<s>>) \o b) = (Masked(a) \o <<s>>) \o Masked(b)
<1> DEFINE text == (a \o <<s>>) \o b
           la == Len(a)
           lb == Len(b)
           n == Len(text)
           d == la + 1
<1>1. /\ text \in Seq(Symbols) /\ n = d + lb /\ text[d] = s
      /\ Sits(a, text, 0) /\ Sits(b, text, d)
  BY TwoStretches
<1>2. la \in Nat /\ lb \in Nat
  BY LenProperties
<1>3. Symbols \in SUBSET Symbols /\ Given \subseteq Symbols
  BY DEF Given, Symbols
<1> HIDE DEF text, Symbols, Barriers, Given
<1>5. PICK fa : /\ Walks(fa, a) /\ Masked(a) = fa[1]
                /\ \A i \in 1 .. la + 1 : fa[i] \in Seq(Symbols)
  BY <1>3, MaskedWalks
<1>6. PICK fb : /\ Walks(fb, b) /\ Masked(b) = fb[1]
                /\ \A i \in 1 .. lb + 1 : fb[i] \in Seq(Symbols)
  BY <1>3, MaskedWalks
<1> DEFINE rest == <<s>> \o fb[1]
           g == [i \in 1 .. n + 1 |-> IF i <= d THEN fa[i] \o rest ELSE fb[i - d]]
<1>7. fb[1] \in Seq(Symbols) /\ <<s>> \in Seq(Symbols) /\ rest \in Seq(Symbols)
  <2>1. fb[1] \in Seq(Symbols)
    BY <1>2, <1>6
  <2>2. <<s>> \in Seq(Symbols)
    OBVIOUS
  <2> QED BY <2>1, <2>2, ConcatProperties
<1>8. /\ \A i \in 1 .. d : g[i] = fa[i] \o rest
      /\ \A i \in 1 .. lb + 1 : g[i + d] = fb[i]
  <2>1. \A i \in 1 .. d : i \in 1 .. n + 1 /\ i <= d
    BY <1>1, <1>2
  <2>2. \A i \in 1 .. lb + 1 : i + d \in 1 .. n + 1 /\ ~(i + d <= d) /\ (i + d) - d = i
    BY <1>1, <1>2
  <2> HIDE DEF n, d, rest
  <2> QED BY <2>1, <2>2
<1> HIDE DEF rest
<1>9. ASSUME NEW i \in 1 .. n
      PROVE  g[i] = Emits(text, i) \o g[GoesOn(text, i)]
  <2> HIDE DEF g
  <2>1. CASE i \in 1 .. la
    <3>1. /\ fa[i] = Emits(a, i) \o fa[GoesOn(a, i)]
          /\ Emits(a, i) \in Seq(Symbols) /\ GoesOn(a, i) \in 1 .. d
      <4>1. fa[i] = Emits(a, i) \o fa[GoesOn(a, i)]
        BY <1>5, <2>1, WalkStep
      <4>2. /\ Emits(a, i) \in Seq(Symbols)
            /\ GoesOn(a, i) \in Nat /\ i < GoesOn(a, i) /\ GoesOn(a, i) <= la + 1
        BY <1>3, <2>1, EmitsType
      <4> QED BY <1>2, <2>1, <4>1, <4>2
    <3>2. Emits(text, i) = Emits(a, i) /\ GoesOn(text, i) = GoesOn(a, i)
      <4>1. /\ Emits(text, i + 0) = Emits(a, i)
            /\ GoesOn(text, i + 0) = GoesOn(a, i) + 0
        BY <1>1, <2>1, EmitsSits
      <4>2. i + 0 = i /\ GoesOn(a, i) + 0 = GoesOn(a, i)
        BY <2>1, <3>1
      <4> QED BY <4>1, <4>2
    <3>3. fa[GoesOn(a, i)] \in Seq(Symbols)
      BY <1>5, <3>1
    <3>4. i \in 1 .. d
      BY <1>2, <2>1
    <3>5. (Emits(a, i) \o fa[GoesOn(a, i)]) \o rest = Emits(a, i) \o (fa[GoesOn(a, i)] \o rest)
      <4> DEFINE u == Emits(a, i)
                 v == fa[GoesOn(a, i)]
      <4>1. u \in Seq(Symbols) /\ v \in Seq(Symbols)
        BY <3>1, <3>3
      <4> HIDE DEF u, v
      <4>2. (u \o v) \o rest = u \o (v \o rest)
        BY <1>7, <4>1, ConcatAssociative
      <4> QED BY <4>2 DEF u, v
    <3> QED BY <1>8, <3>1, <3>2, <3>4, <3>5
  <2>2. CASE i = d
    <3>1. Matching(text, i) = {}
      <4>1. Matching(text, 0 + la + 1) = {}
        BY <1>1, BarrierStands
      <4>2. 0 + la + 1 = i
        BY <1>2, <2>2
      <4> QED BY <4>1, <4>2
    <3>2. Emits(text, i) = <<s>> /\ GoesOn(text, i) = 1 + d
      <4>1. i + 1 = 1 + d
        BY <1>2, <2>2
      <4> QED BY <1>1, <2>2, <3>1, <4>1 DEF Emits, GoesOn
    <3>3. fa[d] = << >>
      BY <1>5, WalkStep
    <3>4. << >> \o rest = rest
      BY <1>7, ConcatEmptySeq
    <3>5. g[i] = << >> \o rest /\ g[1 + d] = fb[1]
      <4>1. i \in 1 .. d /\ 1 \in 1 .. lb + 1
        BY <1>2, <2>2
      <4> QED BY <1>8, <2>2, <3>3, <4>1
    <3> QED BY <3>2, <3>4, <3>5 DEF rest
  <2>3. CASE i > d
    <3> DEFINE m == i - d
    <3>1. m \in 1 .. lb /\ m + d = i
      BY <1>1, <1>2, <2>3
    <3> HIDE DEF m
    <3>2. /\ Emits(text, m + d) = Emits(b, m)
          /\ GoesOn(text, m + d) = GoesOn(b, m) + d
      BY <1>1, <3>1, EmitsSits
    <3>3. fb[m] = Emits(b, m) \o fb[GoesOn(b, m)]
      BY <1>6, <3>1, WalkStep
    <3>4. GoesOn(b, m) \in 1 .. lb + 1 /\ m \in 1 .. lb + 1
      <4>1. GoesOn(b, m) \in Nat /\ m < GoesOn(b, m) /\ GoesOn(b, m) <= lb + 1
        BY <1>3, <3>1, EmitsType
      <4> QED BY <1>2, <3>1, <4>1
    <3>5. g[m + d] = fb[m] /\ g[GoesOn(b, m) + d] = fb[GoesOn(b, m)]
      BY <1>8, <3>4
    <3> QED BY <3>1, <3>2, <3>3, <3>5
  <2> QED BY <1>1, <1>2, <2>1, <2>2, <2>3
<1>10. Walks(g, text)
  <2>1. g[n + 1] = << >>
    <3>1. fb[lb + 1] = << >>
      BY <1>6, WalkStep
    <3>2. (lb + 1) + d = n + 1 /\ lb + 1 \in 1 .. lb + 1
      BY <1>1, <1>2
    <3> HIDE DEF g
    <3> QED BY <1>8, <3>1, <3>2
  <2>2. \A i \in 1 .. n + 1 :
          g[i] = IF i > n THEN << >> ELSE Emits(text, i) \o g[GoesOn(text, i)]
    <3>1. \A i \in 1 .. n + 1 : IF i > n THEN i = n + 1 ELSE i \in 1 .. n
      BY <1>1, <1>2
    <3> HIDE DEF g, n
    <3> QED BY <1>9, <2>1, <3>1
  <2>3. g = [i \in 1 .. n + 1 |-> g[i]]
    OBVIOUS
  <2> HIDE DEF g
  <2>4. g = [i \in 1 .. n + 1 |-> IF i > n THEN << >> ELSE Emits(text, i) \o g[GoesOn(text, i)]]
    BY <2>2, <2>3
  <2> QED BY <2>4 DEF Walks
<1>11. Masked(text) = g[1]
  BY <1>1, <1>3, <1>10, MaskedWalks
<1>12. g[1] = fa[1] \o rest
  <2>1. 1 \in 1 .. d
    BY <1>2
  <2> QED BY <1>8, <2>1
<1>13. fa[1] \in Seq(Symbols)
  BY <1>2, <1>5
<1>14. fa[1] \o (<<s>> \o fb[1]) = (fa[1] \o <<s>>) \o fb[1]
  <2> DEFINE u == fa[1]
             v == <<s>>
             w == fb[1]
  <2>1. u \in Seq(Symbols) /\ v \in Seq(Symbols) /\ w \in Seq(Symbols)
    BY <1>7, <1>13
  <2> HIDE DEF u, v, w
  <2>2. (u \o v) \o w = u \o (v \o w)
    BY <2>1, ConcatAssociative
  <2> QED BY <2>2 DEF u, v, w
<1> HIDE DEF g
<1> QED BY <1>5, <1>6, <1>11, <1>12, <1>14 DEF text, rest

\* Messages whose values are kept apart.

Part == [text : Seq(Symbols), tags : Seq(Symbols)]

\* A part that becomes its tags when it stands alone; a part of one symbol that
\* separates what is behind it from what the message has before it.
IsMaskedAlone(part) == Masked(part.text) = part.tags
IsSeparator(message, k) ==
  \E s \in Symbols :
    /\ message[k].text = <<s>> /\ message[k].tags = <<s>>
    /\ Separates(Written(SubSeq(message, 1, k - 1)), s)
KeepsApart(message) ==
  /\ \A k \in 1 .. Len(message) : IsSeparator(message, k) \/ IsMaskedAlone(message[k])
  /\ \A k \in 1 .. Len(message) - 1 : IsSeparator(message, k) \/ IsSeparator(message, k + 1)
EndsOpen(message) == message = << >> \/ IsSeparator(message, Len(message))

LEMMA WrittenType ==
  ASSUME NEW message \in Seq(Part)
  PROVE  Written(message) \in Seq(Symbols)
<1> DEFINE seqs == [i \in DOMAIN message |-> message[i].text]
<1>1. \A part \in Part : part.text \in Seq(Symbols)
  BY DEF Part
<1> HIDE DEF Part, Symbols
<1>2. /\ Len(message) \in Nat /\ DOMAIN message = 1 .. Len(message)
      /\ \A i \in 1 .. Len(message) : message[i].text \in Seq(Symbols)
  BY <1>1, LenProperties, ElementOfSeq
<1>3. seqs \in Seq(Seq(Symbols))
  BY <1>2
<1> HIDE DEF seqs
<1> QED BY <1>3, FlattenShape DEF Written, seqs

LEMMA FlattenColumn ==
  ASSUME NEW S, NEW n \in Nat, NEW f \in [1 .. n -> Seq(S)], NEW g \in [1 .. n + 1 -> Seq(S)],
         \A i \in 1 .. n : g[i] = f[i]
  PROVE  FlattenSeq(f) \in Seq(S) /\ FlattenSeq(g) = FlattenSeq(f) \o g[n + 1]
<1> DEFINE Q == Seq(S)
           e == g[n + 1]
<1>1. f \in Seq(Q) /\ g \in Seq(Q) /\ Len(f) = n /\ Len(g) = n + 1 /\ e \in Q
  OBVIOUS
<1> HIDE DEF Q, e
<1>2. /\ Append(f, e) \in Seq(Q) /\ Len(Append(f, e)) = n + 1
      /\ \A i \in 1 .. n : Append(f, e)[i] = f[i]
      /\ Append(f, e)[n + 1] = e
  <2>1. /\ Append(f, e) \in Seq(Q)
        /\ Len(Append(f, e)) = Len(f) + 1
        /\ \A i \in 1 .. Len(f) : Append(f, e)[i] = f[i]
        /\ Append(f, e)[Len(f) + 1] = e
    BY <1>1, AppendProperties
  <2> QED BY <1>1, <2>1
<1>3. \A i \in 1 .. n + 1 : g[i] = Append(f, e)[i]
  <2>1. \A i \in 1 .. n + 1 : i \in 1 .. n \/ i = n + 1
    OBVIOUS
  <2> QED BY <1>2, <2>1 DEF e
<1>4. g = Append(f, e)
  BY <1>1, <1>2, <1>3, SeqEqual
<1>5. FlattenSeq(f) \in Seq(S)
  BY <1>1, FlattenShape DEF Q
<1>6. FlattenSeq(Append(f, e)) = FlattenSeq(f) \o e
  BY <1>1, Arithmetic!FlattenAppend, SameFlatten DEF Q
<1> QED BY <1>4, <1>5, <1>6 DEF e

LEMMA MessageAppend ==
  ASSUME NEW m \in Seq(Part), NEW p \in Part
  PROVE  /\ Written(m) \in Seq(Symbols) /\ Meant(m) \in Seq(Symbols)
         /\ Written(Append(m, p)) = Written(m) \o p.text
         /\ Meant(Append(m, p)) = Meant(m) \o p.tags
         /\ Len(Append(m, p)) = Len(m) + 1 /\ Len(m) \in Nat
         /\ \A k \in 1 .. Len(m) : Append(m, p)[k] = m[k]
         /\ Append(m, p)[Len(m) + 1] = p
<1> DEFINE n == Len(m)
           more == Append(m, p)
<1>1. /\ n \in Nat /\ DOMAIN m = 1 .. n /\ \A k \in 1 .. n : m[k] \in Part
  BY LenProperties, ElementOfSeq
<1>2. /\ more \in Seq(Part) /\ Len(more) = n + 1
      /\ \A k \in 1 .. n : more[k] = m[k]
      /\ more[n + 1] = p
  BY AppendProperties
<1>3. DOMAIN more = 1 .. n + 1 /\ \A k \in 1 .. n + 1 : more[k] \in Part
  BY <1>2, LenProperties, ElementOfSeq
<1> HIDE DEF more, n
<1>4. \A part \in Part : part.text \in Seq(Symbols) /\ part.tags \in Seq(Symbols)
  BY DEF Part
<1> HIDE DEF Part, Symbols
<1>5. n + 1 \in 1 .. n + 1 /\ \A k \in 1 .. n : k \in 1 .. n + 1
  BY <1>1
<1>6. Written(m) \in Seq(Symbols) /\ Written(more) = Written(m) \o p.text
  <2> DEFINE f == [k \in DOMAIN m |-> m[k].text]
             g == [k \in DOMAIN more |-> more[k].text]
  <2>1. f \in [1 .. n -> Seq(Symbols)] /\ g \in [1 .. n + 1 -> Seq(Symbols)]
    BY <1>1, <1>3, <1>4
  <2>2. (\A i \in 1 .. n : g[i] = f[i]) /\ g[n + 1] = p.text
    BY <1>1, <1>2, <1>3, <1>5
  <2> HIDE DEF f, g
  <2>3. FlattenSeq(f) \in Seq(Symbols) /\ FlattenSeq(g) = FlattenSeq(f) \o g[n + 1]
    BY <1>1, <2>1, <2>2, FlattenColumn
  <2> QED BY <2>2, <2>3 DEF Written, f, g
<1>7. Meant(m) \in Seq(Symbols) /\ Meant(more) = Meant(m) \o p.tags
  <2> DEFINE f == [k \in DOMAIN m |-> m[k].tags]
             g == [k \in DOMAIN more |-> more[k].tags]
  <2>1. f \in [1 .. n -> Seq(Symbols)] /\ g \in [1 .. n + 1 -> Seq(Symbols)]
    BY <1>1, <1>3, <1>4
  <2>2. (\A i \in 1 .. n : g[i] = f[i]) /\ g[n + 1] = p.tags
    BY <1>1, <1>2, <1>3, <1>5
  <2> HIDE DEF f, g
  <2>3. FlattenSeq(f) \in Seq(Symbols) /\ FlattenSeq(g) = FlattenSeq(f) \o g[n + 1]
    BY <1>1, <2>1, <2>2, FlattenColumn
  <2> QED BY <2>2, <2>3 DEF Meant, f, g
<1> QED BY <1>1, <1>2, <1>6, <1>7 DEF more, n

LEMMA NothingMasked ==
  Masked(<< >>) = << >> /\ Written(<< >>) = << >> /\ Meant(<< >>) = << >>
<1>1. << >> \in Seq(Symbols) /\ Len(<< >>) = 0
  BY EmptySeq
<1>2. Symbols \in SUBSET Symbols /\ Given \subseteq Symbols
  BY DEF Given, Symbols
<1> HIDE DEF Symbols, Given
<1>3. PICK f : Walks(f, << >>) /\ Masked(<< >>) = f[1]
  BY <1>1, <1>2, MaskedWalks
<1>4. f[Len(<< >>) + 1] = << >>
  BY <1>1, <1>3, WalkStep
<1>5. Masked(<< >>) = << >>
  <2>1. Len(<< >>) + 1 = 1
    BY <1>1
  <2> QED BY <1>3, <1>4, <2>1
<1>7. FlattenSeq(<< >>) = << >>
  BY Arithmetic!FlattenEmpty, SameFlatten
<1>8. Written(<< >>) = << >> /\ Meant(<< >>) = << >>
  BY <1>7 DEF Written, Meant
<1> QED BY <1>5, <1>8

LEMMA MessagePrefix ==
  ASSUME NEW m \in Seq(Part), NEW p \in Part
  PROVE  /\ SubSeq(Append(m, p), 1, (Len(m) + 1) - 1) = m
         /\ \A k \in 1 .. Len(m) : IsSeparator(Append(m, p), k) <=> IsSeparator(m, k)
<1> DEFINE n == Len(m)
           more == Append(m, p)
<1>1. /\ n \in Nat /\ Len(more) = n + 1 /\ more \in Seq(Part)
      /\ \A k \in 1 .. n : more[k] = m[k]
  BY MessageAppend, AppendProperties
<1>2. /\ \A k \in 1 .. n : m[k] \in Part
      /\ \A k \in 1 .. n + 1 : more[k] \in Part
  BY <1>1, ElementOfSeq
<1> HIDE DEF n, more, Part
<1>3. ASSUME NEW e \in 0 .. n
      PROVE  SubSeq(more, 1, e) = SubSeq(m, 1, e)
  <2>1. \A i \in 1 .. e : i \in 1 .. n /\ i \in 1 .. n + 1
    BY <1>1
  <2>2. 1 \in Int /\ e \in Int /\ (\A i \in 1 .. e : m[i] \in Part) /\ (\A i \in 1 .. e : more[i] \in Part)
    BY <1>2, <2>1
  <2>3. /\ SubSeq(m, 1, e) \in Seq(Part)
        /\ Len(SubSeq(m, 1, e)) = IF 1 <= e THEN e - 1 + 1 ELSE 0
        /\ \A i \in 1 .. e - 1 + 1 : SubSeq(m, 1, e)[i] = m[1 + i - 1]
    BY <2>2, SubSeqProperties
  <2>4. /\ SubSeq(more, 1, e) \in Seq(Part)
        /\ Len(SubSeq(more, 1, e)) = IF 1 <= e THEN e - 1 + 1 ELSE 0
        /\ \A i \in 1 .. e - 1 + 1 : SubSeq(more, 1, e)[i] = more[1 + i - 1]
    BY <2>2, SubSeqProperties
  <2>5. \A i \in 1 .. e : i \in 1 .. e - 1 + 1 /\ 1 + i - 1 = i
    BY <2>2
  <2>6. \A i \in 1 .. e : SubSeq(more, 1, e)[i] = SubSeq(m, 1, e)[i]
    BY <1>1, <2>1, <2>3, <2>4, <2>5
  <2>7. Len(SubSeq(m, 1, e)) = e /\ Len(SubSeq(more, 1, e)) = e
    BY <2>3, <2>4
  <2> QED BY <2>3, <2>4, <2>6, <2>7, SeqEqual
<1>4. (n + 1) - 1 = n /\ n \in 0 .. n
  BY <1>1
<1>5. SubSeq(more, 1, (n + 1) - 1) = m
  <2>1. SubSeq(m, 1, n) = m
    BY SubSeqFull DEF n
  <2> QED BY <1>3, <1>4, <2>1
<1>6. ASSUME NEW k \in 1 .. n
      PROVE  IsSeparator(more, k) <=> IsSeparator(m, k)
  <2>1. k - 1 \in 0 .. n
    BY <1>1
  <2>2. SubSeq(more, 1, k - 1) = SubSeq(m, 1, k - 1) /\ more[k] = m[k]
    BY <1>1, <1>3, <2>1
  <2> QED BY <2>2 DEF IsSeparator
<1> QED BY <1>5, <1>6 DEF n, more

\* A message that keeps its values apart becomes its tags.  Behind a
\* separator anything may follow: that is what the next value needs.
LEMMA FieldsAreMasked ==
  ASSUME NEW message \in Seq(Part), KeepsApart(message)
  PROVE  Masked(Written(message)) = Meant(message)
<1> DEFINE T == {m \in Seq(Part) :
                   KeepsApart(m) =>
                     /\ Masked(Written(m)) = Meant(m)
                     /\ EndsOpen(m) => \A x \in Seq(Symbols) :
                                         Masked(Written(m) \o x) = Meant(m) \o Masked(x)}
<1> HIDE DEF Symbols, Part
<1>1. << >> \in T
  <2>1. << >> \in Seq(Part)
    BY EmptySeq
  <2>2. ASSUME NEW x \in Seq(Symbols)
        PROVE  Masked(Written(<< >>) \o x) = Meant(<< >>) \o Masked(x)
    <3>1. Masked(x) \in Seq(Symbols)
      BY MaskedType
    <3>2. << >> \o x = x
      BY ConcatEmptySeq
    <3>3. << >> \o Masked(x) = Masked(x)
      BY <3>1, ConcatEmptySeq
    <3> QED BY <3>2, <3>3, NothingMasked
  <2>3. Masked(Written(<< >>)) = Meant(<< >>)
    BY NothingMasked
  <2> QED BY <2>1, <2>2, <2>3
<1>2. ASSUME NEW m \in T, NEW p \in Part
      PROVE  Append(m, p) \in T
  <2> DEFINE more == Append(m, p)
             n == Len(m)
  <2>1. /\ Written(m) \in Seq(Symbols) /\ Meant(m) \in Seq(Symbols)
        /\ Written(more) = Written(m) \o p.text
        /\ Meant(more) = Meant(m) \o p.tags
        /\ Len(more) = n + 1 /\ n \in Nat
        /\ \A k \in 1 .. n : more[k] = m[k]
        /\ more[n + 1] = p
    BY MessageAppend
  <2>2. more \in Seq(Part)
    BY AppendProperties
  <2> HIDE DEF more
  <2> SUFFICES ASSUME KeepsApart(more)
               PROVE  /\ Masked(Written(more)) = Meant(more)
                      /\ EndsOpen(more) => \A x \in Seq(Symbols) :
                           Masked(Written(more) \o x) = Meant(more) \o Masked(x)
    BY <2>2 DEF more
  <2>3. \A k \in 1 .. n : IsSeparator(more, k) <=> IsSeparator(m, k)
    BY MessagePrefix DEF more
  <2>4. IsSeparator(more, n + 1) =>
          \E s \in Symbols :
            p.text = <<s>> /\ p.tags = <<s>> /\ Separates(Written(m), s)
    <3>1. SubSeq(more, 1, (n + 1) - 1) = m
      BY MessagePrefix DEF more
    <3> QED BY <2>1, <3>1 DEF IsSeparator
  <2>5. /\ KeepsApart(m) /\ (IsSeparator(more, n + 1) \/ IsMaskedAlone(p))
        /\ n = 0 \/ IsSeparator(m, n) \/ IsSeparator(more, n + 1)
    <3>1. /\ \A k \in 1 .. n + 1 : IsSeparator(more, k) \/ IsMaskedAlone(more[k])
          /\ \A k \in 1 .. n : IsSeparator(more, k) \/ IsSeparator(more, k + 1)
      <4>1. Len(more) - 1 = n
        BY <2>1
      <4> QED BY <2>1, <4>1 DEF KeepsApart
    <3>2. \A k \in 1 .. n - 1 : k \in 1 .. n /\ k + 1 \in 1 .. n
      BY <2>1
    <3>3. \A k \in 1 .. n : k \in 1 .. n + 1
      BY <2>1
    <3>4. \A k \in 1 .. n : IsSeparator(m, k) \/ IsMaskedAlone(m[k])
      BY <2>3, <2>1, <3>1, <3>3
    <3>5. \A k \in 1 .. n - 1 : IsSeparator(m, k) \/ IsSeparator(m, k + 1)
      BY <2>3, <3>1, <3>2
    <3>6. n + 1 \in 1 .. n + 1 /\ (n = 0 \/ n \in 1 .. n)
      BY <2>1
    <3>7. IsSeparator(more, n + 1) \/ IsMaskedAlone(p)
      BY <2>1, <3>1, <3>6
    <3>8. n = 0 \/ IsSeparator(m, n) \/ IsSeparator(more, n + 1)
      BY <2>3, <3>1, <3>6
    <3> QED BY <3>4, <3>5, <3>7, <3>8 DEF KeepsApart
  <2>6. Masked(Written(m)) = Meant(m)
    BY <2>5
  <2>7. EndsOpen(more) => IsSeparator(more, n + 1)
    <3>1. more # << >>
      BY <2>1, <2>2, EmptySeq
    <3> QED BY <2>1, <3>1 DEF EndsOpen
  <2>8. CASE IsSeparator(more, n + 1)
    <3>1. PICK s \in Symbols :
            p.text = <<s>> /\ p.tags = <<s>> /\ Separates(Written(m), s)
      BY <2>8, <2>4
    <3>2. ASSUME NEW x \in Seq(Symbols)
          PROVE  Masked(Written(more) \o x) = Meant(more) \o Masked(x)
      <4>2. Masked((Written(m) \o <<s>>) \o x) = (Masked(Written(m)) \o <<s>>) \o Masked(x)
        BY <2>1, <3>1, FieldsApart
      <4> QED BY <2>1, <2>6, <3>1, <4>2
    <3>3. Masked(Written(more)) = Meant(more)
      <4>1. << >> \in Seq(Symbols)
        BY EmptySeq
      <4>2. Written(more) \in Seq(Symbols) /\ Meant(more) \in Seq(Symbols)
        <5>1. p.text \in Seq(Symbols) /\ p.tags \in Seq(Symbols)
          BY DEF Part
        <5> QED BY <2>1, <5>1, ConcatProperties
      <4>3. Written(more) \o << >> = Written(more) /\ Meant(more) \o << >> = Meant(more)
        BY <4>2, ConcatEmptySeq
      <4> QED BY <3>2, <4>1, <4>3, NothingMasked
    <3> QED BY <3>2, <3>3
  <2>9. CASE ~IsSeparator(more, n + 1)
    <3>1. EndsOpen(m)
      <4>1. n = 0 => m = << >>
        BY EmptySeq
      <4> QED BY <2>5, <2>9, <4>1 DEF EndsOpen
    <3>2. p.text \in Seq(Symbols)
      BY DEF Part
    <3>3. Masked(Written(m) \o p.text) = Meant(m) \o Masked(p.text)
      BY <2>5, <3>1, <3>2
    <3>4. Masked(p.text) = p.tags
      BY <2>5, <2>9 DEF IsMaskedAlone
    <3> QED BY <2>1, <2>7, <2>9, <3>3, <3>4
  <2> QED BY <2>8, <2>9
<1>3. T \in SUBSET Seq(Part)
  OBVIOUS
<1> HIDE DEF T
<1>4. T = Seq(Part)
  BY <1>1, <1>2, <1>3, Arithmetic!SeqInduction
<1> QED BY <1>4 DEF T

\* Values that stand alone: one run of letters and digits.

\* A pattern one item of which takes nothing but s, and must take one.
Takes(item) == item.min >= 1 /\ item.max >= 1
Needs(pattern, s) == \E k \in 1 .. Len(pattern) : Takes(pattern[k]) /\ pattern[k].class = {s}

LEMMA EmptyStays ==
  ASSUME NEW text, NEW i, NEW pattern, NEW n \in Nat, NEW after, After(after, text, i, pattern, n),
         NEW m \in 0 .. n, after[m] = {}
  PROVE  after[n] = {}
<1> DEFINE T == {d \in Nat : m + d <= n => after[m + d] = {}}
<1>1. 0 \in T
  <2>1. m + 0 = m
    OBVIOUS
  <2> QED BY <2>1
<1>2. ASSUME NEW d \in T
      PROVE  d + 1 \in T
  <2> SUFFICES ASSUME m + (d + 1) <= n PROVE after[m + (d + 1)] = {}
    OBVIOUS
  <2>1. m + d <= n
    OBVIOUS
  <2>2. after[m + d] = {}
    BY <2>1
  <2> DEFINE k == m + (d + 1)
  <2>3. k \in 0 .. n /\ k # 0 /\ k - 1 = m + d
    OBVIOUS
  <2> HIDE DEF k
  <2>4. after[k] = MatchItem(text, after[k - 1], pattern[k])
    BY <2>3 DEF After
  <2>5. MatchItem(text, {}, pattern[k]) = {}
    BY DEF MatchItem
  <2>6. after[k] = {}
    BY <2>2, <2>3, <2>4, <2>5
  <2> QED BY <2>6 DEF k
<1>3. T \in SUBSET Nat
  OBVIOUS
<1> HIDE DEF T
<1>4. T = Nat
  BY <1>1, <1>2, <1>3, Arithmetic!SetInduction
<1>5. n - m \in T /\ m + (n - m) = n
  BY <1>4
<1> QED BY <1>5 DEF T

\* Every prefix of a pattern ends inside the text.
LEMMA AfterBounds ==
  ASSUME NEW text \in Seq(Symbols), NEW i \in 1 .. Len(text) + 1, NEW pattern \in Seq(Item),
         NEW after, After(after, text, i, pattern, Len(pattern)), NEW m \in 0 .. Len(pattern)
  PROVE  after[m] \in SUBSET (1 .. Len(text) + 1)
<1> DEFINE n == Len(pattern)
           U == 1 .. Len(text) + 1
           T == {k \in Nat : k <= n => after[k] \in SUBSET U}
<1>1. /\ n \in Nat /\ Len(text) \in Nat
      /\ \A k \in 1 .. n : pattern[k] \in Item
  BY LenProperties, ElementOfSeq
<1> HIDE DEF n
<1>2. After(after, text, i, pattern, n)
  BY DEF n
<1>3. 0 \in T
  <2>1. after[0] = {i}
    BY <1>1, <1>2 DEF After
  <2> QED BY <2>1
<1>4. ASSUME NEW k \in T
      PROVE  k + 1 \in T
  <2> SUFFICES ASSUME k + 1 <= n PROVE after[k + 1] \in SUBSET U
    OBVIOUS
  <2> DEFINE ends == after[k]
             item == pattern[k + 1]
  <2>1. ends \in SUBSET U /\ item \in Item
    BY <1>1
  <2>2. after[k + 1] = MatchItem(text, ends, item)
    <3>1. k + 1 \in 0 .. n /\ k + 1 # 0 /\ (k + 1) - 1 = k
      BY <1>1
    <3> QED BY <1>2, <3>1 DEF After
  <2> HIDE DEF ends, item
  <2>3. 0 \in Nat /\ \A j \in ends : 0 <= j
    <3>1. \A j \in U : 0 <= j
      BY <1>1
    <3> HIDE DEF U
    <3> QED BY <2>1, <3>1
  <2> QED BY <2>1, <2>2, <2>3, MatchItemBounds
<1>5. T \in SUBSET Nat
  OBVIOUS
<1> HIDE DEF T
<1>6. T = Nat
  BY <1>3, <1>4, <1>5, Arithmetic!SetInduction
<1>7. m \in T /\ m <= n
  BY <1>1, <1>6 DEF n
<1> QED BY <1>7 DEF T

LEMMA NeededNeverMissing ==
  ASSUME NEW text \in Seq(Symbols), NEW i \in 1 .. Len(text) + 1, NEW pattern \in Seq(Item),
         NEW s, Needs(pattern, s), \A k \in 1 .. Len(text) : text[k] # s
  PROVE  Ends(text, i, pattern) = {}
<1> DEFINE n == Len(pattern)
<1>1. /\ n \in Nat /\ Len(text) \in Nat
      /\ \A k \in 1 .. n : pattern[k] \in Item
  BY LenProperties, ElementOfSeq
<1> HIDE DEF Symbols
<1>2. PICK after : After(after, text, i, pattern, n) /\ Ends(text, i, pattern) = after[n]
  BY EndsAfter
<1>3. PICK k \in 1 .. n : Takes(pattern[k]) /\ pattern[k].class = {s}
  BY DEF Needs
<1> DEFINE item == pattern[k]
           ends == after[k - 1]
<1>4. k - 1 \in 0 .. n /\ k \in 0 .. n /\ k # 0
  BY <1>1
<1>5. ends \in SUBSET (1 .. Len(text) + 1)
  BY <1>2, <1>4, AfterBounds
<1>6. after[k] = MatchItem(text, ends, item)
  BY <1>2, <1>4 DEF After
<1>7. item \in Item /\ item.min \in Nat /\ item.min >= 1 /\ item.max >= 1 /\ item.class = {s}
  BY <1>1, <1>3 DEF Item, Takes
<1>8. item # Edge
  <2>1. Edge.max = 0
    BY DEF Edge, Runs
  <2> HIDE DEF item
  <2> QED BY <1>7, <2>1
<1> HIDE DEF item, ends, n
<1>9. MatchItem(text, ends, item) = {}
  <2> SUFFICES ASSUME NEW j \in 1 .. Len(text) + 1, NEW p \in ends,
                      p + item.min <= j, \A q \in p .. j - 1 : text[q] \in item.class
               PROVE  FALSE
    BY <1>8 DEF MatchItem
  <2>1. p \in p .. j - 1 /\ p \in 1 .. Len(text)
    <3> DEFINE least == item.min
    <3>1. p \in 1 .. Len(text) + 1 /\ least \in Nat /\ least >= 1 /\ p + least <= j
      BY <1>5, <1>7
    <3> HIDE DEF least
    <3> QED BY <1>1, <3>1
  <2>2. text[p] \in item.class
    BY <2>1
  <2> QED BY <1>7, <2>1, <2>2
<1>10. after[n] = {}
  BY <1>1, <1>2, <1>4, <1>6, <1>9, EmptyStays
<1> QED BY <1>2, <1>10

LEMMA NeedsConcat ==
  ASSUME NEW a \in Seq(Item), NEW b \in Seq(Item), NEW s, Needs(a, s) \/ Needs(b, s)
  PROVE  Needs(a \o b, s)
<1>1. Len(a) \in Nat /\ Len(b) \in Nat
  BY LenProperties
<1>2. /\ Len(a \o b) = Len(a) + Len(b)
      /\ \A i \in 1 .. Len(a) + Len(b) : (a \o b)[i] = IF i <= Len(a) THEN a[i] ELSE b[i - Len(a)]
  BY ConcatProperties
<1> HIDE DEF Takes
<1>3. ASSUME NEW k \in 1 .. Len(a), Takes(a[k]), a[k].class = {s}
      PROVE  Needs(a \o b, s)
  <2>1. k \in 1 .. Len(a) + Len(b) /\ (a \o b)[k] = a[k]
    BY <1>1, <1>2
  <2> QED BY <1>2, <1>3, <2>1 DEF Needs
<1>4. ASSUME NEW k \in 1 .. Len(b), Takes(b[k]), b[k].class = {s}
      PROVE  Needs(a \o b, s)
  <2>1. k + Len(a) \in 1 .. Len(a) + Len(b) /\ ~(k + Len(a) <= Len(a)) /\ k + Len(a) - Len(a) = k
    BY <1>1
  <2>2. (a \o b)[k + Len(a)] = b[k]
    BY <1>2, <2>1
  <2> QED BY <1>2, <1>4, <2>1, <2>2 DEF Needs
<1> QED BY <1>3, <1>4 DEF Needs

LEMMA PathNeeds ==
  ASSUME NEW n \in 1 .. MaxSegments
  PROVE  Needs(FlattenSeq([i \in 1 .. n |-> Segment]) \o <<Runs({"/"}, 0, 1)>>, "/")
<1> DEFINE slash == One({"/"})
           name == Runs(PathChar, 1, AnyLength)
           seqs == [i \in 1 .. n |-> Segment]
           flat == FlattenSeq(seqs)
<1>1. slash \in Item /\ name \in Item /\ Runs({"/"}, 0, 1) \in Item
  BY ItemTypes
<1>2. Takes(slash) /\ slash.class = {"/"}
  BY DEF One, Runs, Takes
<1> HIDE DEF slash, name
<1>3. Segment = <<slash, name>>
  BY DEF Segment, slash, name
<1>4. Segment \in Seq(Item) /\ Segment # << >> /\ Segment[1] = slash
  BY <1>1, <1>3
<1>5. n \in Nat /\ 1 \in 1 .. n
  BY MaxSegmentsAssumption
<1>6. seqs \in Seq(Seq(Item)) /\ Len(seqs) = n /\ seqs[1] = Segment
  <2> HIDE DEF Item
  <2> QED BY <1>4, <1>5
<1>7. seqs # << >>
  BY <1>5, <1>6
<1> HIDE DEF seqs, Item
<1>8. flat \in Seq(Item) /\ flat # << >> /\ flat[1] = slash
  BY <1>4, <1>6, <1>7, FlattenShape, FlattenHead
<1> HIDE DEF flat
<1>9. Needs(flat, "/")
  <2>1. 1 \in 1 .. Len(flat)
    BY <1>8, EmptySeq, LenProperties
  <2> QED BY <1>2, <1>8, <2>1 DEF Needs
<1>10. <<Runs({"/"}, 0, 1)>> \in Seq(Item)
  BY <1>1
<1> QED BY <1>8, <1>9, <1>10, NeedsConcat DEF flat, seqs

\* What a match of each rule cannot do without.
LEMMA RulesNeed ==
  /\ \A pattern \in Ts \cup Uuid : Needs(pattern, "-")
  /\ \A pattern \in Ipv4Port \cup Ipv4 : Needs(pattern, ".")
  /\ \A pattern \in Ipv4Port \cup Port : Needs(pattern, ":")
  /\ \A pattern \in Hex0x : Needs(pattern, "x")
  /\ \A pattern \in Path : Needs(pattern, "/")
  /\ Needs(<<Edge, Digits(1, AnyLength)>> \o Fraction \o <<Edge>>, ".")
<1> DEFINE d1 == Digits(1, AnyLength)
           d2 == Digits(2, 2)
           d4 == Digits(4, 4)
           d5 == Digits(1, 5)
           d25 == Digits(2, 5)
           h4 == Hexes(4, 4)
           h8 == Hexes(8, 8)
           h12 == Hexes(12, 12)
           h1 == Hexes(1, AnyLength)
           zero == One({"zero"})
           x == One({"x"})
<1>1. /\ Takes(Dash) /\ Dash.class = {"-"}
      /\ Takes(Dot) /\ Dot.class = {"."}
      /\ Takes(Colon) /\ Colon.class = {":"}
      /\ Takes(x) /\ x.class = {"x"}
  BY DEF Dash, Dot, Colon, One, Runs, Takes
<1>2. \A item \in {d1, d2, d4, d5, d25, h4, h8, h12, Dash, Dot, Colon, Octet, Edge} : item \in Item
  BY ItemTypes DEF AnyLength
<1> HIDE DEF d1, d2, d4, d5, d25, h4, h8, h12, h1, zero, x, Item, Takes
<1>3. Needs(Date, "-") /\ Date \in Seq(Item)
  <2>1. Date = <<d4, Dash, d2, Dash, d2>>
    BY DEF Date, d4, d2
  <2> QED BY <1>1, <1>2, <2>1 DEF Needs
<1>4. Clock \in Seq(Item) /\ Fraction \in Seq(Item) /\ Offset \in Seq(Item) /\ <<One({"Z"})>> \in Seq(Item)
  <2>1. /\ Clock = <<One({"T", "space"}), d2, Colon, d2, Colon, d2>>
        /\ Fraction = <<Dot, d1>>
        /\ Offset = <<One({"+", "-"}), d2, Runs({":"}, 0, 1), d2>>
    BY DEF Clock, Fraction, Offset, d1, d2
  <2>2. One({"T", "space"}) \in Item /\ One({"+", "-"}) \in Item
        /\ Runs({":"}, 0, 1) \in Item /\ One({"Z"}) \in Item
    BY ItemTypes
  <2> QED BY <1>2, <2>1, <2>2
<1>5. \A pattern \in Ts : Needs(pattern, "-")
  <2> DEFINE fractions == {<< >>, Fraction}
             zones == {<< >>, <<One({"Z"})>>, Offset}
             stamp(fraction, zone) == Date \o Clock \o fraction \o zone
  <2>1. ASSUME NEW fraction \in fractions, NEW zone \in zones
        PROVE  Needs(stamp(fraction, zone), "-")
    <3>1. fraction \in Seq(Item) /\ zone \in Seq(Item)
      <4>1. << >> \in Seq(Item)
        OBVIOUS
      <4> QED BY <1>4, <4>1
    <3>2. Date \o Clock \in Seq(Item)
      BY <1>3, <1>4, ConcatProperties
    <3>3. (Date \o Clock) \o fraction \in Seq(Item)
      BY <3>1, <3>2, ConcatProperties
    <3>4. Needs(Date \o Clock, "-")
      BY <1>3, <1>4, NeedsConcat
    <3>5. Needs((Date \o Clock) \o fraction, "-")
      BY <3>1, <3>2, <3>4, NeedsConcat
    <3> QED BY <3>1, <3>3, <3>5, NeedsConcat
  <2>2. Ts = {Date} \cup {stamp(fraction, zone) : fraction \in fractions, zone \in zones}
    BY DEF Ts
  <2> HIDE DEF fractions, zones, stamp, Needs
  <2> QED BY <1>3, <2>1, <2>2
<1>6. \A pattern \in Uuid : Needs(pattern, "-")
  <2> DEFINE uuid == <<Edge, h8, Dash, h4, Dash, h4, Dash, h4, Dash, h12, Edge>>
  <2>1. Uuid = {uuid}
    BY DEF Uuid, h8, h4, h12
  <2>2. Len(uuid) = 11 /\ uuid[3] = Dash
    OBVIOUS
  <2>3. Needs(uuid, "-")
    BY <1>1, <2>2 DEF Needs
  <2> QED BY <2>1, <2>3
<1>7. Needs(Quad, ".") /\ Quad \in Seq(Item)
  BY <1>1, <1>2 DEF Quad, Needs
<1>8. Needs(<<Edge>> \o Quad, ".") /\ <<Edge>> \o Quad \in Seq(Item)
  <2>1. <<Edge>> \in Seq(Item)
    BY <1>2
  <2> QED BY <1>7, <2>1, NeedsConcat, ConcatProperties
<1>9. \A pattern \in Ipv4Port : Needs(pattern, ".") /\ Needs(pattern, ":")
  <2>1. <<Colon, d5, Edge>> \in Seq(Item)
    BY <1>2
  <2>2. Needs(<<Colon, d5, Edge>>, ":")
    BY <1>1 DEF Needs
  <2>3. Ipv4Port = {(<<Edge>> \o Quad) \o <<Colon, d5, Edge>>}
    BY DEF Ipv4Port, d5
  <2> QED BY <1>8, <2>1, <2>2, <2>3, NeedsConcat
<1>10. \A pattern \in Ipv4 : Needs(pattern, ".")
  <2>1. <<Edge>> \in Seq(Item)
    BY <1>2
  <2> QED BY <1>8, <2>1, NeedsConcat DEF Ipv4
<1>11. \A pattern \in Port : Needs(pattern, ":")
  <2> DEFINE pattern == <<Colon, d25, Edge>>
  <2>1. Port = {pattern}
    BY DEF Port, d25
  <2>2. Needs(pattern, ":")
    BY <1>1 DEF Needs
  <2> QED BY <2>1, <2>2
<1>12. \A pattern \in Hex0x : Needs(pattern, "x")
  <2> DEFINE pattern == <<Edge, zero, x, h1, Edge>>
  <2>1. Hex0x = {pattern}
    BY DEF Hex0x, zero, x, h1
  <2>2. Len(pattern) = 5 /\ pattern[3] = x
    OBVIOUS
  <2>3. Needs(pattern, "x")
    BY <1>1, <2>2 DEF Needs
  <2> QED BY <2>1, <2>3
<1>13. \A pattern \in Path : Needs(pattern, "/")
  BY PathNeeds DEF Path
<1>14. Needs((<<Edge, d1>> \o Fraction) \o <<Edge>>, ".")
  <2>1. <<Edge>> \in Seq(Item) /\ <<Edge, d1>> \in Seq(Item)
    BY <1>2
  <2>2. Needs(Fraction, ".")
    <3>1. Fraction = <<Dot, d1>>
      BY DEF Fraction, d1
    <3> QED BY <1>1, <3>1 DEF Needs
  <2>3. Needs(<<Edge, d1>> \o Fraction, ".") /\ <<Edge, d1>> \o Fraction \in Seq(Item)
    BY <1>4, <2>1, <2>2, NeedsConcat, ConcatProperties
  <2> QED BY <2>1, <2>3, NeedsConcat
<1> QED BY <1>5, <1>6, <1>9, <1>10, <1>11, <1>12, <1>13, <1>14 DEF d1

\* Where patterns match in a text that is one word.

LEMMA EdgeOfWord ==
  ASSUME NEW text \in Seq(Word), text # << >>, NEW ends \in SUBSET (1 .. Len(text) + 1)
  PROVE  MatchItem(text, ends, Edge) = ends \cap {1, Len(text) + 1}
<1> DEFINE n == Len(text)
<1>1. n \in Nat /\ n # 0 /\ DOMAIN text = 1 .. n /\ \A k \in 1 .. n : text[k] \in Word
  BY LenProperties, ElementOfSeq, EmptySeq
<1> HIDE DEF n, Word
<1>2. \A j \in Int : IsWord(text, j) <=> j \in 1 .. n
  BY <1>1 DEF IsWord
<1>3. \A j \in 1 .. n + 1 : (IsWord(text, j - 1) # IsWord(text, j)) <=> (j = 1 \/ j = n + 1)
  <2> SUFFICES ASSUME NEW j \in 1 .. n + 1
               PROVE  (IsWord(text, j - 1) # IsWord(text, j)) <=> (j = 1 \/ j = n + 1)
    OBVIOUS
  <2>1. IsWord(text, j - 1) <=> j # 1
    BY <1>1, <1>2
  <2>2. IsWord(text, j) <=> j # n + 1
    BY <1>1, <1>2
  <2>3. ~(j = 1 /\ j = n + 1)
    BY <1>1
  <2>4. IsWord(text, j - 1) \in BOOLEAN /\ IsWord(text, j) \in BOOLEAN
    BY DEF IsWord
  <2> HIDE DEF IsWord
  <2> QED BY <2>1, <2>2, <2>3, <2>4
<1>4. MatchItem(text, ends, Edge) = {j \in ends : IsWord(text, j - 1) # IsWord(text, j)}
  BY DEF MatchItem
<1>5. ends \in SUBSET (1 .. n + 1)
  BY DEF n
<1> HIDE DEF IsWord
<1>6. {j \in ends : IsWord(text, j - 1) # IsWord(text, j)} = ends \cap {1, n + 1}
  BY <1>3, <1>5
<1> QED BY <1>4, <1>6 DEF n

LEMMA RunFrom ==
  ASSUME NEW text, NEW p \in Nat, NEW class, NEW min \in Nat, NEW max \in Nat, max # 0
  PROVE  \A j : j \in MatchItem(text, {p}, Runs(class, min, max)) <=>
               /\ j \in 1 .. Len(text) + 1
               /\ p + min <= j /\ (max = AnyLength \/ j <= p + max)
               /\ \A k \in p .. j - 1 : text[k] \in class
<1>1. Runs(class, min, max) # Edge
  <2>1. Runs(class, min, max).max # Edge.max
    BY DEF Runs, Edge
  <2> QED BY <2>1
<1>2. /\ Runs(class, min, max).class = class
      /\ Runs(class, min, max).min = min
      /\ Runs(class, min, max).max = max
  BY DEF Runs
<1> DEFINE item == Runs(class, min, max)
<1> HIDE DEF item
<1>3. \A j : j \in MatchItem(text, {p}, item) <=>
            /\ j \in 1 .. Len(text) + 1
            /\ p + item.min <= j /\ (item.max = AnyLength \/ j <= p + item.max)
            /\ \A k \in p .. j - 1 : text[k] \in item.class
  BY <1>1 DEF MatchItem, item
<1> QED BY <1>2, <1>3 DEF item

LEMMA OneFrom ==
  ASSUME NEW text \in Seq(Word), NEW p \in 1 .. Len(text) + 1, NEW class
  PROVE  MatchItem(text, {p}, One(class))
           = IF p <= Len(text) /\ text[p] \in class THEN {p + 1} ELSE {}
<1> DEFINE n == Len(text)
<1>1. n \in Nat
  BY LenProperties
<1> DEFINE reached == MatchItem(text, {p}, One(class))
<1>2. \A j : j \in reached <=>
            /\ j \in 1 .. n + 1
            /\ p + 1 <= j /\ j <= p + 1
            /\ \A k \in p .. j - 1 : text[k] \in class
  <2>1. 1 \in Nat /\ 1 # 0 /\ p \in Nat
    BY <1>1
  <2>2. One(class) = Runs(class, 1, 1)
    BY DEF One
  <2>3. 1 # AnyLength
    BY DEF AnyLength
  <2> HIDE DEF Word
  <2> QED BY <2>1, <2>2, <2>3, RunFrom
<1> HIDE DEF n, reached
<1>3. p \in 1 .. n + 1
  BY DEF n
<1>4. \A j \in 1 .. n + 1 : p + 1 <= j /\ j <= p + 1 <=> j = p + 1
  BY <1>1, <1>3
<1>5. \A k : k \in p .. (p + 1) - 1 <=> k = p
  BY <1>1, <1>3
<1>6. p + 1 \in 1 .. n + 1 <=> p <= n
  BY <1>1, <1>3
<1>7. \A j : j \in reached <=> j = p + 1 /\ p <= n /\ text[p] \in class
  BY <1>2, <1>4, <1>5, <1>6
<1>8. reached = IF p <= n /\ text[p] \in class THEN {p + 1} ELSE {}
  BY <1>7
<1> QED BY <1>8 DEF n, reached

LEMMA EndsOfThree ==
  ASSUME NEW text, NEW i, NEW a \in Item, NEW b \in Item, NEW c \in Item
  PROVE  Ends(text, i, <<a, b, c>>)
           = MatchItem(text, MatchItem(text, MatchItem(text, {i}, a), b), c)
<1> DEFINE pattern == <<a, b, c>>
<1> HIDE DEF Item
<1>1. pattern \in Seq(Item) /\ Len(pattern) = 3
      /\ pattern[1] = a /\ pattern[2] = b /\ pattern[3] = c
  OBVIOUS
<1> HIDE DEF pattern
<1>2. PICK after : After(after, text, i, pattern, 3) /\ Ends(text, i, pattern) = after[3]
  BY <1>1, EndsAfter
<1>3. /\ after[0] = {i}
      /\ after[1] = MatchItem(text, after[0], a)
      /\ after[2] = MatchItem(text, after[1], b)
      /\ after[3] = MatchItem(text, after[2], c)
  <2>1. \A k \in 0 .. 3 : after[k] = IF k = 0 THEN {i} ELSE MatchItem(text, after[k - 1], pattern[k])
    BY <1>2 DEF After
  <2>2. 1 - 1 = 0 /\ 2 - 1 = 1 /\ 3 - 1 = 2
    OBVIOUS
  <2>3. 0 \in 0 .. 3 /\ 1 \in 0 .. 3 /\ 2 \in 0 .. 3 /\ 3 \in 0 .. 3
    OBVIOUS
  <2> QED BY <1>1, <2>1, <2>2, <2>3
<1> QED BY <1>2, <1>3 DEF pattern

\* A run between two word boundaries takes the whole word or nothing.
LEMMA WholeWord ==
  ASSUME NEW text \in Seq(Word), text # << >>,
         NEW class \in SUBSET Maskable, NEW min \in Nat \ {0}
  PROVE  Ends(text, 1, <<Edge, Runs(class, min, AnyLength), Edge>>)
           = IF min <= Len(text) /\ \A k \in 1 .. Len(text) : text[k] \in class
               THEN {Len(text) + 1} ELSE {}
<1> DEFINE n == Len(text)
           run == Runs(class, min, AnyLength)
           whole == min <= n /\ \A k \in 1 .. n : text[k] \in class
<1>1. /\ n \in Nat /\ n >= 1 /\ AnyLength \in Nat /\ AnyLength # 0
      /\ min \in Nat /\ min >= 1
  BY LenProperties, EmptySeq DEF AnyLength
<1>2. Edge \in Item /\ run \in Item
  <2>1. run \in Item
    BY <1>1 DEF Runs, Item
  <2> QED BY <2>1, ItemTypes
<1> DEFINE reached == MatchItem(text, {1}, run)
<1>3. \A j : j \in reached <=>
            /\ j \in 1 .. n + 1
            /\ 1 + min <= j
            /\ \A k \in 1 .. j - 1 : text[k] \in class
  BY <1>1, RunFrom
<1> HIDE DEF n, run, reached, AnyLength, Maskable, Word
<1>4. Ends(text, 1, <<Edge, run, Edge>>)
        = MatchItem(text, MatchItem(text, MatchItem(text, {1}, Edge), run), Edge)
  BY <1>2, EndsOfThree
<1>5. MatchItem(text, {1}, Edge) = {1}
  <2>1. {1} \in SUBSET (1 .. Len(text) + 1)
    BY <1>1 DEF n
  <2>2. MatchItem(text, {1}, Edge) = {1} \cap {1, Len(text) + 1}
    BY <1>1, <2>1, EdgeOfWord
  <2> QED BY <2>2
<1>6. MatchItem(text, reached, Edge) = reached \cap {1, n + 1}
  <2>1. reached \in SUBSET (1 .. Len(text) + 1)
    BY <1>3 DEF n
  <2> QED BY <1>1, <2>1, EdgeOfWord DEF n
<1>7. 1 \notin reached
  BY <1>1, <1>3
<1>8. n + 1 \in reached <=> whole
  <2>1. /\ n + 1 \in 1 .. n + 1 /\ (n + 1) - 1 = n
        /\ (1 + min <= n + 1 <=> min <= n)
    BY <1>1
  <2> QED BY <1>3, <2>1
<1> HIDE DEF whole
<1>9. reached \cap {1, n + 1} = IF whole THEN {n + 1} ELSE {}
  BY <1>7, <1>8
<1>10. Ends(text, 1, <<Edge, run, Edge>>) = IF whole THEN {n + 1} ELSE {}
  BY <1>4, <1>5, <1>6, <1>9 DEF reached
<1> QED BY <1>10 DEF n, run, whole

LEMMA EndsOfFive ==
  ASSUME NEW text, NEW i, NEW a \in Item, NEW b \in Item, NEW c \in Item, NEW d \in Item, NEW e \in Item
  PROVE  Ends(text, i, <<a, b, c, d, e>>)
           = MatchItem(text, MatchItem(text, MatchItem(text,
               MatchItem(text, MatchItem(text, {i}, a), b), c), d), e)
<1> DEFINE pattern == <<a, b, c, d, e>>
<1> HIDE DEF Item
<1>1. pattern \in Seq(Item) /\ Len(pattern) = 5
      /\ pattern[1] = a /\ pattern[2] = b /\ pattern[3] = c /\ pattern[4] = d /\ pattern[5] = e
  OBVIOUS
<1> HIDE DEF pattern
<1>2. PICK after : After(after, text, i, pattern, 5) /\ Ends(text, i, pattern) = after[5]
  BY <1>1, EndsAfter
<1>3. /\ after[0] = {i}
      /\ after[1] = MatchItem(text, after[0], a)
      /\ after[2] = MatchItem(text, after[1], b)
      /\ after[3] = MatchItem(text, after[2], c)
      /\ after[4] = MatchItem(text, after[3], d)
      /\ after[5] = MatchItem(text, after[4], e)
  <2>1. \A k \in 0 .. 5 : after[k] = IF k = 0 THEN {i} ELSE MatchItem(text, after[k - 1], pattern[k])
    BY <1>2 DEF After
  <2>2. 1 - 1 = 0 /\ 2 - 1 = 1 /\ 3 - 1 = 2 /\ 4 - 1 = 3 /\ 5 - 1 = 4
    OBVIOUS
  <2>3. 0 \in 0 .. 5 /\ 1 \in 0 .. 5 /\ 2 \in 0 .. 5 /\ 3 \in 0 .. 5 /\ 4 \in 0 .. 5 /\ 5 \in 0 .. 5
    OBVIOUS
  <2> QED BY <1>1, <2>1, <2>2, <2>3
<1> QED BY <1>2, <1>3 DEF pattern

\* The values that are one word, and what they become.
IsHash(text) == Len(text) >= 16 /\ \A k \in 1 .. Len(text) : text[k] \in HexDigit
IsHex0x(text) ==
  /\ Len(text) >= 3 /\ text[1] = "zero" /\ text[2] = "x"
  /\ \A k \in 3 .. Len(text) : text[k] \in HexDigit
IsNumber(text) == \A k \in 1 .. Len(text) : text[k] \in Digit

LEMMA PrefixedWord ==
  ASSUME NEW text \in Seq(Word), text # << >>
  PROVE  Ends(text, 1, <<Edge, One({"zero"}), One({"x"}), Hexes(1, AnyLength), Edge>>)
           = IF IsHex0x(text) THEN {Len(text) + 1} ELSE {}
<1> DEFINE n == Len(text)
           zero == One({"zero"})
           x == One({"x"})
           run == Hexes(1, AnyLength)
           behind == MatchItem(text, {3}, run)
           pattern == <<Edge, zero, x, run, Edge>>
<1>0. AnyLength = 64
  BY DEF AnyLength
<1>1. n \in Nat /\ n >= 1
  BY LenProperties, EmptySeq
<1>2. Edge \in Item /\ zero \in Item /\ x \in Item /\ run \in Item
  BY <1>0, ItemTypes
<1>3. \A j : j \in behind <=>
            /\ j \in 1 .. n + 1
            /\ 3 + 1 <= j
            /\ \A k \in 3 .. j - 1 : text[k] \in HexDigit
  <2> DEFINE min == 1
             p == 3
  <2>1. p \in Nat /\ min \in Nat /\ AnyLength \in Nat /\ AnyLength # 0
    BY <1>0
  <2> HIDE DEF min, p, HexDigit, Word, AnyLength
  <2>2. \A j : j \in MatchItem(text, {p}, Runs(HexDigit, min, AnyLength)) <=>
              /\ j \in 1 .. Len(text) + 1
              /\ p + min <= j
              /\ \A k \in p .. j - 1 : text[k] \in HexDigit
    BY <2>1, RunFrom
  <2>3. behind = MatchItem(text, {p}, Runs(HexDigit, min, AnyLength))
    BY DEF Hexes, p, min
  <2> HIDE DEF behind
  <2> QED BY <2>2, <2>3 DEF p, min
<1>4. \A p \in 1 .. n + 1 :
        /\ MatchItem(text, {p}, zero) = IF p <= n /\ text[p] \in {"zero"} THEN {p + 1} ELSE {}
        /\ MatchItem(text, {p}, x) = IF p <= n /\ text[p] \in {"x"} THEN {p + 1} ELSE {}
  <2> HIDE DEF Word
  <2> QED BY OneFrom
<1>5. \A ends \in SUBSET (1 .. n + 1) : MatchItem(text, ends, Edge) = ends \cap {1, n + 1}
  <2> HIDE DEF Word
  <2> QED BY <1>1, EdgeOfWord
<1>6. Ends(text, 1, pattern)
        = MatchItem(text, MatchItem(text, MatchItem(text,
            MatchItem(text, MatchItem(text, {1}, Edge), zero), x), run), Edge)
  BY <1>2, EndsOfFive
<1>7. \A item : MatchItem(text, {}, item) = {}
  BY DEF MatchItem
<1> HIDE DEF n, zero, x, run, behind, pattern, HexDigit, Word, AnyLength
<1>8. MatchItem(text, {1}, Edge) = {1}
  <2>1. {1} \in SUBSET (1 .. n + 1) /\ {1} \cap {1, n + 1} = {1}
    BY <1>1
  <2> QED BY <1>5, <2>1
<1>9. MatchItem(text, {1}, zero) = IF text[1] = "zero" THEN {2} ELSE {}
  <2>1. 1 \in 1 .. n + 1 /\ 1 <= n /\ 1 + 1 = 2
    BY <1>1
  <2> QED BY <1>4, <2>1
<1>10. MatchItem(text, {2}, x) = IF 2 <= n /\ text[2] = "x" THEN {3} ELSE {}
  <2>1. 2 \in 1 .. n + 1 /\ 2 + 1 = 3
    BY <1>1
  <2> QED BY <1>4, <2>1
<1>11. ASSUME 2 <= n
       PROVE  MatchItem(text, behind, Edge)
                = IF n >= 3 /\ \A k \in 3 .. n : text[k] \in HexDigit THEN {n + 1} ELSE {}
  <2>1. behind \in SUBSET (1 .. n + 1) /\ 1 \notin behind
    BY <1>3
  <2>2. MatchItem(text, behind, Edge) = behind \cap {1, n + 1}
    BY <1>5, <2>1
  <2>3. n + 1 \in behind <=> n >= 3 /\ \A k \in 3 .. n : text[k] \in HexDigit
    <3>1. /\ n + 1 \in 1 .. n + 1 /\ (n + 1) - 1 = n
          /\ (3 + 1 <= n + 1 <=> n >= 3)
      BY <1>1
    <3> QED BY <1>3, <3>1
  <2> QED BY <2>1, <2>2, <2>3
<1>12. Ends(text, 1, pattern) = IF IsHex0x(text) THEN {n + 1} ELSE {}
  <2>1. IsHex0x(text) <=> /\ n >= 3 /\ text[1] = "zero" /\ text[2] = "x"
                          /\ \A k \in 3 .. n : text[k] \in HexDigit
    BY DEF IsHex0x, n
  <2>2. CASE text[1] # "zero"
    BY <1>6, <1>7, <1>8, <1>9, <2>1, <2>2
  <2>3. CASE text[1] = "zero" /\ ~(2 <= n /\ text[2] = "x")
    <3>1. n >= 3 => 2 <= n
      BY <1>1
    <3> QED BY <1>6, <1>7, <1>8, <1>9, <1>10, <2>1, <2>3, <3>1
  <2>4. CASE text[1] = "zero" /\ 2 <= n /\ text[2] = "x"
    <3>1. Ends(text, 1, pattern) = MatchItem(text, behind, Edge)
      BY <1>6, <1>8, <1>9, <1>10, <2>4 DEF behind
    <3> QED BY <1>11, <2>1, <2>4, <3>1
  <2> QED BY <2>2, <2>3, <2>4
<1> QED BY <1>12 DEF n, zero, x, run, pattern

\* Inside a word no rule matches: those left start at a word boundary.
LEMMA InsideWord ==
  ASSUME NEW text \in Seq(Word), text # << >>, NEW i \in 2 .. Len(text), NEW pattern \in Seq(Item),
         pattern # << >>, pattern[1] = Edge
  PROVE  Ends(text, i, pattern) = {}
<1> DEFINE n == Len(pattern)
<1>1. n \in Nat /\ n # 0 /\ Len(text) \in Nat
  BY LenProperties, EmptySeq
<1>2. PICK after : After(after, text, i, pattern, n) /\ Ends(text, i, pattern) = after[n]
  BY EndsAfter
<1> HIDE DEF n, Word
<1>3. after[0] = {i} /\ after[1] = MatchItem(text, after[0], Edge)
  <2>1. 0 \in 0 .. n /\ 1 \in 0 .. n /\ 1 # 0 /\ 1 - 1 = 0
    BY <1>1
  <2> QED BY <1>2, <2>1 DEF After
<1>4. {i} \in SUBSET (1 .. Len(text) + 1) /\ i # 1 /\ i # Len(text) + 1
  BY <1>1
<1>5. MatchItem(text, {i}, Edge) = {i} \cap {1, Len(text) + 1}
  BY <1>4, EdgeOfWord
<1>6. after[1] = {} /\ 1 \in 0 .. n
  <2>1. {i} \cap {1, Len(text) + 1} = {}
    BY <1>4
  <2>2. 1 \in 0 .. n
    BY <1>1
  <2> QED BY <1>3, <1>5, <2>1, <2>2
<1>7. after[n] = {}
  BY <1>1, <1>2, <1>6, EmptyStays
<1> QED BY <1>2, <1>7

LEMMA RulesAre ==
  /\ DOMAIN Rules = 1 .. 9
  /\ Rules[1].patterns = Ts /\ Rules[2].patterns = Uuid /\ Rules[3].patterns = Ipv4Port
  /\ Rules[4].patterns = Ipv4 /\ Rules[5].patterns = Port /\ Rules[6].patterns = Hex0x
  /\ Rules[7].patterns = HexLong /\ Rules[8].patterns = Path /\ Rules[9].patterns = Num
  /\ Rules[6].tags = <<"<HEX>">> /\ Rules[7].tags = <<"<HEX>">> /\ Rules[9].tags = <<"<NUM>">>
BY DEF Rules, Rule

\* The whole alternation, on a text that is one word.
LEMMA RuleEndsOfWord ==
  ASSUME NEW text \in Seq(Word), text # << >>
  PROVE  /\ \A k \in {1, 2, 3, 4, 5, 8} : RuleEnds(text, 1, Rules[k]) = {}
         /\ RuleEnds(text, 1, Rules[6]) = IF IsHex0x(text) THEN {Len(text) + 1} ELSE {}
         /\ RuleEnds(text, 1, Rules[7]) = IF IsHash(text) THEN {Len(text) + 1} ELSE {}
         /\ RuleEnds(text, 1, Rules[9]) = IF IsNumber(text) THEN {Len(text) + 1} ELSE {}
         /\ \A i \in 2 .. Len(text), k \in 1 .. 9 : RuleEnds(text, i, Rules[k]) = {}
<1> DEFINE n == Len(text)
           prefixed == <<Edge, One({"zero"}), One({"x"}), Hexes(1, AnyLength), Edge>>
           long == <<Edge, Hexes(16, AnyLength), Edge>>
           number == <<Edge, Digits(1, AnyLength), Edge>>
           fractional == <<Edge, Digits(1, AnyLength)>> \o Fraction \o <<Edge>>
<1>1. n \in Nat /\ n >= 1 /\ 1 \in 1 .. n + 1 /\ text # << >>
  BY LenProperties, EmptySeq
<1>2. Hex0x = {prefixed} /\ HexLong = {long} /\ Num = {number, fractional}
  BY DEF Hex0x, HexLong, Num
<1>3. \A k \in 1 .. 9 : \A pattern \in Rules[k].patterns : pattern \in Seq(Item)
  BY RulesAre, RulePatterns DEF Whole
<1>4. /\ prefixed # << >> /\ prefixed[1] = Edge
      /\ long # << >> /\ long[1] = Edge
      /\ number # << >> /\ number[1] = Edge
  OBVIOUS
<1>5. Ends(text, 1, long) = IF IsHash(text) THEN {n + 1} ELSE {}
  <2>1. HexDigit \in SUBSET Maskable /\ 16 \in Nat \ {0}
    BY DEF Maskable, PathChar, Word
  <2>2. Ends(text, 1, <<Edge, Runs(HexDigit, 16, AnyLength), Edge>>)
          = IF 16 <= n /\ \A k \in 1 .. n : text[k] \in HexDigit THEN {n + 1} ELSE {}
    <3> HIDE DEF HexDigit, Maskable, AnyLength, Word
    <3> QED BY <2>1, WholeWord
  <2>3. IsHash(text) <=> 16 <= n /\ \A k \in 1 .. n : text[k] \in HexDigit
    BY <1>1 DEF IsHash
  <2> QED BY <2>2, <2>3 DEF Hexes
<1>6. Ends(text, 1, number) = IF IsNumber(text) THEN {n + 1} ELSE {}
  <2>1. Digit \in SUBSET Maskable /\ 1 \in Nat \ {0}
    BY DEF Maskable, PathChar, Word, HexDigit
  <2>2. Ends(text, 1, <<Edge, Runs(Digit, 1, AnyLength), Edge>>)
          = IF 1 <= n /\ \A k \in 1 .. n : text[k] \in Digit THEN {n + 1} ELSE {}
    <3> HIDE DEF Digit, Maskable, AnyLength, Word
    <3> QED BY <2>1, WholeWord
  <2>3. 1 <= n
    BY <1>1
  <2> QED BY <2>2, <2>3 DEF Digits, IsNumber
<1>7. Ends(text, 1, prefixed) = IF IsHex0x(text) THEN {n + 1} ELSE {}
  BY PrefixedWord
<1> HIDE DEF n, prefixed, long, number, fractional, Word, AnyLength, Item
<1>8. ASSUME NEW pattern \in Seq(Item), NEW s \in {"-", ".", ":", "/"}, Needs(pattern, s),
             NEW i \in 1 .. n + 1
      PROVE  Ends(text, i, pattern) = {}
  <2>1. text \in Seq(Symbols) /\ \A j \in 1 .. Len(text) : text[j] # s
    <3>1. Word \subseteq Symbols /\ s \notin Word
      BY DEF Symbols, PathChar, Word, HexDigit, Digit
    <3> HIDE DEF Symbols
    <3> QED BY <3>1, SeqMonotonic, ElementOfSeq
  <2> QED BY <1>8, <2>1, NeededNeverMissing DEF n
<1>9. ASSUME NEW i \in 1 .. n + 1, NEW k \in {1, 2, 3, 4, 5, 8}
      PROVE  RuleEnds(text, i, Rules[k]) = {}
  <2>1. k \in 1 .. 9 /\ \A pattern \in Rules[k].patterns : \E s \in {"-", ".", ":", "/"} : Needs(pattern, s)
    <3> HIDE DEF Needs
    <3> QED BY RulesAre, RulesNeed
  <2>2. \A pattern \in Rules[k].patterns : Ends(text, i, pattern) = {}
    BY <1>3, <1>8, <2>1
  <2> QED BY <2>2 DEF RuleEnds
<1>10. \A i \in 1 .. n + 1 : Ends(text, i, fractional) = {}
  <2>1. fractional \in Seq(Item)
    <3>1. fractional \in Rules[9].patterns /\ 9 \in 1 .. 9
      BY <1>2, RulesAre
    <3> QED BY <1>3, <3>1
  <2>2. Needs(fractional, ".")
    BY RulesNeed DEF fractional
  <2> QED BY <1>8, <2>1, <2>2
<1>11. /\ RuleEnds(text, 1, Rules[6]) = Ends(text, 1, prefixed)
       /\ RuleEnds(text, 1, Rules[7]) = Ends(text, 1, long)
       /\ RuleEnds(text, 1, Rules[9]) = Ends(text, 1, number)
  <2>1. /\ RuleEnds(text, 1, Rules[6]) = UNION {Ends(text, 1, pattern) : pattern \in {prefixed}}
        /\ RuleEnds(text, 1, Rules[7]) = UNION {Ends(text, 1, pattern) : pattern \in {long}}
        /\ RuleEnds(text, 1, Rules[9]) = UNION {Ends(text, 1, pattern) : pattern \in {number, fractional}}
    BY <1>2, RulesAre DEF RuleEnds
  <2>2. Ends(text, 1, fractional) = {}
    BY <1>1, <1>10
  <2>3. \A a : UNION {Ends(text, 1, pattern) : pattern \in {a}} = Ends(text, 1, a)
    OBVIOUS
  <2>4. UNION {Ends(text, 1, pattern) : pattern \in {number, fractional}}
          = Ends(text, 1, number) \cup Ends(text, 1, fractional)
    OBVIOUS
  <2> QED BY <2>1, <2>2, <2>3, <2>4
<1>12. ASSUME NEW i \in 2 .. n, NEW k \in 1 .. 9
       PROVE  RuleEnds(text, i, Rules[k]) = {}
  <2>1. i \in 1 .. n + 1
    BY <1>1
  <2>2. CASE k \in {1, 2, 3, 4, 5, 8}
    BY <1>9, <2>1, <2>2
  <2>3. CASE k \in {6, 7, 9}
    <3>1. ASSUME NEW pattern \in {prefixed, long, number}
          PROVE  Ends(text, i, pattern) = {}
      <4>1. prefixed \in Rules[6].patterns /\ long \in Rules[7].patterns /\ number \in Rules[9].patterns
        BY <1>2, RulesAre
      <4>2. 6 \in 1 .. 9 /\ 7 \in 1 .. 9 /\ 9 \in 1 .. 9
        OBVIOUS
      <4>3. pattern \in Seq(Item)
        BY <1>3, <4>1, <4>2
      <4>4. pattern # << >> /\ pattern[1] = Edge
        BY <1>4
      <4>5. i \in 2 .. Len(text)
        BY DEF n
      <4> QED BY <1>1, <4>3, <4>4, <4>5, InsideWord
    <3>2. Rules[k].patterns \subseteq {prefixed, long, number, fractional}
      BY <1>2, <2>3, RulesAre
    <3>3. \A pattern \in Rules[k].patterns : Ends(text, i, pattern) = {}
      BY <1>10, <2>1, <3>1, <3>2
    <3> QED BY <3>3 DEF RuleEnds
  <2>4. k \in {1, 2, 3, 4, 5, 8} \/ k \in {6, 7, 9}
    OBVIOUS
  <2> QED BY <2>2, <2>3, <2>4
<1>13. \A k \in {1, 2, 3, 4, 5, 8} : RuleEnds(text, 1, Rules[k]) = {}
  BY <1>1, <1>9
<1> QED BY <1>5, <1>6, <1>7, <1>11, <1>12, <1>13 DEF n

LEMMA UnmatchedStays ==
  ASSUME NEW text \in Seq(Symbols), \A i \in 1 .. Len(text) : Matching(text, i) = {}
  PROVE  Masked(text) = text
<1> DEFINE n == Len(text)
           g == [i \in 1 .. n + 1 |-> SubSeq(text, i, n)]
<1>1. n \in Nat
  BY LenProperties
<1>2. Symbols \in SUBSET Symbols /\ Given \subseteq Symbols
  BY DEF Given, Symbols
<1> HIDE DEF Symbols, Given
<1>3. g[n + 1] = << >>
  <2>1. n + 1 \in 1 .. n + 1 /\ n + 1 \in Int /\ n \in Int /\ n < n + 1
    BY <1>1
  <2>2. SubSeq(text, n + 1, n) = << >>
    BY <2>1, SubSeqEmpty
  <2> QED BY <2>1, <2>2
<1>4. ASSUME NEW i \in 1 .. n
      PROVE  g[i] = Emits(text, i) \o g[GoesOn(text, i)]
  <2>1. Emits(text, i) = <<text[i]>> /\ GoesOn(text, i) = i + 1
    BY DEF Emits, GoesOn
  <2>2. i \in 1 .. n + 1 /\ i + 1 \in 1 .. n + 1 /\ n \in i .. n
    BY <1>1
  <2>3. SubSeq(text, i, n) = <<text[i]>> \o SubSeq(text, i + 1, n)
    BY <2>2, SubSeqRecursiveFirst
  <2> QED BY <2>1, <2>2, <2>3
<1>5. Walks(g, text)
  <2>1. \A i \in 1 .. n + 1 : IF i > n THEN i = n + 1 ELSE i \in 1 .. n
    BY <1>1
  <2>2. g = [i \in 1 .. n + 1 |-> g[i]]
    OBVIOUS
  <2> HIDE DEF g, n
  <2>3. \A i \in 1 .. n + 1 : g[i] = IF i > n THEN << >> ELSE Emits(text, i) \o g[GoesOn(text, i)]
    BY <1>3, <1>4, <2>1
  <2>4. g = [i \in 1 .. n + 1 |-> IF i > n THEN << >> ELSE Emits(text, i) \o g[GoesOn(text, i)]]
    BY <2>2, <2>3
  <2> QED BY <2>4 DEF Walks, n
<1>6. Masked(text) = g[1]
  <2> HIDE DEF g
  <2> QED BY <1>2, <1>5, MaskedWalks
<1>7. g[1] = SubSeq(text, 1, n)
  <2>1. 1 \in 1 .. n + 1
    BY <1>1
  <2> QED BY <2>1
<1>8. SubSeq(text, 1, n) = text
  BY SubSeqFull
<1> QED BY <1>6, <1>7, <1>8

LEMMA LeastRule ==
  ASSUME NEW text, NEW i, Matching(text, i) # {}
  PROVE  \A k \in Matching(text, i) : Min(Matching(text, i)) <= k
<1> DEFINE matching == Matching(text, i)
<1>1. matching \in SUBSET Nat /\ matching # {}
  BY RulesAre DEF Matching
<1> HIDE DEF matching
<1>2. PICK m \in matching : \A k \in matching : m <= k
  BY <1>1, Arithmetic!LeastExists
<1>3. \A k \in matching : Min(matching) <= k
  BY <1>2 DEF Min
<1> QED BY <1>3 DEF matching

\* Values that stand alone: what one rule takes from end to end.

\* How a match came about: where each of its items ended.
Steps(item, text, p, q) ==
  IF item = Edge THEN q = p
  ELSE /\ p + item.min <= q /\ (item.max = AnyLength \/ q <= p + item.max)
       /\ \A m \in p .. q - 1 : text[m] \in item.class
Trail(trail, text, i, pattern, n) ==
  /\ trail[0] = i
  /\ \A k \in 0 .. n : trail[k] \in 1 .. Len(text) + 1
  /\ \A k \in 1 .. n : Steps(pattern[k], text, trail[k - 1], trail[k])

LEMMA TrailExists ==
  ASSUME NEW text \in Seq(Symbols), NEW i \in 1 .. Len(text) + 1, NEW pattern \in Seq(Item),
         NEW e \in Ends(text, i, pattern)
  PROVE  \E trail : Trail(trail, text, i, pattern, Len(pattern)) /\ trail[Len(pattern)] = e
<1> DEFINE n == Len(pattern)
           U == 1 .. Len(text) + 1
<1>1. n \in Nat
  BY LenProperties
<1>2. PICK after : After(after, text, i, pattern, n) /\ Ends(text, i, pattern) = after[n]
  BY EndsAfter
<1>3. \A k \in 0 .. n : after[k] \in SUBSET U
  BY <1>2, AfterBounds
<1> HIDE DEF n, U, Item, Symbols
<1> DEFINE Reached(k) == \A q \in after[k] :
                           \E trail : Trail(trail, text, i, pattern, k) /\ trail[k] = q
           T == {k \in Nat : k <= n => Reached(k)}
<1>4. 0 \in T
  <2> SUFFICES ASSUME NEW q \in after[0]
               PROVE  \E trail : Trail(trail, text, i, pattern, 0) /\ trail[0] = q
    OBVIOUS
  <2>1. q = i
    BY <1>1, <1>2 DEF After
  <2> DEFINE trail == [m \in {0} |-> i]
  <2>2. trail[0] = i /\ \A k \in 0 .. 0 : k = 0
    OBVIOUS
  <2> HIDE DEF trail
  <2>3. Trail(trail, text, i, pattern, 0)
    BY <2>2 DEF Trail
  <2> QED BY <2>1, <2>2, <2>3
<1>5. ASSUME NEW k \in T
      PROVE  k + 1 \in T
  <2> SUFFICES ASSUME k + 1 <= n, NEW q \in after[k + 1]
               PROVE  \E trail : Trail(trail, text, i, pattern, k + 1) /\ trail[k + 1] = q
    OBVIOUS
  <2>1. k \in 0 .. n /\ k + 1 \in 0 .. n /\ k + 1 # 0 /\ (k + 1) - 1 = k
    BY <1>1
  <2> DEFINE item == pattern[k + 1]
             ends == after[k]
  <2>2. after[k + 1] = MatchItem(text, ends, item)
    BY <1>2, <2>1 DEF After
  <2> HIDE DEF item, ends
  <2>3. PICK p \in ends : Steps(item, text, p, q)
    <3>1. q \in MatchItem(text, ends, item)
      BY <2>2
    <3>2. CASE item = Edge
      BY <3>1, <3>2 DEF MatchItem, Steps
    <3>3. CASE item # Edge
      BY <3>1, <3>3 DEF MatchItem, Steps
    <3> QED BY <3>2, <3>3
  <2>4. PICK f : Trail(f, text, i, pattern, k) /\ f[k] = p
    BY <2>1, <2>3 DEF ends
  <2> DEFINE trail == [m \in 0 .. k + 1 |-> IF m = k + 1 THEN q ELSE f[m]]
  <2>5. /\ trail[k + 1] = q
        /\ \A m \in 0 .. k : trail[m] = f[m]
    <3>1. \A m \in 0 .. k : m \in 0 .. k + 1 /\ m # k + 1
      OBVIOUS
    <3>2. k + 1 \in 0 .. k + 1
      OBVIOUS
    <3> QED BY <3>1, <3>2
  <2> HIDE DEF trail
  <2>6. Trail(trail, text, i, pattern, k + 1)
    <3>1. /\ 0 \in 0 .. k /\ k \in 0 .. k
          /\ \A m \in 0 .. k + 1 : m \in 0 .. k \/ m = k + 1
          /\ \A m \in 1 .. k + 1 : (m \in 1 .. k /\ m \in 0 .. k /\ m - 1 \in 0 .. k) \/ m = k + 1
      OBVIOUS
    <3>2. trail[0] = i
      BY <2>4, <2>5, <3>1 DEF Trail
    <3>3. \A m \in 0 .. k + 1 : trail[m] \in 1 .. Len(text) + 1
      BY <1>3, <2>1, <2>4, <2>5, <3>1 DEF Trail, U
    <3>4. ASSUME NEW m \in 1 .. k + 1
          PROVE  Steps(pattern[m], text, trail[m - 1], trail[m])
      <4> HIDE DEF Steps
      <4>1. CASE m \in 1 .. k /\ m \in 0 .. k /\ m - 1 \in 0 .. k
        BY <2>4, <2>5, <4>1 DEF Trail
      <4>2. CASE m = k + 1
        <5>1. trail[m - 1] = p /\ trail[m] = q
          BY <2>1, <2>4, <2>5, <3>1, <4>2
        <5> QED BY <2>3, <4>2, <5>1 DEF item
      <4> QED BY <3>1, <4>1, <4>2
    <3> QED BY <3>2, <3>3, <3>4 DEF Trail
  <2> QED BY <2>5, <2>6
<1>6. T \in SUBSET Nat
  OBVIOUS
<1> HIDE DEF T
<1>7. T = Nat
  BY <1>4, <1>5, <1>6, Arithmetic!SetInduction
<1>8. n \in T
  BY <1>1, <1>7
<1> QED BY <1>1, <1>2, <1>8 DEF T, n

\* A match is made of symbols its items take.
LEMMA TrailMakes ==
  ASSUME NEW text, NEW i \in Nat, NEW pattern, NEW n \in Nat, NEW trail,
         Trail(trail, text, i, pattern, n), NEW C, \A k \in 1 .. n : pattern[k].class \subseteq C
  PROVE  \A m \in i .. trail[n] - 1 : text[m] \in C
<1> DEFINE T == {k \in Nat : k <= n => \A m \in i .. trail[k] - 1 : text[m] \in C}
<1>1. 0 \in T
  <2>1. trail[0] = i
    BY DEF Trail
  <2> QED BY <2>1
<1>2. ASSUME NEW k \in T
      PROVE  k + 1 \in T
  <2> SUFFICES ASSUME k + 1 <= n, NEW m \in i .. trail[k + 1] - 1
               PROVE  text[m] \in C
    OBVIOUS
  <2> DEFINE item == pattern[k + 1]
             p == trail[k]
             q == trail[k + 1]
  <2>1. k \in 0 .. n /\ k + 1 \in 0 .. n /\ k + 1 \in 1 .. n /\ (k + 1) - 1 = k
    OBVIOUS
  <2>2. Steps(item, text, p, q) /\ item.class \subseteq C
    <3> HIDE DEF Steps
    <3> QED BY <2>1 DEF Trail
  <2>3. p \in Nat /\ q \in Nat
    <3>1. p \in 1 .. Len(text) + 1 /\ q \in 1 .. Len(text) + 1
      BY <2>1 DEF Trail
    <3> QED BY <3>1
  <2>4. \A a \in i .. p - 1 : text[a] \in C
    OBVIOUS
  <2>5. m \in i .. q - 1
    OBVIOUS
  <2> HIDE DEF item, p, q
  <2>6. m \in i .. p - 1 \/ m \in p .. q - 1
    BY <2>3, <2>5
  <2>7. CASE m \in p .. q - 1
    <3>1. item # Edge
      BY <2>2, <2>3, <2>7 DEF Steps
    <3> QED BY <2>2, <2>7, <3>1 DEF Steps
  <2> QED BY <2>4, <2>6, <2>7
<1>3. T \in SUBSET Nat
  OBVIOUS
<1> HIDE DEF T
<1>4. T = Nat
  BY <1>1, <1>2, <1>3, Arithmetic!SetInduction
<1> QED BY <1>4 DEF T

\* The run a pattern begins with.
LEMMA FirstRun ==
  ASSUME NEW text \in Seq(Symbols), NEW pattern \in Seq(Item), Ends(text, 1, pattern) # {},
         NEW k \in {1, 2}, k <= Len(pattern), k = 2 => pattern[1] = Edge, Takes(pattern[k])
  PROVE  /\ pattern[k].min <= Len(text)
         /\ \A m \in 1 .. pattern[k].min : text[m] \in pattern[k].class
<1> DEFINE n == Len(pattern)
           item == pattern[k]
<1>1. n \in Nat /\ k \in 1 .. n /\ item \in Item /\ Len(text) \in Nat
  <2>1. k \in 1 .. n
    BY LenProperties
  <2> QED BY <2>1, LenProperties, ElementOfSeq
<1>2. item # Edge /\ item.min \in Nat /\ item.min >= 1
  <2>1. Edge.max = 0 /\ item.max >= 1
    BY DEF Edge, Runs, Takes
  <2> QED BY <1>1, <2>1 DEF Item, Takes
<1>3. PICK trail : Trail(trail, text, 1, pattern, n)
  <2>1. 1 \in 1 .. Len(text) + 1
    BY <1>1
  <2> QED BY <2>1, TrailExists
<1>4. trail[k - 1] = 1
  <2>1. CASE k = 1
    BY <1>3, <2>1 DEF Trail
  <2>2. CASE k = 2
    <3>1. 1 \in 1 .. n /\ 1 - 1 = 0 /\ pattern[1] = Edge
      BY <1>1, <2>2
    <3>2. Steps(pattern[1], text, trail[0], trail[1]) /\ trail[0] = 1
      <4> HIDE DEF Steps
      <4> QED BY <1>3, <3>1 DEF Trail
    <3> QED BY <2>2, <3>1, <3>2 DEF Steps
  <2> QED BY <2>1, <2>2
<1>5. Steps(item, text, 1, trail[k]) /\ trail[k] \in 1 .. Len(text) + 1
  <2>1. k \in 0 .. n
    BY <1>1
  <2> HIDE DEF Steps, item
  <2> QED BY <1>1, <1>3, <1>4, <2>1 DEF Trail, item
<1> HIDE DEF n, item
<1>6. 1 + item.min <= trail[k] /\ \A m \in 1 .. trail[k] - 1 : text[m] \in item.class
  BY <1>2, <1>5 DEF Steps
<1>7. item.min <= Len(text) /\ \A m \in 1 .. item.min : text[m] \in item.class
  <2> DEFINE least == item.min
             q == trail[k]
  <2>1. least \in Nat /\ q \in 1 .. Len(text) + 1 /\ 1 + least <= q
    BY <1>2, <1>5, <1>6
  <2> HIDE DEF least, q
  <2>2. least <= Len(text) /\ \A m \in 1 .. least : m \in 1 .. q - 1
    BY <1>1, <2>1
  <2> QED BY <1>6, <2>2 DEF least, q
<1> QED BY <1>7 DEF item

\* A text that a rule takes from end to end, and no rule before it takes any of
\* from the start, becomes that rule's tags.
LEMMA TakenWhole ==
  ASSUME NEW text \in Seq(Plain), NEW k \in DOMAIN Rules,
         Len(text) + 1 \in RuleEnds(text, 1, Rules[k]),
         \A j \in 1 .. k - 1 : RuleEnds(text, 1, Rules[j]) = {}
  PROVE  Normalize(text) = Rules[k].tags
<1> DEFINE n == Len(text)
           matching == Matching(text, 1)
           ends == RuleEnds(text, 1, Rules[k])
<1>1. Plain \subseteq Symbols /\ Given \subseteq Symbols
  BY DEF Plain, Given, Symbols, Tags
<1> HIDE DEF Plain, Symbols, Given
<1>2. text \in Seq(Symbols) /\ n \in Nat /\ k \in 1 .. 9
  BY <1>1, SeqMonotonic, LenProperties, RulesAre
<1>3. Normalize(text) = Masked(text)
  BY StripAnsiPlain DEF Normalize
<1>4. \A j \in ends : j \in 1 .. n + 1 /\ 1 < j
  <2>1. 1 \in 1 .. Len(text) + 1
    BY <1>2
  <2>2. ASSUME NEW pattern \in Rules[k].patterns
        PROVE  \A j \in Ends(text, 1, pattern) : j \in 1 .. n + 1 /\ 1 < j
    BY <1>2, <2>1, RulePatterns, EndsBounds DEF Whole
  <2> QED BY <2>2 DEF RuleEnds
<1>5. 1 \in 1 .. n /\ n + 1 \in 1 .. n + 1
  BY <1>2, <1>4
<1>6. Min(matching) = k
  <2>1. k \in matching
    BY <1>2, RulesAre DEF Matching
  <2> DEFINE m == Min(matching)
  <2>2. m \in DOMAIN Rules /\ RuleEnds(text, 1, Rules[m]) # {} /\ m <= k
    BY <2>1, FirstRule, LeastRule
  <2> HIDE DEF m
  <2>3. m \in 1 .. 9 /\ ~(m \in 1 .. k - 1)
    BY <2>2, RulesAre
  <2>4. m = k
    BY <1>2, <2>2, <2>3
  <2> QED BY <2>4 DEF m
<1>7. Max(ends) = n + 1
  <2>1. \A e \in ends : (\A y \in ends : e >= y) <=> e = n + 1
    <3> HIDE DEF n, ends
    <3>1. n + 1 \in ends
      BY DEF n, ends
    <3> QED BY <1>2, <1>4, <3>1
  <2>2. n + 1 \in ends
    OBVIOUS
  <2> QED BY <2>1, <2>2 DEF Max
<1>8. Emits(text, 1) = Rules[k].tags /\ GoesOn(text, 1) = n + 1
  <2>1. matching # {}
    BY <1>2, RulesAre DEF Matching
  <2> QED BY <1>6, <1>7, <2>1 DEF Emits, GoesOn
<1>9. PICK f : Walks(f, text) /\ Masked(text) = f[1]
  <2>1. Symbols \in SUBSET Symbols
    OBVIOUS
  <2> QED BY <1>1, <1>2, <2>1, MaskedWalks
<1>10. f[n + 1] = << >> /\ f[1] = Emits(text, 1) \o f[GoesOn(text, 1)]
  BY <1>2, <1>5, <1>9, WalkStep DEF n
<1>11. Rules[k].tags \o << >> = Rules[k].tags
  BY RulePatterns, ConcatEmptySeq
<1> QED BY <1>3, <1>8, <1>9, <1>10, <1>11

\* What one word becomes, of any length: a run of sixteen or more hex digits is
\* a hash even when all of them are decimal, and so is a run of hex digits behind
\* 0x; a shorter run of decimal digits is a number; every other word stays.
THEOREM WordMasked ==
  ASSUME NEW text \in Seq(Word), text # << >>
  PROVE  Normalize(text) = IF IsHash(text) \/ IsHex0x(text) THEN <<"<HEX>">>
                           ELSE IF IsNumber(text) THEN <<"<NUM>">> ELSE text
<1> DEFINE n == Len(text)
           matching == Matching(text, 1)
           k == Min(matching)
<1>1. n \in Nat /\ 1 \in 1 .. n /\ n + 1 \in 1 .. n + 1
  <2>1. n \in Nat /\ n >= 1
    BY LenProperties, EmptySeq
  <2> HIDE DEF n
  <2> QED BY <2>1
<1>2. text \in Seq(Plain) /\ text \in Seq(Symbols)
  <2>1. Word \subseteq Symbols /\ Word \subseteq Plain
    BY DEF Plain, Symbols, PathChar, Word, HexDigit, Digit
  <2> HIDE DEF Word, Symbols, Plain
  <2> QED BY <2>1, SeqMonotonic
<1>3. Normalize(text) = Masked(text)
  BY <1>2, StripAnsiPlain DEF Normalize
<1> HIDE DEF Word, Symbols, Plain, AnyLength
<1>4. /\ \A r \in {1, 2, 3, 4, 5, 8} : RuleEnds(text, 1, Rules[r]) = {}
      /\ RuleEnds(text, 1, Rules[6]) = IF IsHex0x(text) THEN {n + 1} ELSE {}
      /\ RuleEnds(text, 1, Rules[7]) = IF IsHash(text) THEN {n + 1} ELSE {}
      /\ RuleEnds(text, 1, Rules[9]) = IF IsNumber(text) THEN {n + 1} ELSE {}
      /\ \A i \in 2 .. n, r \in 1 .. 9 : RuleEnds(text, i, Rules[r]) = {}
  BY RuleEndsOfWord
<1>5. /\ matching \subseteq {6, 7, 9}
      /\ 6 \in matching <=> IsHex0x(text)
      /\ 7 \in matching <=> IsHash(text)
      /\ 9 \in matching <=> IsNumber(text)
  <2>1. \A r : r \in matching <=> r \in 1 .. 9 /\ RuleEnds(text, 1, Rules[r]) # {}
    BY RulesAre DEF Matching
  <2>2. 1 .. 9 = {1, 2, 3, 4, 5, 8} \cup {6, 7, 9}
    OBVIOUS
  <2> HIDE DEF matching
  <2>3. matching \subseteq {6, 7, 9}
    BY <1>4, <2>1, <2>2
  <2>4. \A e : {e} # {}
    OBVIOUS
  <2> QED BY <1>4, <2>1, <2>2, <2>3, <2>4
<1> HIDE DEF n
<1>6. CASE matching = {}
  <2>1. \A i \in 1 .. n : Matching(text, i) = {}
    <3>1. \A i \in 1 .. n : i = 1 \/ i \in 2 .. n
      BY <1>1
    <3>2. \A i \in 2 .. n : Matching(text, i) = {}
      BY <1>4, RulesAre DEF Matching
    <3> QED BY <1>6, <3>1, <3>2
  <2>2. Masked(text) = text
    BY <1>2, <2>1, UnmatchedStays DEF n
  <2> QED BY <1>3, <1>5, <1>6, <2>2
<1>7. CASE matching # {}
  <2>1. /\ k \in DOMAIN Rules /\ RuleEnds(text, 1, Rules[k]) # {}
        /\ \A r \in matching : k <= r
    BY <1>7, FirstRule, LeastRule
  <2>2. k \in matching
    BY <2>1 DEF Matching
  <2> HIDE DEF k
  <2>3. k \in {6, 7, 9} /\ (k = 9 => ~IsHash(text) /\ ~IsHex0x(text) /\ IsNumber(text))
        /\ (k # 9 => IsHash(text) \/ IsHex0x(text))
    <3> HIDE DEF matching
    <3>1. k = 9 => 6 \notin matching /\ 7 \notin matching
      BY <2>1
    <3> QED BY <1>5, <2>2, <3>1
  <2>4. n + 1 \in RuleEnds(text, 1, Rules[k])
    BY <1>4, <2>1, <2>3
  <2>5. \A j \in 1 .. k - 1 : RuleEnds(text, 1, Rules[j]) = {}
    <3>1. \A j \in 1 .. k - 1 : j \in 1 .. 9 /\ ~(k <= j)
      BY <2>3
    <3>2. \A j \in 1 .. k - 1 : j \notin matching
      BY <2>1, <3>1
    <3> QED BY <3>1, <3>2, RulesAre DEF Matching
  <2>6. Normalize(text) = Rules[k].tags
    BY <1>2, <2>1, <2>4, <2>5, TakenWhole DEF n
  <2>7. Rules[k].tags = IF k = 9 THEN <<"<NUM>">> ELSE <<"<HEX>">>
    BY <2>3, RulesAre
  <2> QED BY <2>3, <2>6, <2>7
<1> QED BY <1>6, <1>7

\* A rule that needs a symbol the text lacks does not match.
LEMMA RulesLack ==
  ASSUME NEW text \in Seq(Symbols)
  PROVE  /\ (\A m \in 1 .. Len(text) : text[m] # "-") =>
              RuleEnds(text, 1, Rules[1]) = {} /\ RuleEnds(text, 1, Rules[2]) = {}
         /\ (\A m \in 1 .. Len(text) : text[m] # ".") =>
              RuleEnds(text, 1, Rules[3]) = {} /\ RuleEnds(text, 1, Rules[4]) = {}
         /\ (\A m \in 1 .. Len(text) : text[m] # ":") =>
              RuleEnds(text, 1, Rules[3]) = {} /\ RuleEnds(text, 1, Rules[5]) = {}
         /\ (\A m \in 1 .. Len(text) : text[m] # "x") => RuleEnds(text, 1, Rules[6]) = {}
         /\ (\A m \in 1 .. Len(text) : text[m] # "/") => RuleEnds(text, 1, Rules[8]) = {}
<1>1. 1 \in 1 .. Len(text) + 1
  <2>1. Len(text) \in Nat
    BY LenProperties
  <2> QED BY <2>1
<1>2. ASSUME NEW s, \A m \in 1 .. Len(text) : text[m] # s,
             NEW k \in 1 .. 9, \A pattern \in Rules[k].patterns : Needs(pattern, s)
      PROVE  RuleEnds(text, 1, Rules[k]) = {}
  <2>1. \A pattern \in Rules[k].patterns : pattern \in Seq(Item)
    BY RulesAre, RulePatterns DEF Whole
  <2>2. \A pattern \in Rules[k].patterns : Ends(text, 1, pattern) = {}
    BY <1>1, <1>2, <2>1, NeededNeverMissing
  <2> QED BY <2>2 DEF RuleEnds
<1>3. /\ \A pattern \in Rules[1].patterns : Needs(pattern, "-")
      /\ \A pattern \in Rules[2].patterns : Needs(pattern, "-")
      /\ \A pattern \in Rules[3].patterns : Needs(pattern, ".") /\ Needs(pattern, ":")
      /\ \A pattern \in Rules[4].patterns : Needs(pattern, ".")
      /\ \A pattern \in Rules[5].patterns : Needs(pattern, ":")
      /\ \A pattern \in Rules[6].patterns : Needs(pattern, "x")
      /\ \A pattern \in Rules[8].patterns : Needs(pattern, "/")
  <2> HIDE DEF Needs
  <2> QED BY RulesAre, RulesNeed
<1>4. 1 \in 1 .. 9 /\ 2 \in 1 .. 9 /\ 3 \in 1 .. 9 /\ 4 \in 1 .. 9 /\ 5 \in 1 .. 9
      /\ 6 \in 1 .. 9 /\ 8 \in 1 .. 9
  OBVIOUS
<1> HIDE DEF Needs, Symbols
<1> QED BY <1>2, <1>3, <1>4

\* Items that take nothing but what is in C.
Of(C) == [class : SUBSET C, min : Nat, max : Nat]

LEMMA RuleMakes ==
  ASSUME NEW text \in Seq(Symbols), NEW k \in DOMAIN Rules, NEW C,
         Rules[k].patterns \subseteq Seq(Of(C)), Len(text) + 1 \in RuleEnds(text, 1, Rules[k])
  PROVE  \A m \in 1 .. Len(text) : text[m] \in C
<1>1. PICK pattern \in Rules[k].patterns : Len(text) + 1 \in Ends(text, 1, pattern)
  BY DEF RuleEnds
<1>2. Len(text) \in Nat /\ 1 \in 1 .. Len(text) + 1
  <2>1. Len(text) \in Nat
    BY LenProperties
  <2> QED BY <2>1
<1>3. pattern \in Seq(Item) /\ Len(pattern) \in Nat
  BY <1>1, RulePatterns, LenProperties DEF Whole
<1>4. PICK trail : /\ Trail(trail, text, 1, pattern, Len(pattern))
                   /\ trail[Len(pattern)] = Len(text) + 1
  BY <1>1, <1>2, <1>3, TrailExists
<1>5. \A j \in 1 .. Len(pattern) : pattern[j].class \subseteq C
  <2>1. \A j \in 1 .. Len(pattern) : pattern[j] \in Of(C)
    <3> HIDE DEF Of
    <3> QED BY <1>1, ElementOfSeq
  <2> QED BY <2>1 DEF Of
<1>6. \A m \in 1 .. trail[Len(pattern)] - 1 : text[m] \in C
  <2>1. 1 \in Nat
    OBVIOUS
  <2> QED BY <1>3, <1>4, <1>5, <2>1, TrailMakes
<1>7. trail[Len(pattern)] - 1 = Len(text)
  BY <1>2, <1>4
<1> QED BY <1>6, <1>7

\* What the values of the rules are made of.
LEMMA RulesOf ==
  /\ Ipv4Port \subseteq Seq(Of(Digit \cup {".", ":"}))
  /\ Ipv4 \cup Num \subseteq Seq(Of(Digit \cup {"."}))
  /\ Port \subseteq Seq(Of(Digit \cup {":"}))
  /\ Hex0x \subseteq Seq(Of(HexDigit \cup {"x"}))
  /\ HexLong \subseteq Seq(Of(HexDigit))
<1>1. ASSUME NEW C, NEW class \in SUBSET C, NEW n \in Nat, NEW m \in Nat
      PROVE  Runs(class, n, m) \in Of(C)
  BY DEF Runs, Of
<1>2. \A C : Edge \in Of(C)
  BY <1>1 DEF Edge
<1>3. AnyLength \in Nat
  BY DEF AnyLength
<1> HIDE DEF Of, AnyLength
<1>4. ASSUME NEW C, Digit \cup {"."} \subseteq C
      PROVE  <<Edge>> \o Quad \in Seq(Of(C))
  <2>1. Octet \in Of(C) /\ Dot \in Of(C)
    <3>1. Digit \in SUBSET C /\ {"."} \in SUBSET C
      BY <1>4
    <3> HIDE DEF Digit
    <3> QED BY <1>1, <3>1 DEF Octet, Dot, Digits, One
  <2>2. Quad \in Seq(Of(C)) /\ <<Edge>> \in Seq(Of(C))
    BY <1>2, <2>1 DEF Quad
  <2> QED BY <2>2, ConcatProperties
<1>5. Ipv4Port \subseteq Seq(Of(Digit \cup {".", ":"}))
  <2> DEFINE C == Digit \cup {".", ":"}
             port == <<Colon, Digits(1, 5), Edge>>
  <2>1. Digit \cup {"."} \subseteq C /\ Digit \in SUBSET C /\ {":"} \in SUBSET C
    OBVIOUS
  <2> HIDE DEF C, Digit
  <2>2. Colon \in Of(C) /\ Digits(1, 5) \in Of(C)
    BY <1>1, <2>1 DEF Colon, One, Digits
  <2>3. port \in Seq(Of(C))
    BY <1>2, <2>2
  <2>4. <<Edge>> \o Quad \in Seq(Of(C))
    BY <1>4, <2>1
  <2>5. Ipv4Port = {(<<Edge>> \o Quad) \o port}
    BY DEF Ipv4Port
  <2> HIDE DEF port
  <2>6. (<<Edge>> \o Quad) \o port \in Seq(Of(C))
    BY <2>3, <2>4, ConcatProperties
  <2> QED BY <2>5, <2>6 DEF C
<1>6. Ipv4 \cup Num \subseteq Seq(Of(Digit \cup {"."}))
  <2> DEFINE C == Digit \cup {"."}
             d1 == Digits(1, AnyLength)
             edge == <<Edge>>
             start == <<Edge, d1>>
             whole == <<Edge, d1, Edge>>
  <2>1. Digit \cup {"."} \subseteq C /\ Digit \in SUBSET C /\ {"."} \in SUBSET C
    OBVIOUS
  <2> HIDE DEF C, Digit
  <2>2. d1 \in Of(C) /\ Dot \in Of(C)
    BY <1>1, <1>3, <2>1 DEF Dot, One, Digits
  <2>3. Fraction = <<Dot, d1>>
    BY DEF Fraction
  <2> HIDE DEF d1
  <2>4. edge \in Seq(Of(C)) /\ start \in Seq(Of(C)) /\ whole \in Seq(Of(C)) /\ Fraction \in Seq(Of(C))
    BY <1>2, <2>2, <2>3
  <2>5. edge \o Quad \in Seq(Of(C))
    BY <1>4, <2>1
  <2>6. Ipv4 = {(edge \o Quad) \o edge} /\ Num = {whole, (start \o Fraction) \o edge}
    BY DEF Ipv4, Num, d1
  <2> HIDE DEF edge, start, whole
  <2>7. start \o Fraction \in Seq(Of(C))
    BY <2>4, ConcatProperties
  <2>8. (edge \o Quad) \o edge \in Seq(Of(C)) /\ (start \o Fraction) \o edge \in Seq(Of(C))
    BY <2>4, <2>5, <2>7, ConcatProperties
  <2> QED BY <2>4, <2>6, <2>8 DEF C
<1>7. Port \subseteq Seq(Of(Digit \cup {":"}))
  <2>1. Colon \in Of(Digit \cup {":"}) /\ Digits(2, 5) \in Of(Digit \cup {":"})
    BY <1>1 DEF Colon, One, Digits
  <2>2. <<Colon, Digits(2, 5), Edge>> \in Seq(Of(Digit \cup {":"}))
    BY <1>2, <2>1
  <2> QED BY <2>2 DEF Port
<1>8. Hex0x \subseteq Seq(Of(HexDigit \cup {"x"}))
  <2> DEFINE C == HexDigit \cup {"x"}
             pattern == <<Edge, One({"zero"}), One({"x"}), Hexes(1, AnyLength), Edge>>
  <2>1. HexDigit \in SUBSET C /\ {"x"} \in SUBSET C /\ {"zero"} \in SUBSET C
    BY DEF HexDigit, Digit
  <2> HIDE DEF C, HexDigit
  <2>2. One({"zero"}) \in Of(C) /\ One({"x"}) \in Of(C) /\ Hexes(1, AnyLength) \in Of(C)
    BY <1>1, <1>3, <2>1 DEF One, Hexes
  <2>3. pattern \in Seq(Of(C))
    BY <1>2, <2>2
  <2>4. Hex0x = {pattern}
    BY DEF Hex0x
  <2> QED BY <2>3, <2>4 DEF C
<1>9. HexLong \subseteq Seq(Of(HexDigit))
  <2>1. Hexes(16, AnyLength) \in Of(HexDigit)
    BY <1>1, <1>3 DEF Hexes
  <2>2. <<Edge, Hexes(16, AnyLength), Edge>> \in Seq(Of(HexDigit))
    BY <1>2, <2>1
  <2> QED BY <2>2 DEF HexLong
<1> QED BY <1>5, <1>6, <1>7, <1>8, <1>9

\* How the patterns begin.
LEMMA PatternsBegin ==
  /\ \A pattern \in Ts : Len(pattern) >= 5 /\ pattern[1] = Digits(4, 4) /\ pattern[2] = Dash
  /\ \A pattern \in Uuid : Len(pattern) >= 2 /\ pattern[1] = Edge /\ pattern[2] = Hexes(8, 8)
  /\ \A pattern \in Ipv4Port \cup Ipv4 :
       /\ Len(pattern) >= 5 /\ pattern[1] = Edge /\ pattern[2] = Octet /\ pattern[3] = Dot
       /\ pattern[4] = Octet /\ pattern[5] = Dot
  /\ \A pattern \in Port : Len(pattern) >= 1 /\ pattern[1] = Colon
  /\ \A pattern \in Hex0x : Len(pattern) >= 2 /\ pattern[1] = Edge /\ pattern[2] = One({"zero"})
  /\ \A pattern \in HexLong :
       Len(pattern) >= 2 /\ pattern[1] = Edge /\ pattern[2] = Hexes(16, AnyLength)
  /\ \A pattern \in Path : Len(pattern) >= 1 /\ pattern[1] = One({"/"})
<1>1. ASSUME NEW pattern \in Ts
      PROVE  Len(pattern) >= 5 /\ pattern[1] = Digits(4, 4) /\ pattern[2] = Dash
  <2>1. Dated(pattern)
    <3>1. 1 \in DOMAIN Rules /\ pattern \in Rules[1].patterns
      BY RulesAre
    <3> QED BY <3>1, RulePatternsStop
  <2>2. Date[1] = Digits(4, 4) /\ Date[2] = Dash
    BY DEF Date
  <2> QED BY <2>1, <2>2 DEF Dated
<1>2. ASSUME NEW pattern \in Uuid
      PROVE  Len(pattern) >= 2 /\ pattern[1] = Edge /\ pattern[2] = Hexes(8, 8)
  BY DEF Uuid
<1>3. ASSUME NEW pattern \in Ipv4Port \cup Ipv4
      PROVE  /\ Len(pattern) >= 5 /\ pattern[1] = Edge /\ pattern[2] = Octet /\ pattern[3] = Dot
             /\ pattern[4] = Octet /\ pattern[5] = Dot
  <2> DEFINE edge == <<Edge>>
             port == <<Colon, Digits(1, 5), Edge>>
             quad == edge \o Quad
  <2>1. /\ edge \in Seq(Item) /\ Quad \in Seq(Item) /\ port \in Seq(Item)
        /\ Len(edge) = 1 /\ edge[1] = Edge /\ Len(port) = 3
    BY ItemTypes DEF Quad
  <2>2. Len(Quad) = 7 /\ Quad[1] = Octet /\ Quad[2] = Dot /\ Quad[3] = Octet /\ Quad[4] = Dot
    BY DEF Quad
  <2>3. PICK end \in {edge, port} : pattern = quad \o end
    BY DEF Ipv4Port, Ipv4
  <2> HIDE DEF edge, port, Item
  <2>4. quad \in Seq(Item) /\ Len(quad) = 8
        /\ \A k \in 1 .. 8 : quad[k] = IF k <= 1 THEN edge[k] ELSE Quad[k - 1]
    <3>1. /\ edge \o Quad \in Seq(Item)
          /\ Len(edge \o Quad) = Len(edge) + Len(Quad)
          /\ \A k \in 1 .. Len(edge) + Len(Quad) :
               (edge \o Quad)[k] = IF k <= Len(edge) THEN edge[k] ELSE Quad[k - Len(edge)]
      BY <2>1, ConcatProperties
    <3> QED BY <2>1, <2>2, <3>1
  <2>5. quad[1] = Edge /\ quad[2] = Octet /\ quad[3] = Dot /\ quad[4] = Octet /\ quad[5] = Dot
    BY <2>1, <2>2, <2>4
  <2> HIDE DEF quad
  <2>6. end \in Seq(Item) /\ Len(end) \in Nat
    BY <2>1, LenProperties
  <2>7. /\ Len(pattern) = Len(quad) + Len(end)
        /\ \A k \in 1 .. Len(quad) + Len(end) :
             pattern[k] = IF k <= Len(quad) THEN quad[k] ELSE end[k - Len(quad)]
    <3>1. /\ Len(quad \o end) = Len(quad) + Len(end)
          /\ \A k \in 1 .. Len(quad) + Len(end) :
               (quad \o end)[k] = IF k <= Len(quad) THEN quad[k] ELSE end[k - Len(quad)]
      BY <2>4, <2>6, ConcatProperties
    <3> QED BY <2>3, <3>1
  <2>8. Len(pattern) >= 5 /\ \A k \in 1 .. 5 : pattern[k] = quad[k]
    BY <2>4, <2>6, <2>7
  <2> QED BY <2>5, <2>8
<1>4. ASSUME NEW pattern \in Port
      PROVE  Len(pattern) >= 1 /\ pattern[1] = Colon
  BY DEF Port
<1>5. ASSUME NEW pattern \in Hex0x
      PROVE  Len(pattern) >= 2 /\ pattern[1] = Edge /\ pattern[2] = One({"zero"})
  BY DEF Hex0x
<1>6. ASSUME NEW pattern \in HexLong
      PROVE  Len(pattern) >= 2 /\ pattern[1] = Edge /\ pattern[2] = Hexes(16, AnyLength)
  BY DEF HexLong
<1>7. ASSUME NEW pattern \in Path
      PROVE  Len(pattern) >= 1 /\ pattern[1] = One({"/"})
  <2> DEFINE seqs(n) == [i \in 1 .. n |-> Segment]
             slash == One({"/"})
             name == Runs(PathChar, 1, AnyLength)
             end == <<Runs({"/"}, 0, 1)>>
  <2>1. PICK n \in 1 .. MaxSegments : pattern = FlattenSeq(seqs(n)) \o end
    BY DEF Path
  <2>2. slash \in Item /\ name \in Item /\ Runs({"/"}, 0, 1) \in Item
    BY ItemTypes
  <2>3. Segment = <<slash, name>>
    BY DEF Segment
  <2> HIDE DEF slash, name, Item
  <2>4. Segment \in Seq(Item) /\ Segment # << >> /\ Segment[1] = slash /\ end \in Seq(Item)
    BY <2>2, <2>3
  <2>5. n \in Nat /\ 1 \in 1 .. n
    BY MaxSegmentsAssumption
  <2>6. seqs(n) \in Seq(Seq(Item)) /\ seqs(n) # << >> /\ seqs(n)[1] = Segment
    <3>1. seqs(n) \in Seq(Seq(Item)) /\ Len(seqs(n)) = n /\ seqs(n)[1] = Segment
      BY <2>4, <2>5
    <3> HIDE DEF seqs
    <3> QED BY <2>5, <3>1
  <2> DEFINE flat == FlattenSeq(seqs(n))
  <2> HIDE DEF seqs, end
  <2>7. flat \in Seq(Item) /\ flat # << >> /\ flat[1] = slash
    BY <2>4, <2>6, FlattenShape, FlattenHead
  <2> HIDE DEF flat
  <2>8. Len(flat) \in Nat /\ Len(flat) >= 1 /\ Len(end) \in Nat
    BY <2>4, <2>7, EmptySeq, LenProperties
  <2>9. /\ Len(flat \o end) = Len(flat) + Len(end)
        /\ \A k \in 1 .. Len(flat) + Len(end) :
             (flat \o end)[k] = IF k <= Len(flat) THEN flat[k] ELSE end[k - Len(flat)]
    BY <2>4, <2>7, ConcatProperties
  <2>10. Len(flat \o end) >= 1 /\ (flat \o end)[1] = flat[1]
    BY <2>8, <2>9
  <2> QED BY <2>1, <2>7, <2>10 DEF flat, slash
<1> HIDE DEF Ts, Uuid, Ipv4Port, Ipv4, Port, Hex0x, HexLong, Path
<1> QED BY <1>1, <1>2, <1>3, <1>4, <1>5, <1>6, <1>7

\* What the text a rule matches at its start begins with.
StartsLikeHash(text) == 16 <= Len(text) /\ \A m \in 1 .. 16 : text[m] \in HexDigit

LEMMA RulesBegin ==
  ASSUME NEW text \in Seq(Symbols), NEW k \in DOMAIN Rules, RuleEnds(text, 1, Rules[k]) # {}
  PROVE  /\ k = 1 => text[5] = "-"
         /\ k = 2 => \A m \in 1 .. 8 : text[m] \in HexDigit
         /\ k = 7 => StartsLikeHash(text)
         /\ k \in 1 .. 7 => text[1] # "/"
         /\ k = 8 => text[1] = "/"
<1>1. PICK pattern \in Rules[k].patterns : Ends(text, 1, pattern) # {}
  BY DEF RuleEnds
<1>2. pattern \in Seq(Item)
  BY <1>1, RulePatterns DEF Whole
<1>3. k \in 1 .. 9
  BY RulesAre
<1> DEFINE Opens(min, class) ==
             /\ min <= Len(text)
             /\ \A m \in 1 .. min : text[m] \in class
<1>4. ASSUME NEW j \in {1, 2}, j <= Len(pattern), j = 2 => pattern[1] = Edge,
             NEW class, NEW min \in Nat, min >= 1, NEW max \in Nat, max >= 1,
             pattern[j] = Runs(class, min, max)
      PROVE  Opens(min, class)
  <2>1. pattern[j].min = min /\ pattern[j].max = max /\ pattern[j].class = class
    BY <1>4 DEF Runs
  <2>2. Takes(pattern[j])
    BY <1>4, <2>1 DEF Takes
  <2>3. /\ pattern[j].min <= Len(text)
        /\ \A m \in 1 .. pattern[j].min : text[m] \in pattern[j].class
    BY <1>1, <1>2, <1>4, <2>2, FirstRun
  <2> QED BY <2>1, <2>3
<1>5. AnyLength \in Nat /\ AnyLength > 4
  BY DEF AnyLength
<1>6. "/" \notin HexDigit /\ "/" \notin Digit /\ Digit \subseteq HexDigit
  BY DEF HexDigit, Digit
<1> HIDE DEF AnyLength, HexDigit, Digit, Symbols, Item
<1>7. CASE k = 1
  <2>1. Len(pattern) >= 5 /\ pattern[1] = Runs(Digit, 4, 4) /\ pattern[2] = Dash
    BY <1>1, <1>7, RulesAre, PatternsBegin DEF Digits
  <2>2. text[5] = "-"
    <3>1. PICK trail : Trail(trail, text, 1, pattern, Len(pattern))
      <4>1. 1 \in 1 .. Len(text) + 1
        <5>1. Len(text) \in Nat
          BY LenProperties
        <5> QED BY <5>1
      <4> QED BY <1>1, <1>2, <4>1, TrailExists
    <3>2. Len(pattern) \in Nat
      BY <1>2, LenProperties
    <3>3. /\ trail[0] = 1 /\ trail[1] \in Nat /\ trail[2] \in Nat
          /\ Steps(pattern[1], text, trail[0], trail[1])
          /\ Steps(pattern[2], text, trail[1], trail[2])
      <4>1. 1 \in 1 .. Len(pattern) /\ 2 \in 1 .. Len(pattern) /\ 1 - 1 = 0 /\ 2 - 1 = 1
            /\ 1 \in 0 .. Len(pattern) /\ 2 \in 0 .. Len(pattern)
        BY <2>1, <3>2
      <4>2. \A j \in 1 .. Len(text) + 1 : j \in Nat
        OBVIOUS
      <4> HIDE DEF Steps
      <4> QED BY <3>1, <4>1, <4>2 DEF Trail
    <3>4. pattern[1].min = 4 /\ pattern[1].max = 4 /\ pattern[1] # Edge
      BY <2>1 DEF Runs, Edge
    <3>5. pattern[2].min = 1 /\ pattern[2].max = 1 /\ pattern[2].class = {"-"} /\ pattern[2] # Edge
      BY <2>1 DEF Dash, One, Runs, Edge
    <3>6. trail[1] = 5
      BY <1>5, <3>3, <3>4 DEF Steps
    <3>7. 5 + 1 <= trail[2] /\ \A m \in 5 .. trail[2] - 1 : text[m] \in {"-"}
      BY <3>3, <3>5, <3>6 DEF Steps
    <3> QED BY <3>3, <3>7
  <2>3. text[1] # "/"
    <3>1. Opens(4, Digit)
      <4>1. 1 <= Len(pattern)
        BY <1>2, <2>1, LenProperties
      <4> HIDE DEF Opens
      <4> QED BY <1>4, <2>1, <4>1
    <3> QED BY <1>6, <3>1
  <2> QED BY <1>7, <2>2, <2>3
<1>8. CASE k = 2
  <2>1. Len(pattern) >= 2 /\ pattern[1] = Edge /\ pattern[2] = Runs(HexDigit, 8, 8)
    BY <1>1, <1>8, RulesAre, PatternsBegin DEF Hexes
  <2>2. Opens(8, HexDigit)
    <3>1. 2 <= Len(pattern)
      BY <1>2, <2>1, LenProperties
    <3> HIDE DEF Opens
    <3> QED BY <1>4, <2>1, <3>1
  <2> QED BY <1>6, <1>8, <2>2
<1>9. CASE k \in {3, 4}
  <2>1. Len(pattern) >= 5 /\ pattern[1] = Edge /\ pattern[2] = Runs(Digit, 1, 3)
    BY <1>1, <1>9, RulesAre, PatternsBegin DEF Octet, Digits
  <2>2. Opens(1, Digit)
    <3>1. 2 <= Len(pattern)
      BY <1>2, <2>1, LenProperties
    <3> HIDE DEF Opens
    <3> QED BY <1>4, <2>1, <3>1
  <2> QED BY <1>6, <1>9, <2>2
<1>10. CASE k = 5
  <2>1. Len(pattern) >= 1 /\ pattern[1] = Runs({":"}, 1, 1)
    BY <1>1, <1>10, RulesAre, PatternsBegin DEF Colon, One
  <2>2. Opens(1, {":"})
    <3>1. 1 <= Len(pattern)
      BY <1>2, <2>1, LenProperties
    <3> HIDE DEF Opens
    <3> QED BY <1>4, <2>1, <3>1
  <2> QED BY <1>10, <2>2
<1>11. CASE k = 6
  <2>1. Len(pattern) >= 2 /\ pattern[1] = Edge /\ pattern[2] = Runs({"zero"}, 1, 1)
    BY <1>1, <1>11, RulesAre, PatternsBegin DEF One
  <2>2. Opens(1, {"zero"})
    <3>1. 2 <= Len(pattern)
      BY <1>2, <2>1, LenProperties
    <3> HIDE DEF Opens
    <3> QED BY <1>4, <2>1, <3>1
  <2> QED BY <1>11, <2>2
<1>12. CASE k = 7
  <2>1. Len(pattern) >= 2 /\ pattern[1] = Edge /\ pattern[2] = Runs(HexDigit, 16, AnyLength)
    BY <1>1, <1>12, RulesAre, PatternsBegin DEF Hexes
  <2>2. Opens(16, HexDigit)
    <3>1. 2 <= Len(pattern)
      BY <1>2, <2>1, LenProperties
    <3> HIDE DEF Opens
    <3> QED BY <1>4, <1>5, <2>1, <3>1
  <2> QED BY <1>6, <1>12, <2>2 DEF StartsLikeHash
<1>13. CASE k = 8
  <2>1. Len(pattern) >= 1 /\ pattern[1] = Runs({"/"}, 1, 1)
    BY <1>1, <1>13, RulesAre, PatternsBegin DEF One
  <2>2. Opens(1, {"/"})
    <3>1. 1 <= Len(pattern)
      BY <1>2, <2>1, LenProperties
    <3> HIDE DEF Opens
    <3> QED BY <1>4, <2>1, <3>1
  <2> QED BY <1>13, <2>2
<1>14. CASE k = 9
  BY <1>14
<1>15. k = 1 \/ k = 2 \/ k \in {3, 4} \/ k = 5 \/ k = 6 \/ k = 7 \/ k = 8 \/ k = 9
  BY <1>3
<1> QED BY <1>7, <1>8, <1>9, <1>10, <1>11, <1>12, <1>13, <1>14, <1>15

\* A number has one dot at most, an address has two.
LEMMA AddressDots ==
  ASSUME NEW text \in Seq(Symbols), RuleEnds(text, 1, Rules[4]) # {}
  PROVE  \E p, q \in 1 .. Len(text) : p # q /\ text[p] = "." /\ text[q] = "."
<1>1. PICK pattern \in Ipv4 : Ends(text, 1, pattern) # {}
  BY RulesAre DEF RuleEnds
<1>2. pattern \in Seq(Item) /\ Len(pattern) \in Nat
  <2>1. 4 \in DOMAIN Rules /\ pattern \in Rules[4].patterns
    BY <1>1, RulesAre
  <2> QED BY <2>1, RulePatterns, LenProperties DEF Whole
<1>3. /\ Len(pattern) >= 5 /\ pattern[3] = Dot /\ pattern[4] = Octet /\ pattern[5] = Dot
  BY <1>1, PatternsBegin
<1>4. Len(text) \in Nat /\ 1 \in 1 .. Len(text) + 1
  <2>1. Len(text) \in Nat
    BY LenProperties
  <2> QED BY <2>1
<1>5. PICK trail : Trail(trail, text, 1, pattern, Len(pattern))
  BY <1>1, <1>2, <1>4, TrailExists
<1>6. /\ trail[2] \in 1 .. Len(text) + 1 /\ trail[3] \in 1 .. Len(text) + 1
      /\ trail[4] \in 1 .. Len(text) + 1 /\ trail[5] \in 1 .. Len(text) + 1
      /\ Steps(Dot, text, trail[2], trail[3])
      /\ Steps(Octet, text, trail[3], trail[4])
      /\ Steps(Dot, text, trail[4], trail[5])
  <2>1. /\ 3 \in 1 .. Len(pattern) /\ 4 \in 1 .. Len(pattern) /\ 5 \in 1 .. Len(pattern)
        /\ 2 \in 0 .. Len(pattern) /\ 3 \in 0 .. Len(pattern)
        /\ 4 \in 0 .. Len(pattern) /\ 5 \in 0 .. Len(pattern)
        /\ 3 - 1 = 2 /\ 4 - 1 = 3 /\ 5 - 1 = 4
    BY <1>2, <1>3
  <2> HIDE DEF Steps
  <2> QED BY <1>3, <1>5, <2>1 DEF Trail
<1>7. /\ Dot # Edge /\ Dot.min = 1 /\ Dot.max = 1 /\ Dot.class = {"."}
      /\ Octet # Edge /\ Octet.min = 1
  BY DEF Dot, One, Octet, Digits, Runs, Edge
<1>8. /\ trail[2] + 1 <= trail[3] /\ \A m \in trail[2] .. trail[3] - 1 : text[m] = "."
      /\ trail[3] + 1 <= trail[4]
      /\ trail[4] + 1 <= trail[5] /\ \A m \in trail[4] .. trail[5] - 1 : text[m] = "."
  BY <1>6, <1>7 DEF Steps
<1> DEFINE p == trail[2]
           q == trail[4]
<1>9. p \in 1 .. Len(text) /\ q \in 1 .. Len(text) /\ p # q
      /\ p \in trail[2] .. trail[3] - 1 /\ q \in trail[4] .. trail[5] - 1
  <2> DEFINE n == Len(text)
             r == trail[3]
             e == trail[5]
  <2>1. n \in Nat /\ p \in 1 .. n + 1 /\ q \in 1 .. n + 1 /\ r \in 1 .. n + 1 /\ e \in 1 .. n + 1
        /\ p + 1 <= r /\ r + 1 <= q /\ q + 1 <= e
    BY <1>4, <1>6, <1>8
  <2> HIDE DEF n, p, q, r, e
  <2>2. p \in 1 .. n /\ q \in 1 .. n /\ p # q /\ p \in p .. r - 1 /\ q \in q .. e - 1
    BY <2>1
  <2> QED BY <2>2 DEF n, p, q, r, e
<1> QED BY <1>8, <1>9

LEMMA NumberDots ==
  ASSUME NEW text \in Seq(Symbols), Len(text) + 1 \in RuleEnds(text, 1, Rules[9])
  PROVE  \A p, q \in 1 .. Len(text) : text[p] = "." /\ text[q] = "." => p = q
<1> DEFINE d1 == Digits(1, AnyLength)
           start == <<Edge, d1>>
           edge == <<Edge>>
<1>1. PICK pattern \in Num : Len(text) + 1 \in Ends(text, 1, pattern)
  BY RulesAre DEF RuleEnds
<1>2. pattern \in Seq(Item) /\ Len(pattern) \in Nat
  <2>1. 9 \in DOMAIN Rules /\ pattern \in Rules[9].patterns
    BY <1>1, RulesAre
  <2> QED BY <2>1, RulePatterns, LenProperties DEF Whole
<1>3. Len(text) \in Nat /\ 1 \in 1 .. Len(text) + 1
  <2>1. Len(text) \in Nat
    BY LenProperties
  <2> QED BY <2>1
<1>4. PICK trail : /\ Trail(trail, text, 1, pattern, Len(pattern))
                   /\ trail[Len(pattern)] = Len(text) + 1
  BY <1>1, <1>2, <1>3, TrailExists
<1>5. d1 # Edge /\ d1.class = Digit /\ d1 \in Item /\ "." \notin Digit
  <2>1. d1.max # Edge.max
    BY DEF Digits, Runs, Edge, AnyLength
  <2> QED BY <2>1, ItemTypes DEF Digits, Runs, AnyLength, Digit
<1>6. Dot # Edge /\ Dot.min = 1 /\ Dot.max = 1 /\ Dot.max # AnyLength
  BY DEF Dot, One, Runs, Edge, AnyLength
<1> HIDE DEF d1
<1>7. CASE pattern = <<Edge, d1, Edge>>
  <2>1. \A j \in 1 .. Len(pattern) : pattern[j].class \subseteq Digit
    <3>1. Len(pattern) = 3 /\ pattern[1] = Edge /\ pattern[2] = d1 /\ pattern[3] = Edge
      BY <1>7
    <3>2. \A j \in 1 .. 3 : j = 1 \/ j = 2 \/ j = 3
      OBVIOUS
    <3>3. Edge.class = {}
      BY DEF Edge, Runs
    <3> HIDE DEF Digit
    <3> QED BY <1>5, <3>1, <3>2, <3>3
  <2>2. \A m \in 1 .. trail[Len(pattern)] - 1 : text[m] \in Digit
    <3>1. 1 \in Nat
      OBVIOUS
    <3> HIDE DEF Digit
    <3> QED BY <1>2, <1>4, <2>1, <3>1, TrailMakes
  <2>3. \A m \in 1 .. Len(text) : m \in 1 .. trail[Len(pattern)] - 1
    BY <1>3, <1>4
  <2> HIDE DEF Digit
  <2> QED BY <1>5, <2>2, <2>3
<1>8. CASE pattern = (start \o Fraction) \o edge
  <2>1. Fraction = <<Dot, d1>>
    BY DEF Fraction, d1
  <2>2. Len(pattern) = 5 /\ pattern[2] = d1 /\ pattern[3] = Dot /\ pattern[4] = d1
        /\ pattern[1] = Edge /\ pattern[5] = Edge
    <3> DEFINE stem == start \o Fraction
    <3>1. /\ start \in Seq(Item) /\ Len(start) = 2 /\ start[1] = Edge /\ start[2] = d1
          /\ edge \in Seq(Item) /\ Len(edge) = 1 /\ edge[1] = Edge
          /\ Fraction \in Seq(Item) /\ Len(Fraction) = 2 /\ Fraction[1] = Dot /\ Fraction[2] = d1
      BY <1>5, <2>1, ItemTypes
    <3> HIDE DEF start, edge, Item
    <3>2. /\ stem \in Seq(Item) /\ Len(stem) = 4
          /\ \A k \in 1 .. 4 : stem[k] = IF k <= 2 THEN start[k] ELSE Fraction[k - 2]
      <4>1. /\ start \o Fraction \in Seq(Item)
            /\ Len(start \o Fraction) = Len(start) + Len(Fraction)
            /\ \A k \in 1 .. Len(start) + Len(Fraction) :
                 (start \o Fraction)[k] = IF k <= Len(start) THEN start[k] ELSE Fraction[k - Len(start)]
        BY <3>1, ConcatProperties
      <4> QED BY <3>1, <4>1
    <3>3. stem[1] = Edge /\ stem[2] = d1 /\ stem[3] = Dot /\ stem[4] = d1
      BY <3>1, <3>2
    <3> HIDE DEF stem
    <3>4. /\ Len(stem \o edge) = 5
          /\ \A k \in 1 .. 5 : (stem \o edge)[k] = IF k <= 4 THEN stem[k] ELSE edge[k - 4]
      <4>1. /\ Len(stem \o edge) = Len(stem) + Len(edge)
            /\ \A k \in 1 .. Len(stem) + Len(edge) :
                 (stem \o edge)[k] = IF k <= Len(stem) THEN stem[k] ELSE edge[k - Len(stem)]
        BY <3>1, <3>2, ConcatProperties
      <4> QED BY <3>1, <3>2, <4>1
    <3>5. pattern = stem \o edge
      BY <1>8 DEF stem
    <3> QED BY <3>1, <3>3, <3>4, <3>5
  <2>3. /\ trail[0] = 1 /\ trail[5] = Len(text) + 1
        /\ \A k \in 0 .. 5 : trail[k] \in 1 .. Len(text) + 1
        /\ Steps(Edge, text, trail[0], trail[1])
        /\ Steps(d1, text, trail[1], trail[2])
        /\ Steps(Dot, text, trail[2], trail[3])
        /\ Steps(d1, text, trail[3], trail[4])
        /\ Steps(Edge, text, trail[4], trail[5])
    <3>1. /\ 1 \in 1 .. 5 /\ 2 \in 1 .. 5 /\ 3 \in 1 .. 5 /\ 4 \in 1 .. 5 /\ 5 \in 1 .. 5
          /\ 1 - 1 = 0 /\ 2 - 1 = 1 /\ 3 - 1 = 2 /\ 4 - 1 = 3 /\ 5 - 1 = 4
      OBVIOUS
    <3> HIDE DEF Steps
    <3> QED BY <1>4, <2>2, <3>1 DEF Trail
  <2>4. /\ trail[1] = 1 /\ trail[4] = Len(text) + 1
        /\ \A m \in trail[1] .. trail[2] - 1 : text[m] \in Digit
        /\ trail[3] = trail[2] + 1
        /\ \A m \in trail[3] .. trail[4] - 1 : text[m] \in Digit
    <3>1. \A k \in 0 .. 5 : trail[k] \in Nat
      BY <2>3
    <3>2. trail[2] \in Nat /\ trail[3] \in Nat
      BY <3>1
    <3> HIDE DEF Digit
    <3> QED BY <1>5, <1>6, <2>3, <3>2 DEF Steps
  <2>5. ASSUME NEW m \in 1 .. Len(text), text[m] = "."
        PROVE  m = trail[2]
    <3>1. trail[2] \in Nat
      <4>1. 2 \in 0 .. 5 /\ \A j \in 1 .. Len(text) + 1 : j \in Nat
        OBVIOUS
      <4> QED BY <2>3, <4>1
    <3>2. m \notin trail[1] .. trail[2] - 1 /\ m \notin trail[3] .. trail[4] - 1
      <4> HIDE DEF Digit
      <4> QED BY <1>5, <2>4, <2>5
    <3> QED BY <1>3, <2>4, <3>1, <3>2
  <2> QED BY <2>5
<1>9. pattern = <<Edge, d1, Edge>> \/ pattern = (start \o Fraction) \o edge
  BY <1>1 DEF Num, d1
<1> QED BY <1>7, <1>8, <1>9

\* The order of the alternatives is right: what a rule takes from end to end is
\* masked by that rule, and no rule before it takes a piece of it first, whatever
\* digits it has.  A timestamp never becomes numbers, a UUID never a timestamp, an
\* address never a port or a number.  Only a number may be another's: sixteen
\* digits in front of it are a hash.
THEOREM ValueMasked ==
  ASSUME NEW text \in Seq(Plain), NEW k \in DOMAIN Rules,
         Len(text) + 1 \in RuleEnds(text, 1, Rules[k]),
         k = 9 => ~StartsLikeHash(text)
  PROVE  Normalize(text) = Rules[k].tags
<1>1. text \in Seq(Symbols) /\ Len(text) \in Nat /\ k \in 1 .. 9
  <2>1. Plain \subseteq Symbols
    BY DEF Plain
  <2> HIDE DEF Plain, Symbols
  <2> QED BY <2>1, SeqMonotonic, LenProperties, RulesAre
<1> DEFINE Lacks(s) == \A m \in 1 .. Len(text) : text[m] # s
           Fails(j) == RuleEnds(text, 1, Rules[j]) = {}
<1>2. /\ Lacks("-") => Fails(1) /\ Fails(2)
      /\ Lacks(".") => Fails(3) /\ Fails(4)
      /\ Lacks(":") => Fails(3) /\ Fails(5)
      /\ Lacks("x") => Fails(6)
      /\ Lacks("/") => Fails(8)
  BY <1>1, RulesLack
<1>3. ASSUME NEW C, Rules[k].patterns \subseteq Seq(Of(C)), NEW s, s \notin C
      PROVE  Lacks(s)
  <2>1. \A m \in 1 .. Len(text) : text[m] \in C
    BY <1>1, <1>3, RuleMakes
  <2> QED BY <1>3, <2>1
<1>4. ASSUME NEW j \in 1 .. 9, ~Fails(j)
      PROVE  /\ j = 1 => text[5] = "-"
             /\ j = 2 => \A m \in 1 .. 8 : text[m] \in HexDigit
             /\ j = 7 => StartsLikeHash(text)
             /\ j \in 1 .. 7 => text[1] # "/"
             /\ j = 8 => text[1] = "/"
  BY <1>1, <1>4, RulesAre, RulesBegin
<1>5. ~Fails(k)
  OBVIOUS
<1> HIDE DEF Lacks, Fails, Plain, Symbols, Of
<1>6. \A j \in 1 .. k - 1 : Fails(j)
  <2>1. CASE k = 2
    <3>1. text[5] \in HexDigit /\ "-" \notin HexDigit
      <4>1. 5 \in 1 .. 8 /\ "-" \notin HexDigit
        BY DEF HexDigit, Digit
      <4> QED BY <1>1, <1>4, <1>5, <2>1, <4>1
    <3>2. Fails(1)
      BY <1>4, <3>1
    <3> QED BY <2>1, <3>2
  <2>2. CASE k = 3
    <3>1. Lacks("-")
      <4>1. "-" \notin Digit \cup {".", ":"}
        BY DEF Digit
      <4> QED BY <1>3, <2>2, <4>1, RulesAre, RulesOf
    <3> QED BY <1>2, <2>2, <3>1
  <2>3. CASE k = 4
    <3>1. Lacks("-") /\ Lacks(":")
      <4>1. "-" \notin Digit \cup {"."} /\ ":" \notin Digit \cup {"."}
        BY DEF Digit
      <4>2. Rules[k].patterns \subseteq Seq(Of(Digit \cup {"."}))
        BY <2>3, RulesAre, RulesOf
      <4> QED BY <1>3, <4>1, <4>2
    <3> QED BY <1>2, <2>3, <3>1
  <2>4. CASE k = 5
    <3>1. Lacks("-") /\ Lacks(".")
      <4>1. "-" \notin Digit \cup {":"} /\ "." \notin Digit \cup {":"}
        BY DEF Digit
      <4>2. Rules[k].patterns \subseteq Seq(Of(Digit \cup {":"}))
        BY <2>4, RulesAre, RulesOf
      <4> QED BY <1>3, <4>1, <4>2
    <3> QED BY <1>2, <2>4, <3>1
  <2>5. CASE k = 6
    <3>1. Lacks("-") /\ Lacks(".") /\ Lacks(":")
      <4>1. "-" \notin HexDigit \cup {"x"} /\ "." \notin HexDigit \cup {"x"} /\ ":" \notin HexDigit \cup {"x"}
        BY DEF HexDigit, Digit
      <4>2. Rules[k].patterns \subseteq Seq(Of(HexDigit \cup {"x"}))
        BY <2>5, RulesAre, RulesOf
      <4> QED BY <1>3, <4>1, <4>2
    <3> QED BY <1>2, <2>5, <3>1
  <2>6. CASE k = 7
    <3>1. Lacks("-") /\ Lacks(".") /\ Lacks(":") /\ Lacks("x")
      <4>1. "-" \notin HexDigit /\ "." \notin HexDigit /\ ":" \notin HexDigit /\ "x" \notin HexDigit
        BY DEF HexDigit, Digit
      <4>2. Rules[k].patterns \subseteq Seq(Of(HexDigit))
        BY <2>6, RulesAre, RulesOf
      <4> QED BY <1>3, <4>1, <4>2
    <3> QED BY <1>2, <2>6, <3>1
  <2>7. CASE k = 8
    <3>1. text[1] = "/"
      BY <1>1, <1>4, <1>5, <2>7
    <3>2. ASSUME NEW j \in 1 .. 7
          PROVE  Fails(j)
      <4>1. j \in 1 .. 9
        OBVIOUS
      <4> QED BY <1>4, <3>1, <4>1
    <3> QED BY <2>7, <3>2
  <2>8. CASE k = 9
    <3>1. /\ Lacks("-") /\ Lacks(":") /\ Lacks("x") /\ Lacks("/")
      <4>1. /\ "-" \notin Digit \cup {"."} /\ ":" \notin Digit \cup {"."}
            /\ "x" \notin Digit \cup {"."} /\ "/" \notin Digit \cup {"."}
        BY DEF Digit
      <4>2. Rules[k].patterns \subseteq Seq(Of(Digit \cup {"."}))
        BY <2>8, RulesAre, RulesOf
      <4> QED BY <1>3, <4>1, <4>2
    <3>2. Fails(4)
      <4>1. \A p, q \in 1 .. Len(text) : text[p] = "." /\ text[q] = "." => p = q
        BY <1>1, <2>8, NumberDots
      <4> QED BY <1>1, <4>1, AddressDots DEF Fails
    <3>3. Fails(7)
      BY <1>4, <2>8
    <3>4. \A j \in 1 .. 8 : j \in {1, 2, 3, 4, 5, 6, 7, 8}
      OBVIOUS
    <3> QED BY <1>2, <2>8, <3>1, <3>2, <3>3, <3>4
  <2>9. CASE k = 1
    BY <2>9
  <2> QED BY <1>1, <2>1, <2>2, <2>3, <2>4, <2>5, <2>6, <2>7, <2>8, <2>9
<1> QED BY <1>6, TakenWhole DEF Fails

\* Messages cut in fields: values of the rules and words no rule is for, with
\* separators between them.
IsRuleValue(part) ==
  /\ part.text \in Seq(Plain)
  /\ \E k \in DOMAIN Rules :
       /\ Len(part.text) + 1 \in RuleEnds(part.text, 1, Rules[k])
       /\ k = 9 => ~StartsLikeHash(part.text)
       /\ part.tags = Rules[k].tags
IsPlainWord(part) ==
  /\ part.text \in Seq(Word) /\ part.text # << >>
  /\ ~IsHash(part.text) /\ ~IsHex0x(part.text) /\ ~IsNumber(part.text)
  /\ part.tags = part.text
AreFields(message) ==
  /\ \A k \in 1 .. Len(message) :
       IsSeparator(message, k) \/ IsRuleValue(message[k]) \/ IsPlainWord(message[k])
  /\ \A k \in 1 .. Len(message) - 1 : IsSeparator(message, k) \/ IsSeparator(message, k + 1)
CutInFields(message) ==
  \E fields \in Seq(Part) :
    /\ AreFields(fields)
    /\ Written(fields) = StripAnsi(Written(message)) /\ Meant(fields) = Meant(message)

\* A line of values and words, with something between them that belongs to none,
\* is masked as meant: every value by its own tags, every word unchanged, however
\* many there are and whichever stand side by side.  Of a colored line that is
\* said of what strip_str leaves: fields a tab alone kept apart are one then.
THEOREM LineMasked ==
  ASSUME NEW message \in Seq(Part), CutInFields(message)
  PROVE  Normalize(Written(message)) = Meant(message)
<1>1. PICK fields \in Seq(Part) :
        /\ AreFields(fields)
        /\ Written(fields) = StripAnsi(Written(message)) /\ Meant(fields) = Meant(message)
  BY DEF CutInFields
<1>2. ASSUME NEW part, IsRuleValue(part)
      PROVE  IsMaskedAlone(part)
  <2>1. PICK k \in DOMAIN Rules :
          /\ Len(part.text) + 1 \in RuleEnds(part.text, 1, Rules[k])
          /\ k = 9 => ~StartsLikeHash(part.text)
          /\ part.tags = Rules[k].tags
    BY <1>2 DEF IsRuleValue
  <2>2. part.text \in Seq(Plain)
    BY <1>2 DEF IsRuleValue
  <2> HIDE DEF Plain
  <2>3. Normalize(part.text) = Rules[k].tags
    BY <2>1, <2>2, ValueMasked
  <2>4. StripAnsi(part.text) = part.text
    BY <2>2, StripAnsiPlain
  <2> QED BY <2>1, <2>3, <2>4 DEF IsMaskedAlone, Normalize
<1>3. ASSUME NEW part, IsPlainWord(part)
      PROVE  IsMaskedAlone(part)
  <2>1. part.text \in Seq(Word) /\ part.text # << >>
        /\ ~IsHash(part.text) /\ ~IsHex0x(part.text) /\ ~IsNumber(part.text)
        /\ part.tags = part.text
    BY <1>3 DEF IsPlainWord
  <2> HIDE DEF Word, AnyLength, IsHash, IsHex0x, IsNumber
  <2>2. Normalize(part.text) = part.text
    BY <2>1, WordMasked
  <2>3. Word \subseteq Plain
    BY DEF Word, HexDigit, Digit, Plain, Symbols, PathChar
  <2>4. part.text \in Seq(Plain)
    <3> HIDE DEF Plain
    <3> QED BY <2>1, <2>3, SeqMonotonic
  <2>5. StripAnsi(part.text) = part.text
    BY <2>4, StripAnsiPlain
  <2> QED BY <2>1, <2>2, <2>5 DEF IsMaskedAlone, Normalize
<1>4. KeepsApart(fields)
  <2> HIDE DEF IsSeparator, IsRuleValue, IsPlainWord, IsMaskedAlone
  <2> QED BY <1>1, <1>2, <1>3 DEF AreFields, KeepsApart
<1>5. Masked(Written(fields)) = Meant(fields)
  BY <1>1, <1>4, FieldsAreMasked
<1> QED BY <1>1, <1>5 DEF Normalize

\* Stage 0 reads texts and returns texts.
LEMMA TextsOnly == RawLines \cup Lines \subseteq Seq(Symbols)
<1>1. \A message \in Message : Written(message) \in Seq(Symbols)
  BY WrittenType DEF Message, Part
<1>2. ASSUME NEW raw \in RawLines
      PROVE  raw \in Seq(Symbols)
  <2>1. PICK lines \in Logs : \E message \in Range(lines) : raw = Written(message)
    BY DEF RawLines
  <2>2. PICK message \in Range(lines) : raw = Written(message)
    BY <2>1
  <2>3. message \in Message
    <3>1. lines \in Seq(Message)
      BY LogsAssumption
    <3> HIDE DEF Message
    <3> QED BY <3>1, LenProperties, ElementOfSeq DEF Range
  <2> QED BY <1>1, <2>2, <2>3
<1>3. ASSUME NEW l \in Lines
      PROVE  l \in Seq(Symbols)
  <2>1. PICK raw \in RawLines : l = Normalize(raw)
    BY DEF Lines, NormalizedAs, Range
  <2> QED BY <1>2, <2>1, NormalizeType
<1> QED BY <1>2, <1>3

------------------------------------------------------------------------------
\* The clusterer inside the pipeline.

LEMMA SameFinite ==
  ASSUME NEW S
  PROVE  P!IsFiniteSet(S) <=> IsFiniteSet(S)
BY DEF P!IsFiniteSet, IsFiniteSet

LEMMA SameCardinality ==
  ASSUME NEW S
  PROVE  P!Cardinality(S) = Cardinality(S)
BY DEF P!Cardinality, Cardinality

\* A set with a member for every position of a text is finite.
LEMMA ImageFinite ==
  ASSUME NEW S, IsFiniteSet(S), NEW f, DOMAIN f = S
  PROVE  IsFiniteSet({f[x] : x \in S})
<1> DEFINE T == {f[x] : x \in S}
           g == [x \in S |-> f[x]]
<1>1. g \in [S -> T] /\ \A t \in T : \E x \in S : g[x] = t
  OBVIOUS
<1> HIDE DEF g, T
<1>2. g \in Surjection(S, T)
  BY <1>1, Fun_IsSurj
<1> QED BY <1>2, FS_Surjection DEF T

LEMMA TokenSetFinite ==
  ASSUME NEW text \in Seq(Symbols)
  PROVE  IsFiniteSet(TokenSet(text))
<1> DEFINE S == WordStarts(text)
           U == {i \in DOMAIN text : text[i] \notin Word \cup White}
           f == [i \in S |-> SubSeq(text, i, WordEnd(text, i))]
           g == [i \in U |-> <<text[i]>>]
<1>1. IsFiniteSet(DOMAIN text)
  <2>1. Len(text) \in Nat /\ DOMAIN text = 1 .. Len(text)
    BY LenProperties
  <2> QED BY <2>1, UpTo
<1>2. S \in SUBSET DOMAIN text /\ U \in SUBSET DOMAIN text
  BY DEF WordStarts
<1>3. IsFiniteSet(S) /\ IsFiniteSet(U)
  <2> HIDE DEF S, U
  <2> QED BY <1>1, <1>2, FS_Subset
<1>4. TokenSet(text) = {f[i] : i \in S} \cup {g[i] : i \in U}
  BY DEF TokenSet
<1>5. IsFiniteSet({f[i] : i \in S}) /\ IsFiniteSet({g[i] : i \in U})
  <2>1. DOMAIN f = S /\ DOMAIN g = U
    OBVIOUS
  <2> HIDE DEF f, g, S, U
  <2> QED BY <1>3, <2>1, ImageFinite
<1> HIDE DEF f, g, S, U
<1> QED BY <1>4, <1>5, FS_Union

\* What the clusterer assumes of its lines and parameters holds here.
LEMMA ClustererAssumptions ==
  P!LinesAssumption /\ P!ParamsAssumption /\ P!MaxLinesAssumption
<1>1. TokensOf \in [Lines -> SUBSET Tokens]
  BY DEF TokensOf, Tokens, Range
<1>2. ASSUME NEW l \in Lines
      PROVE  P!IsFiniteSet(TokensOf[l])
  <2>1. TokensOf[l] = TokenSet(l) /\ l \in Seq(Symbols)
    BY TextsOnly DEF TokensOf
  <2> QED BY <2>1, TokenSetFinite, SameFinite
<1>3. P!LinesAssumption
  BY <1>1, <1>2 DEF P!LinesAssumption
<1>4. P!NaN = Clusterer!NaN
  BY DEF P!NaN, Clusterer!NaN, P!Fraction, Clusterer!Fraction
<1>5. P!ParamsAssumption
  BY <1>4, ParamsAssumption DEF P!ParamsAssumption
<1> QED BY <1>3, <1>5, LinesAssumption DEF P!MaxLinesAssumption

LEMMA SameInit == Clusterer!Init => P!Init
BY DEF P!Init, P!WithParams, P!ClampUnit, P!Zero, P!One, P!Fraction,
       Clusterer!Init, Clusterer!WithParams, Clusterer!ClampUnit, Clusterer!Zero,
       Clusterer!One, Clusterer!Fraction

LEMMA SameIngest ==
  ASSUME NEW l
  PROVE  Clusterer!Ingest(l) => P!Ingest(l)
BY DEF P!Ingest, P!Touch, P!Open, P!OpenMerging, P!OpenLosing, P!Matches, P!Clears,
       P!AtLeast, P!IsNaN, P!Similarity, P!Cardinality, P!One, P!Fraction, P!FirstMatch,
       P!NewEntry, P!Now, P!MoveToFront, P!RemoveAt, P!AtCapacity, P!Last, P!Front,
       P!Nearest, P!Best, P!Absorb, P!Rehome, P!Lost,
       Clusterer!Ingest, Clusterer!Touch, Clusterer!Open, Clusterer!OpenMerging,
       Clusterer!OpenLosing, Clusterer!Matches, Clusterer!Clears, Clusterer!AtLeast,
       Clusterer!IsNaN, Clusterer!Similarity, Clusterer!Cardinality, Clusterer!One,
       Clusterer!Fraction, Clusterer!FirstMatch, Clusterer!NewEntry, Clusterer!Now,
       Clusterer!MoveToFront, Clusterer!RemoveAt, Clusterer!AtCapacity, Clusterer!Last,
       Clusterer!Front, Clusterer!Nearest, Clusterer!Best, Clusterer!Absorb,
       Clusterer!Rehome, Clusterer!Lost

LEMMA SameVars == UNCHANGED stage1 => UNCHANGED P!vars /\ UNCHANGED Clusterer!vars
BY DEF P!vars, Clusterer!vars, P!history, Clusterer!history, stage1

\* The line read next is a line of the log, so what it becomes is one of Lines.
Reading == log \in Logs /\ raw_lines \in Nat

LEMMA NextRawIsRaw ==
  ASSUME Reading, raw_lines < Len(log)
  PROVE  /\ raw_lines + 1 \in 1 .. Len(log) /\ Len(log) \in Nat
         /\ NextRaw \in Seq(Symbols)
         /\ NormalizedAs[NextRaw] \in Lines
<1>1. /\ log \in Seq(Message)
      /\ Len(log) \in Nat /\ DOMAIN log = 1 .. Len(log)
  <2>1. log \in Seq(Message)
    BY LogsAssumption DEF Reading
  <2> QED BY <2>1, LenProperties
<1>2. raw_lines + 1 \in 1 .. Len(log)
  BY <1>1 DEF Reading
<1>3. log[raw_lines + 1] \in Range(log) /\ Range(log) \in {Range(lines) : lines \in Logs}
  BY <1>1, <1>2 DEF Range, Reading
<1>4. log[raw_lines + 1] \in UNION {Range(lines) : lines \in Logs}
  BY <1>3
<1>5. NextRaw \in RawLines
  BY <1>4 DEF NextRaw, RawLines
<1>6. NormalizedAs[NextRaw] \in Lines
  BY <1>5 DEF NormalizedAs, Lines, Range
<1> QED BY <1>1, <1>2, <1>5, <1>6, TextsOnly

LEMMA ReadingHolds == Spec => []Reading
<1>1. Init => Reading
  BY DEF Init, Reading
<1>2. Reading /\ [Next]_vars => Reading'
  <2> SUFFICES ASSUME Reading, [Next]_vars PROVE Reading'
    OBVIOUS
  <2>1. CASE ReadLine
    BY <2>1 DEF ReadLine, CountLine, Reading
  <2>2. CASE EndInput \/ Ask \/ Finish \/ Backend
    BY <2>2 DEF EndInput, Ask, Finish, Backend, Answer, Refuse, input, Reading
  <2>3. CASE UNCHANGED vars
    BY <2>3 DEF vars, input, Reading
  <2> QED BY <2>1, <2>2, <2>3 DEF Next, Run
<1> QED BY <1>1, <1>2, PTL DEF Spec

\* Every step ingests a line into the clusterer or leaves it alone.
LEMMA IngestsOrLeaves ==
  ASSUME Reading, [Next]_vars
  PROVE  (\E l \in Lines : Clusterer!Ingest(l)) \/ UNCHANGED stage1
<1>1. CASE ReadLine
  <2>1. raw_lines < Len(log) /\ Clusterer!Ingest(NormalizedAs[NextRaw])
    BY <1>1 DEF ReadLine, CountLine
  <2> QED BY <2>1, NextRawIsRaw
<1>2. CASE EndInput \/ Ask \/ Finish \/ Backend
  BY <1>2 DEF EndInput, Ask, Finish, Backend, Answer, Refuse
<1>3. CASE UNCHANGED vars
  BY <1>3 DEF vars
<1> QED BY <1>1, <1>2, <1>3 DEF Next, Run

\* So all that is proved of the clusterer holds of the pipeline's.
LEMMA ClustererRuns == Spec => P!Spec
<1>1. Init => P!Init
  BY SameInit DEF Init
<1>2. Reading /\ [Next]_vars => [P!Next]_(P!vars)
  BY IngestsOrLeaves, SameIngest, SameVars DEF P!Next
<1> QED BY <1>1, <1>2, ReadingHolds, PTL DEF Spec, P!Spec

LEMMA ClustererHolds ==
  Spec => [](P!TypeOK /\ P!HistoryOK /\ P!Accounting)
<1>1. P!Spec => [](P!TypeOK) /\ [](P!HistoryOK /\ P!RecencyOrder) /\ [](P!Accounting)
  BY ClustererAssumptions, P!TypeCorrect, P!HistoryCorrect, P!EveryLineAccounted
<1> QED BY <1>1, ClustererRuns, PTL

------------------------------------------------------------------------------
\* Stage 2.

\* The clusters on their way through Stage 2: those before `at` are answered.
HalfAnswered ==
  [i \in DOMAIN clusters |->
     [template |-> IF i < at THEN answers[i] ELSE clusters[i].line,
      count    |-> clusters[i].count]]

\* Stage 2 asks for one cluster after the other, and has the answers so far.
StageInv ==
  /\ compressor \in BOOLEAN
  /\ phase \in {"reading", "stage2", "waiting", "ok", "err"}
  /\ at \in Nat \ {0}
  /\ answers \in Seq(Texts)
  /\ Len(answers) = at - 1
  /\ phase = "reading" => at = 1 /\ compressed = << >>
  /\ phase # "reading" => compressed = HalfAnswered /\ at <= Len(clusters) + 1
  /\ phase = "waiting" => at <= Len(clusters)
  /\ phase \in {"stage2", "waiting"} => compressor
  /\ ~compressor => at = 1

\* The live clusters: a sequence of lines with their counts.
LEMMA ClusterShape ==
  ASSUME P!TypeOK
  PROVE  /\ Len(clusters) \in Nat /\ DOMAIN clusters = 1 .. Len(clusters)
         /\ \A i \in 1 .. Len(clusters) :
              /\ clusters[i].line \in Lines
              /\ clusters[i].count \in Nat \ {0}
              /\ clusters[i].id \in Nat
         /\ Len(seen) \in Nat /\ lost_lines \in Nat
<1>1. clusters \in Seq(P!Entries) /\ lost_lines \in Nat /\ Len(seen) \in Nat
  BY LenProperties DEF P!TypeOK
<1>2. /\ Len(clusters) \in Nat /\ DOMAIN clusters = 1 .. Len(clusters)
      /\ \A i \in 1 .. Len(clusters) : clusters[i] \in P!Entries
  BY <1>1, LenProperties, ElementOfSeq
<1> QED BY <1>1, <1>2 DEF P!Entries

\* The rows of a stage: as many as there are clusters, each with its count.
LEMMA HalfAnsweredShape ==
  ASSUME P!TypeOK, StageInv, phase # "reading"
  PROVE  /\ compressed \in Seq(Row)
         /\ Len(compressed) = Len(clusters)
         /\ DOMAIN compressed = 1 .. Len(clusters)
         /\ \A i \in 1 .. Len(clusters) : compressed[i].count = clusters[i].count
<1> DEFINE n == Len(clusters)
<1>1. n \in Nat /\ DOMAIN clusters = 1 .. n
      /\ \A i \in 1 .. n : clusters[i].line \in Lines /\ clusters[i].count \in Nat
  BY ClusterShape
<1>2. /\ at \in Nat /\ Len(answers) = at - 1 /\ answers \in Seq(Texts)
      /\ compressed = HalfAnswered
  BY DEF StageInv
<1>3. ASSUME NEW i \in 1 .. n, i < at
      PROVE  answers[i] \in Texts
  <2>1. i \in 1 .. Len(answers)
    BY <1>1, <1>2, <1>3
  <2> QED BY <1>2, <2>1, ElementOfSeq
<1>4. compressed \in [1 .. n -> Row]
  BY <1>1, <1>2, <1>3 DEF HalfAnswered, Row
<1>5. \A i \in 1 .. n : compressed[i].count = clusters[i].count
  BY <1>1, <1>2 DEF HalfAnswered
<1> HIDE DEF n
<1>6. compressed \in Seq(Row) /\ Len(compressed) = n
  BY <1>1, <1>4
<1> QED BY <1>4, <1>5, <1>6 DEF n

LEMMA StageStep ==
  ASSUME P!TypeOK, Reading, StageInv, [Next]_vars
  PROVE  StageInv'
<1>0. Len(clusters) \in Nat /\ DOMAIN clusters = 1 .. Len(clusters)
  BY ClusterShape
<1>1. CASE ReadLine
  <2>1. /\ phase = "reading"
        /\ UNCHANGED <<compressor, phase, compressed, at, answers>>
    BY <1>1 DEF ReadLine, CountLine
  <2> QED BY <2>1 DEF StageInv
<1>2. CASE EndInput
  <2>1. /\ phase = "reading" /\ compressed' = Rows
        /\ phase' = IF compressor THEN "stage2" ELSE "ok"
        /\ UNCHANGED <<clusters, compressor, at, answers>>
    BY <1>2 DEF EndInput, stage1
  <2>2. at = 1
    BY <2>1 DEF StageInv
  <2>3. compressed' = HalfAnswered'
    <3>1. HalfAnswered' = [i \in 1 .. Len(clusters) |->
                             [template |-> IF i < at THEN answers[i] ELSE clusters[i].line,
                              count    |-> clusters[i].count]]
      BY <1>0, <2>1 DEF HalfAnswered
    <3>2. \A i \in 1 .. Len(clusters) : ~(i < at)
      BY <1>0, <2>2
    <3> QED BY <1>0, <2>1, <3>1, <3>2 DEF Rows
  <2>4. at' = 1 /\ at' <= Len(clusters') + 1
    BY <1>0, <2>1, <2>2
  <2> QED BY <2>1, <2>3, <2>4 DEF StageInv
<1>3. CASE Ask \/ Refuse \/ Finish
  <2>1. /\ UNCHANGED <<clusters, compressor, compressed, at, answers>>
        /\ phase \in {"stage2", "waiting"}
        /\ phase' \in {"waiting", "err", "ok"}
        /\ phase' = "waiting" => at <= Len(compressed)
    BY <1>3 DEF Ask, Refuse, Finish, stage1
  <2>2. Len(compressed) = Len(clusters)
    BY <2>1, HalfAnsweredShape
  <2> HIDE DEF HalfAnswered
  <2>3. HalfAnswered' = HalfAnswered
    BY <2>1 DEF HalfAnswered
  <2> QED BY <2>1, <2>2, <2>3 DEF StageInv
<1>4. ASSUME NEW x \in Texts, Answer(x)
      PROVE  StageInv'
  <2>1. /\ phase = "waiting" /\ phase' = "stage2" /\ at' = at + 1
        /\ compressed' = [compressed EXCEPT ![at].template = x]
        /\ answers' = Append(answers, x)
        /\ UNCHANGED <<clusters, compressor>>
    BY <1>4 DEF Answer, stage1
  <2>2. /\ at \in Nat \ {0} /\ at <= Len(clusters) /\ Len(answers) = at - 1
        /\ answers \in Seq(Texts) /\ compressed = HalfAnswered /\ compressor = TRUE
    BY <2>1 DEF StageInv
  <2>3. /\ answers' \in Seq(Texts) /\ Len(answers') = at
        /\ answers'[at] = x
        /\ \A i \in 1 .. Len(clusters) : i < at => answers'[i] = answers[i]
    BY <1>0, <2>1, <2>2, AppendProperties
  <2>4. compressed' = HalfAnswered'
    <3>1. HalfAnswered' = [i \in 1 .. Len(clusters) |->
                             [template |-> IF i < at + 1 THEN answers'[i] ELSE clusters[i].line,
                              count    |-> clusters[i].count]]
      BY <1>0, <2>1 DEF HalfAnswered
    <3>2. /\ DOMAIN compressed = 1 .. Len(clusters)
          /\ \A i \in 1 .. Len(clusters) :
               compressed[i] = [template |-> IF i < at THEN answers[i] ELSE clusters[i].line,
                                count    |-> clusters[i].count]
      BY <1>0, <2>2 DEF HalfAnswered
    <3>4. /\ compressed' = [i \in 1 .. Len(clusters) |-> compressed'[i]]
          /\ compressed'[at] = [compressed[at] EXCEPT !.template = x]
          /\ \A i \in 1 .. Len(clusters) : i # at => compressed'[i] = compressed[i]
      <4>1. compressed = [i \in 1 .. Len(clusters) |-> compressed[i]]
        BY <1>0, <2>2 DEF HalfAnswered
      <4>2. compressed' = [i \in 1 .. Len(clusters) |->
                             IF i = at THEN [compressed[at] EXCEPT !.template = x]
                             ELSE compressed[i]]
        BY <2>1, <4>1
      <4>3. at \in 1 .. Len(clusters)
        BY <1>0, <2>2
      <4> QED BY <4>2, <4>3
    <3>5. compressed'[at] = [template |-> x, count |-> clusters[at].count]
      BY <1>0, <2>2, <3>2, <3>4
    <3>3. ASSUME NEW i \in 1 .. Len(clusters)
          PROVE  compressed'[i] = HalfAnswered'[i]
      <4>1. CASE i = at
        BY <1>0, <2>2, <2>3, <3>1, <3>2, <3>4, <3>5, <4>1
      <4>2. CASE i < at
        BY <1>0, <2>2, <2>3, <3>1, <3>2, <3>4, <3>5, <4>2
      <4>3. CASE i > at
        BY <1>0, <2>2, <2>3, <3>1, <3>2, <3>4, <3>5, <4>3
      <4> QED BY <1>0, <2>2, <4>1, <4>2, <4>3
    <3> QED BY <3>1, <3>4, <3>3
  <2>5. at' \in Nat \ {0} /\ at' <= Len(clusters') + 1 /\ Len(answers') = at' - 1
    BY <1>0, <2>1, <2>2, <2>3
  <2> QED BY <2>1, <2>2, <2>3, <2>4, <2>5 DEF StageInv
<1>5. CASE UNCHANGED vars
  <2>1. UNCHANGED <<clusters, compressor, phase, compressed, at, answers>>
    BY <1>5 DEF vars, stage1
  <2> QED BY <2>1 DEF StageInv, HalfAnswered
<1> QED BY <1>1, <1>2, <1>3, <1>4, <1>5 DEF Next, Run, Backend

LEMMA StageHolds == Spec => []StageInv
<1>1. Init => StageInv
  <2> SUFFICES ASSUME Init PROVE StageInv
    OBVIOUS
  <2>1. /\ compressor \in BOOLEAN /\ phase = "reading" /\ at = 1
        /\ compressed = << >> /\ answers = << >>
    BY CompressorsAssumption DEF Init
  <2>2. << >> \in Seq(Texts) /\ Len(<< >>) = 0
    BY EmptySeq
  <2> QED BY <2>1, <2>2 DEF StageInv
<1>2. P!TypeOK /\ Reading /\ StageInv /\ [Next]_vars => StageInv'
  BY StageStep
<1> QED BY <1>1, <1>2, ClustererHolds, ReadingHolds, PTL DEF Spec

\* Stage 2 gives every cluster the answer to its own template and nothing
\* else: no cluster is skipped, asked for twice, reordered or recounted.
THEOREM AnswersLandCorrect == Spec => []AnswersLandInPlace
<1>1. StageInv => AnswersLandInPlace
  BY DEF StageInv, AnswersLandInPlace, HalfAnswered
<1> QED BY <1>1, StageHolds, PTL

------------------------------------------------------------------------------
\* The result.

\* What has been read is measured, and a result is there only at the end of a
\* run that went through.
ResultInv ==
  /\ phase # "reading" => raw_lines = Len(log)
  /\ result # None =>
       /\ phase = "ok"
       /\ result = Returned(compressed,
                            IF compressor THEN TokenCount(OutputBytes(compressed)) ELSE None)
       /\ compressor => at = Len(clusters) + 1

LEMMA ResultStep ==
  ASSUME P!TypeOK, Reading, StageInv, ResultInv, [Next]_vars
  PROVE  ResultInv'
<1>1. CASE ReadLine
  <2>1. phase = "reading" /\ UNCHANGED <<phase, result>>
    BY <1>1 DEF ReadLine, CountLine
  <2> QED BY <2>1 DEF ResultInv
<1>2. CASE EndInput
  <2>1. /\ phase = "reading" /\ compressed' = Rows /\ raw_lines = Len(log)
        /\ IF compressor THEN phase' = "stage2" /\ result' = result
           ELSE phase' = "ok" /\ result' = Returned(Rows, None)
        /\ UNCHANGED <<clusters, lost_lines, log, raw_lines, raw_bytes, raw_tokens, compressor, at>>
    BY <1>2 DEF EndInput, stage1, input
  <2>2. result = None /\ compressor \in BOOLEAN
    BY <2>1 DEF ResultInv, StageInv
  <2>3. CASE compressor
    BY <2>1, <2>2, <2>3 DEF ResultInv
  <2>4. CASE ~compressor
    BY <2>1, <2>4 DEF ResultInv, Returned, Rows
  <2> QED BY <2>3, <2>4
<1>3. CASE Ask \/ Refuse \/ \E x \in Texts : Answer(x)
  <2>1. /\ phase \in {"stage2", "waiting"} /\ phase' # "reading"
        /\ UNCHANGED <<log, raw_lines, result>>
    BY <1>3 DEF Ask, Refuse, Answer, input
  <2>2. result = None /\ raw_lines = Len(log)
    BY <2>1 DEF ResultInv
  <2> QED BY <2>1, <2>2 DEF ResultInv
<1>4. CASE Finish
  <2>1. /\ phase = "stage2" /\ phase' = "ok" /\ at > Len(compressed)
        /\ result' = Returned(compressed, TokenCount(OutputBytes(compressed)))
        /\ UNCHANGED <<clusters, lost_lines, log, raw_lines, raw_bytes, raw_tokens,
                       compressor, compressed, at>>
    BY <1>4 DEF Finish, stage1, input
  <2>2. /\ compressor /\ Len(compressed) = Len(clusters) /\ Len(clusters) \in Nat
        /\ at \in Nat /\ at <= Len(clusters) + 1
    BY <2>1, HalfAnsweredShape, ClusterShape DEF StageInv
  <2>3. at = Len(clusters) + 1 /\ raw_lines = Len(log)
    BY <2>1, <2>2 DEF ResultInv
  <2>4. result' = Returned(compressed, IF compressor THEN TokenCount(OutputBytes(compressed)) ELSE None)'
    BY <2>1, <2>2 DEF Returned, Rows
  <2> QED BY <2>1, <2>3, <2>4 DEF ResultInv
<1>5. CASE UNCHANGED vars
  <2>1. UNCHANGED <<clusters, lost_lines, log, raw_lines, raw_bytes, raw_tokens,
                    compressor, compressed, at, phase, result>>
    BY <1>5 DEF vars, stage1, input
  <2> QED BY <2>1 DEF ResultInv, Returned, Rows
<1> QED BY <1>1, <1>2, <1>3, <1>4, <1>5 DEF Next, Run, Backend

LEMMA ResultHolds == Spec => []ResultInv
<1>1. Init => ResultInv
  BY DEF Init, ResultInv
<1>2. P!TypeOK /\ Reading /\ StageInv /\ ResultInv /\ [Next]_vars => ResultInv'
  BY ResultStep
<1> QED BY <1>1, <1>2, ClustererHolds, ReadingHolds, StageHolds, PTL DEF Spec

\* One refused cluster fails the whole run: a result is never returned with a
\* cluster the compressor has not answered for, nor next to an error.
THEOREM AllOrNothingCorrect == Spec => []AllOrNothing
<1>1. P!TypeOK /\ StageInv /\ ResultInv => AllOrNothing
  <2> SUFFICES ASSUME P!TypeOK, StageInv, ResultInv, result # None
               PROVE  phase = "ok" /\ (compressor => Len(answers) = Len(clusters))
    BY DEF AllOrNothing
  <2>1. Len(clusters) \in Nat
    BY ClusterShape
  <2> QED BY <2>1 DEF StageInv, ResultInv
<1> QED BY <1>1, ClustererHolds, StageHolds, ResultHolds, PTL

------------------------------------------------------------------------------
\* The statistics.

LEMMA BytesType ==
  ASSUME NEW text \in Seq(Symbols)
  PROVE  Bytes(text) \in Nat
<1> DEFINE f == [k \in DOMAIN text |-> SymbolBytes(text[k])]
<1>1. Len(text) \in Nat /\ DOMAIN text = 1 .. Len(text)
  BY LenProperties
<1>2. IsFiniteSet(DOMAIN f)
  BY <1>1, UpTo
<1>3. ASSUME NEW symbol
      PROVE  SymbolBytes(symbol) \in Nat
  <2>1. 6 \in Nat /\ 5 \in Nat /\ 4 \in Nat /\ 1 \in Nat
    OBVIOUS
  <2> QED BY <2>1, Zenon DEF SymbolBytes
<1>4. \A k \in DOMAIN f : f[k] \in Nat
  BY <1>3
<1> HIDE DEF f
<1>5. Total(f) \in Nat
  BY <1>2, <1>4, TotalType
<1> QED BY <1>5 DEF Bytes, f

LEMMA WidthType ==
  ASSUME NEW n \in Nat
  PROVE  Width(n) \in Nat
<1> DEFINE W == {k \in 1 .. n : 10 ^ (k - 1) <= n}
<1>1. W \in SUBSET (1 .. n) /\ IsFiniteSet(1 .. n)
  BY UpTo
<1> HIDE DEF W
<1> QED BY <1>1, FS_Subset, FS_CardinalityType DEF Width, W

LEMMA OutputBytesType ==
  ASSUME NEW rows \in Seq(Row)
  PROVE  OutputBytes(rows) \in Nat
<1> DEFINE f == [i \in DOMAIN rows |-> RowBytes(rows[i])]
<1>1. /\ Len(rows) \in Nat /\ DOMAIN rows = 1 .. Len(rows)
      /\ \A i \in 1 .. Len(rows) : rows[i] \in Row
  BY LenProperties, ElementOfSeq
<1>2. IsFiniteSet(DOMAIN f)
  BY <1>1, UpTo
<1>3. ASSUME NEW row \in Row
      PROVE  RowBytes(row) \in Nat
  <2>1. row.template \in Seq(Symbols)
    BY TextsOnly, TextsAssumption DEF Row
  <2>2. Bytes(row.template) \in Nat
    BY <2>1, BytesType
  <2>3. row.count \in Nat /\ Width(row.count) \in Nat
    BY WidthType DEF Row
  <2> QED BY <2>2, <2>3 DEF RowBytes
<1>4. \A i \in DOMAIN f : f[i] \in Nat
  BY <1>1, <1>3
<1> HIDE DEF f
<1>5. Total(f) \in Nat
  BY <1>2, <1>4, TotalType
<1> QED BY <1>5 DEF OutputBytes, f

LEMMA TokenCountType ==
  ASSUME NEW bytes \in Nat
  PROVE  TokenCount(bytes) \in Nat
BY DEF TokenCount

LEMMA WrittenIsText ==
  ASSUME log \in Logs, NEW i \in 1 .. Len(log)
  PROVE  Written(log[i]) \in Seq(Symbols)
<1>1. log \in Seq(Message) /\ DOMAIN log = 1 .. Len(log)
  BY LogsAssumption, LenProperties
<1>2. log[i] \in Range(log) /\ Range(log) \in {Range(lines) : lines \in Logs}
  BY <1>1 DEF Range
<1>3. log[i] \in UNION {Range(lines) : lines \in Logs}
  BY <1>2
<1>4. Written(log[i]) \in RawLines
  BY <1>3 DEF RawLines
<1> QED BY <1>4, TextsOnly

\* The lines read are the lines ingested; their bytes are counted, and the
\* tokens of each.
TokensOfLine(i) == TokenCount(Bytes(Written(log[i])))
InputInv ==
  /\ Reading
  /\ raw_lines <= Len(log)
  /\ raw_lines = Len(seen)
  /\ raw_bytes = Total([i \in 1 .. raw_lines |-> Bytes(Written(log[i]))])
  /\ raw_tokens = Total([i \in 1 .. raw_lines |-> TokensOfLine(i)])

LEMMA InputStep ==
  ASSUME P!TypeOK, P!TypeOK', InputInv, [Next]_vars
  PROVE  InputInv'
<1>1. CASE ReadLine
  <2> DEFINE f == [i \in 1 .. raw_lines |-> Bytes(Written(log[i]))]
             g == [i \in 1 .. raw_lines + 1 |-> Bytes(Written(log[i]))]
             u == [i \in 1 .. raw_lines |-> TokensOfLine(i)]
             v == [i \in 1 .. raw_lines + 1 |-> TokensOfLine(i)]
  <2>1. /\ raw_lines < Len(log)
        /\ raw_lines' = raw_lines + 1 /\ log' = log
        /\ raw_bytes' = raw_bytes + Bytes(NextRaw)
        /\ raw_tokens' = raw_tokens + TokenCount(Bytes(NextRaw))
        /\ Clusterer!Ingest(NormalizedAs[NextRaw])
    BY <1>1 DEF ReadLine, CountLine
  <2>2. /\ raw_lines \in Nat /\ Len(log) \in Nat /\ log \in Logs
        /\ raw_bytes = Total(f) /\ raw_tokens = Total(u)
    BY <2>1, NextRawIsRaw DEF InputInv, Reading
  <2>3. f \in [1 .. raw_lines -> Nat] /\ g \in [1 .. raw_lines + 1 -> Nat]
    <3>1. \A i \in 1 .. raw_lines + 1 : i \in 1 .. Len(log)
      BY <2>1, <2>2
    <3>2. \A i \in 1 .. raw_lines + 1 : Bytes(Written(log[i])) \in Nat
      BY <2>2, <3>1, WrittenIsText, BytesType
    <3> QED BY <2>2, <3>2
  <2>4. \A i \in 1 .. raw_lines : g[i] = f[i]
    BY <2>2
  <2>5. g[raw_lines + 1] = Bytes(NextRaw)
    BY <2>2 DEF NextRaw
  <2>6. raw_bytes' = Total([i \in 1 .. raw_lines |-> Bytes(Written(log[i]))])'
    <3> HIDE DEF f, g
    <3>1. Total(g) = Total(f) + g[raw_lines + 1]
      BY <2>2, <2>3, <2>4, TotalGrows
    <3>2. Total([i \in 1 .. raw_lines |-> Bytes(Written(log[i]))])' = Total(g)
      BY <2>1 DEF g
    <3> QED BY <2>1, <2>2, <2>5, <3>1, <3>2
  <2>7. raw_lines' = Len(seen')
    <3>1. P!Ingest(NormalizedAs[NextRaw])
      BY <2>1, SameIngest
    <3>2. seen' = Append(seen, NormalizedAs[NextRaw])
      BY <3>1 DEF P!Ingest
    <3>3. Len(seen') = Len(seen) + 1
      BY <3>2, AppendProperties DEF P!TypeOK
    <3> QED BY <2>1, <3>3 DEF InputInv
  <2>8. raw_tokens' = Total([i \in 1 .. raw_lines |-> TokensOfLine(i)])'
    <3>1. /\ u \in [1 .. raw_lines -> Nat] /\ v \in [1 .. raw_lines + 1 -> Nat]
          /\ \A i \in 1 .. raw_lines : v[i] = u[i]
          /\ v[raw_lines + 1] = TokenCount(Bytes(NextRaw))
      <4>1. \A i \in 1 .. raw_lines + 1 : g[i] \in Nat /\ g[i] = Bytes(Written(log[i]))
        BY <2>3
      <4>2. \A i \in 1 .. raw_lines + 1 : TokensOfLine(i) \in Nat
        BY <4>1, TokenCountType DEF TokensOfLine
      <4> QED BY <2>2, <4>2 DEF TokensOfLine, NextRaw
    <3>2. Total([i \in 1 .. raw_lines |-> TokensOfLine(i)])' = Total(v)
      BY <2>1 DEF v, TokensOfLine
    <3> HIDE DEF u, v
    <3>3. Total(v) = Total(u) + v[raw_lines + 1]
      BY <2>2, <3>1, TotalGrows
    <3> QED BY <2>1, <2>2, <3>1, <3>2, <3>3
  <2>9. raw_lines' <= Len(log') /\ Reading'
    BY <2>1, <2>2 DEF Reading
  <2> QED BY <2>6, <2>7, <2>8, <2>9 DEF InputInv
<1>2. CASE EndInput \/ Ask \/ Finish \/ Backend
  <2>1. UNCHANGED <<log, raw_lines, raw_bytes, raw_tokens, seen>>
    BY <1>2 DEF EndInput, Ask, Finish, Backend, Answer, Refuse, input, stage1
  <2> QED BY <2>1 DEF InputInv, Reading, TokensOfLine
<1>3. CASE UNCHANGED vars
  <2>1. UNCHANGED <<log, raw_lines, raw_bytes, raw_tokens, seen>>
    BY <1>3 DEF vars, input, stage1
  <2> QED BY <2>1 DEF InputInv, Reading, TokensOfLine
<1> QED BY <1>1, <1>2, <1>3 DEF Next, Run

LEMMA InputHolds == Spec => []InputInv
<1>1. Init => InputInv
  <2> SUFFICES ASSUME Init PROVE InputInv
    OBVIOUS
  <2>1. log \in Logs /\ raw_lines = 0 /\ raw_bytes = 0 /\ raw_tokens = 0
    BY DEF Init
  <2>2. seen = << >> /\ Len(<< >>) = 0
    BY SameInit DEF Init, P!Init
  <2>3. Len(log) \in Nat
    BY <2>1, LogsAssumption, LenProperties
  <2>4. /\ Total([i \in 1 .. raw_lines |-> Bytes(Written(log[i]))]) = 0
        /\ Total([i \in 1 .. raw_lines |-> TokensOfLine(i)]) = 0
    BY <2>1, TotalOfNone
  <2> QED BY <2>1, <2>2, <2>3, <2>4 DEF InputInv, Reading
<1>2. P!TypeOK /\ P!TypeOK' /\ InputInv /\ [Next]_vars => InputInv'
  BY InputStep
<1> QED BY <1>1, <1>2, ClustererHolds, PTL DEF Spec

\* What the clusterer has been given: every line read, normalized, in order.
SeenInv == \A i \in 1 .. raw_lines : seen[i] = Normalize(Written(log[i]))

LEMMA SeenStep ==
  ASSUME P!TypeOK, InputInv, SeenInv, [Next]_vars
  PROVE  SeenInv'
<1>1. CASE ReadLine
  <2>1. /\ raw_lines < Len(log) /\ raw_lines' = raw_lines + 1 /\ log' = log
        /\ Clusterer!Ingest(NormalizedAs[NextRaw])
    BY <1>1 DEF ReadLine, CountLine
  <2>2. raw_lines \in Nat /\ raw_lines = Len(seen) /\ Reading /\ seen \in Seq(Lines)
    BY DEF InputInv, Reading, P!TypeOK
  <2>3. seen' = Append(seen, NormalizedAs[NextRaw])
    <3>1. P!Ingest(NormalizedAs[NextRaw])
      BY <2>1, SameIngest
    <3> QED BY <3>1 DEF P!Ingest
  <2>4. NormalizedAs[NextRaw] \in Lines
    BY <2>1, <2>2, NextRawIsRaw
  <2>5. NormalizedAs[NextRaw] = Normalize(Written(log[raw_lines + 1]))
    <3>1. NextRaw \in RawLines
      <4>1. log \in Seq(Message) /\ DOMAIN log = 1 .. Len(log) /\ raw_lines + 1 \in 1 .. Len(log)
        <5>1. log \in Seq(Message)
          BY <2>2, LogsAssumption DEF Reading
        <5>2. raw_lines + 1 \in 1 .. Len(log)
          BY <2>1, <2>2, NextRawIsRaw
        <5> QED BY <5>1, <5>2, LenProperties
      <4>2. log[raw_lines + 1] \in Range(log) /\ Range(log) \in {Range(lines) : lines \in Logs}
        BY <2>2, <4>1 DEF Range, Reading
      <4>3. log[raw_lines + 1] \in UNION {Range(lines) : lines \in Logs}
        BY <4>2
      <4> QED BY <4>3 DEF NextRaw, RawLines
    <3> QED BY <3>1 DEF NormalizedAs, NextRaw
  <2>6. /\ \A i \in 1 .. raw_lines : seen'[i] = seen[i]
        /\ seen'[raw_lines + 1] = NormalizedAs[NextRaw]
    <3> DEFINE e == NormalizedAs[NextRaw]
    <3> HIDE DEF e
    <3>1. /\ \A i \in 1 .. Len(seen) : Append(seen, e)[i] = seen[i]
          /\ Append(seen, e)[Len(seen) + 1] = e
      BY <2>2, <2>4, AppendProperties DEF e
    <3> QED BY <2>2, <2>3, <3>1 DEF e
  <2>7. \A i \in 1 .. raw_lines + 1 : i \in 1 .. raw_lines \/ i = raw_lines + 1
    BY <2>2
  <2>8. \A i \in 1 .. raw_lines + 1 : seen'[i] = Normalize(Written(log[i]))
    BY <2>5, <2>6, <2>7 DEF SeenInv
  <2> QED BY <2>1, <2>8 DEF SeenInv
<1>2. CASE EndInput \/ Ask \/ Finish \/ Backend
  <2>1. UNCHANGED <<log, raw_lines, seen>>
    BY <1>2 DEF EndInput, Ask, Finish, Backend, Answer, Refuse, input, stage1
  <2> QED BY <2>1 DEF SeenInv
<1>3. CASE UNCHANGED vars
  <2>1. UNCHANGED <<log, raw_lines, seen>>
    BY <1>3 DEF vars, input, stage1
  <2> QED BY <2>1 DEF SeenInv
<1> QED BY <1>1, <1>2, <1>3 DEF Next, Run

\* Every line is given to the clusterer once, in order; one that is cut in fields
\* arrives as its tags, whatever the other lines of the log are; and a log of such
\* lines is masked as meant.
MasksFields ==
  /\ SeenInv
  /\ \A i \in 1 .. raw_lines : CutInFields(log[i]) => seen[i] = Meant(log[i])
LogInFields == \A i \in 1 .. Len(log) : CutInFields(log[i])

LEMMA SeenMeansMasked ==
  ASSUME P!TypeOK, InputInv, SeenInv
  PROVE  MasksFields /\ (LogInFields => MasksAsMeant)
<1>1. raw_lines \in Nat /\ raw_lines = Len(seen) /\ raw_lines <= Len(log) /\ seen \in Seq(Lines)
  BY DEF InputInv, Reading, P!TypeOK
<1>2. \A i \in 1 .. raw_lines : i \in 1 .. Len(log)
  <2>1. Len(log) \in Nat
    <3>1. log \in Seq(Message)
      BY LogsAssumption DEF InputInv, Reading
    <3> QED BY <3>1, LenProperties
  <2> QED BY <1>1, <2>1
<1>3. \A i \in 1 .. raw_lines : CutInFields(log[i]) => seen[i] = Meant(log[i])
  <2>1. \A i \in 1 .. raw_lines : log[i] \in Seq(Part)
    <3>1. log \in Seq(Message)
      BY LogsAssumption DEF InputInv, Reading
    <3>2. \A i \in 1 .. Len(log) : log[i] \in Message
      BY <3>1, LenProperties, ElementOfSeq
    <3> QED BY <1>2, <3>2 DEF Message, Part
  <2> QED BY <2>1, LineMasked DEF SeenInv
<1>4. ASSUME LogInFields
      PROVE  MasksAsMeant
  <2>1. \A i \in 1 .. raw_lines : seen[i] = Meant(log[i])
    BY <1>2, <1>3, <1>4 DEF LogInFields
  <2>2. DOMAIN seen = 1 .. raw_lines
    BY <1>1, LenProperties
  <2> QED BY <1>1, <2>1, <2>2 DEF MasksAsMeant
<1> QED BY <1>3, <1>4 DEF MasksFields

\* In every state, what Stage 1 has seen is what Stage 0 makes of the lines read,
\* and of a log whose lines are cut in fields it is what the tags of each say.
THEOREM FieldsMaskedAsMeant == Spec => [](MasksFields /\ (LogInFields => MasksAsMeant))
<1>1. Init => SeenInv
  <2> SUFFICES ASSUME Init PROVE SeenInv
    OBVIOUS
  <2>1. raw_lines = 0
    BY DEF Init
  <2> QED BY <2>1 DEF SeenInv
<1>2. P!TypeOK /\ InputInv /\ SeenInv /\ [Next]_vars => SeenInv'
  BY SeenStep
<1>3. P!TypeOK /\ InputInv /\ SeenInv => MasksFields /\ (LogInFields => MasksAsMeant)
  BY SeenMeansMasked
<1> QED BY <1>1, <1>2, <1>3, ClustererHolds, InputHolds, PTL DEF Spec

\* The counts of the rows and the lost lines are the lines read: the clusterer's
\* Accounting, with the tally marks of its names renamed to positions.
LEMMA CountsTotal ==
  ASSUME P!TypeOK, P!HistoryOK, P!Accounting
  PROVE  /\ Total([i \in 1 .. Len(clusters) |-> clusters[i].count]) \in Nat
         /\ Total([i \in 1 .. Len(clusters) |-> clusters[i].count]) + lost_lines = Len(seen)
<1> DEFINE n == Len(clusters)
           counts == [i \in 1 .. n |-> clusters[i].count]
           h == [p \in Tally(counts) |-> <<clusters[p[1]].id, p[2]>>]
<1>1. /\ n \in Nat /\ DOMAIN clusters = 1 .. n
      /\ \A i \in 1 .. n : clusters[i].count \in Nat
      /\ \A i, j \in 1 .. n : clusters[i].id = clusters[j].id => i = j
  BY ClusterShape DEF P!HistoryOK
<1>2. ASSUME NEW p
      PROVE  p \in Tally(counts) <=>
               \E i \in 1 .. n : \E k \in 1 .. clusters[i].count : p = <<i, k>>
  BY TallyMarks
<1>3. ASSUME NEW p
      PROVE  p \in P!Tallies <=>
               \E i \in 1 .. n : \E k \in 1 .. clusters[i].count : p = <<clusters[i].id, k>>
  BY <1>1 DEF P!Tallies
<1>4. IsFiniteSet(Tally(counts)) /\ Total(counts) \in Nat
  <2>1. IsFiniteSet(DOMAIN counts) /\ \A i \in DOMAIN counts : counts[i] \in Nat
    BY <1>1, UpTo
  <2> HIDE DEF counts
  <2> QED BY <2>1, TotalType
<1> HIDE DEF counts
<1>5. ASSUME NEW p \in Tally(counts)
      PROVE  h[p] \in P!Tallies
  <2>1. PICK i \in 1 .. n : \E k \in 1 .. clusters[i].count : p = <<i, k>>
    BY <1>2
  <2>2. PICK k \in 1 .. clusters[i].count : p = <<i, k>>
    BY <2>1
  <2>3. h[p] = <<clusters[i].id, k>>
    BY <2>2
  <2> QED BY <1>3, <2>3
<1>6. ASSUME NEW p \in Tally(counts), NEW q \in Tally(counts), h[p] = h[q]
      PROVE  p = q
  <2>1. PICK i \in 1 .. n : \E k \in 1 .. clusters[i].count : p = <<i, k>>
    BY <1>2
  <2>2. PICK k \in 1 .. clusters[i].count : p = <<i, k>>
    BY <2>1
  <2>3. PICK j \in 1 .. n : \E m \in 1 .. clusters[j].count : q = <<j, m>>
    BY <1>2
  <2>4. PICK m \in 1 .. clusters[j].count : q = <<j, m>>
    BY <2>3
  <2>5. h[p] = <<clusters[i].id, k>> /\ h[q] = <<clusters[j].id, m>>
    BY <2>2, <2>4
  <2>6. clusters[i].id = clusters[j].id /\ k = m
    BY <1>6, <2>5
  <2> QED BY <1>1, <2>2, <2>4, <2>6
<1>7. ASSUME NEW t \in P!Tallies
      PROVE  \E p \in Tally(counts) : h[p] = t
  <2>1. PICK i \in 1 .. n : \E k \in 1 .. clusters[i].count : t = <<clusters[i].id, k>>
    BY <1>3
  <2>2. PICK k \in 1 .. clusters[i].count : t = <<clusters[i].id, k>>
    BY <2>1
  <2>3. <<i, k>> \in Tally(counts)
    BY <1>2
  <2>4. h[<<i, k>>] = t
    BY <2>2, <2>3
  <2> QED BY <2>3, <2>4
<1>8. h \in [Tally(counts) -> P!Tallies]
  BY <1>5
<1> HIDE DEF h
<1>9. h \in Bijection(Tally(counts), P!Tallies)
  BY <1>6, <1>7, <1>8, Fun_IsBij
<1>10. Cardinality(P!Tallies) = Total(counts)
  BY <1>4, <1>9, Fun_ExistsBij, FS_Bijection DEF Total
<1>11. Total(counts) + lost_lines = Len(seen)
  BY <1>10, SameCardinality DEF P!Accounting
<1> QED BY <1>4, <1>11 DEF counts

LEMMA InputCounted ==
  ASSUME InputInv
  PROVE  raw_bytes \in Nat /\ raw_tokens \in Nat
<1> DEFINE f == [i \in 1 .. raw_lines |-> Bytes(Written(log[i]))]
           u == [i \in 1 .. raw_lines |-> TokensOfLine(i)]
<1>1. log \in Logs /\ raw_lines \in Nat /\ raw_lines <= Len(log) /\ Len(log) \in Nat
  <2>1. log \in Logs /\ raw_lines \in Nat /\ raw_lines <= Len(log)
    BY DEF InputInv, Reading
  <2> QED BY <2>1, LogsAssumption, LenProperties
<1>2. \A i \in 1 .. raw_lines : Bytes(Written(log[i])) \in Nat
  <2>1. \A i \in 1 .. raw_lines : i \in 1 .. Len(log)
    BY <1>1
  <2> QED BY <1>1, <2>1, WrittenIsText, BytesType
<1>3. \A i \in 1 .. raw_lines : f[i] \in Nat /\ u[i] \in Nat
  BY <1>2, TokenCountType DEF TokensOfLine
<1>4. IsFiniteSet(1 .. raw_lines) /\ DOMAIN f = 1 .. raw_lines /\ DOMAIN u = 1 .. raw_lines
  BY <1>1, UpTo
<1>5. raw_bytes = Total(f) /\ raw_tokens = Total(u)
  BY DEF InputInv
<1> HIDE DEF f, u
<1> QED BY <1>3, <1>4, <1>5, TotalType

\* Every variable of run keeps its type.
THEOREM TypeCorrect == Spec => []TypeOK
<1>1. P!TypeOK /\ InputInv /\ StageInv /\ ResultInv => TypeOK
  <2> SUFFICES ASSUME P!TypeOK, InputInv, StageInv, ResultInv PROVE TypeOK
    OBVIOUS
  <2>1. log \in Logs /\ raw_lines \in 0 .. Len(log)
    <3>1. log \in Logs /\ raw_lines \in Nat /\ raw_lines <= Len(log)
      BY DEF InputInv, Reading
    <3>2. Len(log) \in Nat
      BY <3>1, LogsAssumption, LenProperties
    <3> QED BY <3>1, <3>2 DEF InputInv
  <2>2. raw_bytes \in Nat /\ raw_tokens \in Nat
    BY InputCounted
  <2>3. compressed \in Seq(Row) /\ at \in 1 .. Len(compressed) + 1
    <3>1. CASE phase = "reading"
      <4>1. compressed = << >> /\ at = 1
        BY <3>1 DEF StageInv
      <4>2. << >> \in Seq(Row) /\ Len(<< >>) = 0
        BY EmptySeq
      <4> QED BY <4>1, <4>2
    <3>2. CASE phase # "reading"
      <4>1. compressed \in Seq(Row) /\ Len(compressed) = Len(clusters)
            /\ Len(clusters) \in Nat
        BY <3>2, HalfAnsweredShape, ClusterShape
      <4> QED BY <3>2, <4>1 DEF StageInv
    <3> QED BY <3>1, <3>2
  <2>4. result # None => result.output \in Seq(Row)
    BY <2>3 DEF ResultInv, Returned
  <2> QED BY <2>1, <2>2, <2>3, <2>4 DEF TypeOK, StageInv
<1> QED BY <1>1, ClustererHolds, InputHolds, StageHolds, ResultHolds, PTL

\* What a returned result holds.
LEMMA ResultShape ==
  ASSUME P!TypeOK, P!HistoryOK, P!Accounting, InputInv, StageInv, ResultInv, result # None
  PROVE  /\ result.output = compressed
         /\ compressed \in Seq(Row) /\ Len(compressed) = Len(clusters)
         /\ LinesCounted(compressed) \in Nat
         /\ LinesCounted(compressed) + lost_lines = Len(log)
         /\ result = Returned(compressed,
                              IF compressor THEN TokenCount(OutputBytes(compressed)) ELSE None)
         /\ raw_lines = Len(log) /\ lost_lines \in Nat
         /\ ~compressor => compressed = Rows
<1>1. /\ phase = "ok"
      /\ result = Returned(compressed,
                           IF compressor THEN TokenCount(OutputBytes(compressed)) ELSE None)
      /\ raw_lines = Len(log)
  BY DEF ResultInv
<1>2. result.output = compressed
  BY <1>1 DEF Returned
<1>3. /\ compressed \in Seq(Row) /\ Len(compressed) = Len(clusters)
      /\ DOMAIN compressed = 1 .. Len(clusters)
      /\ \A i \in 1 .. Len(clusters) : compressed[i].count = clusters[i].count
  BY <1>1, HalfAnsweredShape
<1>4. LinesCounted(compressed) = Total([i \in 1 .. Len(clusters) |-> clusters[i].count])
  <2>1. [i \in DOMAIN compressed |-> compressed[i].count]
          = [i \in 1 .. Len(clusters) |-> clusters[i].count]
    BY <1>3
  <2> QED BY <2>1 DEF LinesCounted
<1>5. LinesCounted(compressed) \in Nat /\ LinesCounted(compressed) + lost_lines = Len(seen)
  BY <1>4, CountsTotal
<1>6. Len(seen) = Len(log)
  BY <1>1 DEF InputInv
<1>7. ASSUME ~compressor
      PROVE  compressed = Rows
  <2>1. compressed = HalfAnswered /\ at = 1
    BY <1>1, <1>7 DEF StageInv
  <2>2. DOMAIN clusters = 1 .. Len(clusters) /\ Len(clusters) \in Nat
    BY ClusterShape
  <2>3. \A i \in DOMAIN clusters : ~(i < at)
    BY <2>1, <2>2
  <2> QED BY <2>1, <2>3 DEF HalfAnswered, Rows
<1> QED BY <1>1, <1>2, <1>3, <1>5, <1>6, <1>7, ClusterShape

\* In every result, sum(cluster counts) + lost_lines == raw_lines, the bytes and
\* the tokens are those of every line of the log and of nothing else, and each
\* stage's tokens are those of what it put out.
THEOREM StatsAccountCorrect == Spec => []StatsAccount
<1>1. (P!TypeOK /\ P!HistoryOK /\ P!Accounting /\ InputInv /\ StageInv /\ ResultInv)
        => StatsAccount
  <2> SUFFICES ASSUME P!TypeOK, P!HistoryOK, P!Accounting, InputInv, StageInv, ResultInv,
                      result # None
               PROVE  StatsAccount
    BY DEF StatsAccount
  <2>1. /\ result.output = compressed
        /\ Len(compressed) = Len(clusters)
        /\ LinesCounted(compressed) + lost_lines = Len(log)
        /\ result = Returned(compressed,
                             IF compressor THEN TokenCount(OutputBytes(compressed)) ELSE None)
        /\ raw_lines = Len(log)
    BY ResultShape
  <2>2. /\ result.stats.lost_lines = lost_lines
        /\ result.stats.raw_lines = raw_lines
        /\ result.stats.raw_bytes = raw_bytes
        /\ result.stats.raw_tokens = raw_tokens
        /\ result.stats.cluster_count = Len(clusters)
        /\ result.stats.stage1_tokens = TokenCount(OutputBytes(Rows))
        /\ result.stats.stage2_tokens
             = IF compressor THEN TokenCount(OutputBytes(compressed)) ELSE None
    BY <2>1 DEF Returned
  <2>3. DOMAIN log = 1 .. raw_lines
    <3>1. log \in Seq(Message)
      BY LogsAssumption DEF InputInv, Reading
    <3> QED BY <2>1, <3>1, LenProperties
  <2>4. raw_bytes = Total([i \in DOMAIN log |-> Bytes(Written(log[i]))])
    BY <2>3 DEF InputInv
  <2>5. raw_tokens = Total([i \in DOMAIN log |-> TokenCount(Bytes(Written(log[i])))])
    BY <2>3 DEF InputInv, TokensOfLine
  <2> QED BY <2>1, <2>2, <2>4, <2>5 DEF StatsAccount
<1> QED BY <1>1, ClustererHolds, InputHolds, StageHolds, ResultHolds, PTL

------------------------------------------------------------------------------
\* The reported savings.

LEMMA SaturatedIs ==
  ASSUME NEW x \in Nat
  PROVE  Saturated(x) = IF x <= MaxU32 THEN x ELSE MaxU32
<1>1. MaxU32 \in Nat
  BY MaxU32Assumption
<1>2. CASE x <= MaxU32
  BY <1>1, <1>2 DEF Saturated, Min
<1>3. CASE ~(x <= MaxU32)
  BY <1>1, <1>3 DEF Saturated, Min
<1> QED BY <1>2, <1>3

LEMMA ProductMonotone ==
  ASSUME NEW a \in Nat, NEW b \in Nat, NEW c \in Nat, a <= b
  PROVE  a * c <= b * c /\ c * a <= c * b
<1>1. PICK d \in Nat : b = a + d
  <2>1. b - a \in Nat /\ b = a + (b - a)
    OBVIOUS
  <2> QED BY <2>1
<1>2. d * c \in Nat
  OBVIOUS
<1>3. b * c = a * c + d * c /\ c * b = c * a + d * c
  BY <1>1
<1>4. a * c \in Nat /\ c * a \in Nat
  OBVIOUS
<1> QED BY <1>2, <1>3, <1>4

\* Saturating both counts of a retention never understates what was kept.
Faithful(retention, tokens, raw) ==
  /\ tokens <= raw => retention[1] * raw >= tokens * retention[2]
  /\ tokens >= raw => retention[1] >= retention[2]
  /\ raw > 0 /\ tokens <= MaxU32 /\ raw <= MaxU32 =>
       retention[1] * raw = tokens * retention[2]

LEMMA RetentionFaithful ==
  ASSUME NEW tokens \in Nat, NEW raw \in Nat
  PROVE  Faithful(Retention(tokens, raw), tokens, raw)
<1>0. MaxU32 \in Nat /\ MaxU32 > 0
  BY MaxU32Assumption
<1>1. CASE raw = 0
  <2>1. Retention(tokens, raw) = <<1, 1>>
    BY <1>1 DEF Retention
  <2> QED BY <1>1, <2>1 DEF Faithful
<1>2. CASE raw > 0
  <2> DEFINE a == Saturated(tokens)
             b == Saturated(raw)
  <2>1. Retention(tokens, raw) = <<a, b>>
    BY <1>2 DEF Retention
  <2>2. /\ a \in Nat /\ a = IF tokens <= MaxU32 THEN tokens ELSE MaxU32
        /\ b \in Nat /\ b = IF raw <= MaxU32 THEN raw ELSE MaxU32
    BY <1>0, SaturatedIs
  <2> HIDE DEF a, b
  <2>3. tokens <= raw => a * raw >= tokens * b
    <3>1. CASE raw <= MaxU32 /\ tokens <= raw
      <4>1. a = tokens /\ b = raw
        BY <1>0, <2>2, <3>1
      <4> QED BY <4>1
    <3>2. CASE ~(raw <= MaxU32) /\ tokens <= MaxU32
      <4>1. a = tokens /\ b = MaxU32 /\ MaxU32 <= raw
        BY <1>0, <2>2, <3>2
      <4> QED BY <1>0, <4>1, ProductMonotone
    <3>3. CASE ~(raw <= MaxU32) /\ ~(tokens <= MaxU32)
      <4>1. a = MaxU32 /\ b = MaxU32
        BY <2>2, <3>3
      <4>2. ASSUME tokens <= raw
            PROVE  MaxU32 * raw >= tokens * MaxU32
        <5>1. tokens * MaxU32 <= raw * MaxU32
          BY <1>0, <4>2, ProductMonotone
        <5>2. raw * MaxU32 = MaxU32 * raw
          BY <1>0
        <5>3. tokens * MaxU32 \in Nat /\ MaxU32 * raw \in Nat
          BY <1>0
        <5> QED BY <5>1, <5>2, <5>3
      <4> QED BY <4>1, <4>2
    <3> QED BY <3>1, <3>2, <3>3
  <2>4. tokens >= raw => a >= b
    BY <1>0, <2>2
  <2>5. tokens <= MaxU32 /\ raw <= MaxU32 => a * raw = tokens * b
    BY <2>2
  <2> QED BY <2>1, <2>3, <2>4, <2>5 DEF Faithful
<1> QED BY <1>1, <1>2

\* The savings --stats reports are never more than the true ones, and loss is
\* reported exactly when there is some: for every u32::MAX.
THEOREM SavingsNotOverstatedCorrect == Spec => []SavingsNotOverstated
<1>1. (P!TypeOK /\ P!HistoryOK /\ P!Accounting /\ InputInv /\ StageInv /\ ResultInv)
        => SavingsNotOverstated
  <2> SUFFICES ASSUME P!TypeOK, P!HistoryOK, P!Accounting, InputInv, StageInv, ResultInv,
                      result # None
               PROVE  LET stats == result.stats
                          report == Report(stats)
                      IN  /\ Faithful(report.stage1, stats.stage1_tokens, stats.raw_tokens)
                          /\ report.stage2 # None =>
                               Faithful(report.stage2, stats.stage2_tokens, stats.raw_tokens)
                          /\ report.lost <=> LinesCounted(result.output) # Len(log)
    BY DEF SavingsNotOverstated, Faithful
  <2>1. /\ result.output = compressed
        /\ compressed \in Seq(Row)
        /\ LinesCounted(compressed) \in Nat
        /\ LinesCounted(compressed) + lost_lines = Len(log)
        /\ lost_lines \in Nat
        /\ result = Returned(compressed,
                             IF compressor THEN TokenCount(OutputBytes(compressed)) ELSE None)
    BY ResultShape
  <2>2. /\ result.stats.lost_lines = lost_lines
        /\ result.stats.raw_tokens = raw_tokens
        /\ result.stats.stage1_tokens = TokenCount(OutputBytes(Rows))
        /\ result.stats.stage2_tokens
             = IF compressor THEN TokenCount(OutputBytes(compressed)) ELSE None
    BY <2>1 DEF Returned
  <2>3. Rows \in Seq(Row)
    <3>1. Rows \in [1 .. Len(clusters) -> Row] /\ Len(clusters) \in Nat
      BY ClusterShape DEF Rows, Row
    <3> HIDE DEF Rows
    <3> QED BY <3>1
  <2>4. raw_tokens \in Nat
    BY InputCounted
  <2>5. result.stats.stage1_tokens \in Nat
    BY <2>2, <2>3, OutputBytesType, TokenCountType
  <2>6. TokenCount(OutputBytes(compressed)) \in Nat
    BY <2>1, OutputBytesType, TokenCountType
  <2>7. Faithful(Report(result.stats).stage1, result.stats.stage1_tokens,
                 result.stats.raw_tokens)
    BY <2>2, <2>4, <2>5, RetentionFaithful DEF Report
  <2>8. ASSUME Report(result.stats).stage2 # None
        PROVE  Faithful(Report(result.stats).stage2, result.stats.stage2_tokens,
                        result.stats.raw_tokens)
    <3>1. result.stats.stage2_tokens # None
      BY <2>8 DEF Report
    <3>2. result.stats.stage2_tokens \in Nat
      BY <2>2, <2>6, <3>1
    <3>3. Report(result.stats).stage2
            = Retention(result.stats.stage2_tokens, result.stats.raw_tokens)
      BY <3>1 DEF Report
    <3> QED BY <2>2, <2>4, <3>2, <3>3, RetentionFaithful
  <2>9. Report(result.stats).lost <=> LinesCounted(result.output) # Len(log)
    <3>1. Report(result.stats).lost <=> lost_lines > 0
      BY <2>2 DEF Report
    <3>2. lost_lines > 0 <=> LinesCounted(compressed) # Len(log)
      BY <2>1
    <3> QED BY <2>1, <3>1, <3>2
  <2> QED BY <2>7, <2>8, <2>9
<1> QED BY <1>1, ClustererHolds, InputHolds, StageHolds, ResultHolds, PTL

------------------------------------------------------------------------------
\* Why every run ends: what RunEnds rests on besides the scheduler.

\* The steps a run has before it, at most: a line costs its own step and, if it
\* opens a cluster, a question and an answer later.
StepsLeft ==
  CASE phase = "reading" -> 3 * (Len(log) - raw_lines) + 2 * Len(clusters) + 2
    [] phase = "stage2"  -> 2 * (Len(compressed) + 1 - at) + 1
    [] phase = "waiting" -> 2 * (Len(compressed) + 1 - at)
    [] OTHER             -> 0

StepsBounded == StepsLeft \in Nat

\* The guards of Run: some path of ingest takes the next line, or the input has
\* ended; there is a cluster to ask for, or none is left.
RunGoesOn ==
  \/ /\ phase = "reading"
     /\ raw_lines < Len(log)
     /\ Len(seen) < MaxLines
     /\ \/ Clusterer!Matches(NormalizedAs[NextRaw]) # {}
        \/ ~Clusterer!AtCapacity
        \/ Len(clusters) >= 1
  \/ phase = "reading" /\ raw_lines = Len(log)
  \/ phase = "stage2" /\ at <= Len(compressed)
  \/ phase = "stage2" /\ at > Len(compressed)

\* A run whose log is within the bound waits for nobody but the compressor.
WaitsForCompressorOnly ==
  Len(log) <= MaxLines => RunGoesOn \/ phase \in {"waiting", "ok", "err"}

\* A line opens one cluster at most.
LEMMA IngestOpensOne ==
  ASSUME P!TypeOK, NEW l \in Lines, P!Ingest(l)
  PROVE  Len(clusters') <= Len(clusters) + 1 /\ Len(clusters') \in Nat
<1>1. Len(clusters) \in Nat
  BY ClusterShape
<1>2. seen' = Append(seen, l)
  BY DEF P!Ingest
<1>3. CASE P!Touch(l)
  <2>1. Len(clusters') = Len(clusters)
    BY <1>2, <1>3, ClustererAssumptions, P!TouchShape, Zenon
  <2> QED BY <1>1, <2>1
<1>4. CASE P!Open(l)
  <2>1. Len(clusters') = Len(clusters) + 1
    BY <1>2, <1>4, ClustererAssumptions, P!OpenShape
  <2> QED BY <1>1, <2>1
<1>5. CASE P!OpenMerging(l)
  <2>1. Len(clusters') = Len(clusters)
    BY <1>2, <1>5, ClustererAssumptions, P!OpenMergingShape
  <2> QED BY <1>1, <2>1
<1>6. CASE P!OpenLosing(l)
  <2>1. Len(clusters') = 1 /\ Len(clusters) = 1
    BY <1>2, <1>6, ClustererAssumptions, P!OpenLosingShape
  <2> QED BY <2>1
<1> QED BY <1>3, <1>4, <1>5, <1>6 DEF P!Ingest

LEMMA StepDescends ==
  ASSUME P!TypeOK, InputInv, StageInv, Next
  PROVE  StepsLeft' < StepsLeft
<1>1. /\ Len(clusters) \in Nat /\ Len(log) \in Nat
      /\ raw_lines \in Nat /\ raw_lines <= Len(log) /\ at \in Nat \ {0}
  <2>1. log \in Seq(Message)
    BY LogsAssumption DEF InputInv, Reading
  <2> QED BY <2>1, ClusterShape, LenProperties DEF InputInv, Reading, StageInv
<1>2. phase # "reading" => Len(compressed) = Len(clusters)
  BY HalfAnsweredShape
<1>3. CASE ReadLine
  <2>1. /\ phase = "reading" /\ phase' = "reading" /\ raw_lines < Len(log)
        /\ raw_lines' = raw_lines + 1 /\ log' = log
    BY <1>3 DEF ReadLine, CountLine
  <2>2. P!Ingest(NormalizedAs[NextRaw]) /\ NormalizedAs[NextRaw] \in Lines
    BY <1>3, <2>1, NextRawIsRaw, SameIngest DEF ReadLine, InputInv
  <2>3. Len(clusters') <= Len(clusters) + 1 /\ Len(clusters') \in Nat
    BY <2>2, IngestOpensOne
  <2>4. /\ StepsLeft = 3 * (Len(log) - raw_lines) + 2 * Len(clusters) + 2
        /\ StepsLeft' = 3 * (Len(log) - (raw_lines + 1)) + 2 * Len(clusters') + 2
    BY <2>1 DEF StepsLeft
  <2> QED BY <1>1, <2>1, <2>3, <2>4
<1>4. CASE EndInput
  <2>1. /\ phase = "reading" /\ at = 1 /\ at' = at /\ raw_lines = Len(log)
        /\ compressed' = Rows /\ phase' \in {"stage2", "ok"}
    BY <1>4 DEF EndInput, StageInv
  <2>2. Len(Rows) = Len(clusters)
    <3>1. Rows \in [1 .. Len(clusters) -> Row]
      BY ClusterShape DEF Rows, Row
    <3> HIDE DEF Rows
    <3> QED BY <1>1, <3>1
  <2>3. StepsLeft = 3 * (Len(log) - raw_lines) + 2 * Len(clusters) + 2
    BY <2>1 DEF StepsLeft
  <2>4. CASE phase' = "stage2"
    <3>1. StepsLeft' = 2 * (Len(Rows) + 1 - at) + 1
      BY <2>1, <2>4 DEF StepsLeft
    <3> QED BY <1>1, <2>1, <2>2, <2>3, <3>1
  <2>5. CASE phase' = "ok"
    <3>1. StepsLeft' = 0
      BY <2>5 DEF StepsLeft
    <3> QED BY <1>1, <2>1, <2>3, <3>1
  <2> QED BY <2>1, <2>4, <2>5
<1>5. CASE Ask
  BY <1>1, <1>2, <1>5 DEF Ask, StepsLeft
<1>6. CASE Finish
  <2>1. at <= Len(compressed) + 1
    BY <1>2, <1>6 DEF Finish, StageInv
  <2> QED BY <1>1, <1>2, <1>6, <2>1 DEF Finish, StepsLeft
<1>7. ASSUME NEW x \in Texts, Answer(x) PROVE StepsLeft' < StepsLeft
  <2>1. /\ phase = "waiting" /\ phase' = "stage2" /\ at' = at + 1
        /\ compressed' = [compressed EXCEPT ![at].template = x]
    BY <1>7 DEF Answer
  <2>2. Len(compressed') = Len(compressed)
    <3>1. compressed \in Seq(Row)
      BY <2>1, HalfAnsweredShape
    <3>2. DOMAIN compressed = 1 .. Len(compressed) /\ DOMAIN compressed' = DOMAIN compressed
      BY <2>1, <3>1, LenProperties
    <3> QED BY <1>1, <1>2, <2>1, <3>2
  <2>3. /\ StepsLeft = 2 * (Len(compressed) + 1 - at)
        /\ StepsLeft' = 2 * (Len(compressed') + 1 - at') + 1
    BY <2>1 DEF StepsLeft
  <2> QED BY <1>1, <1>2, <2>1, <2>2, <2>3
<1>8. CASE Refuse
  <2>1. phase = "waiting" /\ phase' = "err" /\ at <= Len(clusters)
    BY <1>8 DEF Refuse, StageInv
  <2>2. StepsLeft = 2 * (Len(compressed) + 1 - at) /\ StepsLeft' = 0
    BY <2>1 DEF StepsLeft
  <2> QED BY <1>1, <1>2, <2>1, <2>2
<1> QED BY <1>3, <1>4, <1>5, <1>6, <1>7, <1>8 DEF Next, Run, Backend

\* Every step of a run, the compressor's answers included, brings it nearer to
\* its end: no line is read twice, no cluster asked for again.  A run over n
\* lines takes at most 3 n + 2 steps, whatever the window and the answers.
THEOREM RunIsFinite == Spec => []StepsBounded /\ [][StepsLeft' < StepsLeft]_vars
<1>1. P!TypeOK /\ InputInv /\ StageInv => StepsBounded
  <2> SUFFICES ASSUME P!TypeOK, InputInv, StageInv PROVE StepsLeft \in Nat
    BY DEF StepsBounded
  <2>1. /\ Len(clusters) \in Nat /\ Len(log) \in Nat
        /\ raw_lines \in Nat /\ raw_lines <= Len(log) /\ at \in Nat \ {0}
    <3>1. log \in Seq(Message)
      BY LogsAssumption DEF InputInv, Reading
    <3> QED BY <3>1, ClusterShape, LenProperties DEF InputInv, Reading, StageInv
  <2>2. phase # "reading" => Len(compressed) = Len(clusters) /\ at <= Len(clusters) + 1
    BY HalfAnsweredShape DEF StageInv
  <2>3. CASE phase = "reading"
    <3>1. StepsLeft = 3 * (Len(log) - raw_lines) + 2 * Len(clusters) + 2
      BY <2>3 DEF StepsLeft
    <3> QED BY <2>1, <3>1
  <2>4. CASE phase # "reading"
    <3>1. Len(compressed) + 1 - at \in Nat
      BY <2>1, <2>2, <2>4
    <3>2. StepsLeft \in {2 * (Len(compressed) + 1 - at) + 1, 2 * (Len(compressed) + 1 - at), 0}
      BY <2>4 DEF StepsLeft
    <3> QED BY <3>1, <3>2
  <2> QED BY <2>3, <2>4
<1>2. P!TypeOK /\ InputInv /\ StageInv /\ [Next]_vars => [StepsLeft' < StepsLeft]_vars
  BY StepDescends
<1> QED BY <1>1, <1>2, ClustererHolds, InputHolds, StageHolds, PTL DEF Spec

\* run is never stuck on its own: the four paths of ingest leave no line out,
\* and Stage 2 asks or returns.  It waits for the compressor and nothing else.
THEOREM RunWaitsForCompressorOnly == Spec => []WaitsForCompressorOnly
<1>1. P!TypeOK /\ InputInv /\ StageInv => WaitsForCompressorOnly
  <2> SUFFICES ASSUME P!TypeOK, InputInv, StageInv, Len(log) <= MaxLines,
                      phase \notin {"waiting", "ok", "err"}
               PROVE  RunGoesOn
    BY DEF WaitsForCompressorOnly
  <2>1. /\ Len(log) \in Nat /\ Len(clusters) \in Nat
        /\ raw_lines \in Nat /\ raw_lines <= Len(log) /\ raw_lines = Len(seen)
    <3>1. log \in Seq(Message)
      BY LogsAssumption DEF InputInv, Reading
    <3> QED BY <3>1, ClusterShape, LenProperties DEF InputInv, Reading
  <2>2. CASE phase = "reading" /\ raw_lines < Len(log)
    <3>1. Clusterer!AtCapacity => Len(clusters) >= 1
      <4>1. max_clusters \in Nat
        BY ParamsAssumption DEF P!TypeOK
      <4> QED BY <2>1, <4>1 DEF Clusterer!AtCapacity
    <3>2. Len(seen) < MaxLines
      BY <2>1, <2>2, LinesAssumption
    <3> QED BY <2>2, <3>1, <3>2 DEF RunGoesOn
  <2>3. CASE phase = "reading" /\ raw_lines = Len(log)
    BY <2>3 DEF RunGoesOn
  <2>4. CASE phase = "stage2"
    <3>1. Len(compressed) \in Nat /\ at \in Nat
      BY <2>1, <2>4, HalfAnsweredShape DEF StageInv
    <3> QED BY <2>4, <3>1 DEF RunGoesOn
  <2> QED BY <2>1, <2>2, <2>3, <2>4 DEF StageInv
<1> QED BY <1>1, ClustererHolds, InputHolds, StageHolds, PTL

===============================================================================
