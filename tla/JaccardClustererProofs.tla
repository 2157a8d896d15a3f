----------------------- MODULE JaccardClustererProofs ------------------------
(***************************************************************************)
(* Theorems about JaccardClusterer for every set of lines, every threshold *)
(* (a NaN included), every window and input of any length.                 *)
(***************************************************************************)
EXTENDS JaccardClusterer, ArithmeticProofs

------------------------------------------------------------------------------
\* Sequences: what the vector operations of ingest return.

\* insert(0, x).
LEMMA ConsShape ==
  ASSUME NEW S, NEW x \in S, NEW t \in Seq(S)
  PROVE  /\ <<x>> \o t \in Seq(S)
         /\ Len(<<x>> \o t) = Len(t) + 1
         /\ (<<x>> \o t)[1] = x
         /\ \A j \in 2 .. Len(t) + 1 : (<<x>> \o t)[j] = t[j - 1]
<1>1. <<x>> \in Seq(S) /\ Len(<<x>>) = 1 /\ <<x>>[1] = x
  OBVIOUS
<1>2. Len(t) \in Nat
  BY LenProperties
<1>3. /\ <<x>> \o t \in Seq(S)
      /\ Len(<<x>> \o t) = 1 + Len(t)
      /\ \A i \in 1 .. 1 + Len(t) :
           (<<x>> \o t)[i] = IF i <= 1 THEN <<x>>[i] ELSE t[i - 1]
  BY <1>1, ConcatProperties
<1> QED BY <1>1, <1>2, <1>3

\* pop(): what is left.
LEMMA FrontShape ==
  ASSUME NEW S, NEW t \in Seq(S), Len(t) > 0
  PROVE  /\ Front(t) \in Seq(S)
         /\ Len(Front(t)) = Len(t) - 1
         /\ \A j \in 1 .. Len(t) - 1 : Front(t)[j] = t[j]
<1> DEFINE p == SubSeq(t, 1, Len(t) - 1)
<1>1. Len(t) \in Nat /\ \A i \in 1 .. Len(t) : t[i] \in S
  BY LenProperties, ElementOfSeq
<1>2. \A i \in 1 .. Len(t) - 1 : t[i] \in S
  BY <1>1
<1>3. /\ p \in Seq(S)
      /\ Len(p) = IF 1 <= Len(t) - 1 THEN Len(t) - 1 - 1 + 1 ELSE 0
      /\ \A i \in 1 .. Len(t) - 1 - 1 + 1 : p[i] = t[1 + i - 1]
  BY <1>1, <1>2, SubSeqProperties
<1> HIDE DEF p
<1>4. ASSUME NEW j \in 1 .. Len(t) - 1
      PROVE  p[j] = t[j]
  <2>1. j \in 1 .. Len(t) - 1 - 1 + 1 /\ 1 + j - 1 = j
    BY <1>1
  <2> QED BY <1>3, <2>1
<1>5. Len(p) = Len(t) - 1
  <2>1. CASE Len(t) = 1
    BY <1>3, <2>1
  <2>2. CASE Len(t) > 1
    BY <1>1, <1>3, <2>2
  <2> QED BY <1>1, <2>1, <2>2
<1> QED BY <1>3, <1>4, <1>5 DEF Front, p

\* remove(i).
LEMMA RemoveAtShape ==
  ASSUME NEW S, NEW t \in Seq(S), NEW i \in 1 .. Len(t)
  PROVE  /\ RemoveAt(t, i) \in Seq(S)
         /\ Len(RemoveAt(t, i)) = Len(t) - 1
         /\ \A j \in 1 .. Len(t) - 1 :
              RemoveAt(t, i)[j] = IF j < i THEN t[j] ELSE t[j + 1]
<1> DEFINE left == SubSeq(t, 1, i - 1)
           right == SubSeq(t, i + 1, Len(t))
<1>1. Len(t) \in Nat /\ \A k \in 1 .. Len(t) : t[k] \in S
  BY LenProperties, ElementOfSeq
<1>2. /\ left \in Seq(S)
      /\ Len(left) = i - 1
      /\ \A k \in 1 .. i - 1 : left[k] = t[k]
  <2>1. i - 1 \in Int /\ \A k \in 1 .. i - 1 : t[k] \in S
    BY <1>1
  <2>2. /\ left \in Seq(S)
        /\ Len(left) = IF 1 <= i - 1 THEN i - 1 - 1 + 1 ELSE 0
        /\ \A k \in 1 .. i - 1 - 1 + 1 : left[k] = t[1 + k - 1]
    BY <2>1, SubSeqProperties
  <2> QED BY <2>2, <1>1
<1>3. /\ right \in Seq(S)
      /\ Len(right) = Len(t) - i
      /\ \A k \in 1 .. Len(t) - i : right[k] = t[i + k]
  <2>1. i + 1 \in Int /\ \A k \in i + 1 .. Len(t) : t[k] \in S
    BY <1>1
  <2>2. /\ right \in Seq(S)
        /\ Len(right) = IF i + 1 <= Len(t) THEN Len(t) - (i + 1) + 1 ELSE 0
        /\ \A k \in 1 .. Len(t) - (i + 1) + 1 : right[k] = t[(i + 1) + k - 1]
    BY <1>1, <2>1, SubSeqProperties
  <2> QED BY <2>2, <1>1
<1> HIDE DEF left, right
<1>4. /\ left \o right \in Seq(S)
      /\ Len(left \o right) = Len(left) + Len(right)
      /\ \A k \in 1 .. Len(left) + Len(right) :
           (left \o right)[k] = IF k <= Len(left) THEN left[k] ELSE right[k - Len(left)]
  BY <1>2, <1>3, ConcatProperties
<1>5. RemoveAt(t, i) = left \o right
  BY DEF RemoveAt, left, right
<1>6. ASSUME NEW j \in 1 .. Len(t) - 1
      PROVE  (left \o right)[j] = IF j < i THEN t[j] ELSE t[j + 1]
  <2>1. CASE j < i
    BY <2>1, <1>1, <1>2, <1>3, <1>4
  <2>2. CASE j >= i
    <3>1. j - (i - 1) \in 1 .. Len(t) - i /\ i + (j - (i - 1)) = j + 1
      BY <2>2, <1>1
    <3>2. (left \o right)[j] = right[j - (i - 1)]
      BY <2>2, <1>1, <1>2, <1>3, <1>4
    <3>3. right[j - (i - 1)] = t[i + (j - (i - 1))]
      BY <1>3, <3>1
    <3> QED BY <2>2, <3>1, <3>2, <3>3
  <2>3. j < i \/ j >= i
    BY <1>1
  <2> QED BY <2>1, <2>2, <2>3
<1> QED BY <1>1, <1>2, <1>3, <1>4, <1>5, <1>6

------------------------------------------------------------------------------
\* The operators of ingest.

\* What the entries of a typed state are.
LEMMA EntryFacts ==
  ASSUME TypeOK
  PROVE  /\ Len(clusters) \in Nat
         /\ DOMAIN clusters = 1 .. Len(clusters)
         /\ \A i \in 1 .. Len(clusters) : clusters[i] \in Entries
         /\ Len(seen) \in Nat
         /\ DOMAIN seen = 1 .. Len(seen)
         /\ \A k \in 1 .. Len(seen) : seen[k] \in Lines
         /\ Len(owner) \in Nat
         /\ DOMAIN owner = 1 .. Len(owner)
         /\ \A k \in 1 .. Len(owner) : owner[k] \in Nat
         /\ Now \in Nat \ {0}
<1> USE DEF TypeOK
<1>1. /\ Len(clusters) \in Nat
      /\ DOMAIN clusters = 1 .. Len(clusters)
      /\ \A i \in 1 .. Len(clusters) : clusters[i] \in Entries
  BY LenProperties, ElementOfSeq
<1>2. /\ Len(seen) \in Nat
      /\ DOMAIN seen = 1 .. Len(seen)
      /\ \A k \in 1 .. Len(seen) : seen[k] \in Lines
  BY LenProperties, ElementOfSeq
<1>3. /\ Len(owner) \in Nat
      /\ DOMAIN owner = 1 .. Len(owner)
      /\ \A k \in 1 .. Len(owner) : owner[k] \in Nat
  BY LenProperties, ElementOfSeq
<1> QED BY <1>1, <1>2, <1>3 DEF Now

\* Similarities of lines are numbers, and the order of the lines is immaterial.
LEMMA LineSimilarity ==
  ASSUME NEW l \in Lines, NEW m \in Lines
  PROVE  /\ Similarity(TokensOf[l], TokensOf[m]) \in Unit
         /\ Similarity(TokensOf[l], TokensOf[m]) = Similarity(TokensOf[m], TokensOf[l])
<1>1. IsFiniteSet(TokensOf[l]) /\ IsFiniteSet(TokensOf[m])
  BY LinesAssumption
<1> QED BY <1>1, SimilarityInUnit, SimilaritySymmetric

\* A matching line has a first match.
LEMMA FirstMatchIsMatch ==
  ASSUME TypeOK, NEW l \in Lines, Matches(l) # {}
  PROVE  FirstMatch(l) \in 1 .. Len(clusters) /\ Clears(l, clusters[FirstMatch(l)])
<1>1. Matches(l) \in SUBSET Nat /\ DOMAIN clusters = 1 .. Len(clusters)
  BY EntryFacts DEF Matches
<1>2. \E i \in Matches(l) : \A j \in Matches(l) : i <= j
  BY <1>1, LeastExists
<1>3. FirstMatch(l) \in Matches(l)
  BY <1>2 DEF FirstMatch
<1> QED BY <1>1, <1>3 DEF Matches

\* max_by finds a survivor whenever there is one, and a most similar one.
LEMMA NearestIsBest ==
  ASSUME NEW v \in Entries, NEW t \in Seq(Entries), Len(t) > 0
  PROVE  /\ Nearest(v, t) \in 1 .. Len(t)
         /\ \A j \in 1 .. Len(t) :
              AtLeast(Similarity(TokensOf[v.line], TokensOf[t[Nearest(v, t)].line]),
                      Similarity(TokensOf[v.line], TokensOf[t[j].line]))
<1> DEFINE score == [i \in 1 .. Len(t) |-> Similarity(TokensOf[v.line], TokensOf[t[i].line])]
<1>1. /\ Len(t) \in Nat \ {0}
      /\ DOMAIN t = 1 .. Len(t)
      /\ \A i \in 1 .. Len(t) : t[i] \in Entries
  BY LenProperties, ElementOfSeq
<1>2. score \in [1 .. Len(t) -> Unit]
  BY <1>1, LineSimilarity DEF Entries
<1>3. PICK b \in 1 .. Len(t) : \A j \in 1 .. Len(t) : AtLeast(score[b], score[j])
  <2> HIDE DEF score
  <2> QED BY <1>1, <1>2, BestExists
<1>4. Best(v, t) \in SUBSET (1 .. Len(t)) /\ b \in Best(v, t)
  BY <1>1, <1>3 DEF Best
<1>5. \E i \in Best(v, t) : \A j \in Best(v, t) : j <= i
  BY <1>1, <1>4, GreatestExists
<1>6. Nearest(v, t) \in Best(v, t)
  BY <1>5 DEF Nearest
<1> QED BY <1>1, <1>6 DEF Best

\* Moving an entry to the front permutes the others without reordering them.
LEMMA MoveToFrontShape ==
  ASSUME TypeOK, NEW e \in Entries, NEW i \in 1 .. Len(clusters)
  PROVE  /\ MoveToFront(e, i) \in Seq(Entries)
         /\ Len(MoveToFront(e, i)) = Len(clusters)
         /\ MoveToFront(e, i)[1] = e
         /\ \A j \in 2 .. Len(clusters) :
              MoveToFront(e, i)[j] = IF j <= i THEN clusters[j - 1] ELSE clusters[j]
<1> DEFINE rest == RemoveAt(clusters, i)
<1>1. Len(clusters) \in Nat
  BY EntryFacts
<1>2. /\ rest \in Seq(Entries)
      /\ Len(rest) = Len(clusters) - 1
      /\ \A j \in 1 .. Len(clusters) - 1 :
           rest[j] = IF j < i THEN clusters[j] ELSE clusters[j + 1]
  BY RemoveAtShape DEF TypeOK
<1> HIDE DEF rest
<1>3. /\ <<e>> \o rest \in Seq(Entries)
      /\ Len(<<e>> \o rest) = Len(rest) + 1
      /\ (<<e>> \o rest)[1] = e
      /\ \A j \in 2 .. Len(rest) + 1 : (<<e>> \o rest)[j] = rest[j - 1]
  BY <1>2, ConsShape
<1>4. ASSUME NEW j \in 2 .. Len(clusters)
      PROVE  rest[j - 1] = IF j <= i THEN clusters[j - 1] ELSE clusters[j]
  <2>1. j - 1 \in 1 .. Len(clusters) - 1 /\ (j - 1) + 1 = j /\ (j - 1 < i <=> j <= i)
    BY <1>1
  <2>2. rest[j - 1] = IF j - 1 < i THEN clusters[j - 1] ELSE clusters[(j - 1) + 1]
    BY <1>2, <2>1
  <2> QED BY <2>1, <2>2
<1>5. MoveToFront(e, i) = <<e>> \o rest
  BY DEF MoveToFront, rest
<1> QED BY <1>1, <1>2, <1>3, <1>4, <1>5

\* Absorbing a count changes nothing but one count.
LEMMA AbsorbShape ==
  ASSUME NEW t \in Seq(Entries), NEW s \in 1 .. Len(t), NEW n \in Nat
  PROVE  /\ Absorb(t, s, n) \in Seq(Entries)
         /\ Len(Absorb(t, s, n)) = Len(t)
         /\ \A j \in 1 .. Len(t) :
              Absorb(t, s, n)[j] = IF j = s THEN [t[s] EXCEPT !.count = @ + n] ELSE t[j]
<1>1. t[s] \in Entries
  BY ElementOfSeq
<1>2. [t[s] EXCEPT !.count = @ + n] \in Entries
  <2>1. t[s].count + n \in Nat \ {0}
    BY <1>1 DEF Entries
  <2> QED BY <1>1, <2>1 DEF Entries
<1>3. Absorb(t, s, n) = [t EXCEPT ![s] = [t[s] EXCEPT !.count = @ + n]]
  BY DEF Absorb
<1> QED BY <1>2, <1>3, ExceptSeq

------------------------------------------------------------------------------
\* The actions of ingest, position by position.

\* History grows by the ingested line and its cluster.
LEMMA HistoryShape ==
  ASSUME TypeOK, NEW l \in Lines, NEW o \in Seq(Nat), NEW c \in Nat,
         seen' = Append(seen, l), owner' = Append(o, c), Len(o) = Len(owner)
  PROVE  /\ seen' \in Seq(Lines)
         /\ Len(seen') = Now
         /\ \A k \in 1 .. Len(seen) : seen'[k] = seen[k]
         /\ seen'[Now] = l
         /\ owner' \in Seq(Nat)
         /\ Len(owner') = Len(owner) + 1
         /\ \A k \in 1 .. Len(owner) : owner'[k] = o[k]
         /\ owner'[Len(owner) + 1] = c
BY AppendProperties DEF TypeOK, Now

LEMMA RehomeShape ==
  ASSUME TypeOK, NEW from, NEW to \in Nat
  PROVE  /\ Rehome(from, to) \in Seq(Nat)
         /\ Len(Rehome(from, to)) = Len(owner)
         /\ \A k \in 1 .. Len(owner) :
              Rehome(from, to)[k] = IF owner[k] = from THEN to ELSE owner[k]
<1>1. /\ Len(owner) \in Nat
      /\ DOMAIN owner = 1 .. Len(owner)
      /\ \A k \in 1 .. Len(owner) : owner[k] \in Nat
  BY EntryFacts
<1>2. Rehome(from, to) = [k \in 1 .. Len(owner) |-> IF owner[k] = from THEN to ELSE owner[k]]
  BY <1>1 DEF Rehome
<1>3. Rehome(from, to) \in [1 .. Len(owner) -> Nat]
  BY <1>1, <1>2
<1> QED BY <1>1, <1>2, <1>3

LEMMA NewEntryIsEntry ==
  ASSUME TypeOK, NEW l \in Lines
  PROVE  NewEntry(l) \in Entries
BY EntryFacts DEF NewEntry, Entries

\* A line that matches: one cluster, which the line clears, moves to the front.
LEMMA TouchShape ==
  ASSUME TypeOK, NEW l \in Lines, Touch(l), seen' = Append(seen, l)
  PROVE  \E i \in 1 .. Len(clusters) :
           /\ Clears(l, clusters[i])
           /\ clusters' \in Seq(Entries)
           /\ Len(clusters') = Len(clusters)
           /\ clusters'[1] = [clusters[i] EXCEPT !.count = @ + 1, !.touched = Now]
           /\ \A j \in 2 .. Len(clusters) :
                clusters'[j] = IF j <= i THEN clusters[j - 1] ELSE clusters[j]
           /\ owner' \in Seq(Nat)
           /\ Len(owner') = Len(owner) + 1
           /\ \A k \in 1 .. Len(owner) : owner'[k] = owner[k]
           /\ owner'[Len(owner) + 1] = clusters[i].id
           /\ lost_lines' = lost_lines
<1> DEFINE i == FirstMatch(l)
           e == [clusters[i] EXCEPT !.count = @ + 1, !.touched = Now]
<1>1. i \in 1 .. Len(clusters) /\ Clears(l, clusters[i])
  BY FirstMatchIsMatch DEF Touch
<1>2. clusters[i] \in Entries /\ Now \in Nat \ {0}
  BY <1>1, EntryFacts
<1>3. e \in Entries /\ e.id = clusters[i].id /\ e.id \in Nat
  <2>1. clusters[i].count + 1 \in Nat \ {0}
    BY <1>2 DEF Entries
  <2> QED BY <1>2, <2>1 DEF Entries
<1>4. clusters' = MoveToFront(e, i) /\ owner' = Append(owner, e.id) /\ lost_lines' = lost_lines
  BY DEF Touch
<1> HIDE DEF i, e
<1>5. /\ clusters' \in Seq(Entries)
      /\ Len(clusters') = Len(clusters)
      /\ clusters'[1] = e
      /\ \A j \in 2 .. Len(clusters) :
           clusters'[j] = IF j <= i THEN clusters[j - 1] ELSE clusters[j]
  BY <1>1, <1>3, <1>4, MoveToFrontShape
<1>6. /\ owner' \in Seq(Nat)
      /\ Len(owner') = Len(owner) + 1
      /\ \A k \in 1 .. Len(owner) : owner'[k] = owner[k]
      /\ owner'[Len(owner) + 1] = e.id
  BY <1>3, <1>4, HistoryShape DEF TypeOK
<1>7. e = [clusters[i] EXCEPT !.count = @ + 1, !.touched = Now]
  BY DEF e
<1> QED BY <1>1, <1>3, <1>4, <1>5, <1>6, <1>7

\* A line that matches nothing, below capacity: every cluster moves down one.
LEMMA OpenShape ==
  ASSUME TypeOK, NEW l \in Lines, Open(l), seen' = Append(seen, l)
  PROVE  /\ clusters' \in Seq(Entries)
         /\ Len(clusters') = Len(clusters) + 1
         /\ clusters'[1] = NewEntry(l)
         /\ \A j \in 2 .. Len(clusters) + 1 : clusters'[j] = clusters[j - 1]
         /\ owner' \in Seq(Nat)
         /\ Len(owner') = Len(owner) + 1
         /\ \A k \in 1 .. Len(owner) : owner'[k] = owner[k]
         /\ owner'[Len(owner) + 1] = Now
         /\ lost_lines' = lost_lines
<1>1. clusters \in Seq(Entries) /\ owner \in Seq(Nat) /\ Now \in Nat
  BY EntryFacts DEF TypeOK
<1>2. clusters' = <<NewEntry(l)>> \o clusters /\ owner' = Append(owner, Now)
      /\ lost_lines' = lost_lines
  BY DEF Open
<1>3. /\ clusters' \in Seq(Entries)
      /\ Len(clusters') = Len(clusters) + 1
      /\ clusters'[1] = NewEntry(l)
      /\ \A j \in 2 .. Len(clusters) + 1 : clusters'[j] = clusters[j - 1]
  BY <1>1, <1>2, NewEntryIsEntry, ConsShape
<1>4. /\ owner' \in Seq(Nat)
      /\ Len(owner') = Len(owner) + 1
      /\ \A k \in 1 .. Len(owner) : owner'[k] = owner[k]
      /\ owner'[Len(owner) + 1] = Now
  BY <1>1, <1>2, HistoryShape
<1> QED BY <1>2, <1>3, <1>4

\* A line that matches nothing, at capacity, with survivors: the tail leaves
\* and its count and lines go to the most similar survivor, at position s.
LEMMA OpenMergingShape ==
  ASSUME TypeOK, NEW l \in Lines, OpenMerging(l), seen' = Append(seen, l)
  PROVE  \E s \in 1 .. Len(clusters) - 1 :
           /\ \A j \in 1 .. Len(clusters) - 1 :
                AtLeast(Similarity(TokensOf[clusters[Len(clusters)].line],
                                   TokensOf[clusters[s].line]),
                        Similarity(TokensOf[clusters[Len(clusters)].line],
                                   TokensOf[clusters[j].line]))
           /\ clusters' \in Seq(Entries)
           /\ Len(clusters') = Len(clusters)
           /\ clusters'[1] = NewEntry(l)
           /\ \A j \in 2 .. Len(clusters) :
                clusters'[j] =
                  IF j = s + 1
                  THEN [clusters[s] EXCEPT !.count = @ + clusters[Len(clusters)].count]
                  ELSE clusters[j - 1]
           /\ owner' \in Seq(Nat)
           /\ Len(owner') = Len(owner) + 1
           /\ \A k \in 1 .. Len(owner) :
                owner'[k] = IF owner[k] = clusters[Len(clusters)].id
                            THEN clusters[s].id ELSE owner[k]
           /\ owner'[Len(owner) + 1] = Now
           /\ lost_lines' = lost_lines
<1> DEFINE n == Len(clusters)
           victim == Last(clusters)
           survivors == Front(clusters)
           s == Nearest(victim, survivors)
<1>1. /\ clusters \in Seq(Entries) /\ n \in Nat /\ n > 1 /\ Now \in Nat \ {0}
      /\ \A i \in 1 .. n : clusters[i] \in Entries
  BY EntryFacts DEF TypeOK, OpenMerging
<1>2. victim = clusters[n] /\ victim \in Entries
  BY <1>1 DEF Last
<1>3. /\ survivors \in Seq(Entries)
      /\ Len(survivors) = n - 1
      /\ \A j \in 1 .. n - 1 : survivors[j] = clusters[j]
  BY <1>1, FrontShape
<1>4. /\ clusters' = <<NewEntry(l)>> \o Absorb(survivors, s, victim.count)
      /\ owner' = Append(Rehome(victim.id, survivors[s].id), Now)
      /\ lost_lines' = lost_lines
  BY DEF OpenMerging
<1>5. /\ s \in 1 .. n - 1
      /\ \A j \in 1 .. n - 1 :
           AtLeast(Similarity(TokensOf[victim.line], TokensOf[survivors[s].line]),
                   Similarity(TokensOf[victim.line], TokensOf[survivors[j].line]))
  <2> HIDE DEF victim, survivors, n
  <2>1. Len(survivors) > 0
    BY <1>1, <1>3
  <2> QED BY <1>2, <1>3, <2>1, NearestIsBest
<1> HIDE DEF victim, survivors, s
<1> DEFINE t == Absorb(survivors, s, victim.count)
<1>7. /\ t \in Seq(Entries)
      /\ Len(t) = n - 1
      /\ \A j \in 1 .. n - 1 :
           t[j] = IF j = s THEN [survivors[s] EXCEPT !.count = @ + victim.count]
                  ELSE survivors[j]
  <2>1. victim.count \in Nat
    BY <1>2 DEF Entries
  <2>2. s \in 1 .. Len(survivors)
    BY <1>3, <1>5
  <2>3. /\ t \in Seq(Entries)
        /\ Len(t) = Len(survivors)
        /\ \A j \in 1 .. Len(survivors) :
             t[j] = IF j = s THEN [survivors[s] EXCEPT !.count = @ + victim.count]
                    ELSE survivors[j]
    BY <1>3, <2>1, <2>2, AbsorbShape
  <2> HIDE DEF t
  <2> QED BY <1>3, <2>3
<1> HIDE DEF t
<1>8. /\ clusters' \in Seq(Entries)
      /\ Len(clusters') = n
      /\ clusters'[1] = NewEntry(l)
      /\ \A j \in 2 .. n : clusters'[j] = t[j - 1]
  <2>1. clusters' = <<NewEntry(l)>> \o t
    BY <1>4 DEF t
  <2>2. /\ clusters' \in Seq(Entries)
        /\ Len(clusters') = Len(t) + 1
        /\ clusters'[1] = NewEntry(l)
        /\ \A j \in 2 .. Len(t) + 1 : clusters'[j] = t[j - 1]
    BY <1>7, <2>1, NewEntryIsEntry, ConsShape
  <2>3. Len(t) + 1 = n
    BY <1>1, <1>7
  <2> QED BY <2>2, <2>3
<1>9. ASSUME NEW j \in 2 .. n
      PROVE  clusters'[j] = IF j = s + 1
                            THEN [clusters[s] EXCEPT !.count = @ + clusters[n].count]
                            ELSE clusters[j - 1]
  <2>1. j - 1 \in 1 .. n - 1 /\ (j - 1 = s <=> j = s + 1)
    BY <1>1, <1>5
  <2>2. clusters'[j] = IF j - 1 = s THEN [survivors[s] EXCEPT !.count = @ + victim.count]
                       ELSE survivors[j - 1]
    BY <1>7, <1>8, <2>1
  <2>3. survivors[s] = clusters[s] /\ survivors[j - 1] = clusters[j - 1]
    BY <1>3, <1>5, <2>1
  <2> QED BY <1>2, <2>1, <2>2, <2>3
<1>10. survivors[s] = clusters[s] /\ clusters[s].id \in Nat
  <2>1. s \in 1 .. n
    BY <1>1, <1>5
  <2>2. clusters[s] \in Entries
    BY <1>1, <2>1
  <2> QED BY <1>3, <1>5, <2>2 DEF Entries
<1>11. /\ Rehome(victim.id, clusters[s].id) \in Seq(Nat)
       /\ Len(Rehome(victim.id, clusters[s].id)) = Len(owner)
       /\ \A k \in 1 .. Len(owner) :
            Rehome(victim.id, clusters[s].id)[k] =
              IF owner[k] = victim.id THEN clusters[s].id ELSE owner[k]
  BY <1>10, RehomeShape
<1>12. /\ owner' \in Seq(Nat)
       /\ Len(owner') = Len(owner) + 1
       /\ \A k \in 1 .. Len(owner) :
            owner'[k] = Rehome(victim.id, clusters[s].id)[k]
       /\ owner'[Len(owner) + 1] = Now
  BY <1>1, <1>4, <1>10, <1>11, HistoryShape
<1>13. \A j \in 1 .. n - 1 :
         AtLeast(Similarity(TokensOf[clusters[n].line], TokensOf[clusters[s].line]),
                 Similarity(TokensOf[clusters[n].line], TokensOf[clusters[j].line]))
  BY <1>2, <1>3, <1>5
<1> QED BY <1>2, <1>4, <1>5, <1>8, <1>9, <1>11, <1>12, <1>13

\* A line that matches nothing, at capacity, without survivors.
LEMMA OpenLosingShape ==
  ASSUME TypeOK, NEW l \in Lines, OpenLosing(l), seen' = Append(seen, l)
  PROVE  /\ Len(clusters) = 1
         /\ clusters' \in Seq(Entries)
         /\ Len(clusters') = 1
         /\ clusters'[1] = NewEntry(l)
         /\ owner' \in Seq(Nat)
         /\ Len(owner') = Len(owner) + 1
         /\ \A k \in 1 .. Len(owner) :
              owner'[k] = IF owner[k] = clusters[1].id THEN Lost ELSE owner[k]
         /\ owner'[Len(owner) + 1] = Now
         /\ lost_lines' = lost_lines + clusters[1].count
<1>1. /\ Len(clusters) = 1 /\ Now \in Nat /\ Lost \in Nat
      /\ clusters' = <<NewEntry(l)>>
      /\ owner' = Append(Rehome(clusters[1].id, Lost), Now)
      /\ lost_lines' = lost_lines + clusters[1].count
  BY EntryFacts DEF OpenLosing, Lost
<1>2. /\ Rehome(clusters[1].id, Lost) \in Seq(Nat)
      /\ Len(Rehome(clusters[1].id, Lost)) = Len(owner)
      /\ \A k \in 1 .. Len(owner) :
           Rehome(clusters[1].id, Lost)[k] = IF owner[k] = clusters[1].id THEN Lost ELSE owner[k]
  BY <1>1, RehomeShape
<1>3. /\ owner' \in Seq(Nat)
      /\ Len(owner') = Len(owner) + 1
      /\ \A k \in 1 .. Len(owner) : owner'[k] = Rehome(clusters[1].id, Lost)[k]
      /\ owner'[Len(owner) + 1] = Now
  BY <1>1, <1>2, HistoryShape
<1> QED BY <1>1, <1>2, <1>3, NewEntryIsEntry

------------------------------------------------------------------------------
\* Types.

\* Every field keeps its type in every reachable state: counts stay positive,
\* lost_lines a natural, the stored threshold a number of [0, 1] or NaN.
THEOREM TypeCorrect == Spec => []TypeOK
<1>1. Init => TypeOK
  <2> SUFFICES ASSUME Init PROVE TypeOK
    OBVIOUS
  <2>1. PICK t \in RequestedThresholds, w \in Windows : WithParams(t, w)
    BY DEF Init
  <2>2. threshold \in Thresholds
    BY <2>1, ParamsAssumption, ClampUnitInThresholds DEF WithParams
  <2> QED BY <2>1, <2>2 DEF TypeOK, Init, WithParams
<1>2. TypeOK /\ [Next]_vars => TypeOK'
  <2> SUFFICES ASSUME TypeOK, [Next]_vars PROVE TypeOK'
    OBVIOUS
  <2>1. ASSUME NEW l \in Lines, Ingest(l)
        PROVE  TypeOK'
    <3>1. /\ seen' = Append(seen, l)
          /\ threshold' \in Thresholds
          /\ max_clusters' \in Windows
          /\ lost_lines \in Nat
      BY <2>1 DEF Ingest, TypeOK
    <3>2. seen' \in Seq(Lines)
      BY <3>1, AppendProperties DEF TypeOK
    <3>3. CASE Touch(l)
      BY <3>1, <3>2, <3>3, TouchShape DEF TypeOK
    <3>4. CASE Open(l)
      BY <3>1, <3>2, <3>4, OpenShape DEF TypeOK
    <3>5. CASE OpenMerging(l)
      BY <3>1, <3>2, <3>5, OpenMergingShape DEF TypeOK
    <3>6. CASE OpenLosing(l)
      <4>1. clusters[1].count \in Nat
        BY <3>1, <3>6, OpenLosingShape, EntryFacts DEF Entries
      <4>2. lost_lines' \in Nat
        BY <3>1, <3>6, <4>1, OpenLosingShape
      <4> QED BY <3>1, <3>2, <3>6, <4>2, OpenLosingShape DEF TypeOK
    <3> QED BY <2>1, <3>3, <3>4, <3>5, <3>6 DEF Ingest
  <2>2. CASE UNCHANGED vars
    BY <2>2 DEF vars, history, TypeOK
  <2> QED BY <2>1, <2>2 DEF Next
<1> QED BY <1>1, <1>2, PTL DEF Spec

------------------------------------------------------------------------------
\* The window.

\* The vector never holds more than max_clusters clusters.
THEOREM WindowNeverExceeded == Spec => []WindowBound
<1>1. Init => WindowBound
  <2> SUFFICES ASSUME Init PROVE WindowBound
    OBVIOUS
  <2>1. max_clusters \in Nat /\ clusters = << >> /\ Len(<< >>) = 0
    BY ParamsAssumption DEF Init, WithParams
  <2> QED BY <2>1 DEF WindowBound
<1>2. TypeOK /\ WindowBound /\ [Next]_vars => WindowBound'
  <2> SUFFICES ASSUME TypeOK, WindowBound, [Next]_vars PROVE WindowBound'
    OBVIOUS
  <2>0. max_clusters \in Nat /\ Len(clusters) \in Nat
    BY ParamsAssumption, EntryFacts DEF TypeOK
  <2>1. ASSUME NEW l \in Lines, Ingest(l)
        PROVE  WindowBound'
    <3>1. seen' = Append(seen, l) /\ max_clusters' = max_clusters
      BY <2>1 DEF Ingest
    <3>2. CASE Touch(l)
      BY <3>1, <3>2, TouchShape DEF WindowBound
    <3>3. CASE Open(l)
      <4>1. ~AtCapacity /\ Len(clusters') = Len(clusters) + 1
        BY <3>1, <3>3, OpenShape DEF Open
      <4> QED BY <2>0, <3>1, <4>1 DEF WindowBound, AtCapacity
    <3>4. CASE OpenMerging(l)
      BY <3>1, <3>4, OpenMergingShape DEF WindowBound
    <3>5. CASE OpenLosing(l)
      BY <2>0, <3>1, <3>5, OpenLosingShape DEF WindowBound, OpenLosing, AtCapacity
    <3> QED BY <2>1, <3>2, <3>3, <3>4, <3>5 DEF Ingest
  <2>2. CASE UNCHANGED vars
    BY <2>2 DEF vars, WindowBound
  <2> QED BY <2>1, <2>2 DEF Next
<1> QED BY <1>1, <1>2, TypeCorrect, PTL DEF Spec

\* lost_lines moves only when the window is exactly one cluster.
THEOREM LossNeedsWindowOne == Spec => []LostOnlyAtWindowOne
<1>1. Init => LostOnlyAtWindowOne
  BY DEF Init, WithParams, LostOnlyAtWindowOne
<1>2. TypeOK /\ LostOnlyAtWindowOne /\ [Next]_vars => LostOnlyAtWindowOne'
  <2> SUFFICES ASSUME TypeOK, LostOnlyAtWindowOne, [Next]_vars
               PROVE  LostOnlyAtWindowOne'
    OBVIOUS
  <2>1. ASSUME NEW l \in Lines, Ingest(l)
        PROVE  LostOnlyAtWindowOne'
    <3>1. max_clusters' = max_clusters /\ max_clusters \in Nat
      BY <2>1, ParamsAssumption DEF Ingest, TypeOK
    <3>2. CASE OpenLosing(l)
      <4>1. max_clusters > 0 /\ 1 >= max_clusters
        BY <3>2 DEF OpenLosing, AtCapacity
      <4> QED BY <3>1, <4>1 DEF LostOnlyAtWindowOne
    <3>3. CASE ~OpenLosing(l)
      <4>1. lost_lines' = lost_lines
        BY <2>1, <3>3 DEF Ingest, Touch, Open, OpenMerging
      <4> QED BY <3>1, <4>1 DEF LostOnlyAtWindowOne
    <3> QED BY <3>2, <3>3
  <2>2. CASE UNCHANGED vars
    BY <2>2 DEF vars, LostOnlyAtWindowOne
  <2> QED BY <2>1, <2>2 DEF Next
<1> QED BY <1>1, <1>2, TypeCorrect, PTL DEF Spec

------------------------------------------------------------------------------
\* Similarity.

\* However lines, matches and evictions interleave, no two live clusters would
\* match each other: a cluster opens only when its line clears no exemplar, and
\* exemplars never change.
THEOREM ClustersStayDissimilar == Spec => []PairwiseDissimilar
<1>1. Init => PairwiseDissimilar
  BY DEF Init, WithParams, PairwiseDissimilar
<1>2. TypeOK /\ PairwiseDissimilar /\ [Next]_vars => PairwiseDissimilar'
  <2> SUFFICES ASSUME TypeOK, PairwiseDissimilar, [Next]_vars
               PROVE  PairwiseDissimilar'
    OBVIOUS
  <2> DEFINE Joins(a, b) == AtLeast(Similarity(TokensOf[a], TokensOf[b]), threshold)
             n == Len(clusters)
  <2>0. /\ n \in Nat
        /\ DOMAIN clusters = 1 .. n
        /\ \A i \in 1 .. n : clusters[i].line \in Lines
        /\ \A i, j \in 1 .. n : i # j => ~Joins(clusters[i].line, clusters[j].line)
    BY EntryFacts DEF Entries, PairwiseDissimilar, Clears
  <2>1. \A a, b \in Lines : Joins(a, b) <=> Joins(b, a)
    BY LineSimilarity
  <2>2. ASSUME NEW l \in Lines, Ingest(l)
        PROVE  PairwiseDissimilar'
    <3>1. seen' = Append(seen, l) /\ threshold' = threshold
      BY <2>2 DEF Ingest
    \* It is enough that the exemplars of the new vector do not join each other.
    <3>2. SUFFICES /\ clusters' \in Seq(Entries)
                   /\ \A i, j \in 1 .. Len(clusters') :
                        i # j => ~Joins(clusters'[i].line, clusters'[j].line)
      BY <3>1, LenProperties DEF PairwiseDissimilar, Clears
    <3> HIDE DEF Joins, n
    <3>3. CASE Touch(l)
      <4>1. PICK m \in 1 .. n :
              /\ clusters' \in Seq(Entries)
              /\ Len(clusters') = n
              /\ clusters'[1] = [clusters[m] EXCEPT !.count = @ + 1, !.touched = Now]
              /\ \A j \in 2 .. n :
                   clusters'[j] = IF j <= m THEN clusters[j - 1] ELSE clusters[j]
        BY <3>1, <3>3, TouchShape DEF n
      <4> DEFINE p(j) == IF j = 1 THEN m ELSE IF j <= m THEN j - 1 ELSE j
      <4>2. clusters'[1].line = clusters[m].line
        <5>1. clusters[m] \in Entries
          BY EntryFacts DEF n
        <5> QED BY <4>1, <5>1 DEF Entries
      <4>3. \A j \in 1 .. n : p(j) \in 1 .. n /\ clusters'[j].line = clusters[p(j)].line
        <5> SUFFICES ASSUME NEW j \in 1 .. n
                     PROVE  p(j) \in 1 .. n /\ clusters'[j].line = clusters[p(j)].line
          OBVIOUS
        <5>1. CASE j = 1
          BY <4>2, <5>1
        <5>2. CASE j # 1
          <6>1. j \in 2 .. n /\ p(j) \in 1 .. n
            BY <2>0, <5>2
          <6> QED BY <4>1, <5>2, <6>1
        <5> QED BY <5>1, <5>2
      <4>4. \A i, j \in 1 .. n : i # j => p(i) # p(j)
        BY <2>0
      <4> HIDE DEF p
      <4> QED BY <2>0, <4>1, <4>3, <4>4
    \* A new line joins no live exemplar, and the others are survivors.
    <3>4. ASSUME NEW s,
                 s \in Nat, s <= n + 1,
                 Matches(l) = {},
                 clusters' \in Seq(Entries),
                 Len(clusters') = s,
                 clusters'[1] = NewEntry(l),
                 \A j \in 2 .. s : clusters'[j].line = clusters[j - 1].line
          PROVE  /\ clusters' \in Seq(Entries)
                 /\ \A i, j \in 1 .. Len(clusters') :
                      i # j => ~Joins(clusters'[i].line, clusters'[j].line)
      <4>1. clusters'[1].line = l
        BY <3>4 DEF NewEntry
      <4>2. \A j \in 1 .. n : ~Joins(l, clusters[j].line)
        BY <2>0, <3>4 DEF Matches, Clears, Joins
      <4>3. \A j \in 2 .. s : /\ j - 1 \in 1 .. n
                              /\ clusters'[j].line = clusters[j - 1].line
        BY <2>0, <3>4
      <4>4. ASSUME NEW i \in 1 .. s, NEW j \in 1 .. s, i # j
            PROVE  ~Joins(clusters'[i].line, clusters'[j].line)
        <5>1. CASE i = 1
          <6>1. j \in 2 .. s
            BY <3>4, <4>4, <5>1
          <6> QED BY <4>1, <4>2, <4>3, <5>1, <6>1
        <5>2. CASE j = 1
          <6>1. i \in 2 .. s
            BY <3>4, <4>4, <5>2
          <6>2. ~Joins(l, clusters'[i].line) /\ clusters'[i].line \in Lines
            BY <2>0, <4>2, <4>3, <6>1
          <6> QED BY <2>1, <4>1, <5>2, <6>2
        <5>3. CASE i # 1 /\ j # 1
          <6>1. i \in 2 .. s /\ j \in 2 .. s /\ i - 1 # j - 1
            BY <3>4, <4>4, <5>3
          <6> QED BY <2>0, <4>3, <6>1
        <5> QED BY <5>1, <5>2, <5>3
      <4> QED BY <3>4, <4>4
    <3>5. CASE Open(l)
      <4>1. /\ Matches(l) = {}
            /\ clusters' \in Seq(Entries)
            /\ Len(clusters') = n + 1
            /\ clusters'[1] = NewEntry(l)
            /\ \A j \in 2 .. n + 1 : clusters'[j] = clusters[j - 1]
        BY <3>1, <3>5, OpenShape DEF Open, n
      <4>2. n + 1 \in Nat /\ n + 1 <= n + 1
        BY <2>0
      <4> QED BY <3>4, <4>1, <4>2
    <3>6. CASE OpenMerging(l)
      <4>1. PICK s \in 1 .. n - 1 :
              /\ clusters' \in Seq(Entries)
              /\ Len(clusters') = n
              /\ clusters'[1] = NewEntry(l)
              /\ \A j \in 2 .. n :
                   clusters'[j] = IF j = s + 1
                                  THEN [clusters[s] EXCEPT !.count = @ + clusters[n].count]
                                  ELSE clusters[j - 1]
        BY <3>1, <3>6, OpenMergingShape DEF n
      <4>2. ASSUME NEW j \in 2 .. n
            PROVE  clusters'[j].line = clusters[j - 1].line
        <5>1. CASE j = s + 1
          <6>1. j - 1 = s /\ s \in 1 .. n
            BY <2>0, <5>1
          <6>2. clusters[s] \in Entries
            BY <6>1, EntryFacts DEF n
          <6> QED BY <4>1, <5>1, <6>1, <6>2 DEF Entries
        <5> QED BY <4>1, <5>1
      <4> QED BY <2>0, <3>4, <3>6, <4>1, <4>2 DEF OpenMerging
    <3>7. CASE OpenLosing(l)
      <4>1. /\ clusters' \in Seq(Entries)
            /\ Len(clusters') = 1
            /\ clusters'[1] = NewEntry(l)
            /\ Matches(l) = {}
            /\ n = 1
        BY <3>1, <3>7, OpenLosingShape DEF OpenLosing, n
      <4> QED BY <3>4, <4>1
    <3> QED BY <2>2, <3>3, <3>5, <3>6, <3>7 DEF Ingest
  <2>3. CASE UNCHANGED vars
    BY <2>3 DEF vars, PairwiseDissimilar, Clears
  <2> QED BY <2>2, <2>3 DEF Next
<1> QED BY <1>1, <1>2, TypeCorrect, PTL DEF Spec

\* A line clears the exemplar of a line with its tokens, blank or not, whatever
\* the threshold, if that is a number.
LEMMA SameTokensClear ==
  ASSUME NEW l \in Lines, NEW m \in Lines, TokensOf[l] = TokensOf[m],
         threshold \in Thresholds, ~IsNaN(threshold)
  PROVE  AtLeast(Similarity(TokensOf[l], TokensOf[m]), threshold)
<1> DEFINE c == Cardinality(TokensOf[l])
<1>1. c \in Nat /\ TokensOf[l] \cap TokensOf[m] = TokensOf[l]
  BY LinesAssumption, FS_CardinalityType
<1> HIDE DEF c
<1>2. c + c - c = c
  BY <1>1
<1>3. Similarity(TokensOf[l], TokensOf[m]) = IF c = 0 THEN One ELSE Fraction(c, c)
  BY <1>1, <1>2 DEF Similarity, c
<1>4. /\ threshold.num \in Nat /\ threshold.den \in Nat
      /\ threshold.den > 0 /\ threshold.num <= threshold.den
  BY DEF Thresholds, IsNaN, NaN, Fraction
<1>5. CASE c = 0
  BY <1>3, <1>4, <1>5 DEF AtLeast, IsNaN, One, Fraction
<1>6. CASE c # 0
  <2> DEFINE num == threshold.num
             den == threshold.den
  <2>1. num \in Nat /\ den \in Nat /\ den # 0 /\ num <= den
    BY <1>4
  <2>2. Similarity(TokensOf[l], TokensOf[m]) = [num |-> c, den |-> c]
    BY <1>3, <1>6 DEF Fraction
  <2> HIDE DEF num, den
  <2>3. c * den >= num * c
    BY <1>1, <2>1, Z3
  <2> QED BY <1>6, <2>1, <2>2, <2>3 DEF AtLeast, IsNaN, num, den
<1> QED BY <1>5, <1>6

\* No two live clusters have the same tokens, blank lines included, unless the
\* threshold is NaN: they would match each other.
THEOREM NoTwinsLive == Spec => []NoTwins
<1>1. TypeOK /\ PairwiseDissimilar => NoTwins
  <2> SUFFICES ASSUME TypeOK, PairwiseDissimilar, ~IsNaN(threshold),
                      NEW i \in DOMAIN clusters, NEW j \in DOMAIN clusters,
                      TokensOf[clusters[i].line] = TokensOf[clusters[j].line], i # j
               PROVE  FALSE
    BY DEF NoTwins
  <2>1. clusters[i].line \in Lines /\ clusters[j].line \in Lines
    BY EntryFacts DEF Entries
  <2>2. threshold \in Thresholds
    BY DEF TypeOK
  <2>3. AtLeast(Similarity(TokensOf[clusters[i].line], TokensOf[clusters[j].line]), threshold)
    BY <2>1, <2>2, SameTokensClear
  <2> QED BY <2>3 DEF PairwiseDissimilar, Clears
<1> QED BY <1>1, TypeCorrect, ClustersStayDissimilar, PTL

------------------------------------------------------------------------------
\* Recency.

\* The history of a typed state, unfolded.
HistoryFacts ==
  /\ Len(owner) = Len(seen)
  /\ \A k \in 1 .. Len(owner) : owner[k] < Now
  /\ \A i \in 1 .. Len(clusters) :
       /\ clusters[i].id < Now
       /\ clusters[i].touched <= Now - i
  /\ \A i, j \in 1 .. Len(clusters) : clusters[i].id = clusters[j].id => i = j
  /\ \A i, j \in 1 .. Len(clusters) :
       i < j => clusters[i].touched > clusters[j].touched
  /\ \A i \in 1 .. Len(clusters), k \in 1 .. Len(owner) :
       owner[k] = clusters[i].id => k <= clusters[i].touched

LEMMA HistoryFactsEquiv ==
  ASSUME TypeOK
  PROVE  HistoryOK /\ RecencyOrder <=> HistoryFacts
BY EntryFacts DEF HistoryOK, RecencyOrder, HistoryFacts

\* One step, for the two facts together: the owner of an evicted line was used
\* before the survivor that inherits it, because the vector is in LRU order.
LEMMA HistoryStep ==
  ASSUME TypeOK, TypeOK', HistoryFacts, NEW l \in Lines, Ingest(l)
  PROVE  HistoryFacts'
<1> DEFINE n == Len(clusters)
           m == Len(seen)
<1>0. /\ n \in Nat /\ m \in Nat /\ Now = m + 1 /\ Now \in Nat \ {0}
      /\ \A i \in 1 .. n : clusters[i] \in Entries
      /\ \A k \in 1 .. m : owner[k] \in Nat /\ owner[k] < Now
      /\ Len(owner) = m
  BY EntryFacts DEF HistoryFacts, Now
<1>1. seen' = Append(seen, l) /\ Len(seen') = m + 1 /\ Now' = Now + 1
  <2>1. seen' = Append(seen, l)
    BY DEF Ingest
  <2>2. Len(seen') = Len(seen) + 1
    BY <2>1, AppendProperties DEF TypeOK
  <2> QED BY <2>1, <2>2 DEF Now
<1>2. /\ \A i \in 1 .. n : /\ clusters[i].id \in Nat \ {0}
                           /\ clusters[i].touched \in Nat \ {0}
                           /\ clusters[i].id < Now
                           /\ clusters[i].touched <= Now - i
      /\ \A i, j \in 1 .. n : clusters[i].id = clusters[j].id => i = j
      /\ \A i, j \in 1 .. n : i < j => clusters[i].touched > clusters[j].touched
      /\ \A i \in 1 .. n, k \in 1 .. m : owner[k] = clusters[i].id => k <= clusters[i].touched
  BY <1>0 DEF HistoryFacts, Entries
<1>3. CASE Touch(l)
  <2>1. PICK f \in 1 .. n :
          /\ Len(clusters') = n
          /\ clusters'[1] = [clusters[f] EXCEPT !.count = @ + 1, !.touched = Now]
          /\ \A j \in 2 .. n :
               clusters'[j] = IF j <= f THEN clusters[j - 1] ELSE clusters[j]
          /\ Len(owner') = m + 1
          /\ \A k \in 1 .. m : owner'[k] = owner[k]
          /\ owner'[m + 1] = clusters[f].id
    BY <1>0, <1>1, <1>3, TouchShape
  <2>2. clusters'[1].id = clusters[f].id /\ clusters'[1].touched = Now
    BY <1>0, <2>1 DEF Entries
  <2> DEFINE p(j) == IF j = 1 THEN f ELSE IF j <= f THEN j - 1 ELSE j
  <2>3. ASSUME NEW j \in 1 .. n
        PROVE  /\ p(j) \in 1 .. n
               /\ clusters'[j].id = clusters[p(j)].id
               /\ j = 1 => clusters'[j].touched = Now
               /\ j # 1 => clusters'[j].touched = clusters[p(j)].touched
    <3>1. CASE j = 1
      BY <2>2, <3>1
    <3>2. CASE j # 1
      <4>1. j \in 2 .. n /\ p(j) \in 1 .. n
        BY <1>0, <3>2
      <4> QED BY <2>1, <3>2, <4>1
    <3> QED BY <3>1, <3>2
  <2>4. /\ \A i, j \in 1 .. n : p(i) = p(j) => i = j
        /\ \A i, j \in 2 .. n : i < j => p(i) < p(j)
        /\ \A j \in 2 .. n : p(j) >= j - 1
    BY <1>0
  <2> HIDE DEF p
  <2>5. \A i \in 1 .. n : clusters'[i].id < Now' /\ clusters'[i].touched <= Now' - i
    <3> SUFFICES ASSUME NEW i \in 1 .. n
                 PROVE  clusters'[i].id < Now' /\ clusters'[i].touched <= Now' - i
      OBVIOUS
    <3>1. clusters'[i].id < Now'
      <4>1. p(i) \in 1 .. n /\ clusters'[i].id = clusters[p(i)].id
        BY <2>3
      <4>2. clusters[p(i)].id \in Nat /\ clusters[p(i)].id < Now
        BY <1>2, <4>1
      <4> QED BY <1>0, <1>1, <4>1, <4>2
    <3>2. CASE i = 1
      BY <1>0, <1>1, <2>2, <3>1, <3>2
    <3>3. CASE i # 1
      <4>1. i \in 2 .. n /\ p(i) \in 1 .. n /\ p(i) >= i - 1
        BY <1>0, <2>3, <2>4, <3>3
      <4>2. clusters'[i].touched = clusters[p(i)].touched
        BY <2>3, <3>3
      <4>3. clusters[p(i)].touched <= Now - p(i) /\ clusters[p(i)].touched \in Nat
        BY <1>2, <4>1
      <4> QED BY <1>0, <1>1, <3>1, <4>1, <4>2, <4>3
    <3> QED BY <3>2, <3>3
  <2>6. \A i, j \in 1 .. n : clusters'[i].id = clusters'[j].id => i = j
    <3> SUFFICES ASSUME NEW i \in 1 .. n, NEW j \in 1 .. n,
                        clusters'[i].id = clusters'[j].id
                 PROVE  i = j
      OBVIOUS
    <3>1. p(i) \in 1 .. n /\ p(j) \in 1 .. n /\ clusters[p(i)].id = clusters[p(j)].id
      BY <2>3
    <3>2. p(i) = p(j)
      BY <1>2, <3>1
    <3> QED BY <2>4, <3>2
  <2>7. \A i, j \in 1 .. n : i < j => clusters'[i].touched > clusters'[j].touched
    <3> SUFFICES ASSUME NEW i \in 1 .. n, NEW j \in 1 .. n, i < j
                 PROVE  clusters'[i].touched > clusters'[j].touched
      OBVIOUS
    <3>1. j \in 2 .. n /\ p(j) \in 1 .. n /\ clusters'[j].touched = clusters[p(j)].touched
      BY <1>0, <2>3
    <3>2. CASE i = 1
      <4>1. clusters[p(j)].touched <= Now - p(j) /\ clusters[p(j)].touched \in Nat
        BY <1>2, <3>1
      <4> QED BY <1>0, <2>2, <3>1, <3>2, <4>1
    <3>3. CASE i # 1
      <4>1. i \in 2 .. n /\ p(i) \in 1 .. n /\ clusters'[i].touched = clusters[p(i)].touched
        BY <1>0, <2>3, <3>3
      <4>2. p(i) < p(j)
        BY <2>4, <3>1, <4>1
      <4> QED BY <1>2, <3>1, <4>1, <4>2
    <3> QED BY <3>2, <3>3
  <2>8. ASSUME NEW i \in 1 .. n, NEW k \in 1 .. m + 1, owner'[k] = clusters'[i].id
        PROVE  k <= clusters'[i].touched
    <3>1. CASE i = 1
      BY <1>0, <2>2, <3>1
    <3>2. CASE i # 1
      <4>1. /\ p(i) \in 1 .. n
            /\ clusters'[i].id = clusters[p(i)].id
            /\ clusters'[i].touched = clusters[p(i)].touched
        BY <2>3, <3>2
      <4>2. k # m + 1
        <5>1. p(i) # p(1) /\ p(1) = f
          BY <1>0, <2>4, <3>2 DEF p
        <5> QED BY <1>2, <2>1, <2>8, <4>1, <5>1
      <4>3. k \in 1 .. m
        BY <1>0, <4>2
      <4> QED BY <1>2, <2>1, <2>8, <4>1, <4>3
    <3> QED BY <3>1, <3>2
  <2>9. \A k \in 1 .. m + 1 : owner'[k] < Now'
    <3> SUFFICES ASSUME NEW k \in 1 .. m + 1
                 PROVE  owner'[k] < Now'
      OBVIOUS
    <3>1. CASE k = m + 1
      BY <1>0, <1>1, <1>2, <2>1, <3>1
    <3>2. CASE k # m + 1
      <4>1. k \in 1 .. m
        BY <1>0, <3>2
      <4> QED BY <1>0, <1>1, <2>1, <4>1
    <3> QED BY <3>1, <3>2
  <2> QED BY <1>1, <2>1, <2>5, <2>6, <2>7, <2>8, <2>9 DEF HistoryFacts
\* The three ways to open a cluster: the new one at the head is numbered Now,
\* the ones behind it are old entries moved down one, and old lines stay with
\* their cluster, go to the head's elder, or are lost.
<1>4. ASSUME NEW s \in Nat, s <= n + 1,
             Len(clusters') = s,
             s > 0,
             clusters'[1] = NewEntry(l),
             \A j \in 2 .. s : /\ clusters'[j].id = clusters[j - 1].id
                               /\ clusters'[j].touched = clusters[j - 1].touched,
             Len(owner') = m + 1,
             owner'[m + 1] = Now,
             \A k \in 1 .. m :
               \/ owner'[k] = owner[k]
               \/ owner'[k] = Lost
               \/ \E v \in 1 .. n, h \in 1 .. n :
                    /\ h < v
                    /\ owner[k] = clusters[v].id
                    /\ owner'[k] = clusters[h].id
      PROVE  HistoryFacts'
  <2>1. clusters'[1].id = Now /\ clusters'[1].touched = Now
    BY <1>4 DEF NewEntry
  <2>2. ASSUME NEW j \in 1 .. s, j # 1
        PROVE  /\ j - 1 \in 1 .. n
               /\ clusters'[j].id = clusters[j - 1].id
               /\ clusters'[j].touched = clusters[j - 1].touched
               /\ clusters'[j].id \in Nat /\ clusters'[j].id < Now
               /\ clusters'[j].touched \in Nat /\ clusters'[j].touched <= Now - (j - 1)
    <3>1. j \in 2 .. s /\ j - 1 \in 1 .. n
      BY <1>0, <1>4, <2>2
    <3> QED BY <1>2, <1>4, <3>1
  <2>3. \A k \in 1 .. m : owner'[k] < Now
    BY <1>0, <1>2, <1>4 DEF Lost
  <2>4. \A k \in 1 .. m + 1 : owner'[k] < Now'
    <3> SUFFICES ASSUME NEW k \in 1 .. m + 1 PROVE owner'[k] < Now'
      OBVIOUS
    <3>1. CASE k = m + 1
      BY <1>0, <1>1, <1>4, <3>1
    <3>2. CASE k # m + 1
      <4>1. k \in 1 .. m
        BY <1>0, <3>2
      <4>2. owner'[k] \in Nat
        <5>1. CASE owner'[k] = owner[k]
          BY <1>0, <4>1, <5>1
        <5>2. CASE owner'[k] = Lost
          BY <5>2 DEF Lost
        <5>3. CASE \E h \in 1 .. n : owner'[k] = clusters[h].id
          BY <1>2, <5>3
        <5> QED BY <1>4, <4>1, <5>1, <5>2, <5>3
      <4> QED BY <1>0, <1>1, <2>3, <4>1, <4>2
    <3> QED BY <3>1, <3>2
  <2>5. \A i \in 1 .. s : clusters'[i].id < Now' /\ clusters'[i].touched <= Now' - i
    <3> SUFFICES ASSUME NEW i \in 1 .. s
                 PROVE  clusters'[i].id < Now' /\ clusters'[i].touched <= Now' - i
      OBVIOUS
    <3>1. CASE i = 1
      BY <1>0, <1>1, <2>1, <3>1
    <3>2. CASE i # 1
      BY <1>0, <1>1, <2>2, <3>2
    <3> QED BY <3>1, <3>2
  <2>6. \A i, j \in 1 .. s : clusters'[i].id = clusters'[j].id => i = j
    <3> SUFFICES ASSUME NEW i \in 1 .. s, NEW j \in 1 .. s,
                        clusters'[i].id = clusters'[j].id, i # j
                 PROVE  FALSE
      OBVIOUS
    <3>1. CASE i = 1
      <4>1. clusters'[j].id < Now /\ clusters'[j].id \in Nat
        BY <2>2, <3>1
      <4> QED BY <1>0, <2>1, <3>1, <4>1
    <3>2. CASE j = 1
      <4>1. clusters'[i].id < Now /\ clusters'[i].id \in Nat
        BY <2>2, <3>2
      <4> QED BY <1>0, <2>1, <3>2, <4>1
    <3>3. CASE i # 1 /\ j # 1
      <4>1. /\ i - 1 \in 1 .. n /\ j - 1 \in 1 .. n
            /\ clusters[i - 1].id = clusters[j - 1].id
        BY <2>2, <3>3
      <4>2. i - 1 = j - 1
        BY <1>2, <4>1
      <4> QED BY <1>4, <4>2
    <3> QED BY <3>1, <3>2, <3>3
  <2>7. \A i, j \in 1 .. s : i < j => clusters'[i].touched > clusters'[j].touched
    <3> SUFFICES ASSUME NEW i \in 1 .. s, NEW j \in 1 .. s, i < j
                 PROVE  clusters'[i].touched > clusters'[j].touched
      OBVIOUS
    <3>1. j # 1
      BY <1>4
    <3>2. CASE i = 1
      BY <1>0, <1>4, <2>1, <2>2, <3>1, <3>2
    <3>3. CASE i # 1
      <4>1. i - 1 < j - 1 /\ i - 1 \in 1 .. n /\ j - 1 \in 1 .. n
        BY <1>4, <2>2, <3>1, <3>3
      <4>2. clusters[i - 1].touched > clusters[j - 1].touched
        BY <1>2, <4>1
      <4> QED BY <2>2, <3>1, <3>3, <4>2
    <3> QED BY <3>2, <3>3
  <2>8. ASSUME NEW i \in 1 .. s, NEW k \in 1 .. m + 1, owner'[k] = clusters'[i].id
        PROVE  k <= clusters'[i].touched
    <3>1. CASE i = 1
      BY <1>0, <2>1, <3>1
    <3>2. CASE i # 1
      <4>1. /\ i - 1 \in 1 .. n
            /\ clusters'[i].id = clusters[i - 1].id
            /\ clusters'[i].touched = clusters[i - 1].touched
            /\ clusters'[i].id < Now
        BY <2>2, <3>2
      <4>2. k \in 1 .. m
        BY <1>0, <1>4, <2>8, <4>1
      <4>3. CASE owner'[k] = owner[k]
        BY <1>2, <2>8, <4>1, <4>2, <4>3
      <4>4. CASE owner'[k] = Lost
        BY <1>2, <2>8, <4>1, <4>4 DEF Lost
      <4>5. ASSUME NEW v \in 1 .. n, NEW h \in 1 .. n, h < v,
                   owner[k] = clusters[v].id, owner'[k] = clusters[h].id
            PROVE  k <= clusters'[i].touched
        <5>1. h = i - 1
          BY <1>2, <2>8, <4>1, <4>5
        <5>2. k <= clusters[v].touched /\ clusters[v].touched < clusters[h].touched
          BY <1>2, <4>2, <4>5
        <5>3. clusters[v].touched \in Nat /\ clusters[h].touched \in Nat
          BY <1>2
        <5> QED BY <4>1, <4>2, <5>1, <5>2, <5>3
      <4> QED BY <1>4, <4>2, <4>3, <4>4, <4>5
    <3> QED BY <3>1, <3>2
  <2> QED BY <1>1, <1>4, <2>4, <2>5, <2>6, <2>7, <2>8 DEF HistoryFacts
<1>5. CASE Open(l)
  <2>1. /\ Len(clusters') = n + 1
        /\ clusters'[1] = NewEntry(l)
        /\ \A j \in 2 .. n + 1 : clusters'[j] = clusters[j - 1]
        /\ Len(owner') = m + 1
        /\ \A k \in 1 .. m : owner'[k] = owner[k]
        /\ owner'[m + 1] = Now
    BY <1>0, <1>1, <1>5, OpenShape
  <2>2. n + 1 \in Nat /\ n + 1 <= n + 1 /\ n + 1 > 0
    BY <1>0
  <2> HIDE DEF n, m
  <2> QED BY <1>4, <2>1, <2>2
<1>6. CASE OpenMerging(l)
  <2>1. PICK h \in 1 .. n - 1 :
          /\ Len(clusters') = n
          /\ clusters'[1] = NewEntry(l)
          /\ \A j \in 2 .. n :
               clusters'[j] = IF j = h + 1
                              THEN [clusters[h] EXCEPT !.count = @ + clusters[n].count]
                              ELSE clusters[j - 1]
          /\ Len(owner') = m + 1
          /\ \A k \in 1 .. m :
               owner'[k] = IF owner[k] = clusters[n].id THEN clusters[h].id ELSE owner[k]
          /\ owner'[m + 1] = Now
    BY <1>0, <1>1, <1>6, OpenMergingShape
  <2>2. ASSUME NEW j \in 2 .. n
        PROVE  /\ clusters'[j].id = clusters[j - 1].id
               /\ clusters'[j].touched = clusters[j - 1].touched
    <3>1. CASE j = h + 1
      <4>1. j - 1 = h /\ clusters[h] \in Entries
        BY <1>0, <3>1
      <4> QED BY <2>1, <3>1, <4>1 DEF Entries
    <3> QED BY <2>1, <3>1
  <2>3. n \in Nat /\ n <= n + 1 /\ n > 0 /\ n \in 1 .. n /\ h \in 1 .. n /\ h < n
    BY <1>0
  <2> HIDE DEF n, m
  <2> QED BY <1>4, <2>1, <2>2, <2>3
<1>7. CASE OpenLosing(l)
  <2>1. /\ n = 1
        /\ Len(clusters') = 1
        /\ clusters'[1] = NewEntry(l)
        /\ Len(owner') = m + 1
        /\ \A k \in 1 .. m :
             owner'[k] = IF owner[k] = clusters[1].id THEN Lost ELSE owner[k]
        /\ owner'[m + 1] = Now
    BY <1>0, <1>1, <1>7, OpenLosingShape
  <2> HIDE DEF n, m
  <2> QED BY <1>4, <2>1
<1> QED BY <1>3, <1>5, <1>6, <1>7 DEF Ingest

LEMMA HistoryCorrect == Spec => [](HistoryOK /\ RecencyOrder)
<1>1. Init => HistoryOK /\ RecencyOrder
  <2> SUFFICES ASSUME Init PROVE HistoryOK /\ RecencyOrder
    OBVIOUS
  <2>1. clusters = << >> /\ owner = << >> /\ seen = << >>
    BY DEF Init, WithParams
  <2>2. DOMAIN clusters = {} /\ DOMAIN owner = {}
    BY <2>1
  <2> QED BY <2>1, <2>2 DEF HistoryOK, RecencyOrder
<1>2. TypeOK /\ TypeOK' /\ HistoryOK /\ RecencyOrder /\ [Next]_vars
        => (HistoryOK /\ RecencyOrder)'
  <2> SUFFICES ASSUME TypeOK, TypeOK', HistoryOK /\ RecencyOrder, [Next]_vars
               PROVE  (HistoryOK /\ RecencyOrder)'
    OBVIOUS
  <2>1. HistoryFacts
    BY HistoryFactsEquiv
  <2>2. HistoryFacts'
    <3>1. ASSUME NEW l \in Lines, Ingest(l)
          PROVE  HistoryFacts'
      BY <2>1, <3>1, HistoryStep
    <3>2. CASE UNCHANGED vars
      BY <2>1, <3>2 DEF vars, history, HistoryFacts, Now
    <3> QED BY <3>1, <3>2 DEF Next
  <2>3. (TypeOK => (HistoryOK /\ RecencyOrder <=> HistoryFacts))'
    BY HistoryFactsEquiv, PTL
  <2> QED BY <2>2, <2>3
<1> QED BY <1>1, <1>2, TypeCorrect, PTL DEF Spec

\* move-to-front keeps the vector in order of last use, so that the tail is the
\* least recently used cluster whenever one is evicted.
THEOREM VectorInRecencyOrder == Spec => []RecencyOrder
BY HistoryCorrect, PTL

\* The last max_clusters lines stay with a cluster that resembles them.
THEOREM RecentLinesKept == Spec => []RecentLinesRepresented
<1>1. Init => RecentLinesRepresented
  BY DEF Init, RecentLinesRepresented
<1>2. (TypeOK /\ TypeOK' /\ HistoryOK /\ RecencyOrder
         /\ RecentLinesRepresented /\ [Next]_vars)
        => RecentLinesRepresented'
  <2> SUFFICES ASSUME TypeOK, TypeOK', HistoryOK, RecencyOrder,
                      RecentLinesRepresented, [Next]_vars
               PROVE  RecentLinesRepresented'
    OBVIOUS
  <2> DEFINE n == Len(clusters)
             m == Len(seen)
             Joins(a, b) == AtLeast(Similarity(TokensOf[a], TokensOf[b]), threshold)
  <2>0. HistoryFacts
    BY HistoryFactsEquiv
  <2>1. /\ n \in Nat /\ m \in Nat /\ Now = m + 1 /\ max_clusters \in Nat
        /\ \A i \in 1 .. n : clusters[i] \in Entries
        /\ Len(owner) = m
    BY <2>0, EntryFacts, ParamsAssumption DEF HistoryFacts, Now, TypeOK
  <2>2. ASSUME NEW k \in 1 .. m, max_clusters = 0 \/ k > m - max_clusters
        PROVE  \E i \in 1 .. n : /\ owner[k] = clusters[i].id
                                 /\ k = clusters[i].id \/ Joins(seen[k], clusters[i].line)
    BY <2>2, EntryFacts DEF RecentLinesRepresented, Represents, Clears
  <2>3. ASSUME NEW l \in Lines, Ingest(l)
        PROVE  RecentLinesRepresented'
    <3>1. /\ seen' = Append(seen, l)
          /\ Len(seen') = m + 1
          /\ \A k \in 1 .. m : seen'[k] = seen[k]
          /\ seen'[m + 1] = l
          /\ max_clusters' = max_clusters
          /\ threshold' = threshold
      BY <2>3, AppendProperties DEF Ingest, TypeOK
    <3>2. SUFFICES ASSUME NEW k \in 1 .. m + 1,
                          max_clusters = 0 \/ k > m + 1 - max_clusters
                   PROVE  \E i \in 1 .. Len(clusters') :
                            /\ owner'[k] = clusters'[i].id
                            /\ k = clusters'[i].id \/ Joins(seen'[k], clusters'[i].line)
      <4>1. DOMAIN seen' = 1 .. m + 1 /\ DOMAIN clusters' = 1 .. Len(clusters')
        BY <3>1, LenProperties DEF TypeOK
      <4>2. ASSUME NEW k \in 1 .. m + 1,
                   max_clusters' = 0 \/ k > Len(seen') - max_clusters'
            PROVE  \E i \in DOMAIN clusters' : Represents(clusters[i], k)'
        <5>1. PICK i \in 1 .. Len(clusters') :
                /\ owner'[k] = clusters'[i].id
                /\ k = clusters'[i].id \/ Joins(seen'[k], clusters'[i].line)
          <6> HIDE DEF Joins
          <6>1. max_clusters = 0 \/ k > m + 1 - max_clusters
            BY <2>1, <3>1, <4>2
          <6> QED BY <3>2, <6>1
        <5>2. Represents(clusters[i], k)'
          BY <3>1, <5>1 DEF Represents, Clears
        <5> QED BY <4>1, <5>2
      <4> QED BY <4>1, <4>2 DEF RecentLinesRepresented
    <3> HIDE DEF Joins
    \* An older line among the recent ones was represented before the step.
    <3>3. ASSUME NEW j \in 1 .. m, j = k
          PROVE  \E i \in 1 .. n : /\ owner[k] = clusters[i].id
                                   /\ k = clusters[i].id \/ Joins(seen'[k], clusters[i].line)
      <4>1. max_clusters = 0 \/ k > m - max_clusters
        BY <2>1, <3>2
      <4> QED BY <2>2, <3>1, <3>3, <4>1
    <3>4. k = m + 1 \/ k \in 1 .. m
      BY <2>1
    <3>5. CASE Touch(l)
      <4>1. PICK f \in 1 .. n :
              /\ Clears(l, clusters[f])
              /\ Len(clusters') = n
              /\ clusters'[1] = [clusters[f] EXCEPT !.count = @ + 1, !.touched = Now]
              /\ \A j \in 2 .. n :
                   clusters'[j] = IF j <= f THEN clusters[j - 1] ELSE clusters[j]
              /\ \A j \in 1 .. m : owner'[j] = owner[j]
              /\ owner'[m + 1] = clusters[f].id
        <5>1. seen' = Append(seen, l)
          BY <3>1
        <5>2. PICK f \in 1 .. Len(clusters) :
                /\ Clears(l, clusters[f])
                /\ clusters' \in Seq(Entries)
                /\ Len(clusters') = Len(clusters)
                /\ clusters'[1] = [clusters[f] EXCEPT !.count = @ + 1, !.touched = Now]
                /\ \A j \in 2 .. Len(clusters) :
                     clusters'[j] = IF j <= f THEN clusters[j - 1] ELSE clusters[j]
                /\ owner' \in Seq(Nat)
                /\ Len(owner') = Len(owner) + 1
                /\ \A j \in 1 .. Len(owner) : owner'[j] = owner[j]
                /\ owner'[Len(owner) + 1] = clusters[f].id
                /\ lost_lines' = lost_lines
          BY <3>5, <5>1, TouchShape
        <5>3. Len(owner) = m
          BY <2>1
        <5> WITNESS f \in 1 .. n
        <5> QED BY <5>2, <5>3
      <4>2. clusters'[1].id = clusters[f].id /\ clusters'[1].line = clusters[f].line
        BY <2>1, <4>1 DEF Entries
      <4>3. ASSUME NEW i \in 1 .. n
            PROVE  \E j \in 1 .. n : /\ clusters'[j].id = clusters[i].id
                                     /\ clusters'[j].line = clusters[i].line
        <5>1. CASE i = f
          <6>1. 1 \in 1 .. n
            BY <2>1
          <6> QED BY <4>2, <5>1, <6>1
        <5>2. CASE i < f
          <6>1. i + 1 \in 2 .. n /\ i + 1 <= f /\ (i + 1) - 1 = i
            BY <2>1, <5>2
          <6>2. clusters'[i + 1] = clusters[i] /\ i + 1 \in 1 .. n
            BY <2>1, <4>1, <6>1
          <6> QED BY <6>2
        <5>3. CASE i > f
          <6>1. i \in 2 .. n /\ ~(i <= f)
            BY <2>1, <5>3
          <6> QED BY <4>1, <6>1
        <5> QED BY <2>1, <5>1, <5>2, <5>3
      <4>4. CASE k = m + 1
        <5>1. Joins(l, clusters[f].line) /\ 1 \in 1 .. n
          BY <2>1, <4>1 DEF Clears, Joins
        <5> QED BY <3>1, <4>1, <4>2, <4>4, <5>1
      <4>5. CASE k \in 1 .. m
        <5>1. PICK i \in 1 .. n : /\ owner[k] = clusters[i].id
                                  /\ k = clusters[i].id \/ Joins(seen'[k], clusters[i].line)
          BY <3>3, <4>5
        <5>2. PICK j \in 1 .. n : /\ clusters'[j].id = clusters[i].id
                                  /\ clusters'[j].line = clusters[i].line
          BY <4>3
        <5> QED BY <4>1, <4>5, <5>1, <5>2
      <4> QED BY <3>4, <4>4, <4>5
    <3>6. CASE Open(l)
      <4>1. /\ Len(clusters') = n + 1
            /\ clusters'[1] = NewEntry(l)
            /\ \A j \in 2 .. n + 1 : clusters'[j] = clusters[j - 1]
            /\ \A j \in 1 .. m : owner'[j] = owner[j]
            /\ owner'[m + 1] = Now
        BY <2>1, <3>1, <3>6, OpenShape
      <4>2. CASE k = m + 1
        <5>1. clusters'[1].id = k /\ 1 \in 1 .. n + 1
          BY <2>1, <4>1, <4>2 DEF NewEntry
        <5> QED BY <2>1, <4>1, <4>2, <5>1
      <4>3. CASE k \in 1 .. m
        <5>1. PICK i \in 1 .. n : /\ owner[k] = clusters[i].id
                                  /\ k = clusters[i].id \/ Joins(seen'[k], clusters[i].line)
          BY <3>3, <4>3
        <5>2. i + 1 \in 2 .. n + 1 /\ (i + 1) - 1 = i /\ i + 1 \in 1 .. n + 1
          BY <2>1
        <5>3. clusters'[i + 1] = clusters[i]
          BY <4>1, <5>2
        <5> QED BY <4>1, <4>3, <5>1, <5>2, <5>3
      <4> QED BY <3>4, <4>2, <4>3
    \* A line of the evicted tail is not among the recent ones.
    <3>7. ASSUME AtCapacity, n > 0, k \in 1 .. m
          PROVE  owner[k] # clusters[n].id
      <4>1. max_clusters > 0 /\ n >= max_clusters /\ n \in 1 .. n
        BY <2>1, <3>7 DEF AtCapacity
      <4>2. clusters[n].touched <= Now - n /\ clusters[n].touched \in Nat
        BY <2>0, <2>1, <4>1 DEF HistoryFacts, Entries
      <4>3. k > clusters[n].touched
        BY <2>1, <3>2, <4>1, <4>2
      <4>4. owner[k] = clusters[n].id => k <= clusters[n].touched
        BY <2>0, <2>1, <3>7, <4>1 DEF HistoryFacts
      <4> QED BY <2>1, <4>2, <4>3, <4>4
    <3>8. CASE OpenMerging(l)
      <4>1. PICK s \in 1 .. n - 1 :
              /\ Len(clusters') = n
              /\ clusters'[1] = NewEntry(l)
              /\ \A j \in 2 .. n :
                   clusters'[j] = IF j = s + 1
                                  THEN [clusters[s] EXCEPT !.count = @ + clusters[n].count]
                                  ELSE clusters[j - 1]
              /\ \A j \in 1 .. m :
                   owner'[j] = IF owner[j] = clusters[n].id THEN clusters[s].id ELSE owner[j]
              /\ owner'[m + 1] = Now
        <5>1. seen' = Append(seen, l) /\ Len(owner) = m
          BY <2>1, <3>1
        <5>2. PICK s \in 1 .. Len(clusters) - 1 :
                /\ Len(clusters') = Len(clusters)
                /\ clusters'[1] = NewEntry(l)
                /\ \A j \in 2 .. Len(clusters) :
                     clusters'[j] =
                       IF j = s + 1
                       THEN [clusters[s] EXCEPT !.count = @ + clusters[Len(clusters)].count]
                       ELSE clusters[j - 1]
                /\ \A j \in 1 .. Len(owner) :
                     owner'[j] = IF owner[j] = clusters[Len(clusters)].id
                                 THEN clusters[s].id ELSE owner[j]
                /\ owner'[Len(owner) + 1] = Now
          BY <3>8, <5>1, OpenMergingShape
        <5> QED BY <5>1, <5>2
      <4>2. AtCapacity /\ n > 0
        BY <2>1, <3>8 DEF OpenMerging
      <4>3. CASE k = m + 1
        <5>1. clusters'[1].id = k /\ 1 \in 1 .. n
          BY <2>1, <4>1, <4>2, <4>3 DEF NewEntry
        <5> QED BY <2>1, <4>1, <4>3, <5>1
      <4>4. CASE k \in 1 .. m
        <5>1. PICK i \in 1 .. n : /\ owner[k] = clusters[i].id
                                  /\ k = clusters[i].id \/ Joins(seen'[k], clusters[i].line)
          BY <3>3, <4>4
        <5>2. owner[k] # clusters[n].id
          BY <3>7, <4>2, <4>4
        <5>3. i + 1 \in 2 .. n /\ (i + 1) - 1 = i /\ i + 1 \in 1 .. n
          BY <2>1, <5>1, <5>2
        <5>4. clusters'[i + 1].id = clusters[i].id /\ clusters'[i + 1].line = clusters[i].line
          <6>1. CASE i = s
            BY <2>1, <4>1, <5>3, <6>1 DEF Entries
          <6>2. CASE i # s
            <7>1. i + 1 # s + 1
              BY <2>1, <6>2
            <7> QED BY <4>1, <5>3, <7>1
          <6> QED BY <6>1, <6>2
        <5> QED BY <4>1, <4>4, <5>1, <5>2, <5>3, <5>4
      <4> QED BY <3>4, <4>3, <4>4
    <3>9. CASE OpenLosing(l)
      <4>1. /\ n = 1
            /\ Len(clusters') = 1
            /\ clusters'[1] = NewEntry(l)
            /\ owner'[m + 1] = Now
        BY <2>1, <3>1, <3>9, OpenLosingShape
      <4>2. CASE k = m + 1
        <5>1. clusters'[1].id = k /\ 1 \in 1 .. 1
          BY <2>1, <4>1, <4>2 DEF NewEntry
        <5> QED BY <2>1, <4>1, <4>2, <5>1
      <4>3. CASE k \in 1 .. m
        <5>1. owner[k] # clusters[1].id
          BY <2>1, <3>7, <3>9, <4>1, <4>3 DEF OpenLosing
        <5> QED BY <2>1, <3>3, <4>1, <4>3, <5>1
      <4> QED BY <3>4, <4>2, <4>3
    <3> QED BY <2>3, <3>5, <3>6, <3>8, <3>9 DEF Ingest
  <2>4. CASE UNCHANGED vars
    BY <2>4 DEF vars, history, RecentLinesRepresented, Represents, Clears
  <2> QED BY <2>3, <2>4 DEF Next
<1> QED BY <1>1, <1>2, TypeCorrect, HistoryCorrect, PTL DEF Spec

------------------------------------------------------------------------------
\* The ledger.

\* The lines counted in a cluster are finitely many.
LEMMA MembersFinite ==
  ASSUME TypeOK, NEW c
  PROVE  /\ Members(c) = {k \in 1 .. Len(owner) : owner[k] = c}
         /\ IsFiniteSet(Members(c))
         /\ Cardinality(Members(c)) \in Nat
<1>1. Len(owner) \in Nat /\ DOMAIN owner = 1 .. Len(owner)
  BY EntryFacts
<1>2. Members(c) = {k \in 1 .. Len(owner) : owner[k] = c}
  BY <1>1 DEF Members
<1>3. IsFiniteSet(1 .. Len(owner)) /\ Members(c) \in SUBSET (1 .. Len(owner))
  BY <1>1, <1>2, FS_Interval
<1> QED BY <1>2, <1>3, FS_Subset, FS_CardinalityType

\* Two finite sets of lines, and what their counts become.
LEMMA CountOneMore ==
  ASSUME NEW S, IsFiniteSet(S), NEW x, x \notin S
  PROVE  Cardinality(S \cup {x}) = Cardinality(S) + 1
BY FS_AddElement

LEMMA CountBoth ==
  ASSUME NEW S, IsFiniteSet(S), NEW T, IsFiniteSet(T), S \cap T = {}
  PROVE  Cardinality(S \cup T) = Cardinality(S) + Cardinality(T)
<1>1. Cardinality(S \cap T) = 0
  BY FS_EmptySet
<1>2. Cardinality(S) \in Nat /\ Cardinality(T) \in Nat
  BY FS_CardinalityType
<1>3. Cardinality(S \cup T) = Cardinality(S) + Cardinality(T) - Cardinality(S \cap T)
  BY FS_Union
<1> QED BY <1>1, <1>2, <1>3

\* Ledger, position by position.
LedgerFacts ==
  /\ \A i \in 1 .. Len(clusters) : clusters[i].count = Cardinality(Members(clusters[i].id))
  /\ lost_lines = Cardinality(Members(Lost))
  /\ \A k \in 1 .. Len(owner) :
       owner[k] = Lost \/ \E i \in 1 .. Len(clusters) : owner[k] = clusters[i].id

LEMMA LedgerFactsEquiv ==
  ASSUME TypeOK
  PROVE  Ledger <=> LedgerFacts
BY EntryFacts DEF Ledger, LedgerFacts

\* One step: the new line is counted where it joins, an evicted cluster's lines
\* where its count goes, and no other line moves.
LEMMA LedgerStep ==
  ASSUME TypeOK, TypeOK', HistoryFacts, LedgerFacts, NEW l \in Lines, Ingest(l)
  PROVE  LedgerFacts'
<1> DEFINE n == Len(clusters)
           m == Len(owner)
           M(c) == {k \in 1 .. m : owner[k] = c}
           After(c) == {k \in 1 .. m + 1 : owner'[k] = c}
<1>1. /\ n \in Nat /\ m \in Nat /\ Now = m + 1
      /\ \A i \in 1 .. n : clusters[i] \in Entries
      /\ \A k \in 1 .. m : owner[k] \in Nat /\ owner[k] < Now
      /\ \A i \in 1 .. n : clusters[i].id \in Nat \ {0} /\ clusters[i].id < Now
      /\ \A i, j \in 1 .. n : clusters[i].id = clusters[j].id => i = j
  BY EntryFacts DEF HistoryFacts, Now, Entries
<1>2. seen' = Append(seen, l)
  BY DEF Ingest
<1>3. ASSUME NEW c
      PROVE  /\ M(c) = Members(c) /\ IsFiniteSet(M(c)) /\ Cardinality(M(c)) \in Nat
             /\ m + 1 \notin M(c)
  <2>1. m + 1 \notin M(c)
    BY <1>1
  <2> QED BY <2>1, MembersFinite
<1>4. /\ \A i \in 1 .. n : clusters[i].count = Cardinality(M(clusters[i].id))
      /\ lost_lines = Cardinality(M(Lost))
      /\ \A k \in 1 .. m : owner[k] = Lost \/ \E i \in 1 .. n : owner[k] = clusters[i].id
  BY <1>3 DEF LedgerFacts
<1>5. M(Now) = {}
  BY <1>1
<1>6. SUFFICES /\ Len(owner') = m + 1
               /\ \A i \in 1 .. Len(clusters') :
                    clusters'[i].count = Cardinality(After(clusters'[i].id))
               /\ lost_lines' = Cardinality(After(Lost))
               /\ \A k \in 1 .. m + 1 :
                    owner'[k] = Lost \/ \E i \in 1 .. Len(clusters') : owner'[k] = clusters'[i].id
  <2>1. ASSUME Len(owner') = m + 1
        PROVE  \A c : Members(c)' = After(c)
    <3>1. DOMAIN owner' = 1 .. Len(owner')
      BY LenProperties DEF TypeOK
    <3> QED BY <2>1, <3>1 DEF Members
  <2> QED BY <2>1 DEF LedgerFacts, Lost
<1> HIDE DEF n, m, M, After
<1>7. CASE Touch(l)
  <2>1. PICK f \in 1 .. n :
          /\ Len(clusters') = n
          /\ clusters'[1] = [clusters[f] EXCEPT !.count = @ + 1, !.touched = Now]
          /\ \A j \in 2 .. n : clusters'[j] = IF j <= f THEN clusters[j - 1] ELSE clusters[j]
          /\ Len(owner') = m + 1
          /\ \A k \in 1 .. m : owner'[k] = owner[k]
          /\ owner'[m + 1] = clusters[f].id
          /\ lost_lines' = lost_lines
    BY <1>2, <1>7, TouchShape DEF n, m
  <2>2. /\ After(clusters[f].id) = M(clusters[f].id) \cup {m + 1}
        /\ \A c : c # clusters[f].id => After(c) = M(c)
    BY <1>1, <2>1 DEF M, After
  <2>3. clusters'[1].id = clusters[f].id /\ clusters'[1].count = clusters[f].count + 1
    BY <1>1, <2>1 DEF Entries
  <2>4. clusters'[1].count = Cardinality(After(clusters'[1].id))
    BY <1>3, <1>4, <2>2, <2>3, CountOneMore
  <2>5. ASSUME NEW j \in 2 .. n
        PROVE  clusters'[j].count = Cardinality(After(clusters'[j].id))
    <3>1. PICK i \in 1 .. n : i # f /\ clusters'[j] = clusters[i]
      <4>1. CASE j <= f
        BY <1>1, <2>1, <4>1
      <4>2. CASE ~(j <= f)
        BY <1>1, <2>1, <4>2
      <4> QED BY <4>1, <4>2
    <3>2. clusters[i].id # clusters[f].id
      BY <1>1, <3>1
    <3> QED BY <1>4, <2>2, <3>1, <3>2
  <2>6. lost_lines' = Cardinality(After(Lost))
    BY <1>1, <1>4, <2>1, <2>2 DEF Lost
  <2>7. ASSUME NEW k \in 1 .. m + 1
        PROVE  owner'[k] = Lost \/ \E i \in 1 .. n : owner'[k] = clusters'[i].id
    <3>1. CASE k = m + 1
      <4>1. 1 \in 1 .. n
        BY <1>1
      <4> QED BY <2>1, <2>3, <3>1, <4>1
    <3>2. CASE k \in 1 .. m /\ owner[k] # Lost
      <4>1. PICK i \in 1 .. n : owner[k] = clusters[i].id
        BY <1>4, <3>2
      <4>2. \E j \in 1 .. n : clusters'[j].id = clusters[i].id
        <5>1. CASE i = f
          BY <1>1, <2>3, <5>1
        <5>2. CASE i < f
          <6>1. i + 1 \in 2 .. n /\ i + 1 <= f /\ (i + 1) - 1 = i /\ i + 1 \in 1 .. n
            BY <1>1, <5>2
          <6> QED BY <2>1, <6>1
        <5>3. CASE i > f
          <6>1. i \in 2 .. n /\ ~(i <= f)
            BY <1>1, <5>3
          <6> QED BY <2>1, <6>1
        <5> QED BY <1>1, <5>1, <5>2, <5>3
      <4> QED BY <2>1, <3>2, <4>1, <4>2
    <3> QED BY <1>1, <2>1, <3>1, <3>2
  <2>8. ASSUME NEW j \in 1 .. n
        PROVE  clusters'[j].count = Cardinality(After(clusters'[j].id))
    <3>1. j = 1 \/ j \in 2 .. n
      BY <1>1
    <3> QED BY <2>4, <2>5, <3>1
  <2> QED BY <2>1, <2>6, <2>7, <2>8
<1>8. ASSUME NEW j, clusters'[j] = NewEntry(l), After(Now) = {m + 1}
      PROVE  clusters'[j].count = Cardinality(After(clusters'[j].id))
  BY <1>8, FS_Singleton DEF NewEntry
<1>9. CASE Open(l)
  <2>1. /\ Len(clusters') = n + 1
        /\ clusters'[1] = NewEntry(l)
        /\ \A j \in 2 .. n + 1 : clusters'[j] = clusters[j - 1]
        /\ Len(owner') = m + 1
        /\ \A k \in 1 .. m : owner'[k] = owner[k]
        /\ owner'[m + 1] = Now
        /\ lost_lines' = lost_lines
    BY <1>2, <1>9, OpenShape DEF n, m
  <2>2. After(Now) = {m + 1} /\ \A c : c # Now => After(c) = M(c)
    BY <1>1, <1>5, <2>1 DEF M, After
  <2>3. ASSUME NEW j \in 2 .. n + 1
        PROVE  clusters'[j].count = Cardinality(After(clusters'[j].id))
    <3>1. j - 1 \in 1 .. n /\ clusters'[j] = clusters[j - 1]
      BY <1>1, <2>1
    <3>2. clusters[j - 1].id # Now
      BY <1>1, <3>1
    <3> QED BY <1>4, <2>2, <3>1, <3>2
  <2>4. lost_lines' = Cardinality(After(Lost))
    BY <1>1, <1>4, <2>1, <2>2 DEF Lost
  <2>5. ASSUME NEW k \in 1 .. m + 1
        PROVE  owner'[k] = Lost \/ \E i \in 1 .. n + 1 : owner'[k] = clusters'[i].id
    <3>1. CASE k = m + 1
      BY <1>1, <2>1, <3>1 DEF NewEntry
    <3>2. CASE k \in 1 .. m /\ owner[k] # Lost
      <4>1. PICK i \in 1 .. n : owner[k] = clusters[i].id
        BY <1>4, <3>2
      <4>2. i + 1 \in 2 .. n + 1 /\ (i + 1) - 1 = i /\ i + 1 \in 1 .. n + 1
        BY <1>1
      <4> QED BY <2>1, <3>2, <4>1, <4>2
    <3> QED BY <1>1, <2>1, <3>1, <3>2
  <2>6. ASSUME NEW j \in 1 .. n + 1
        PROVE  clusters'[j].count = Cardinality(After(clusters'[j].id))
    <3>1. j = 1 \/ j \in 2 .. n + 1
      BY <1>1
    <3> QED BY <1>8, <2>1, <2>2, <2>3, <3>1
  <2> QED BY <2>1, <2>4, <2>5, <2>6
<1>10. CASE OpenMerging(l)
  <2>1. PICK s \in 1 .. n - 1 :
          /\ Len(clusters') = n
          /\ clusters'[1] = NewEntry(l)
          /\ \A j \in 2 .. n :
               clusters'[j] = IF j = s + 1
                              THEN [clusters[s] EXCEPT !.count = @ + clusters[n].count]
                              ELSE clusters[j - 1]
          /\ Len(owner') = m + 1
          /\ \A k \in 1 .. m :
               owner'[k] = IF owner[k] = clusters[n].id THEN clusters[s].id ELSE owner[k]
          /\ owner'[m + 1] = Now
          /\ lost_lines' = lost_lines
    BY <1>2, <1>10, OpenMergingShape DEF n, m
  <2>2. /\ n > 1 /\ s \in 1 .. n /\ n \in 1 .. n /\ s # n
        /\ clusters[s].id # clusters[n].id
    BY <1>1, <1>10, <2>1 DEF OpenMerging, n
  <2>3. /\ After(Now) = {m + 1}
        /\ After(clusters[s].id) = M(clusters[s].id) \cup M(clusters[n].id)
        /\ \A c : c \notin {Now, clusters[s].id, clusters[n].id} => After(c) = M(c)
    BY <1>1, <1>5, <2>1, <2>2 DEF M, After
  <2>4. ASSUME NEW j \in 2 .. n
        PROVE  clusters'[j].count = Cardinality(After(clusters'[j].id))
    <3>1. CASE j = s + 1
      <4>1. /\ clusters'[j].id = clusters[s].id
            /\ clusters'[j].count = clusters[s].count + clusters[n].count
        BY <1>1, <2>1, <2>2, <3>1 DEF Entries
      <4>2. M(clusters[s].id) \cap M(clusters[n].id) = {}
        BY <2>2 DEF M
      <4>3. Cardinality(M(clusters[s].id) \cup M(clusters[n].id))
              = Cardinality(M(clusters[s].id)) + Cardinality(M(clusters[n].id))
        BY <1>3, <4>2, CountBoth
      <4> QED BY <1>4, <2>2, <2>3, <4>1, <4>3
    <3>2. CASE j # s + 1
      <4>1. j - 1 \in 1 .. n /\ j - 1 # s /\ j - 1 # n /\ clusters'[j] = clusters[j - 1]
        BY <1>1, <2>1, <3>2
      <4>2. clusters[j - 1].id \notin {Now, clusters[s].id, clusters[n].id}
        BY <1>1, <2>2, <4>1
      <4> QED BY <1>4, <2>3, <4>1, <4>2
    <3> QED BY <3>1, <3>2
  <2>5. lost_lines' = Cardinality(After(Lost))
    <3>1. Lost \notin {Now, clusters[s].id, clusters[n].id}
      BY <1>1, <2>2 DEF Lost
    <3> QED BY <1>4, <2>1, <2>3, <3>1
  <2>6. ASSUME NEW k \in 1 .. m + 1
        PROVE  owner'[k] = Lost \/ \E i \in 1 .. n : owner'[k] = clusters'[i].id
    <3>1. CASE k = m + 1
      BY <1>1, <2>1, <2>2, <3>1 DEF NewEntry
    <3>2. CASE k \in 1 .. m /\ owner'[k] # Lost
      <4>1. PICK i \in 1 .. n - 1 : owner'[k] = clusters[i].id
        <5>1. CASE owner[k] = clusters[n].id
          BY <2>1, <3>2, <5>1
        <5>2. CASE owner[k] # clusters[n].id
          <6>1. owner'[k] = owner[k]
            BY <2>1, <3>2, <5>2
          <6>2. PICK i \in 1 .. n : owner[k] = clusters[i].id
            BY <1>4, <3>2, <6>1
          <6>3. i \in 1 .. n - 1
            BY <1>1, <5>2, <6>2
          <6> QED BY <6>1, <6>2, <6>3
        <5> QED BY <5>1, <5>2
      <4>2. i + 1 \in 2 .. n /\ (i + 1) - 1 = i /\ i + 1 \in 1 .. n /\ i \in 1 .. n
        BY <1>1
      <4>3. clusters'[i + 1].id = clusters[i].id
        <5>1. CASE i = s
          BY <1>1, <2>1, <4>2, <5>1 DEF Entries
        <5>2. CASE i # s
          <6>1. i + 1 # s + 1
            BY <1>1, <5>2
          <6> QED BY <2>1, <4>2, <6>1
        <5> QED BY <5>1, <5>2
      <4> QED BY <4>1, <4>2, <4>3
    <3> QED BY <1>1, <3>1, <3>2
  <2>7. ASSUME NEW j \in 1 .. n
        PROVE  clusters'[j].count = Cardinality(After(clusters'[j].id))
    <3>1. j = 1 \/ j \in 2 .. n
      BY <1>1
    <3> QED BY <1>8, <2>1, <2>3, <2>4, <3>1
  <2> QED BY <2>1, <2>5, <2>6, <2>7
<1>11. CASE OpenLosing(l)
  <2>1. /\ n = 1
        /\ Len(clusters') = 1
        /\ clusters'[1] = NewEntry(l)
        /\ Len(owner') = m + 1
        /\ \A k \in 1 .. m : owner'[k] = IF owner[k] = clusters[1].id THEN Lost ELSE owner[k]
        /\ owner'[m + 1] = Now
        /\ lost_lines' = lost_lines + clusters[1].count
    BY <1>2, <1>11, OpenLosingShape DEF n, m
  <2>2. 1 \in 1 .. n /\ clusters[1].id # Lost /\ Now # Lost
    BY <1>1, <2>1 DEF Lost
  <2>3. /\ After(Now) = {m + 1}
        /\ After(Lost) = M(Lost) \cup M(clusters[1].id)
    BY <1>1, <1>5, <2>1, <2>2 DEF M, After
  <2>4. lost_lines' = Cardinality(After(Lost))
    <3>1. M(Lost) \cap M(clusters[1].id) = {}
      BY <2>2 DEF M
    <3>2. Cardinality(M(Lost) \cup M(clusters[1].id))
            = Cardinality(M(Lost)) + Cardinality(M(clusters[1].id))
      BY <1>3, <3>1, CountBoth
    <3> QED BY <1>4, <2>1, <2>2, <2>3, <3>2
  <2>5. ASSUME NEW k \in 1 .. m + 1
        PROVE  owner'[k] = Lost \/ \E i \in 1 .. 1 : owner'[k] = clusters'[i].id
    <3>1. CASE k = m + 1
      BY <2>1, <3>1 DEF NewEntry
    <3>2. CASE k \in 1 .. m
      <4>1. owner[k] = Lost \/ owner[k] = clusters[1].id
        BY <1>4, <2>1, <3>2
      <4> QED BY <2>1, <3>2, <4>1
    <3> QED BY <1>1, <3>1, <3>2
  <2>6. ASSUME NEW j \in 1 .. 1
        PROVE  clusters'[j].count = Cardinality(After(clusters'[j].id))
    <3>1. j = 1
      OBVIOUS
    <3> QED BY <1>8, <2>1, <2>3, <3>1
  <2> QED BY <2>1, <2>4, <2>5, <2>6
<1> QED BY <1>7, <1>9, <1>10, <1>11 DEF Ingest

\* Line by line: every ingested line is counted exactly once, in a live cluster
\* or as lost, and no count stands for anything else.
THEOREM LedgerBalances == Spec => []Ledger
<1>1. ASSUME Init PROVE Ledger
  <2>1. clusters = << >> /\ owner = << >> /\ lost_lines = 0
    BY <1>1 DEF Init, WithParams
  <2>2. DOMAIN clusters = {} /\ DOMAIN owner = {} /\ Members(Lost) = {}
    BY <2>1 DEF Members
  <2> QED BY <2>1, <2>2, FS_EmptySet DEF Ledger
<1>2. TypeOK /\ TypeOK' /\ HistoryOK /\ RecencyOrder /\ Ledger /\ [Next]_vars => Ledger'
  <2> SUFFICES ASSUME TypeOK, TypeOK', HistoryOK, RecencyOrder, Ledger, [Next]_vars
               PROVE  Ledger'
    OBVIOUS
  <2>1. HistoryFacts /\ LedgerFacts
    BY HistoryFactsEquiv, LedgerFactsEquiv
  <2>2. LedgerFacts'
    <3>1. ASSUME NEW l \in Lines, Ingest(l)
          PROVE  LedgerFacts'
      BY <2>1, <3>1, LedgerStep
    <3>2. CASE UNCHANGED vars
      BY <2>1, <3>2 DEF vars, history, LedgerFacts, Members
    <3> QED BY <3>1, <3>2 DEF Next
  <2>3. (TypeOK => (Ledger <=> LedgerFacts))'
    BY LedgerFactsEquiv, PTL
  <2> QED BY <2>2, <2>3
<1> QED BY <1>1, <1>2, TypeCorrect, HistoryCorrect, PTL DEF Spec

------------------------------------------------------------------------------
\* Accounting.

\* A tally mark of cluster c, the x-th, stands for the x-th line counted in c:
\* so there are as many marks as lines that are not lost.
LEMMA TalliesStandForLines ==
  ASSUME TypeOK, HistoryFacts, LedgerFacts
  PROVE  ExistsBijection((1 .. Len(owner)) \ Members(Lost), Tallies)
<1> DEFINE n == Len(clusters)
           Live == (1 .. Len(owner)) \ Members(Lost)
           B(c) == CHOOSE f : f \in Bijection(1 .. Cardinality(Members(c)), Members(c))
           g == [t \in Tallies |-> B(t[1])[t[2]]]
<1>1. /\ DOMAIN clusters = 1 .. n
      /\ \A i \in 1 .. n : clusters[i].id # Lost
      /\ \A i, j \in 1 .. n : clusters[i].id = clusters[j].id => i = j
      /\ \A i \in 1 .. n : clusters[i].count = Cardinality(Members(clusters[i].id))
      /\ \A k \in 1 .. Len(owner) : owner[k] = Lost \/ \E i \in 1 .. n : owner[k] = clusters[i].id
  BY EntryFacts DEF HistoryFacts, LedgerFacts, Entries, Lost
<1>2. ASSUME NEW c
      PROVE  /\ \A k : k \in Members(c) <=> k \in 1 .. Len(owner) /\ owner[k] = c
             /\ B(c) \in Bijection(1 .. Cardinality(Members(c)), Members(c))
  <2>1. Members(c) = {k \in 1 .. Len(owner) : owner[k] = c} /\ IsFiniteSet(Members(c))
    BY MembersFinite
  <2>2. \E f : f \in Bijection(1 .. Cardinality(Members(c)), Members(c))
    BY <2>1, FS_CardinalityType, Fun_ExistsBij
  <2>3. B(c) \in Bijection(1 .. Cardinality(Members(c)), Members(c))
    BY <2>2
  <2> QED BY <2>1, <2>3
<1> HIDE DEF B
<1>3. ASSUME NEW c
      PROVE  /\ \A x \in 1 .. Cardinality(Members(c)) : B(c)[x] \in Members(c)
             /\ \A x, y \in 1 .. Cardinality(Members(c)) : B(c)[x] = B(c)[y] => x = y
             /\ \A k \in Members(c) : \E x \in 1 .. Cardinality(Members(c)) : B(c)[x] = k
  <2> DEFINE S == 1 .. Cardinality(Members(c))
             T == Members(c)
             f == B(c)
  <2>1. f \in Bijection(S, T)
    BY <1>2
  <2> HIDE DEF S, T, f
  <2>2. \A x \in S : f[x] \in T
    BY <2>1, Fun_BijectionProperties
  <2>3. \A x, y \in S : f[x] = f[y] => x = y
    BY <2>1, Fun_BijectionProperties
  <2>4. \A k \in T : \E x \in S : f[x] = k
    BY <2>1, Fun_BijectionProperties
  <2> QED BY <2>2, <2>3, <2>4 DEF S, T, f
<1>4. ASSUME NEW t \in Tallies
      PROVE  \E i \in 1 .. n : \E x \in 1 .. Cardinality(Members(clusters[i].id)) :
               t = <<clusters[i].id, x>>
  BY <1>1 DEF Tallies
<1>5. ASSUME NEW i \in 1 .. n, NEW x \in 1 .. Cardinality(Members(clusters[i].id))
      PROVE  <<clusters[i].id, x>> \in Tallies
  <2>1. x \in 1 .. clusters[i].count
    BY <1>1
  <2>2. <<clusters[i].id, x>> \in {clusters[i].id} \X (1 .. clusters[i].count)
    BY <2>1
  <2> QED BY <1>1, <2>2 DEF Tallies
<1>6. ASSUME NEW t \in Tallies
      PROVE  g[t] \in Live /\ owner[g[t]] = t[1]
  <2>1. PICK i \in 1 .. n : \E x \in 1 .. Cardinality(Members(clusters[i].id)) :
          t = <<clusters[i].id, x>>
    BY <1>4
  <2>2. PICK x \in 1 .. Cardinality(Members(clusters[i].id)) : t = <<clusters[i].id, x>>
    BY <2>1
  <2>3. g[t] = B(clusters[i].id)[x]
    BY <2>2
  <2>4. g[t] \in Members(clusters[i].id)
    BY <1>3, <2>3
  <2> QED BY <1>1, <1>2, <2>2, <2>4
<1>7. ASSUME NEW t \in Tallies, NEW u \in Tallies, g[t] = g[u]
      PROVE  t = u
  <2>1. t[1] = u[1]
    BY <1>6, <1>7
  <2>2. PICK i \in 1 .. n : \E x \in 1 .. Cardinality(Members(clusters[i].id)) :
          t = <<clusters[i].id, x>>
    BY <1>4
  <2>3. PICK j \in 1 .. n : \E y \in 1 .. Cardinality(Members(clusters[j].id)) :
          u = <<clusters[j].id, y>>
    BY <1>4
  <2>4. i = j
    BY <1>1, <2>1, <2>2, <2>3
  <2>5. PICK x \in 1 .. Cardinality(Members(clusters[i].id)) : t = <<clusters[i].id, x>>
    BY <2>2
  <2>6. PICK y \in 1 .. Cardinality(Members(clusters[i].id)) : u = <<clusters[i].id, y>>
    BY <2>3, <2>4
  <2>7. B(clusters[i].id)[x] = B(clusters[i].id)[y]
    BY <1>7, <2>5, <2>6
  <2>8. x = y
    BY <1>3, <2>7
  <2> QED BY <2>5, <2>6, <2>8
<1>8. ASSUME NEW k \in Live
      PROVE  \E t \in Tallies : g[t] = k
  <2>1. k \in 1 .. Len(owner) /\ owner[k] # Lost
    BY <1>2
  <2>2. PICK i \in 1 .. n : owner[k] = clusters[i].id
    BY <1>1, <2>1
  <2>3. PICK x \in 1 .. Cardinality(Members(clusters[i].id)) : B(clusters[i].id)[x] = k
    BY <1>2, <1>3, <2>1, <2>2
  <2>4. <<clusters[i].id, x>> \in Tallies
    BY <1>5
  <2>5. g[<<clusters[i].id, x>>] = k
    BY <2>3, <2>4
  <2> QED BY <2>4, <2>5
<1>9. g \in [Tallies -> Live]
  BY <1>6
<1> HIDE DEF g, Live
<1>10. g \in Bijection(Tallies, Live)
  BY <1>7, <1>8, <1>9, Fun_IsBij
<1>11. ExistsBijection(Tallies, Live)
  BY <1>10, Fun_ExistsBij
<1> QED BY <1>11, Fun_ExistsBijSymmetric DEF Live

\* The counts of the live clusters and lost_lines add up to the lines ingested,
\* whatever was matched, opened, evicted and merged on the way.
THEOREM EveryLineAccounted == Spec => []Accounting
<1>1. ASSUME TypeOK, HistoryOK, RecencyOrder, Ledger
      PROVE  Accounting
  <2>1. HistoryFacts /\ LedgerFacts
    BY <1>1, HistoryFactsEquiv, LedgerFactsEquiv
  <2> DEFINE All == 1 .. Len(owner)
  <2>2. /\ Len(owner) \in Nat
        /\ IsFiniteSet(All)
        /\ Cardinality(All) = Len(owner)
    <3>1. Len(owner) \in Nat
      BY <1>1 DEF TypeOK
    <3>2. IsFiniteSet(All)
      BY <3>1, FS_Interval
    <3>3. Cardinality(All) = IF 1 > Len(owner) THEN 0 ELSE Len(owner) - 1 + 1
      BY <3>1, FS_Interval
    <3> HIDE DEF All
    <3> QED BY <3>1, <3>2, <3>3
  <2>3. Members(Lost) \subseteq All /\ All \cap Members(Lost) = Members(Lost)
        /\ Cardinality(Members(Lost)) \in Nat
    BY <1>1, MembersFinite
  <2> HIDE DEF All
  <2>4. /\ IsFiniteSet(All \ Members(Lost))
        /\ Cardinality(All \ Members(Lost)) = Len(owner) - Cardinality(Members(Lost))
    BY <2>2, <2>3, FS_Difference
  <2>5. Cardinality(Tallies) = Cardinality(All \ Members(Lost))
    BY <1>1, <2>1, <2>4, TalliesStandForLines, FS_Bijection DEF All
  <2>6. lost_lines = Cardinality(Members(Lost)) /\ Len(owner) = Len(seen)
    BY <2>1 DEF LedgerFacts, HistoryFacts
  <2> QED BY <2>2, <2>3, <2>4, <2>5, <2>6 DEF Accounting
<1> QED BY <1>1, TypeCorrect, HistoryCorrect, LedgerBalances, PTL

------------------------------------------------------------------------------
\* Where evicted lines go.

\* Counted lines change hands only on eviction, and then to a cluster no less
\* similar to the evicted exemplar than any other survivor: max_by over the
\* survivors is the only place where a line leaves its cluster.
THEOREM EvictedGoToNearest == Spec => MergesGoToNearest
<1>1. ASSUME TypeOK, TypeOK', HistoryOK, RecencyOrder, [Next]_vars
      PROVE  MoveToNearest
  <2> DEFINE n == Len(clusters)
             Likeness(a, b) == Similarity(TokensOf[a], TokensOf[b])
             Close(a, b) == \A s \in 1 .. n :
               clusters[s].id # clusters[a].id =>
                 AtLeast(Likeness(clusters[a].line, b.line),
                         Likeness(clusters[a].line, clusters[s].line))
  <2>1. /\ n \in Nat
        /\ DOMAIN clusters = 1 .. n /\ DOMAIN owner = 1 .. Len(owner)
        /\ DOMAIN clusters' = 1 .. Len(clusters')
        /\ Now \in Nat
        /\ \A k \in 1 .. Len(owner) : owner[k] \in Nat /\ owner[k] < Now
        /\ \A i \in 1 .. n : clusters[i] \in Entries /\ clusters[i].id \in Nat
                             /\ clusters[i].id < Now
        /\ \A i, j \in 1 .. n : clusters[i].id = clusters[j].id => i = j
    <3>1. HistoryFacts
      BY <1>1, HistoryFactsEquiv
    <3>2. DOMAIN clusters' = 1 .. Len(clusters')
      BY <1>1, LenProperties DEF TypeOK
    <3> QED BY <1>1, <3>1, <3>2, EntryFacts DEF HistoryFacts, Entries
  <2> SUFFICES ASSUME NEW i \in 1 .. n, NEW j \in 1 .. Len(clusters'),
                      NEW k \in 1 .. Len(owner),
                      owner[k] = clusters[i].id, owner'[k] = clusters'[j].id
               PROVE  clusters[i].id = clusters'[j].id \/ Close(i, clusters'[j])
    BY <2>1 DEF MoveToNearest
  <2> HIDE DEF n, Close
  <2>2. ASSUME owner'[k] = owner[k]
        PROVE  clusters[i].id = clusters'[j].id
    BY <2>2
  <2>3. ASSUME NEW l \in Lines, Ingest(l)
        PROVE  clusters[i].id = clusters'[j].id \/ Close(i, clusters'[j])
    <3>1. seen' = Append(seen, l)
      BY <2>3 DEF Ingest
    <3>2. CASE Touch(l)
      BY <1>1, <2>2, <3>1, <3>2, TouchShape
    <3>3. CASE Open(l)
      BY <1>1, <2>2, <3>1, <3>3, OpenShape
    <3>4. CASE OpenMerging(l)
      <4>1. PICK s \in 1 .. n - 1 :
              /\ \A q \in 1 .. n - 1 :
                   AtLeast(Likeness(clusters[n].line, clusters[s].line),
                           Likeness(clusters[n].line, clusters[q].line))
              /\ Len(clusters') = n
              /\ clusters'[1] = NewEntry(l)
              /\ \A q \in 2 .. n :
                   clusters'[q] =
                     IF q = s + 1
                     THEN [clusters[s] EXCEPT !.count = @ + clusters[n].count]
                     ELSE clusters[q - 1]
              /\ owner'[k] = IF owner[k] = clusters[n].id THEN clusters[s].id ELSE owner[k]
        BY <1>1, <3>1, <3>4, OpenMergingShape DEF n
      <4>2. CASE owner[k] # clusters[n].id
        BY <2>2, <4>1, <4>2
      <4>3. CASE owner[k] = clusters[n].id
        <5>1. i = n /\ clusters'[j].id = clusters[s].id
          <6>1. clusters[i].id = clusters[n].id /\ n \in 1 .. n
            BY <2>1, <4>3
          <6>2. i = n
            BY <2>1, <6>1
          <6> QED BY <4>1, <4>3, <6>2
        <5>2. j \in 2 .. n
          <6>1. NewEntry(l).id = Now /\ s \in 1 .. n
            BY <2>1 DEF NewEntry
          <6>2. clusters[s].id # Now
            BY <2>1, <6>1
          <6>3. j # 1
            BY <4>1, <5>1, <6>1, <6>2
          <6> QED BY <2>1, <4>1, <6>3
        <5>3. j = s + 1
          <6>1. CASE j # s + 1
            <7>1. clusters'[j] = clusters[j - 1] /\ j - 1 \in 1 .. n /\ s \in 1 .. n
              BY <2>1, <4>1, <5>2, <6>1
            <7>2. j - 1 = s
              BY <2>1, <5>1, <7>1
            <7> QED BY <5>2, <6>1, <7>2
          <6> QED BY <6>1
        <5>4. clusters'[j].line = clusters[s].line
          <6>1. clusters'[j] = [clusters[s] EXCEPT !.count = @ + clusters[n].count]
            BY <4>1, <5>2, <5>3
          <6>2. clusters[s] \in Entries
            BY <2>1
          <6> QED BY <6>1, <6>2 DEF Entries
        <5>5. \A q \in 1 .. n : clusters[q].id # clusters[i].id => q \in 1 .. n - 1
          BY <2>1, <5>1
        <5> QED BY <4>1, <5>1, <5>4, <5>5 DEF Close
      <4> QED BY <4>2, <4>3
    <3>5. CASE OpenLosing(l)
      <4>1. /\ Len(clusters) = 1
            /\ Len(clusters') = 1
            /\ clusters'[1] = NewEntry(l)
            /\ owner'[k] = IF owner[k] = clusters[1].id THEN Lost ELSE owner[k]
        BY <1>1, <3>1, <3>5, OpenLosingShape
      <4>2. j = 1 /\ clusters'[j].id = Now
        <5>1. j = 1
          BY <4>1
        <5>2. NewEntry(l).id = Now
          BY DEF NewEntry
        <5> QED BY <4>1, <5>1, <5>2
      <4>3. owner'[k] = Lost \/ owner'[k] < Now
        BY <2>1, <4>1
      <4> QED BY <2>1, <4>2, <4>3 DEF Lost, Now
    <3> QED BY <2>3, <3>2, <3>3, <3>4, <3>5 DEF Ingest
  <2>4. CASE UNCHANGED vars
    BY <2>2, <2>4 DEF vars, history
  <2> QED BY <1>1, <2>3, <2>4 DEF Next
<1>2. TypeOK /\ TypeOK' /\ HistoryOK /\ RecencyOrder /\ [Next]_vars => [MoveToNearest]_vars
  BY <1>1
<1> QED BY <1>2, TypeCorrect, HistoryCorrect, PTL DEF Spec, MergesGoToNearest

------------------------------------------------------------------------------
\* The LRU table.

Names == {clusters[i].id : i \in 1 .. Len(clusters)}

\* A function that agrees with the entries is LruLast.
LruLastIsOnly ==
  \A D : \A f \in [D -> Nat] :
    /\ \A i \in 1 .. Len(clusters) :
         clusters[i].id \in D /\ f[clusters[i].id] = clusters[i].touched
    /\ D \subseteq Names
    => LruLast = f

\* The table's own Cardinality is the one of FiniteSets.
LEMMA SameCardinality ==
  ASSUME NEW S
  PROVE  Lru!Cardinality(S) = Cardinality(S)
BY DEF Cardinality, Lru!Cardinality

\* The abstract table has one resident per cluster, last used when the cluster
\* was: the names being distinct, the CHOOSE of LruLast has one candidate.
LEMMA LruLastShape ==
  ASSUME TypeOK, HistoryFacts
  PROVE  /\ DOMAIN LruLast = Names
         /\ \A i \in 1 .. Len(clusters) : LruLast[clusters[i].id] = clusters[i].touched
         /\ IsFiniteSet(Names) /\ Cardinality(Names) = Len(clusters)
         /\ LruLastIsOnly
<1> DEFINE n == Len(clusters)
           E == {clusters[i] : i \in 1 .. n}
           Row(c) == CHOOSE e \in E : e.id = c
<1>1. /\ n \in Nat
      /\ DOMAIN clusters = 1 .. n
      /\ \A i \in 1 .. n : clusters[i] \in Entries
      /\ \A i, j \in 1 .. n : clusters[i].id = clusters[j].id => i = j
  BY EntryFacts DEF HistoryFacts
<1>2. LruLast = [c \in Names |-> Row(c).touched]
  BY <1>1 DEF LruLast, Names
<1>3. ASSUME NEW i \in 1 .. n
      PROVE  Row(clusters[i].id) = clusters[i]
  <2>1. clusters[i] \in E /\ \E e \in E : e.id = clusters[i].id
    OBVIOUS
  <2>2. Row(clusters[i].id) \in E /\ Row(clusters[i].id).id = clusters[i].id
    BY <2>1
  <2> HIDE DEF Row
  <2>3. PICK j \in 1 .. n : Row(clusters[i].id) = clusters[j]
    BY <2>2
  <2>4. i = j
    BY <1>1, <2>2, <2>3
  <2> QED BY <2>3, <2>4
<1> HIDE DEF Row
<1>4. DOMAIN LruLast = Names
      /\ \A i \in 1 .. n : clusters[i].id \in Names
                           /\ LruLast[clusters[i].id] = clusters[i].touched
  BY <1>2, <1>3 DEF Names
<1>5. IsFiniteSet(Names) /\ Cardinality(Names) = n
  <2> DEFINE S == 1 .. n
             g == [i \in S |-> clusters[i].id]
  <2>1. IsFiniteSet(S) /\ Cardinality(S) = n
    <3>1. IsFiniteSet(1 .. n) /\ Cardinality(1 .. n) = IF 1 > n THEN 0 ELSE n - 1 + 1
      BY <1>1, FS_Interval
    <3> QED BY <1>1, <3>1
  <2>2. /\ g \in [S -> Names]
        /\ \A a, b \in S : g[a] = g[b] => a = b
        /\ \A c \in Names : \E a \in S : g[a] = c
    BY <1>1 DEF Names
  <2> HIDE DEF g, S
  <2>3. g \in Bijection(S, Names)
    BY <2>2, Fun_IsBij
  <2>4. ExistsBijection(S, Names)
    BY <2>3, Fun_ExistsBij
  <2> QED BY <2>1, <2>4, FS_Bijection
<1>6. ASSUME NEW D, NEW f \in [D -> Nat],
             \A i \in 1 .. n : clusters[i].id \in D /\ f[clusters[i].id] = clusters[i].touched,
             D \subseteq Names
      PROVE  LruLast = f
  <2>1. D = Names
    BY <1>6 DEF Names
  <2>2. \A c \in Names : LruLast[c] = f[c]
    BY <1>4, <1>6 DEF Names
  <2>3. LruLast = [c \in Names |-> LruLast[c]]
    BY <1>2
  <2> QED BY <2>1, <2>2, <2>3
<1> QED BY <1>4, <1>5, <1>6 DEF LruLastIsOnly

\* One step of the clusterer is one step of the table: a match uses a resident,
\* an opening admits one, and both evictions replace the resident used longest
\* ago, which is the tail because the vector is in recency order.
LEMMA LruStep ==
  ASSUME TypeOK, TypeOK', HistoryFacts, HistoryFacts', NEW l \in Lines, Ingest(l)
  PROVE  Lru!Next
<1> DEFINE n == Len(clusters)
<1>1. /\ n \in Nat
      /\ \A i \in 1 .. n : /\ clusters[i] \in Entries
                           /\ clusters[i].id \in Nat /\ clusters[i].touched \in Nat
                           /\ clusters[i].id # Now
      /\ \A i, j \in 1 .. n : clusters[i].id = clusters[j].id => i = j
      /\ \A i, j \in 1 .. n : i < j => clusters[i].touched > clusters[j].touched
      /\ Len(clusters') \in Nat
      /\ Now \in Nat /\ Now = Len(seen) + 1 /\ max_clusters \in Nat
  <2>1. Len(clusters') \in Nat
    BY LenProperties DEF TypeOK
  <2>2. Now \in Nat /\ Now = Len(seen) + 1 /\ max_clusters \in Nat
    BY EntryFacts, ParamsAssumption DEF TypeOK, Now
  <2>3. \A i \in 1 .. n : clusters[i].id \in Nat /\ clusters[i].id < Now
    BY EntryFacts DEF HistoryFacts, Entries
  <2> QED BY <2>1, <2>2, <2>3, EntryFacts DEF HistoryFacts, Entries
<1>2. /\ DOMAIN LruLast = Names
      /\ \A i \in 1 .. n : LruLast[clusters[i].id] = clusters[i].touched
      /\ Cardinality(Names) = n
      /\ \A c \in Names : \E i \in 1 .. n : c = clusters[i].id
      /\ \A i \in 1 .. n : clusters[i].id \in Names
  BY LruLastShape DEF Names
<1>0. (TypeOK /\ HistoryFacts => LruLastIsOnly)'
  BY LruLastShape, PTL
<1>3. ASSUME NEW D, NEW f \in [D -> Nat],
             \A j \in 1 .. Len(clusters') :
               clusters'[j].id \in D /\ f[clusters'[j].id] = clusters'[j].touched,
             \A c \in D : \E j \in 1 .. Len(clusters') : c = clusters'[j].id
      PROVE  LruLast' = f
  <2>1. LruLastIsOnly'
    BY <1>0
  <2>2. D \subseteq Names'
    BY <1>3 DEF Names
  <2> QED BY <1>3, <2>1, <2>2 DEF LruLastIsOnly
<1>4. /\ seen' = Append(seen, l) /\ LruClock' = LruClock + 1 /\ LruClock + 1 = Now
      /\ max_clusters' = max_clusters
  <2>1. seen' = Append(seen, l) /\ max_clusters' = max_clusters
    BY DEF Ingest
  <2>2. Len(seen') = Len(seen) + 1
    BY <2>1, AppendProperties DEF TypeOK
  <2> QED BY <2>1, <2>2 DEF LruClock, Now
<1>5. \A c \in Names : LruLast[c] \in Nat
  BY <1>1, <1>2
<1> HIDE DEF n, LruLast, Names
<1>6. CASE Touch(l)
  <2>1. PICK i \in 1 .. n :
          /\ Len(clusters') = n
          /\ clusters'[1] = [clusters[i] EXCEPT !.count = @ + 1, !.touched = Now]
          /\ \A j \in 2 .. n :
               clusters'[j] = IF j <= i THEN clusters[j - 1] ELSE clusters[j]
    BY <1>4, <1>6, TouchShape DEF n
  <2> DEFINE r == clusters[i].id
             f == [LruLast EXCEPT ![r] = Now]
  <2>2. /\ f \in [Names -> Nat] /\ f[r] = Now
        /\ \A c \in Names : c # r => f[c] = LruLast[c]
    BY <1>1, <1>2, <1>5
  <2>3. clusters'[1].id = r /\ clusters'[1].touched = Now
    BY <1>1, <2>1 DEF Entries
  <2> HIDE DEF f
  <2>4. ASSUME NEW j \in 1 .. Len(clusters')
        PROVE  clusters'[j].id \in Names /\ f[clusters'[j].id] = clusters'[j].touched
    <3>1. CASE j = 1
      BY <1>2, <2>2, <2>3, <3>1
    <3>2. CASE j \in 2 .. n
      <4>1. PICK q \in 1 .. n : q # i /\ clusters'[j] = clusters[q]
        <5>1. CASE j <= i
          <6>1. j - 1 \in 1 .. n /\ j - 1 # i /\ clusters'[j] = clusters[j - 1]
            BY <1>1, <2>1, <3>2, <5>1
          <6> QED BY <6>1
        <5>2. CASE ~(j <= i)
          <6>1. j \in 1 .. n /\ j # i /\ clusters'[j] = clusters[j]
            BY <1>1, <2>1, <3>2, <5>2
          <6> QED BY <6>1
        <5> QED BY <5>1, <5>2
      <4>2. clusters[q].id # r /\ clusters[q].id \in Names
        BY <1>1, <1>2, <4>1
      <4> QED BY <1>2, <2>2, <4>1, <4>2
    <3>3. j = 1 \/ j \in 2 .. n
      BY <1>1, <2>1
    <3> QED BY <3>1, <3>2, <3>3
  <2>5. ASSUME NEW c \in Names
        PROVE  \E j \in 1 .. Len(clusters') : c = clusters'[j].id
    <3>1. PICK q \in 1 .. n : c = clusters[q].id
      BY <1>2
    <3>2. CASE q = i
      <4>1. 1 \in 1 .. Len(clusters')
        BY <1>1, <2>1
      <4> QED BY <2>3, <3>1, <3>2, <4>1
    <3>3. CASE q < i
      <4>1. q + 1 \in 2 .. n /\ q + 1 \in 1 .. Len(clusters') /\ q + 1 <= i
            /\ (q + 1) - 1 = q
        BY <1>1, <2>1, <3>3
      <4>2. clusters'[q + 1] = clusters[q]
        BY <2>1, <4>1
      <4> QED BY <3>1, <4>1, <4>2
    <3>4. CASE q > i
      <4>1. q \in 2 .. n /\ q \in 1 .. Len(clusters') /\ ~(q <= i)
        BY <1>1, <2>1, <3>4
      <4>2. clusters'[q] = clusters[q]
        BY <2>1, <4>1
      <4> QED BY <3>1, <4>1, <4>2
    <3>5. q = i \/ q < i \/ q > i
      BY <1>1
    <3> QED BY <3>2, <3>3, <3>4, <3>5
  <2>6. LruLast' = [LruLast EXCEPT ![r] = LruClock + 1]
    <3>1. LruLast' = f
      BY <1>3, <2>2, <2>4, <2>5
    <3> QED BY <1>4, <3>1 DEF f
  <2>7. r \in Lru!Resident
    BY <1>2 DEF Lru!Resident
  <2>8. Lru!Use(r)
    BY <2>6, <2>7 DEF Lru!Use
  <2> QED BY <1>4, <2>7, <2>8 DEF Lru!Next
<1>7. ASSUME NEW K, K \subseteq Names,
             NEW p \in 1 .. n + 1, Len(clusters') = p,
             clusters'[1] = NewEntry(l),
             \A j \in 2 .. p : clusters'[j].id = clusters[j - 1].id
                               /\ clusters'[j].touched = clusters[j - 1].touched,
             \A c \in Names : c \in K <=> \E i \in 1 .. p - 1 : c = clusters[i].id
      PROVE  LruLast' = [r \in K \cup {Now} |-> IF r = Now THEN Now ELSE LruLast[r]]
  <2> DEFINE D == K \cup {Now}
             f == [r \in D |-> IF r = Now THEN Now ELSE LruLast[r]]
  <2>1. f \in [D -> Nat]
    BY <1>1, <1>5, <1>7
  <2>2. f[Now] = Now /\ \A c \in K : c # Now => f[c] = LruLast[c]
    OBVIOUS
  <2>3. clusters'[1].id = Now /\ clusters'[1].touched = Now
    BY <1>7 DEF NewEntry
  <2> HIDE DEF f
  <2>4. ASSUME NEW j \in 1 .. Len(clusters')
        PROVE  clusters'[j].id \in D /\ f[clusters'[j].id] = clusters'[j].touched
    <3>1. CASE j = 1
      BY <2>2, <2>3, <3>1
    <3>2. CASE j \in 2 .. p
      <4>1. j - 1 \in 1 .. n /\ j - 1 \in 1 .. p - 1
        BY <1>1, <3>2
      <4>2. clusters'[j].id = clusters[j - 1].id
            /\ clusters'[j].touched = clusters[j - 1].touched
        BY <1>7, <3>2
      <4>3. clusters[j - 1].id \in K /\ clusters[j - 1].id # Now
            /\ LruLast[clusters[j - 1].id] = clusters[j - 1].touched
        BY <1>1, <1>2, <1>7, <4>1
      <4> QED BY <2>2, <4>2, <4>3
    <3>3. j = 1 \/ j \in 2 .. p
      BY <1>1, <1>7
    <3> QED BY <3>1, <3>2, <3>3
  <2>5. ASSUME NEW c \in D
        PROVE  \E j \in 1 .. Len(clusters') : c = clusters'[j].id
    <3>1. CASE c = Now
      <4>1. 1 \in 1 .. Len(clusters')
        BY <1>1, <1>7
      <4> QED BY <2>3, <3>1, <4>1
    <3>2. CASE c \in K
      <4>1. PICK i \in 1 .. p - 1 : c = clusters[i].id
        BY <1>7, <3>2
      <4>2. i + 1 \in 2 .. p /\ i + 1 \in 1 .. Len(clusters') /\ (i + 1) - 1 = i
        BY <1>1, <1>7
      <4>3. clusters'[i + 1].id = clusters[i].id
        BY <1>7, <4>2
      <4> QED BY <4>1, <4>2, <4>3
    <3> QED BY <3>1, <3>2
  <2> QED BY <1>3, <2>1, <2>4, <2>5 DEF f
<1>8. CASE Open(l)
  <2>1. /\ Len(clusters') = n + 1
        /\ clusters'[1] = NewEntry(l)
        /\ \A j \in 2 .. n + 1 : clusters'[j] = clusters[j - 1]
        /\ max_clusters = 0 \/ n < max_clusters
    <3>1. ~(max_clusters > 0 /\ n >= max_clusters)
      BY <1>8 DEF Open, AtCapacity, n
    <3>2. max_clusters = 0 \/ n < max_clusters
      BY <1>1, <3>1
    <3> QED BY <1>4, <1>8, <3>2, OpenShape DEF n
  <2>2. \A c \in Names : \E i \in 1 .. (n + 1) - 1 : c = clusters[i].id
    <3>1. (n + 1) - 1 = n
      BY <1>1
    <3> QED BY <1>2, <3>1
  <2>3. n + 1 \in 1 .. n + 1
    BY <1>1
  <2>4. LruLast' = [r \in Names \cup {Now} |-> IF r = Now THEN Now ELSE LruLast[r]]
    <3>1. \A c \in Names : c \in Names <=> \E i \in 1 .. (n + 1) - 1 : c = clusters[i].id
      BY <2>2
    <3>2. \A j \in 2 .. n + 1 : clusters'[j].id = clusters[j - 1].id
                                 /\ clusters'[j].touched = clusters[j - 1].touched
      BY <2>1
    <3> QED BY <1>7, <2>1, <2>3, <3>1, <3>2
  <2>5. Lru!Admit
    BY <1>2, <1>4, <2>1, <2>4, SameCardinality DEF Lru!Admit, Lru!Resident
  <2> QED BY <1>4, <2>5 DEF Lru!Next
<1>9. ASSUME n >= 1, max_clusters > 0, n >= max_clusters,
             Len(clusters') = n,
             clusters'[1] = NewEntry(l),
             \A j \in 2 .. n : clusters'[j].id = clusters[j - 1].id
                               /\ clusters'[j].touched = clusters[j - 1].touched
      PROVE  Lru!Next
  <2> DEFINE v == clusters[n].id
  <2>1. n \in 1 .. n /\ n \in 1 .. n + 1
    BY <1>1, <1>9
  <2>2. v \in Lru!Resident
    BY <1>2, <2>1 DEF Lru!Resident
  <2>3. ASSUME NEW q \in Lru!Resident
        PROVE  LruLast[v] <= LruLast[q]
    <3>1. PICK i \in 1 .. n : q = clusters[i].id
      BY <1>2, <2>3 DEF Lru!Resident
    <3>2. LruLast[v] = clusters[n].touched /\ LruLast[q] = clusters[i].touched
      BY <1>2, <2>1, <3>1
    <3>3. i = n \/ i < n
      BY <1>1
    <3>4. clusters[n].touched <= clusters[i].touched
      BY <1>1, <2>1, <3>3
    <3> QED BY <3>2, <3>4
  <2>4. \A c \in Names : c \in Names \ {v} <=> \E i \in 1 .. n - 1 : c = clusters[i].id
    <3>1. ASSUME NEW c \in Names, c # v
          PROVE  \E i \in 1 .. n - 1 : c = clusters[i].id
      <4>1. PICK i \in 1 .. n : c = clusters[i].id
        BY <1>2
      <4>2. i # n
        BY <3>1, <4>1
      <4>3. i \in 1 .. n - 1
        BY <1>1, <4>2
      <4> QED BY <4>1, <4>3
    <3>2. ASSUME NEW i \in 1 .. n - 1
          PROVE  clusters[i].id # v
      <4>1. i \in 1 .. n /\ i # n
        BY <1>1
      <4> QED BY <1>1, <2>1, <4>1
    <3> QED BY <3>1, <3>2
  <2> HIDE DEF v
  <2>5. LruLast' = [r \in (Names \ {v}) \cup {Now} |-> IF r = Now THEN Now ELSE LruLast[r]]
    BY <1>7, <1>9, <2>1, <2>4
  <2>6. Lru!Replace(v)
    BY <1>2, <1>4, <1>9, <2>2, <2>3, <2>5, SameCardinality
       DEF Lru!Replace, Lru!Resident, Lru!Oldest
  <2> QED BY <1>4, <2>2, <2>6 DEF Lru!Next
<1>10. CASE OpenMerging(l)
  <2>1. PICK s \in 1 .. n - 1 :
          /\ Len(clusters') = n
          /\ clusters'[1] = NewEntry(l)
          /\ \A j \in 2 .. n :
               clusters'[j] =
                 IF j = s + 1
                 THEN [clusters[s] EXCEPT !.count = @ + clusters[n].count]
                 ELSE clusters[j - 1]
    BY <1>4, <1>10, OpenMergingShape DEF n
  <2>2. n >= 1 /\ max_clusters > 0 /\ n >= max_clusters
    BY <1>1, <1>10 DEF OpenMerging, AtCapacity, n
  <2>3. ASSUME NEW j \in 2 .. n
        PROVE  clusters'[j].id = clusters[j - 1].id
               /\ clusters'[j].touched = clusters[j - 1].touched
    <3>1. CASE j = s + 1
      <4>1. j - 1 = s /\ s \in 1 .. n
        BY <1>1, <3>1
      <4>2. clusters'[j] = [clusters[s] EXCEPT !.count = @ + clusters[n].count]
        BY <2>1, <3>1
      <4>3. clusters[s] \in Entries
        BY <1>1, <4>1
      <4> QED BY <4>1, <4>2, <4>3 DEF Entries
    <3>2. CASE j # s + 1
      BY <2>1, <3>2
    <3> QED BY <3>1, <3>2
  <2> QED BY <1>9, <2>1, <2>2, <2>3
<1>11. CASE OpenLosing(l)
  <2>1. Len(clusters') = 1 /\ clusters'[1] = NewEntry(l)
    BY <1>4, <1>11, OpenLosingShape
  <2>2. n = 1 /\ max_clusters > 0 /\ n >= max_clusters
    BY <1>11 DEF OpenLosing, AtCapacity, n
  <2>3. \A j \in 2 .. n : FALSE
    BY <2>2
  <2> QED BY <1>9, <2>1, <2>2, <2>3
<1> QED BY <1>6, <1>8, <1>10, <1>11 DEF Ingest

\* The vector, which keeps no clock, is an LRU table: the resident it replaces
\* is the one used longest ago, and nothing else ever leaves.
THEOREM VectorIsLru == Spec => ImplementsLru
<1>1. ASSUME Init PROVE Lru!Init
  <2>1. clusters = << >> /\ seen = << >> /\ max_clusters \in Nat
    BY <1>1, ParamsAssumption DEF Init, WithParams
  <2>2. {clusters[i].id : i \in DOMAIN clusters} = {}
    BY <2>1
  <2>3. LruLast = [r \in {} |-> 0]
    BY <2>2 DEF LruLast
  <2>4. LruClock = 0
    BY <2>1 DEF LruClock
  <2> QED BY <2>1, <2>3, <2>4 DEF Lru!Init
<1>2. TypeOK /\ TypeOK' /\ HistoryOK /\ HistoryOK' /\ RecencyOrder /\ RecencyOrder' /\ [Next]_vars
        => [Lru!Next]_(Lru!vars)
  <2> SUFFICES ASSUME TypeOK, TypeOK', HistoryOK, HistoryOK', RecencyOrder, RecencyOrder',
                      [Next]_vars
               PROVE  [Lru!Next]_(Lru!vars)
    OBVIOUS
  <2>1. HistoryFacts
    BY HistoryFactsEquiv
  <2>2. HistoryFacts'
    <3>1. (TypeOK => (HistoryOK /\ RecencyOrder <=> HistoryFacts))'
      BY HistoryFactsEquiv, PTL
    <3> QED BY <3>1
  <2>3. CASE Next
    BY <2>1, <2>2, <2>3, LruStep DEF Next
  <2>4. CASE UNCHANGED vars
    BY <2>4 DEF vars, history, Lru!vars, LruLast, LruClock
  <2> QED BY <2>3, <2>4
<1> QED BY <1>1, <1>2, TypeCorrect, HistoryCorrect, PTL DEF Spec, ImplementsLru, Lru!Spec

==============================================================================
