-------------------------- MODULE JaccardClusterer ---------------------------
(***************************************************************************)
(* Stage 1 of the cascade: the online clusterer of                         *)
(* crates/ltk-core/src/clusterer.rs.                                       *)
(*                                                                         *)
(* A normalized line is an element of Lines; all the clusterer reads of it *)
(* is its token set TokensOf[line] (two lines with the same token set may  *)
(* still be different texts).  The cluster vector has the most recently    *)
(* touched cluster at index 1 (index 0 in the code) and the eviction       *)
(* victim at the end.                                                      *)
(*                                                                         *)
(* seen, owner and the fields id and touched of an entry are history: no   *)
(* guard reads them.  They number the ingested lines 1, 2, ... so that     *)
(* properties can say which line a count stands for.                       *)
(***************************************************************************)
EXTENDS Jaccard, Sequences, SequencesExt

CONSTANTS
  Lines,               \* the normalized lines that may be ingested
  Tokens,
  TokensOf,            \* the token set of each line
  RequestedThresholds, \* thresholds a caller may pass to with_params
  Windows,             \* max_clusters values a caller may pass
  MaxLines             \* bound: lines ingested in a behaviour

ASSUME LinesAssumption ==
  /\ TokensOf \in [Lines -> SUBSET Tokens]
  /\ \A l \in Lines : IsFiniteSet(TokensOf[l])
ASSUME ParamsAssumption ==
  /\ \A t \in RequestedThresholds :
       t \in [num : Int, den : Nat] /\ (t.den = 0 => t = NaN)
  /\ Windows \subseteq Nat
ASSUME MaxLinesAssumption == MaxLines \in Nat

VARIABLES
  threshold,     \* similarity a line needs to join a cluster
  max_clusters,  \* the window; 0 = unbounded
  clusters,      \* sequence of entries, most recently touched first
  lost_lines,    \* lines evicted with no survivor to merge into
  seen,          \* history: the lines ingested so far
  owner          \* history: the cluster each line is counted in, or Lost

history == <<seen, owner>>
vars == <<threshold, max_clusters, clusters, lost_lines, history>>

Lost == 0
Now == Len(seen) + 1     \* the number of the line being ingested

Entries == [line : Lines, count : Nat \ {0}, id : Nat \ {0}, touched : Nat \ {0}]

------------------------------------------------------------------------------
\* Operators of ingest.

Clears(l, e) == AtLeast(Similarity(TokensOf[l], TokensOf[e.line]), threshold)

\* Mutant: the scan stops before the tail.
Matches_ButTail(l) ==
  {i \in DOMAIN clusters : i < Len(clusters) /\ Clears(l, clusters[i])}

Matches(l) == {i \in DOMAIN clusters : Clears(l, clusters[i])}

\* The head-first scan stops at the first cluster that clears the threshold.
FirstMatch(l) == CHOOSE i \in Matches(l) : \A j \in Matches(l) : i <= j

\* Mutant: a cluster opens without counting its own line.
NewEntry_Uncounted(l) == [line |-> l, count |-> 0, id |-> Now, touched |-> Now]

NewEntry(l) == [line |-> l, count |-> 1, id |-> Now, touched |-> Now]

\* Mutants: the matched cluster stays in place; swap_remove for remove.
MoveToFront_InPlace(e, i) == [clusters EXCEPT ![i] = e]
MoveToFront_Swap(e, i) ==
  <<e>> \o Front([clusters EXCEPT ![i] = Last(clusters)])

\* Entry e, the new state of the one at i, moves to the head.
MoveToFront(e, i) == <<e>> \o RemoveAt(clusters, i)

\* Mutants: one cluster too many; a window of 0 taken for a full one.
AtCapacity_OffByOne == max_clusters > 0 /\ Len(clusters) > max_clusters
AtCapacity_ZeroIsFull == clusters # << >> /\ Len(clusters) >= max_clusters

AtCapacity == max_clusters > 0 /\ Len(clusters) >= max_clusters

\* Mutant: the least similar survivors.
Best_Worst(v, survivors) ==
  LET score(i) == Similarity(TokensOf[v.line], TokensOf[survivors[i].line])
  IN  {i \in DOMAIN survivors :
         \A j \in DOMAIN survivors : AtLeast(score(j), score(i))}

\* The survivors most similar to the evicted entry v, and the one max_by
\* returns: the last of them, so the least recently touched.
Best(v, survivors) ==
  LET score(i) == Similarity(TokensOf[v.line], TokensOf[survivors[i].line])
  IN  {i \in DOMAIN survivors :
         \A j \in DOMAIN survivors : AtLeast(score(i), score(j))}

Nearest(v, survivors) ==
  CHOOSE i \in Best(v, survivors) : \A j \in Best(v, survivors) : j <= i

\* Mutant: the victim's count replaces the survivor's.
Absorb_Overwrite(survivors, s, n) == [survivors EXCEPT ![s].count = n]

Absorb(survivors, s, n) == [survivors EXCEPT ![s].count = @ + n]

\* The lines counted in cluster `from` are now counted in cluster `to`.
Rehome(from, to) ==
  [k \in DOMAIN owner |-> IF owner[k] = from THEN to ELSE owner[k]]

------------------------------------------------------------------------------
WithParams(t, w) ==
  /\ threshold = ClampUnit(t)
  /\ max_clusters = w
  /\ clusters = << >>
  /\ lost_lines = 0

Init ==
  /\ \E t \in RequestedThresholds, w \in Windows : WithParams(t, w)
  /\ seen = << >>
  /\ owner = << >>

\* A matching line is counted and its cluster moves to the front; the
\* exemplar stays the line that created the cluster.
Touch(l) ==
  /\ Matches(l) # {}
  /\ LET i == FirstMatch(l)
         e == [clusters[i] EXCEPT !.count = @ + 1, !.touched = Now]
     IN  /\ clusters' = MoveToFront(e, i)
         /\ owner' = Append(owner, e.id)
  /\ UNCHANGED lost_lines

\* A line that matches nothing opens a cluster at the head.
Open(l) ==
  /\ Matches(l) = {}
  /\ ~AtCapacity
  /\ clusters' = <<NewEntry(l)>> \o clusters
  /\ owner' = Append(owner, Now)
  /\ UNCHANGED lost_lines

\* At capacity the tail is evicted first and its count goes to a survivor.
OpenMerging(l) ==
  /\ Matches(l) = {}
  /\ AtCapacity
  /\ Len(clusters) > 1
  /\ LET victim == Last(clusters)
         survivors == Front(clusters)
         s == Nearest(victim, survivors)
     IN  /\ clusters' = <<NewEntry(l)>> \o Absorb(survivors, s, victim.count)
         /\ owner' = Append(Rehome(victim.id, survivors[s].id), Now)
  /\ UNCHANGED lost_lines

\* Mutant: the victim's lines are dropped silently.
OpenLosing_Silent(l) ==
  /\ Matches(l) = {}
  /\ AtCapacity
  /\ Len(clusters) = 1
  /\ clusters' = <<NewEntry(l)>>
  /\ owner' = Append(Rehome(clusters[1].id, Lost), Now)
  /\ UNCHANGED lost_lines

\* With no survivor the victim's lines are accounted as lost.
OpenLosing(l) ==
  /\ Matches(l) = {}
  /\ AtCapacity
  /\ Len(clusters) = 1
  /\ clusters' = <<NewEntry(l)>>
  /\ lost_lines' = lost_lines + clusters[1].count
  /\ owner' = Append(Rehome(clusters[1].id, Lost), Now)

Ingest(l) ==
  /\ Len(seen) < MaxLines
  /\ Touch(l) \/ Open(l) \/ OpenMerging(l) \/ OpenLosing(l)
  /\ seen' = Append(seen, l)
  /\ UNCHANGED <<threshold, max_clusters>>

Next == \E l \in Lines : Ingest(l)

Spec == Init /\ [][Next]_vars
------------------------------------------------------------------------------
\* Properties.

\* The fields keep their types; a stored threshold is a fraction of [0, 1] or
\* the NaN that with_params lets through.
TypeOK ==
  /\ threshold \in Thresholds
  /\ max_clusters \in Windows
  /\ clusters \in Seq(Entries)
  /\ lost_lines \in Nat
  /\ seen \in Seq(Lines)
  /\ owner \in Seq(Nat)

\* One tally mark per line a live cluster counts: their number is the sum of
\* the counts.
Tallies ==
  UNION {{clusters[i].id} \X (1 .. clusters[i].count) : i \in DOMAIN clusters}

\* Line accounting (the Clusterer trait, Stats.lost_lines, README): the counts
\* of the live clusters and lost_lines add up to the lines ingested, whatever
\* was matched, opened, evicted and merged on the way.
Accounting == Cardinality(Tallies) + lost_lines = Len(seen)

\* The lines counted in cluster c.
Members(c) == {k \in DOMAIN owner : owner[k] = c}

\* The same line by line: every line is counted exactly once, in a live
\* cluster or as lost, and no count stands for anything else.
Ledger ==
  /\ \A i \in DOMAIN clusters : clusters[i].count = Cardinality(Members(clusters[i].id))
  /\ lost_lines = Cardinality(Members(Lost))
  /\ \A k \in DOMAIN owner :
       owner[k] = Lost \/ \E i \in DOMAIN clusters : owner[k] = clusters[i].id

\* No two live clusters are similar enough to be one: neither exemplar would
\* have matched the other, in whatever order matches, moves and evictions came.
PairwiseDissimilar ==
  \A i, j \in DOMAIN clusters : i # j => ~Clears(clusters[i].line, clusters[j])

\* Lines with the same tokens never live in two clusters, blank lines (whose
\* similarity would be 0/0) included, unless nothing matches because the
\* threshold is NaN.
NoTwins ==
  ~IsNaN(threshold) =>
    \A i, j \in DOMAIN clusters :
      TokensOf[clusters[i].line] = TokensOf[clusters[j].line] => i = j

\* The window is never exceeded, not even while a cluster is being replaced.
WindowBound == max_clusters > 0 => Len(clusters) <= max_clusters

\* lost_lines() is 0 unless the window is 1: any other eviction has a survivor.
LostOnlyAtWindowOne == max_clusters # 1 => lost_lines = 0

\* The vector is ordered by last use, so its tail is the LRU victim; and the
\* entry at position i was last used at least i - 1 lines ago.
RecencyOrder ==
  \A i \in DOMAIN clusters :
    /\ clusters[i].touched <= Now - i
    /\ \A j \in DOMAIN clusters : i < j => clusters[i].touched > clusters[j].touched

\* The history is well formed: every line has an owner numbered like a line,
\* clusters have names of their own, and no line joined a cluster after its
\* last use.
HistoryOK ==
  /\ Len(owner) = Len(seen)
  /\ \A k \in DOMAIN owner : owner[k] < Now
  /\ \A i \in DOMAIN clusters :
       /\ clusters[i].id < Now
       /\ \A j \in DOMAIN clusters : clusters[i].id = clusters[j].id => i = j
       /\ \A k \in DOMAIN owner : owner[k] = clusters[i].id => k <= clusters[i].touched

\* Entry e stands for line k: k is counted in it, and either opened it or is
\* similar to its exemplar.
Represents(e, k) == owner[k] = e.id /\ (k = e.id \/ Clears(seen[k], e))

\* The last max_clusters lines (all of them without a window) are each counted
\* in a live cluster that really resembles them: only older lines can have been
\* folded into a stranger or lost.
RecentLinesRepresented ==
  \A k \in DOMAIN seen :
    max_clusters = 0 \/ k > Len(seen) - max_clusters =>
      \E i \in DOMAIN clusters : Represents(clusters[i], k)

\* Counted lines change hands only on eviction, and then to a cluster no less
\* similar to the evicted exemplar than any other survivor.
MoveToNearest ==
  \A i \in DOMAIN clusters, j \in DOMAIN clusters' :
    (\E k \in DOMAIN owner : owner[k] = clusters[i].id /\ owner'[k] = clusters'[j].id)
      => \/ clusters[i].id = clusters'[j].id
         \/ \A s \in DOMAIN clusters :
              clusters[s].id # clusters[i].id =>
                AtLeast(Similarity(TokensOf[clusters[i].line], TokensOf[clusters'[j].line]),
                        Similarity(TokensOf[clusters[i].line], TokensOf[clusters[s].line]))

MergesGoToNearest == [][MoveToNearest]_vars

\* The vector implements the LRU table: names are the numbers of the opening
\* lines, and recency is read off the history field touched.
LruClock == Len(seen)
LruLast ==
  [c \in {clusters[i].id : i \in DOMAIN clusters} |->
     (CHOOSE e \in {clusters[i] : i \in DOMAIN clusters} : e.id = c).touched]
Lru == INSTANCE LruTable WITH capacity <- max_clusters, last <- LruLast, clock <- LruClock
ImplementsLru == Lru!Spec

\* The doc comment of LogCluster.count and ClusterEntry.count: the number of
\* raw lines that matched this cluster.
CountIsLinesMatched ==
  \A i \in DOMAIN clusters :
    clusters[i].count <=
      Cardinality({k \in DOMAIN seen : k = clusters[i].id \/ Clears(seen[k], clusters[i])})

==============================================================================
