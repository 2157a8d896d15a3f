------------------------------ MODULE LruTable -------------------------------
(***************************************************************************)
(* What the clusterer's vector promises as a container: a table of at most *)
(* `capacity` residents (0 = unbounded) in which the resident used longest *)
(* ago makes room for a new one.  A resident is named by the time it was   *)
(* admitted.  Nothing is said of how recency is kept: JaccardClusterer     *)
(* keeps no clock, only the order of a vector.                             *)
(***************************************************************************)
EXTENDS Naturals, FiniteSets

VARIABLES capacity, last, clock

vars == <<capacity, last, clock>>

Resident == DOMAIN last
Oldest(r) == \A q \in Resident : last[r] <= last[q]

Init ==
  /\ capacity \in Nat
  /\ last = [r \in {} |-> 0]
  /\ clock = 0

Use(r) ==
  /\ r \in Resident
  /\ last' = [last EXCEPT ![r] = clock + 1]

Admit ==
  /\ capacity = 0 \/ Cardinality(Resident) < capacity
  /\ last' = [r \in Resident \cup {clock + 1} |->
                IF r = clock + 1 THEN clock + 1 ELSE last[r]]

Replace(v) ==
  /\ capacity > 0 /\ Cardinality(Resident) >= capacity
  /\ v \in Resident /\ Oldest(v)
  /\ last' = [r \in (Resident \ {v}) \cup {clock + 1} |->
                IF r = clock + 1 THEN clock + 1 ELSE last[r]]

Next ==
  /\ (\E r \in Resident : Use(r) \/ Replace(r)) \/ Admit
  /\ clock' = clock + 1
  /\ UNCHANGED capacity

Spec == Init /\ [][Next]_vars

==============================================================================
