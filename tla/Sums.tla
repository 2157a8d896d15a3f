-------------------------------- MODULE Sums ---------------------------------
(***************************************************************************)
(* Sums of natural numbers, counted in tally marks: what a fold would      *)
(* compute, in a form that can be reasoned about without induction.        *)
(***************************************************************************)
EXTENDS Naturals, FiniteSets

\* f[x] marks for every x.
Tally(f) == UNION {{x} \X (1 .. f[x]) : x \in DOMAIN f}

\* The sum of the values of f.
Total(f) == Cardinality(Tally(f))

==============================================================================
