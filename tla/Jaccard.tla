------------------------------- MODULE Jaccard -------------------------------
(***************************************************************************)
(* The similarity arithmetic of crates/ltk-core/src/clusterer.rs.          *)
(*                                                                         *)
(* The code computes |A n B| / |A u B| as an f64 and compares it with an   *)
(* f64 threshold.  Here both are exact fractions [num, den], compared by   *)
(* cross-multiplication.  f64 division is correctly rounded and monotone,  *)
(* and two different fractions whose denominators multiply to less than    *)
(* 2^52 never round to the same f64, so the comparison is the code's for   *)
(* every line of fewer than 2^20 distinct tokens.                          *)
(***************************************************************************)
EXTENDS Integers, FiniteSets

Fraction(n, d) == [num |-> n, den |-> d]
Zero == Fraction(0, 1)
One  == Fraction(1, 1)

\* The f64 NaN is the fraction 0/0: every comparison with it is FALSE.
NaN  == Fraction(0, 0)
IsNaN(x) == x.den = 0

\* x >= y on f64 values.
AtLeast(x, y) ==
  /\ ~IsNaN(x)
  /\ ~IsNaN(y)
  /\ x.num * y.den >= y.num * x.den

\* f64::clamp(0.0, 1.0): a NaN is returned unchanged.
ClampUnit(x) ==
  CASE x.num < 0     -> Zero
    [] x.num > x.den -> One
    [] OTHER         -> x

\* Mutant: 0/0 for two empty token sets.
Similarity_Divided(a, b) ==
  LET inter == Cardinality(a \cap b)
  IN  Fraction(inter, Cardinality(a) + Cardinality(b) - inter)

\* jaccard(): two empty token sets are identical.
Similarity(a, b) ==
  LET inter == Cardinality(a \cap b)
      union == Cardinality(a) + Cardinality(b) - inter
  IN  IF union = 0 THEN One ELSE Fraction(inter, union)

\* The values a stored threshold can have: a fraction of [0, 1], or NaN.
Thresholds ==
  {x \in [num : Nat, den : Nat] : (x.den > 0 /\ x.num <= x.den) \/ x = NaN}

==============================================================================
