--------------------------- MODULE MCTokenPruning ----------------------------
(***************************************************************************)
(* A small instance of TokenPruning: two integer logits (two tokens of the *)
(* same row tie), -inf and NaN; no, one, two or three classes; rates       *)
(* inside, at the ends of and outside the range, and NaN; encodings up to  *)
(* one token over the window.                                              *)
(***************************************************************************)
EXTENDS TokenPruning

MCLogits == {Fraction(0, 1), Fraction(1, 1), Fraction(-1, 0), NaN}
MCExp == [x \in {0, 1} |-> 2 ^ x]
MCRates ==
  {Fraction(-1, 1), Zero, Fraction(1, 4), Fraction(1, 2), One, Fraction(3, 2), NaN}

==============================================================================
