------------------------- MODULE MCJaccardClusterer --------------------------
(***************************************************************************)
(* A small instance of JaccardClusterer.  Similarities among the lines:    *)
(* abc~abd 1/2, abc~abcd and abd~abcd 3/4 (so at 7/10 similarity is not    *)
(* transitive), abc~cba 1 with a different text, blank 0 with every other. *)
(***************************************************************************)
EXTENDS JaccardClusterer

MCLines == {"abc", "cba", "abd", "abcd", "e", "blank"}
MCTokens == {"a", "b", "c", "d", "e"}
MCTokensOf ==
  [l \in MCLines |->
     CASE l \in {"abc", "cba"} -> {"a", "b", "c"}
       [] l = "abd"   -> {"a", "b", "d"}
       [] l = "abcd"  -> {"a", "b", "c", "d"}
       [] l = "e"     -> {"e"}
       [] l = "blank" -> {}]

\* The default 0.7, a lower one, both ends, one above the range, and NaN.
MCThresholds ==
  {Fraction(7, 10), Fraction(1, 2), Fraction(-1, 1), Fraction(3, 2), NaN}
MCNumberThresholds == {Fraction(7, 10), Fraction(1, 2)}
MCWindows == 0 .. 3

==============================================================================
