---------------------------- MODULE TokenPruning -----------------------------
(***************************************************************************)
(* What OnnxCompressor::compress does with one text, once it has a         *)
(* tokenizer and a session: truncate, read the logits, turn them into drop *)
(* probabilities (drop_probs), choose the tokens to keep (select_keeps)    *)
(* and hand the survivors to the decoder (crates/ltk-core/src/onnx.rs).    *)
(*                                                                         *)
(* A token is its position in the encoding.  Numbers are exact fractions   *)
(* of module Jaccard: a logit is an integer, 1/0, -1/0 or NaN (0/0), and   *)
(* exp is any function Exp of the integers among them to numbers above 0   *)
(* (the common factor exp(-max) of a row cancels out).  A rate is one      *)
(* whose product with a token count f32 represents exactly (a quarter, a   *)
(* half, ...).                                                             *)
(***************************************************************************)
EXTENDS Jaccard, Sums, Sequences, SequencesExt

CONSTANTS
  Logits,     \* values the model may give
  Exp,        \* exp of the integers among them
  Classes,    \* output classes a model may have
  Rates,      \* target rates a caller may pass
  MaxSeqLen,  \* MAX_SEQ_LEN, 512 in the code
  MaxTokens   \* bound: tokens of an encoding

ASSUME LogitsAssumption ==
  \A v \in Logits : v \in [num : Int, den : {0, 1}] /\ (v.den = 1 => Exp[v.num] \in Nat \ {0})
ASSUME ClassesAssumption == Classes \subseteq Nat
ASSUME RatesAssumption ==
  \A r \in Rates : r \in [num : Int, den : Nat] /\ (r.den = 0 => r = NaN)
ASSUME BoundsAssumption == MaxSeqLen \in Nat \ {0} /\ MaxTokens \in Nat

VARIABLES
  special,    \* the encoding: whether each token is special (CLS, SEP, ...)
  rate,       \* target_rate as passed
  phase,      \* encoded, probed, selected, done, err
  probs,      \* drop probability per token of the window
  keep,       \* the tokens to keep
  surviving   \* the tokens handed to the decoder, in order

vars == <<special, rate, phase, probs, keep, surviving>>

DropClass == 2   \* DROP_CLASS is index 1

\* n: the tokens the model sees.
Window == 1 .. (IF Len(special) <= MaxSeqLen THEN Len(special) ELSE MaxSeqLen)

------------------------------------------------------------------------------
\* drop_probs: the softmax of a row of logits at the drop class.

\* The row maximum is an infinity: f32::max ignores a NaN, and the fold starts
\* at -inf.
MaxIsInfinite(row) ==
  (\E i \in DOMAIN row : row[i] = Fraction(1, 0)) \/ (\A i \in DOMAIN row : row[i].den = 0)

\* exp(v - max) is NaN for a NaN logit and for one equal to an infinite
\* maximum; one NaN term makes the sum NaN.
SumIsNaN(row) == MaxIsInfinite(row) \/ \E i \in DOMAIN row : row[i] = NaN

\* The terms of the sum, all scaled by exp(max): -inf has none.
Term(v) == IF v.den = 0 THEN 0 ELSE Exp[v.num]
Terms(row) == [i \in DOMAIN row |-> Term(row[i])]
Softmax(row) == Fraction(Term(row[DropClass]), Total(Terms(row)))

\* Mutant: no guard on the sum.
DropProb_Unguarded(row) == IF SumIsNaN(row) THEN NaN ELSE Softmax(row)

\* A sum that is not above 0, so a NaN one, gives probability 0.
DropProb(row) == IF SumIsNaN(row) THEN Zero ELSE Softmax(row)

------------------------------------------------------------------------------
\* select_keeps.

NonSpecial == {i \in Window : ~special[i]}

\* Mutant: truncation instead of ceil.
KeepCount_Floor ==
  LET r == ClampUnit(rate)
  IN  IF IsNaN(r) THEN 0 ELSE (r.num * Cardinality(NonSpecial)) \div r.den

\* ceil(rate * total), at most total; a NaN rate is cast to 0.
KeepCount ==
  LET r == ClampUnit(rate)
  IN  IF IsNaN(r) THEN 0 ELSE (r.num * Cardinality(NonSpecial) + r.den - 1) \div r.den

\* partial_cmp gives Less.
Less(i, j) == AtLeast(probs[j], probs[i]) /\ ~AtLeast(probs[i], probs[j])

\* Mutant: highest drop probability first.
Precedes_Reversed(i, j) == Less(j, i) \/ (~Less(i, j) /\ i < j)

\* The stable sort puts i before j.
Precedes(i, j) == Less(i, j) \/ (~Less(j, i) /\ i < j)

\* The special tokens, and the first KeepCount of the others.
Rank(i) == Cardinality({j \in NonSpecial : Precedes(j, i)})
Kept == {i \in Window : special[i]} \cup {i \in NonSpecial : Rank(i) < KeepCount}

------------------------------------------------------------------------------
Init ==
  /\ special \in UNION {[1 .. n -> BOOLEAN] : n \in 0 .. MaxTokens}
  /\ rate \in Rates
  /\ phase = "encoded"
  /\ probs = << >>
  /\ keep = {}
  /\ surviving = << >>

\* No token: the answer is the empty text.
NoTokens ==
  /\ phase = "encoded"
  /\ Window = {}
  /\ phase' = "done"
  /\ UNCHANGED <<special, rate, probs, keep, surviving>>

\* The session's logits, a row of `classes` values for each token; a buffer too
\* short for the window, or one without a drop class, is an error.
Infer(classes) ==
  /\ phase = "encoded"
  /\ Window # {}
  /\ IF classes < DropClass
       THEN phase' = "err" /\ UNCHANGED probs
       ELSE /\ phase' = "probed"
            /\ probs' \in [Window -> {DropProb(row) : row \in [1 .. classes -> Logits]}]
  /\ UNCHANGED <<special, rate, keep, surviving>>

Select ==
  /\ phase = "probed"
  /\ keep' = Kept
  /\ phase' = "selected"
  /\ UNCHANGED <<special, rate, probs, surviving>>

\* Mutant: survivors in the order they were ranked.
Survive_RankOrder ==
  /\ phase = "selected"
  /\ surviving' = SetToSortSeq(keep, Precedes)
  /\ phase' = "done"
  /\ UNCHANGED <<special, rate, probs, keep>>

\* The filter over the window: the k-th survivor is the kept token that k - 1
\* kept tokens come before.
Survivor(k) == CHOOSE i \in keep : Cardinality({j \in keep : j < i}) = k - 1

\* The survivors go to the decoder.
Survive ==
  /\ phase = "selected"
  /\ surviving' = [k \in 1 .. Cardinality(keep) |-> Survivor(k)]
  /\ phase' = "done"
  /\ UNCHANGED <<special, rate, probs, keep>>

Next == NoTokens \/ (\E classes \in Classes : Infer(classes)) \/ Select \/ Survive

Spec == Init /\ [][Next]_vars

------------------------------------------------------------------------------
\* Properties.

Chosen == phase \in {"selected", "done"} /\ Window # {}

\* Probabilities are numbers of [0, 1] whatever logits the model gives (NaN
\* and infinities included): the sort that follows is on a total order.
TypeOK ==
  /\ rate \in Rates
  /\ phase \in {"encoded", "probed", "selected", "done", "err"}
  /\ DOMAIN probs \in {{}, Window}
  /\ \A i \in DOMAIN probs :
       probs[i].den > 0 /\ 0 <= probs[i].num /\ probs[i].num <= probs[i].den
  /\ keep \subseteq Window

\* "ceil(target_rate * count)": of the non-special tokens the least number is
\* kept that is not under the rate, so a rate above 0 keeps one.
KeepsTheRate ==
  Chosen /\ rate # NaN =>
    LET kept == Cardinality(keep \ {i \in Window : special[i]})
        total == Cardinality(NonSpecial)
        r == ClampUnit(rate)
    IN  r.num * total <= kept * r.den /\ (kept - 1) * r.den < r.num * total

\* Special tokens survive at any rate, and no pruned token is more informative
\* than a kept one; of equals the earliest are kept.
KeepsMostInformative ==
  Chosen =>
    \A j \in Window \ keep :
      /\ ~special[j]
      /\ \A i \in keep : special[i] \/ Less(i, j) \/ (~Less(j, i) /\ i < j)

\* The survivors keep their order and none is doubled or missing.
OrderPreserved ==
  phase = "done" =>
    /\ {surviving[k] : k \in DOMAIN surviving} = keep
    /\ \A k, m \in DOMAIN surviving : k < m => surviving[k] < surviving[m]

==============================================================================
