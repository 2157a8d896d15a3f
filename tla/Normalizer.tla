------------------------------ MODULE Normalizer ------------------------------
(***************************************************************************)
(* Stage 0, RegexNormalizer of crates/ltk-core/src/normalizer.rs: ANSI     *)
(* escapes are stripped, volatile values masked by one alternation of      *)
(* rules in a fixed order, and the masked text cut into tokens.            *)
(*                                                                         *)
(* A text is a sequence of symbols: the character classes that some rule   *)
(* tells apart, a whole escape sequence ("esc"), or a tag.  A tag is one   *)
(* symbol in raw text, too: none of its characters can take part in a      *)
(* match, and the tokenizer reads it as the tag.  Two texts whose digits   *)
(* or letters differ only within a class are one text here.  The control   *)
(* characters are two classes, white space ("tab") and the others          *)
(* ("control"); a line holds no newline, and no white space that is        *)
(* neither a control character nor ' '.                                    *)
(***************************************************************************)
EXTENDS Naturals, Sequences, SequencesExt, FiniteSetsExt

CONSTANT MaxSegments  \* bound: components of a path

ASSUME MaxSegmentsAssumption == MaxSegments \in Nat \ {0}

Digit == {"zero", "digit"}
HexDigit == Digit \cup {"hex"}                      \* a to f, A to F
Word == HexDigit \cup {"x", "T", "Z", "letter"}     \* \w; letter is any other
PathChar == Word \cup {".", "+", "-"}
Tags == {"<IP>", "<UUID>", "<TS>", "<HEX>", "<NUM>", "<PORT>", "<PATH>"}
White == {"space", "tab"}                           \* \s; space is the character ' '
Controls == {"tab", "control", "esc"}
Symbols == PathChar \cup Tags \cup White \cup Controls \cup {":", "/", "other"}

------------------------------------------------------------------------------
\* Patterns: sequences of runs and word boundaries.

Runs(class, min, max) == [class |-> class, min |-> min, max |-> max]
One(class) == Runs(class, 1, 1)
AnyLength == 64        \* as a maximum: none.  No rule states this one
Edge == Runs({}, 1, 0) \* \b

\* Where a match of pattern that starts at i may end (one past its last symbol).
IsWord(text, i) == i \in DOMAIN text /\ text[i] \in Word
MatchItem(text, ends, item) ==
  IF item = Edge
    THEN {j \in ends : IsWord(text, j - 1) # IsWord(text, j)}
    ELSE {j \in 1 .. Len(text) + 1 :
            \E i \in ends : /\ i + item.min <= j
                            /\ item.max = AnyLength \/ j <= i + item.max
                            /\ \A k \in i .. j - 1 : text[k] \in item.class}
Ends(text, i, pattern) ==
  LET after[k \in 0 .. Len(pattern)] ==
        IF k = 0 THEN {i} ELSE MatchItem(text, after[k - 1], pattern[k])
  IN  after[Len(pattern)]

------------------------------------------------------------------------------
\* MASK_PATTERN: a rule is the set of its patterns, one for each choice of its
\* optional parts.  In every rule the match the engine prefers is the longest.

Digits(min, max) == Runs(Digit, min, max)
Hexes(min, max) == Runs(HexDigit, min, max)
Dash == One({"-"})
Colon == One({":"})
Dot == One({"."})

Date == <<Digits(4, 4), Dash, Digits(2, 2), Dash, Digits(2, 2)>>
Clock == <<One({"T", "space"}), Digits(2, 2), Colon, Digits(2, 2), Colon, Digits(2, 2)>>
Fraction == <<Dot, Digits(1, AnyLength)>>
Offset == <<One({"+", "-"}), Digits(2, 2), Runs({":"}, 0, 1), Digits(2, 2)>>
Ts == {Date} \cup {Date \o Clock \o fraction \o zone :
                     fraction \in {<< >>, Fraction}, zone \in {<< >>, <<One({"Z"})>>, Offset}}

Uuid == {<<Edge, Hexes(8, 8), Dash, Hexes(4, 4), Dash, Hexes(4, 4), Dash, Hexes(4, 4), Dash,
           Hexes(12, 12), Edge>>}

Octet == Digits(1, 3)
Quad == <<Octet, Dot, Octet, Dot, Octet, Dot, Octet>>
Ipv4Port == {<<Edge>> \o Quad \o <<Colon, Digits(1, 5), Edge>>}
Ipv4 == {<<Edge>> \o Quad \o <<Edge>>}

Port == {<<Colon, Digits(2, 5), Edge>>}

Hex0x == {<<Edge, One({"zero"}), One({"x"}), Hexes(1, AnyLength), Edge>>}
HexLong == {<<Edge, Hexes(16, AnyLength), Edge>>}

Segment == <<One({"/"}), Runs(PathChar, 1, AnyLength)>>
Path == {FlattenSeq([i \in 1 .. n |-> Segment]) \o <<Runs({"/"}, 0, 1)>> : n \in 1 .. MaxSegments}

Num == {<<Edge, Digits(1, AnyLength), Edge>>, <<Edge, Digits(1, AnyLength)>> \o Fraction \o <<Edge>>}

Rule(patterns, tags) == [patterns |-> patterns, tags |-> tags]

\* Mutant: bare addresses are masked before those with a port.
Rules_BareFirst ==
  <<Rule(Ts, <<"<TS>">>), Rule(Uuid, <<"<UUID>">>),
    Rule(Ipv4, <<"<IP>">>), Rule(Ipv4Port, <<"<IP>", ":", "<PORT>">>),
    Rule(Port, <<":", "<PORT>">>), Rule(Hex0x, <<"<HEX>">>), Rule(HexLong, <<"<HEX>">>),
    Rule(Path, <<"<PATH>">>), Rule(Num, <<"<NUM>">>)>>

Rules ==
  <<Rule(Ts, <<"<TS>">>), Rule(Uuid, <<"<UUID>">>),
    Rule(Ipv4Port, <<"<IP>", ":", "<PORT>">>), Rule(Ipv4, <<"<IP>">>),
    Rule(Port, <<":", "<PORT>">>), Rule(Hex0x, <<"<HEX>">>), Rule(HexLong, <<"<HEX>">>),
    Rule(Path, <<"<PATH>">>), Rule(Num, <<"<NUM>">>)>>

------------------------------------------------------------------------------
\* normalize().

\* strip_str() drops every control character with the escape sequences, but it
\* is called only if there is one of those.
Stripped(raw) ==
  FlattenSeq([i \in DOMAIN raw |-> IF raw[i] \in Controls THEN << >> ELSE <<raw[i]>>])
StripAnsi(raw) == IF \E i \in DOMAIN raw : raw[i] = "esc" THEN Stripped(raw) ELSE raw

\* The ends of the rule's matches at i, and the rules that match there.
RuleEnds(text, i, rule) == UNION {Ends(text, i, pattern) : pattern \in rule.patterns}
Matching(text, i) == {k \in DOMAIN Rules : RuleEnds(text, i, Rules[k]) # {}}

\* Left to right; the first rule in order that matches wins, with its longest
\* match, and the search goes on behind it.
Masked(text) ==
  LET from[i \in 1 .. Len(text) + 1] ==
        IF i > Len(text) THEN << >>
        ELSE LET matching == Matching(text, i)
             IN  IF matching = {} THEN <<text[i]>> \o from[i + 1]
                 ELSE LET rule == Rules[Min(matching)]
                      IN  rule.tags \o from[Max(RuleEnds(text, i, rule))]
  IN  from[1]

\* tokenize(), as the set the clusterer makes of it: tags, word runs, and every
\* other symbol that is not white space.
WordStarts(text) == {i \in DOMAIN text : IsWord(text, i) /\ ~IsWord(text, i - 1)}
WordEnd(text, i) == Min({j \in i .. Len(text) : ~IsWord(text, j + 1)})
TokenSet(text) ==
  {SubSeq(text, i, WordEnd(text, i)) : i \in WordStarts(text)} \cup
  {<<text[i]>> : i \in {i \in DOMAIN text : text[i] \notin Word \cup White}}

Normalize(raw) == Masked(StripAnsi(raw))

==============================================================================
