------------------------------ MODULE MCPipeline ------------------------------
(***************************************************************************)
(* A small instance of Pipeline: logs of the same event with two values    *)
(* (once colored), another event and a blank line, under windows 0 to 2;   *)
(* and for the normalizer logs with every two values, one behind the       *)
(* other, in every surrounding, plain and colored.                         *)
(***************************************************************************)
EXTENDS Pipeline

Similar == INSTANCE Jaccard

Times(symbol, n) == [i \in 1 .. n |-> symbol]
Number(n) == Times("digit", n)
Hash(n) == <<"hex">> \o Times("digit", n - 1)
Address(a, b) ==
  Number(a) \o <<".">> \o Number(b) \o <<".", "digit", ".">> \o <<"zero">> \o Number(b - 1)
Day == Number(4) \o <<"-">> \o Number(2) \o <<"-">> \o Number(2)
Time == Number(2) \o <<":">> \o Number(2) \o <<":">> \o Number(2)

Literal(text) == [text |-> text, tags |-> text]
Value(text, tags) == [text |-> text, tags |-> tags]

Values ==
  {Value(Address(3, 1), <<"<IP>">>), Value(Address(1, 3), <<"<IP>">>),
   Value(Address(2, 2) \o <<":">> \o Number(1), <<"<IP>", ":", "<PORT>">>),
   Value(Address(3, 3) \o <<":">> \o Number(5), <<"<IP>", ":", "<PORT>">>),
   Value(<<":">> \o Number(2), <<":", "<PORT>">>),
   Value(Day, <<"<TS>">>),
   Value(Day \o <<"space">> \o Time, <<"<TS>">>),
   Value(Day \o <<"T">> \o Time \o <<".">> \o Number(3) \o <<"Z">>, <<"<TS>">>),
   Value(Day \o <<"T">> \o Time \o <<"+">> \o Number(2) \o <<":">> \o Number(2), <<"<TS>">>),
   Value(Hash(8) \o <<"-">> \o Number(4) \o <<"-">> \o Hash(4) \o <<"-">> \o Hash(4) \o <<"-">>
           \o Hash(12), <<"<UUID>">>),
   Value(<<"zero", "x">> \o Hash(3), <<"<HEX>">>), Value(Hash(16), <<"<HEX>">>),
   Value(<<"/", "letter", "/", "x", ".", "digit", "/">>, <<"<PATH>">>),
   Value(<<"/">> \o Number(2) \o <<"-">> \o Number(2), <<"<PATH>">>),
   Value(Number(1), <<"<NUM>">>), Value(Number(15), <<"<NUM>">>),
   Value(Number(2) \o <<".">> \o Number(2), <<"<NUM>">>),
   Value(Number(16) \o <<".">> \o Number(1), <<"<NUM>">>)}

\* Two logs for two values: one behind the other in every surrounding, in
\* plain lines and in lines with tabs and other control characters, where a
\* color takes them out (and a tab alone no longer keeps two values apart).
Around(before, v, between, w, after) ==
  <<Literal(before), v, Literal(between), w, Literal(after)>>
Escape == Value(<<"esc">>, << >>)
Dropped(symbol) == Value(<<symbol>>, << >>)
MCPlainLog(v, w) ==
  <<Around(<< >>, v, <<"space">>, w, << >>),
    Around(<<"letter", "other">>, v, <<"other">>, w, <<":">>),
    Around(<<"space">>, v, <<"space", "hex", "digit", "letter", "space">>, w, <<".">>)>>
MCControlLog(v, w) ==
  <<Around(<<"control">>, v, <<"tab">>, w, <<"tab">>),
    <<v, Dropped("tab"), w, Escape>>,
    <<Escape, Dropped("tab"), v, Dropped("control"), Literal(<<"space">>), Escape, w>>>>

Event(value) == <<Literal(<<"letter", "space">>), value, Literal(<<"space", "letter", "x">>)>>
MCEvents ==
  {Event(Value(Address(3, 1), <<"<IP>">>)),
   <<Escape>> \o Event(Value(Address(1, 1), <<"<IP>">>)) \o <<Escape>>,
   <<Literal(<<"x", "letter", ":", "space">>), Value(Number(2), <<"<NUM>">>)>>,
   << >>}
MCLogs ==
  UNION {[1 .. n -> MCEvents] : n \in 0 .. 3} \cup
  {MCPlainLog(v, w) : v \in Values, w \in Values} \cup
  {MCControlLog(v, w) : v \in Values, w \in Values}

\* The kinds of values the doc comment of Placeholder names, each alone: an
\* IPv6 address, 5432, an epoch and a syslog timestamp, deadbeef, a number.
MCDocLogs ==
  {<< <<value>> >> :
     value \in {Value(<<"hex", "hex", "digit", "zero", ":", ":", "digit">>, <<"<IP>">>),
                Value(Number(4), <<"<PORT>">>),
                Value(Number(10), <<"<TS>">>),
                Value(Times("letter", 3) \o <<"space">> \o Number(2) \o <<"space">> \o Time,
                      <<"<TS>">>),
                Value(Hash(8), <<"<HEX>">>),
                Value(Number(16), <<"<NUM>">>)}}

MCThresholds == {Similar!Fraction(7, 10), Similar!NaN}
MCWindows == 0 .. 2
MCTexts == {<<"letter">>, <<"letter", "space", "<IP>", "space", "letter", "x">>}

==============================================================================
