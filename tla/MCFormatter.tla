----------------------------- MODULE MCFormatter -----------------------------
(***************************************************************************)
(* A small instance of Formatter: templates that hold every character with *)
(* a role in some format, and texts that look like a row of each.          *)
(***************************************************************************)
EXTENDS Formatter

Word == Piece("word")
MCPlain == {<< >>, <<Word>>}
Mark(d) == <<MarkOpen, Digit(d), MarkClose>>
MCTemplates ==
  MCPlain \cup
  {Mark(3) \o <<Word>>, <<MarkOpen, Word>>, <<Digit(3), Tab, Word>>, <<Tab>>,
   <<Bar, Digit(3), Bar>>, <<Quote, EndObject>>,
   <<Backslash, Quote>>, <<Word, Backslash>>, <<Newline, Word>>, <<Quote, EndObject, Close>>}
MCLogLines == MCPlain \cup {Mark(3) \o <<Word>>, <<Word, Tab, Word>>}

==============================================================================
