------------------------------ MODULE Formatter ------------------------------
(***************************************************************************)
(* Stage 3: the four formatters of crates/ltk-core/src/formatter.rs, and   *)
(* what a reader of their output gets back.                                *)
(*                                                                         *)
(* A text is a sequence of pieces: words, digits, and the texts with a     *)
(* role in some format.  A log line may contain all of them: the           *)
(* normalizer does not mask the number of "[x3] " (there is no word        *)
(* boundary in front of it), and ltk's own output is full of it.           *)
(***************************************************************************)
EXTENDS PushU64

CONSTANTS
  Templates,   \* the texts a cluster's template may be
  Counts,      \* the counts a cluster may have
  Formats,     \* subset of the four formats
  MaxClusters  \* bound: clusters formatted

Piece(kind) == <<kind, 0>>

MarkOpen == Piece("mark_open")   \* "[x"
MarkClose == Piece("mark_close") \* "] "
Newline == Piece("newline")
Tab == Piece("tab")
Bar == Piece("bar")              \* " | "
Quote == Piece("quote")
Backslash == Piece("backslash")
Open == Piece("open")            \* [
Close == Piece("close")          \* ]
Comma == Piece("comma")
CountKey == Piece("count_key")   \* {"count":
TextKey == Piece("text_key")     \* ,"template":"
EndObject == Piece("end_object") \* the brace that ends an object

Kinds ==
  {"word", "newline", "tab", "bar", "quote", "backslash", "open", "close", "comma",
   "count_key", "text_key", "end_object", "mark_open", "mark_close", "digit"}
Pieces == Kinds \X Nat

ASSUME TemplatesAssumption == Templates \subseteq Seq(Pieces)
ASSUME CountsAssumption == Counts \subseteq 0 .. MaxU64
ASSUME FormatsAssumption == Formats \subseteq {"compact", "tsv", "toon", "json"}
ASSUME MaxClustersAssumption == MaxClusters \in Nat

VARIABLES
  format,    \* the formatter in use
  clusters,  \* what it is given
  next,      \* the cluster the loop is at
  counted,   \* the row of next is written up to its count
  closed     \* the text has been returned

vars == <<out, frame, format, clusters, next, counted, closed>>

Cluster == [template : Templates, count : Counts]

------------------------------------------------------------------------------
\* Writing.

\* Mutant: only the quote is escaped.
Escape_QuoteOnly(text) ==
  FlattenSeq([k \in DOMAIN text |->
                IF text[k] = Quote THEN <<Backslash, text[k]>> ELSE <<text[k]>>])

\* Only the double quote and the backslash are escaped.
Escape(text) ==
  FlattenSeq([k \in DOMAIN text |->
                IF text[k] \in {Quote, Backslash} THEN <<Backslash, text[k]>> ELSE <<text[k]>>])

\* The pieces of a row before its count, and those behind it; a compact row
\* has a count only if it stands for several lines.
HasCount(c) == format = "compact" => c.count > 1

CompactRow(c) ==
  [before |-> IF HasCount(c) THEN <<MarkOpen>> ELSE << >>,
   behind |-> (IF HasCount(c) THEN <<MarkClose>> ELSE << >>) \o c.template \o <<Newline>>]

TsvRow(c) == [before |-> << >>, behind |-> <<Tab>> \o c.template \o <<Newline>>]

ToonRow(c) == [before |-> << >>, behind |-> <<Bar>> \o c.template \o <<Newline>>]

JsonObject(c) ==
  [before |-> IF next > 1 THEN <<Comma, CountKey>> ELSE <<CountKey>>,
   behind |-> <<TextKey>> \o Escape(c.template) \o <<Quote, EndObject>>]

Row(c) ==
  CASE format = "compact" -> CompactRow(c)
    [] format = "tsv"     -> TsvRow(c)
    [] format = "toon"    -> ToonRow(c)
    [] format = "json"    -> JsonObject(c)

Init ==
  /\ format \in Formats
  /\ clusters \in UNION {[1 .. k -> Cluster] : k \in 0 .. MaxClusters}
  /\ next = 1
  /\ counted = FALSE
  /\ closed = FALSE
  /\ out = IF format = "json" THEN <<Open>> ELSE << >>
  /\ FrameInit

BeginRow ==
  /\ ~counted
  /\ next <= Len(clusters)
  /\ out' = out \o Row(clusters[next]).before
  /\ counted' = TRUE
  /\ IF HasCount(clusters[next]) THEN Call(clusters[next].count) ELSE UNCHANGED frame
  /\ UNCHANGED <<format, clusters, next, closed>>

PushCount == Push /\ UNCHANGED <<format, clusters, next, counted, closed>>

\* Mutant: every other cluster is written.
EndRow_Skip ==
  /\ counted
  /\ ~pushing
  /\ out' = out \o Row(clusters[next]).behind
  /\ counted' = FALSE
  /\ next' = next + 2
  /\ UNCHANGED <<frame, format, clusters, closed>>

EndRow ==
  /\ counted
  /\ ~pushing
  /\ out' = out \o Row(clusters[next]).behind
  /\ counted' = FALSE
  /\ next' = next + 1
  /\ UNCHANGED <<frame, format, clusters, closed>>

Return ==
  /\ ~closed
  /\ next > Len(clusters)
  /\ out' = IF format = "json" THEN Append(out, Close) ELSE out
  /\ closed' = TRUE
  /\ UNCHANGED <<frame, format, clusters, next, counted>>

Next == BeginRow \/ PushCount \/ EndRow \/ Return

Spec == Init /\ [][Next]_vars

------------------------------------------------------------------------------
\* Reading.  What a reader makes of a text; NoRow for a line that is not in
\* the format and None for a document that is not: no cluster has count -1.

NoRow == [template |-> << >>, count |-> -1]
None == <<NoRow>>

IsDigit(piece) == piece[1] = "digit"

\* The lines of a text each of whose lines is terminated: line k ends at the
\* k-th newline, and the first starts at the start.
Newlines(text) == {k \in DOMAIN text : text[k] = Newline}
LineEnd(text, k) ==
  IF k = 0 THEN 0
  ELSE CHOOSE e \in Newlines(text) : Cardinality({d \in Newlines(text) : d <= e}) = k
LinesOf(text) ==
  [k \in 1 .. Cardinality(Newlines(text)) |->
     SubSeq(text, LineEnd(text, k - 1) + 1, LineEnd(text, k) - 1)]

\* Where the number at the start of a text ends: one past its last digit.
NumberEnd(text) == Min({k \in 1 .. Len(text) + 1 : k \in DOMAIN text => ~IsDigit(text[k])})

\* A number, a separator, and the rest of the line.
ReadSeparated(line, separator) ==
  LET end == NumberEnd(line)
  IN  IF end > 1 /\ end <= Len(line) /\ line[end] = separator
        THEN [template |-> SubSeq(line, end + 1, Len(line)),
              count    |-> Denoted(SubSeq(line, 1, end - 1))]
        ELSE NoRow

\* A leading [xN] is the count; a line without one stands for one raw line.
ReadCompactLine(line) ==
  LET counted_row == ReadSeparated(Tail(line), MarkClose)
  IN  IF line # << >> /\ line[1] = MarkOpen /\ counted_row # NoRow
        THEN counted_row
        ELSE [template |-> line, count |-> 1]

\* A JSON reader: at is where it stands, text the string being read.  A
\* control character inside a string is refused (RFC 8259).
JsonStart == [at |-> "start", count |-> 0, text |-> << >>, rows |-> << >>]

JsonStep(r, p) ==
  CASE r.at = "start"  /\ p = Open       -> [r EXCEPT !.at = "first"]
    [] r.at = "first"  /\ p = Close      -> [r EXCEPT !.at = "end"]
    [] r.at \in {"first", "object"} /\ p = CountKey -> [r EXCEPT !.at = "count"]
    [] r.at = "count"  /\ IsDigit(p)     -> [r EXCEPT !.at = "key", !.count = p[2]]
    [] r.at = "key"    /\ IsDigit(p) /\ r.count > 0 -> [r EXCEPT !.count = Base * @ + p[2]]
    [] r.at = "key"    /\ p = TextKey    -> [r EXCEPT !.at = "string", !.text = << >>]
    [] r.at = "string" /\ p = Backslash  -> [r EXCEPT !.at = "escape"]
    [] r.at = "string" /\ p = Quote      -> [r EXCEPT !.at = "brace"]
    [] r.at = "string" /\ p \notin {Backslash, Quote, Tab, Newline} ->
         [r EXCEPT !.text = Append(@, p)]
    [] r.at = "escape" /\ p \in {Quote, Backslash} ->
         [r EXCEPT !.at = "string", !.text = Append(@, p)]
    [] r.at = "brace"  /\ p = EndObject  ->
         [r EXCEPT !.at = "after", !.rows = Append(@, [template |-> r.text, count |-> r.count])]
    [] r.at = "after"  /\ p = Comma      -> [r EXCEPT !.at = "object"]
    [] r.at = "after"  /\ p = Close      -> [r EXCEPT !.at = "end"]
    [] OTHER                             -> [r EXCEPT !.at = "refused"]

\* The reader that was r, text later.
JsonAfter(r, text) ==
  LET reader[k \in 0 .. Len(text)] ==
        IF k = 0 THEN r ELSE JsonStep(reader[k - 1], text[k])
  IN  reader[Len(text)]

ReadJson(text) ==
  LET r == JsonAfter(JsonStart, text)
  IN  IF r.at = "end" THEN r.rows ELSE None

Read(text) ==
  CASE format = "compact" ->
         [k \in DOMAIN LinesOf(text) |-> ReadCompactLine(LinesOf(text)[k])]
    [] format = "tsv"  -> [k \in DOMAIN LinesOf(text) |-> ReadSeparated(LinesOf(text)[k], Tab)]
    [] format = "toon" -> [k \in DOMAIN LinesOf(text) |-> ReadSeparated(LinesOf(text)[k], Bar)]
    [] format = "json" -> ReadJson(text)

------------------------------------------------------------------------------
\* Properties.

TypeOK ==
  /\ format \in Formats
  /\ clusters \in Seq(Cluster)
  /\ next \in 1 .. Len(clusters) + 1
  /\ out \in Seq(Pieces)
  /\ counted \in BOOLEAN
  /\ closed \in BOOLEAN
  /\ FrameTypeOK

\* push_u64 neither runs out of its buffer nor leaves a digit out: at every
\* step the count is made up of the digits written and the number left, which
\* fits the digits left, up to the largest count.
DigitsDenote == Fits /\ (counted => Denotes(clusters[next].count))

\* The clusters each format can carry: a row is a line, so no newline; a
\* compact row without a count is one line and must not begin like a counted
\* one; a JSON string has no raw control character.
Carried(c) ==
  LET has(p) == \E k \in DOMAIN c.template : c.template[k] = p
  IN  CASE format = "compact" ->
             /\ ~has(Newline)
             /\ c.count > 0
             /\ c.count = 1 => ReadCompactLine(c.template).template = c.template
        [] format \in {"tsv", "toon"} -> ~has(Newline)
        [] format = "json" -> ~has(Newline) /\ ~has(Tab)

\* Nothing is lost in the output: a reader gets back every cluster, in order,
\* with its template and its count, whatever separators, digits, quotes,
\* backslashes and brackets the templates contain.
ReadsBack ==
  closed /\ (\A k \in DOMAIN clusters : Carried(clusters[k])) => Read(out) = clusters

\* README, Data integrity: "all [xN] counts sum to the exact original line
\* count".  Log lines, so templates without a newline.
CompactCountsSum ==
  closed /\ format = "compact" =>
    FoldSeq(LAMBDA row, sum : row.count + sum, 0, Read(out))
      = FoldSeq(LAMBDA c, sum : c.count + sum, 0, clusters)

\* The doc of JsonMinimalFormatter: the output is a JSON array of objects.
JsonIsArray == closed /\ format = "json" => Read(out) # None

==============================================================================
