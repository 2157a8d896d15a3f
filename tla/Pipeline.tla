------------------------------ MODULE Pipeline -------------------------------
(***************************************************************************)
(* Pipeline::run of crates/ltk-core/src/lib.rs: every raw line goes        *)
(* through the normalizer into the clusterer (Stage 1), the clusters go    *)
(* one by one through the optional compressor (Stage 2), and what is left  *)
(* is formatted.                                                           *)
(*                                                                         *)
(* The normalizer is Stage 0 as it is; the formatter's output is the       *)
(* sequence of its rows, measured as the compact format writes them.       *)
(* Tokens are counted by the default counter.  A compressor is a backend   *)
(* that answers, refuses, or (an HTTP daemon called without a timeout)     *)
(* never answers.                                                          *)
(*                                                                         *)
(* A log line is a message, a sequence of parts: each has its text and the *)
(* tags that text should become (a literal part: itself).  Only properties *)
(* look at the tags.  answers is history.                                  *)
(***************************************************************************)
EXTENDS Normalizer, Sums, Integers

CONSTANTS
  RequestedThresholds, Windows, MaxLines,
  Logs,          \* the inputs: sequences of messages
  Texts,         \* what a compressor may answer
  Compressors,   \* subset of BOOLEAN: whether a compressor may be attached
  MaxU32,        \* u32::MAX
  None           \* no result, or no Stage 2 token count

Message == Seq([text : Seq(Symbols), tags : Seq(Symbols)])
ASSUME LogsAssumption == Logs \subseteq Seq(Message)
ASSUME TextsAssumption == Texts \subseteq Seq(Symbols)
ASSUME CompressorsAssumption == Compressors \subseteq BOOLEAN
ASSUME MaxU32Assumption == MaxU32 \in Nat \ {0}
ASSUME LinesAssumption == MaxLines \in Nat

VARIABLES
  threshold, max_clusters, clusters, lost_lines, seen, owner, \* the clusterer
  compressor,  \* whether one is attached
  phase,       \* reading, stage2, waiting (inside compress), ok, err
  log,         \* the input
  raw_lines,   \* lines read of it
  raw_bytes,   \* their bytes
  raw_tokens,  \* their tokens, each line counted for itself
  compressed,  \* the finished clusters, on their way through Stage 2
  at,          \* the next cluster to compress
  result,      \* what run returned: None unless it is Ok
  answers      \* history: the compressor's answers, in order

stage1 == <<threshold, max_clusters, clusters, lost_lines, seen, owner>>
input == <<log, raw_lines, raw_bytes, raw_tokens>>
vars == <<stage1, input, compressor, phase, compressed, at, result, answers>>

\* The raw text of a message, and what it should become.
Written(message) == FlattenSeq([i \in DOMAIN message |-> message[i].text])
Meant(message) == FlattenSeq([i \in DOMAIN message |-> message[i].tags])

\* Stage 0 of each raw line, and Stage 1 over what may come of it.
RawLines == {Written(message) : message \in UNION {Range(lines) : lines \in Logs}}
NormalizedAs == [raw \in RawLines |-> Normalize(raw)]
Lines == Range(NormalizedAs)
TokensOf == [line \in Lines |-> TokenSet(line)]
Tokens == UNION Range(TokensOf)
Clusterer == INSTANCE JaccardClusterer

ASSUME ParamsAssumption ==
  /\ \A t \in RequestedThresholds :
       t \in [num : Int, den : Nat] /\ (t.den = 0 => t = Clusterer!NaN)
  /\ Windows \subseteq Nat

Row == [template : Lines \cup Texts, count : Nat]

\* finish(): the live clusters, most recently touched first; the formatter
\* writes one row for each.
Rows == [i \in DOMAIN clusters |-> [template |-> clusters[i].line, count |-> clusters[i].count]]

------------------------------------------------------------------------------
\* Stats.

\* The bytes of a text; an escape sequence has five (a color).
SymbolBytes(symbol) ==
  CASE symbol \in {"<UUID>", "<PORT>", "<PATH>"} -> 6
    [] symbol \in {"<HEX>", "<NUM>", "esc"}      -> 5
    [] symbol \in {"<IP>", "<TS>"}               -> 4
    [] OTHER                                     -> 1
Bytes(text) == Total([k \in DOMAIN text |-> SymbolBytes(text[k])])

\* The digits of a count.
Width(n) == Cardinality({k \in 1 .. n : 10 ^ (k - 1) <= n})

\* Compact rows: "[xN] ", the template, a newline.
RowBytes(row) == (IF row.count > 1 THEN 4 + Width(row.count) ELSE 0) + Bytes(row.template) + 1
OutputBytes(rows) == Total([i \in DOMAIN rows |-> RowBytes(rows[i])])

\* HeuristicCounter: four bytes a token, rounded up.
TokenCount(bytes) == (bytes + 3) \div 4

\* Mutant: a cast that wraps.
Saturated_Wrapping(n) == n % (MaxU32 + 1)

\* u32::try_from(n).unwrap_or(u32::MAX)
Saturated(n) == Min({n, MaxU32})

\* stage1_retention and stage2_retention, as a fraction.
Retention(tokens, raw) ==
  IF raw = 0 THEN <<1, 1>> ELSE <<Saturated(tokens), Saturated(raw)>>

\* What --stats prints of a run: the retention behind each savings line, and
\* whether lines are reported lost.
Report(stats) ==
  [stage1 |-> Retention(stats.stage1_tokens, stats.raw_tokens),
   stage2 |-> IF stats.stage2_tokens = None THEN None
              ELSE Retention(stats.stage2_tokens, stats.raw_tokens),
   lost   |-> stats.lost_lines > 0]

Returned(rows, tokens2) ==
  [output |-> rows,
   stats |-> [raw_lines     |-> raw_lines,
              raw_bytes     |-> raw_bytes,
              raw_tokens    |-> raw_tokens,
              cluster_count |-> Len(clusters),
              lost_lines    |-> lost_lines,
              stage1_tokens |-> TokenCount(OutputBytes(Rows)),
              stage2_tokens |-> tokens2]]

------------------------------------------------------------------------------
Init ==
  /\ Clusterer!Init
  /\ compressor \in Compressors
  /\ phase = "reading"
  /\ log \in Logs
  /\ raw_lines = 0
  /\ raw_bytes = 0
  /\ raw_tokens = 0
  /\ compressed = << >>
  /\ at = 1
  /\ result = None
  /\ answers = << >>

NextRaw == Written(log[raw_lines + 1])

\* Mutant: the tokens of all the bytes so far, not line by line.
CountLine_Summed ==
  /\ phase = "reading"
  /\ raw_lines < Len(log)
  /\ raw_lines' = raw_lines + 1
  /\ raw_bytes' = raw_bytes + Bytes(NextRaw)
  /\ raw_tokens' = TokenCount(raw_bytes + Bytes(NextRaw))
  /\ UNCHANGED <<log, compressor, phase, compressed, at, result, answers>>

\* The next raw line, which run counts ...
CountLine ==
  /\ phase = "reading"
  /\ raw_lines < Len(log)
  /\ raw_lines' = raw_lines + 1
  /\ raw_bytes' = raw_bytes + Bytes(NextRaw)
  /\ raw_tokens' = raw_tokens + TokenCount(Bytes(NextRaw))
  /\ UNCHANGED <<log, compressor, phase, compressed, at, result, answers>>

\* ... and hands, normalized, to the clusterer.
ReadLine == CountLine /\ Clusterer!Ingest(NormalizedAs[NextRaw])

\* The iterator ends: the loss counter is read, the clusterer finished, and
\* Stage 1's output is the result unless a compressor is attached.
EndInput ==
  /\ phase = "reading"
  /\ raw_lines = Len(log)
  /\ compressed' = Rows
  /\ IF compressor
       THEN phase' = "stage2" /\ UNCHANGED result
       ELSE phase' = "ok" /\ result' = Returned(Rows, None)
  /\ UNCHANGED <<stage1, input, compressor, at, answers>>

\* Mutant: one question too many.
Ask_PastEnd ==
  /\ phase = "stage2"
  /\ at <= Len(compressed) + 1
  /\ phase' = "waiting"
  /\ UNCHANGED <<stage1, input, compressor, compressed, at, result, answers>>

\* The next cluster's template is handed to the compressor.
Ask ==
  /\ phase = "stage2"
  /\ at <= Len(compressed)
  /\ phase' = "waiting"
  /\ UNCHANGED <<stage1, input, compressor, compressed, at, result, answers>>

\* Mutant: the answer lands on the wrong row.
Answer_Head(x) ==
  /\ phase = "waiting"
  /\ compressed' = [compressed EXCEPT ![1].template = x]
  /\ at' = at + 1
  /\ phase' = "stage2"
  /\ answers' = Append(answers, x)
  /\ UNCHANGED <<stage1, input, compressor, result>>

\* Its answer replaces the template of that cluster.
Answer(x) ==
  /\ phase = "waiting"
  /\ compressed' = [compressed EXCEPT ![at].template = x]
  /\ at' = at + 1
  /\ phase' = "stage2"
  /\ answers' = Append(answers, x)
  /\ UNCHANGED <<stage1, input, compressor, result>>

\* Mutant: a refusal ends Stage 2 early with what has been compressed so far.
Refuse_Partial ==
  /\ phase = "waiting"
  /\ phase' = "err"
  /\ result' = Returned(compressed, TokenCount(OutputBytes(compressed)))
  /\ UNCHANGED <<stage1, input, compressor, compressed, at, answers>>

\* Any error of compress (or its panic) ends the run: the clusters, those
\* already compressed included, are dropped with it.
Refuse ==
  /\ phase = "waiting"
  /\ phase' = "err"
  /\ UNCHANGED <<stage1, input, compressor, compressed, at, result, answers>>

\* Mutant: Stage 2 never ends when there was nothing to compress.
Finish_NonEmpty ==
  /\ phase = "stage2"
  /\ compressed # << >>
  /\ at > Len(compressed)
  /\ phase' = "ok"
  /\ result' = Returned(compressed, TokenCount(OutputBytes(compressed)))
  /\ UNCHANGED <<stage1, input, compressor, compressed, at, answers>>

Finish ==
  /\ phase = "stage2"
  /\ at > Len(compressed)
  /\ phase' = "ok"
  /\ result' = Returned(compressed, TokenCount(OutputBytes(compressed)))
  /\ UNCHANGED <<stage1, input, compressor, compressed, at, answers>>

\* The steps of run itself, and those of the compressor it waits for.
Run == ReadLine \/ EndInput \/ Ask \/ Finish
Backend == (\E x \in Texts : Answer(x)) \/ Refuse

Next == Run \/ Backend

Spec == Init /\ [][Next]_vars

\* run is a loop on its own thread; nothing obliges a daemon to answer.
FairSpec == Spec /\ WF_vars(Run)

------------------------------------------------------------------------------
\* Properties.

\* Every variable of run keeps its type; the clusterer's have TypeOK of its own.
TypeOK ==
  /\ compressor \in BOOLEAN
  /\ phase \in {"reading", "stage2", "waiting", "ok", "err"}
  /\ log \in Logs
  /\ raw_lines \in 0 .. Len(log)
  /\ raw_bytes \in Nat
  /\ raw_tokens \in Nat
  /\ compressed \in Seq(Row)
  /\ at \in 1 .. Len(compressed) + 1
  /\ result # None => result.output \in Seq(Row)
  /\ answers \in Seq(Texts)

\* A value, and what of a stretch of its line the rules see: of a colored line
\* what strip_str leaves.
IsValue(part) == part.text # part.tags /\ Range(part.tags) \cap Tags # {}
SeenOf(message, stretch) ==
  IF \E k \in DOMAIN message : "esc" \in Range(message[k].text)
    THEN Stripped(Written(stretch)) ELSE Written(stretch)

\* The surroundings in which the next property speaks of a line: a value
\* follows the line's start, white space, a control, a tag or a punctuation of
\* class "other", and is followed by the line's end, one of those, a colon or
\* (but for a path, which would take it) a dot.  Left out, too, is a number
\* that begins with 16 digits: <HEX> takes them.
Legible(message) ==
  \A k \in DOMAIN message :
    IsValue(message[k]) =>
      LET before == SeenOf(message, SubSeq(message, 1, k - 1))
          after == SeenOf(message, SubSeq(message, k + 1, Len(message)))
          neutral == White \cup Controls \cup Tags \cup {"other"}
          value == message[k]
      IN  /\ before # << >> => Last(before) \in neutral
          /\ after # << >> =>
               Head(after) \in neutral \cup {":"} \cup
                              (IF value.tags = <<"<PATH>">> THEN {} ELSE {"."})
          /\ value.tags = <<"<NUM>">> =>
               ~(Len(value.text) >= 16 /\ \A i \in 1 .. 16 : value.text[i] \in HexDigit)

\* In a legible line every value becomes its own tag, whole, and nothing else
\* changes: no rule takes a piece of a value that an earlier or longer one
\* describes, nor a piece of two values.  So legible lines that differ in
\* their values only are one line to the clusterer.
MasksAsMeant ==
  /\ Len(seen) = raw_lines
  /\ \A i \in DOMAIN seen : Legible(log[i]) => seen[i] = Meant(log[i])

\* The doc comment of Placeholder: every value it describes becomes its tag.
MaskedAsDocumented == seen = [i \in 1 .. raw_lines |-> Meant(log[i])]

\* The raw lines the rows stand for.
LinesCounted(rows) == Total([i \in DOMAIN rows |-> rows[i].count])

\* Stats ("sum(cluster counts) + lost_lines == raw_lines always holds"): the
\* returned statistics account for every raw line in the returned rows; for
\* the bytes of the input and its tokens, each line counted for itself; and
\* for the tokens of Stage 1's output, which are not those of what is returned
\* once a compressor has rewritten it, and of Stage 2's.
StatsAccount ==
  result # None =>
    LET rows == result.output
        stats == result.stats
        bytes(i) == Bytes(Written(log[i]))
    IN  /\ LinesCounted(rows) + stats.lost_lines = stats.raw_lines
        /\ stats.raw_lines = Len(log)
        /\ stats.raw_bytes = Total([i \in DOMAIN log |-> bytes(i)])
        /\ stats.raw_tokens = Total([i \in DOMAIN log |-> TokenCount(bytes(i))])
        /\ stats.cluster_count = Len(rows)
        /\ stats.stage1_tokens = TokenCount(OutputBytes(Rows))
        /\ stats.stage2_tokens = IF compressor THEN TokenCount(OutputBytes(rows)) ELSE None

\* The savings --stats reports are never more than the true ones: where less
\* was kept than read, the reported retention is at least the true fraction
\* (the fraction itself unless a count saturates), and otherwise it is at
\* least 1.  Loss is reported exactly when there is some.
SavingsNotOverstated ==
  LET faithful(retention, tokens, raw) ==
        /\ tokens <= raw => retention[1] * raw >= tokens * retention[2]
        /\ tokens >= raw => retention[1] >= retention[2]
        /\ raw > 0 /\ tokens <= MaxU32 /\ raw <= MaxU32 =>
             retention[1] * raw = tokens * retention[2]
  IN  result # None =>
        LET stats == result.stats
            report == Report(stats)
        IN  /\ faithful(report.stage1, stats.stage1_tokens, stats.raw_tokens)
            /\ report.stage2 # None =>
                 faithful(report.stage2, stats.stage2_tokens, stats.raw_tokens)
            /\ report.lost <=> LinesCounted(result.output) # Len(log)

\* Stage 2 gives every cluster the answer to its own template and nothing
\* else: no cluster is skipped, asked for twice, reordered or recounted.
AnswersLandInPlace ==
  /\ Len(answers) = at - 1
  /\ phase # "reading" =>
       compressed = [i \in DOMAIN clusters |->
                       [template |-> IF i < at THEN answers[i] ELSE clusters[i].line,
                        count    |-> clusters[i].count]]

\* One refused cluster fails the whole run: a result is never returned with a
\* cluster the compressor has not answered for, nor next to an error.
AllOrNothing ==
  result # None =>
    phase = "ok" /\ (compressor => Len(answers) = Len(clusters))

\* A run that has started ends, unless the compressor never answers: that wait
\* has no timeout.
RunEnds == <>(phase \in {"ok", "err"}) \/ <>[](phase = "waiting")

==============================================================================
