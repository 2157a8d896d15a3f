# ltk, specified and verified

TLA+ modules for `ltk` (longcipher/ltk), a log compressor for LLM contexts. A
run normalizes raw log lines, clusters near-identical ones with occurrence
counts, optionally prunes each cluster's template with a neural model (in
process through ONNX Runtime, or in an HTTP daemon), and formats what is left.
The promise that matters: **no line is lost silently**. Every raw line is
counted in one printed row or in `lost_lines`.

Paths below are relative to the repository root (`crates/ltk-core/src/` for the
bare file names).

## The system

```
raw line -> Normalizer -> Clusterer -> (SemanticCompressor) -> Formatter -> stdout
            Stage 0       Stage 1       Stage 2                Stage 3
                    all driven by Pipeline::run, set up by the CLI
```

| Component | State | Operations | What is hard | What makes it correct |
|---|---|---|---|---|
| Clusterer, `clusterer.rs` | threshold, window, the vector of clusters (exemplar and count, most recently used first), `lost_lines` | `with_params`, `ingest`, `lost_lines`, `finish` | long sequences: similarity is not transitive, recency lives only in the vector's order, evicted counts cascade, windows 0 and 1, NaN threshold | every line counted once; no two clusters that should be one; window never exceeded; eviction is LRU; merges go to the nearest survivor |
| Pipeline, `lib.rs` | counters, the finished clusters on their way through Stage 2 | `run` | an error in the middle of Stage 2, a compressor that never answers, the loss counter read at the right moment | Stats account for every line and token, all or nothing, answers land on their cluster, the run ends |
| Stats, `lib.rs`, `main.rs` | none | token counts, retentions, the `--stats` report | token counts above `u32::MAX`, empty input | savings are never overstated, loss is reported |
| ONNX compressor, `onnx.rs` | static environment, per compressor a tokenizer, a session behind a mutex | `compress` from any thread | lazy initialisation races, failures halfway, poisoning, lock release | one session per compressor used by one thread at a time, failures leave it usable, every call ends; the right tokens survive |
| RPC compressor, `rpc.rs` | a client, an owned single-threaded runtime | `compress` from any thread, drop | no timeout; called, or dropped, inside a runtime; threads that drive one runtime in turn | an error, never a panic; one request per call; no call waits for another's reply |
| Formatters, `formatter.rs` | none | four `format`s, `push_u64` | separators and quotes inside templates | every count is written whole; a reader gets back every row |
| Normalizer, `normalizer.rs` | compiled patterns | `normalize` | nine overlapping mask rules, word boundaries | every volatile value becomes its own tag, so lines that differ in values only are one line |
| CLI, `bin/ltk-cli/src/main.rs` | options, build features | option checks, input, backend, output | builds times optional backends, errors after long work, log records on stdout | the backend asked for or an error; clean stdout |
| token-counter, `main.rs` | a trained tokenizer | train, count each raw file next to its compressed one | files that cannot be read | files are paired by position, none is lost unnamed |
| `checkout.rs` | - | an unrelated demo | - | not modelled |

Components call each other synchronously. The clusterer, the pipeline and the CLI
are sequential: what is hard there is the length of the call sequences and the
error paths. `SemanticCompressor` is `Send + Sync` and held in an `Arc`, so the
compressors are where threads meet.

## Modules

| Module | Models | Checked by |
|---|---|---|
| `Jaccard` | `jaccard()`, the threshold's clamp, `>=` on f64 (with NaN) | through the clusterer |
| `JaccardClusterer` | Stage 1, every operation | `MCJaccardClusterer` |
| `LruTable` | abstract: a bounded table that replaces its least recently used resident | as `ImplementsLru` |
| `Normalizer` | Stage 0: the mask rules, the mask, the tokenizer | through the pipeline |
| `Pipeline` | `Pipeline::run` and its Stats, composed of `Normalizer` and an instance of `JaccardClusterer` | `MCPipeline` |
| `LazySession` | abstract: a session that one thread has at a time, loaded once, lost only by misuse | as `ImplementsLazySession` |
| `RpcCompressor` | threads that share an `RpcCompressor`, its runtime and its drop | `MCRpcCompressor` |
| `OnnxCompressor` | lazy loading, locking and poisoning for several threads and compressors | `MCOnnxCompressor` |
| `TokenPruning` | what one `compress` does with its tokens | `MCTokenPruning` |
| `PushU64` | `push_u64`, digit by digit | through the formatter |
| `Formatter` | the four formats, and a reader for each | `MCFormatter` |
| `Cli` | the binary: `run_pipeline` and `run_token_counter` | `MCCli` |
| `Sums` | sums of numbers, counted in tally marks | through its users |
| `ArithmeticProofs` | lemmas about `Jaccard`, `Sums`, division, ranks, least elements, induction, concatenations, walks | TLAPS |
| `JaccardClustererProofs`, `PipelineProofs`, `OnnxCompressorProofs`, `RpcCompressorProofs`, `TokenPruningProofs`, `FormatterProofs`, `CliProofs` | theorems about the module named | TLAPS |

Operators named `X_Something` placed before an operator `X` are mutants: the
same definition with a plausible bug. Each property is known to fail when the
mutant listed for it in `PROJECT.json` takes the place of the original.

### JaccardClusterer

A normalized line is an element of `Lines`; the clusterer reads only its token
set `TokensOf[line]`. `clusters` is the Rust vector with index 1 for index 0. An
entry has the exemplar's line and the count. `ingest` is the action `Ingest(l)`,
whose four disjuncts are the code's four paths: `Touch` (match, `remove` +
`insert(0)`, bump), `Open` (new cluster below capacity), `OpenMerging` (pop the
tail, add its count to the survivor `max_by` picks - the last of the best, so
the least recently used of them - and insert the new one) and `OpenLosing` (no
survivor: `lost_lines` grows). Each is the whole handler.

f64 quotients are exact fractions compared by cross-multiplication, which agrees
with the code for lines of fewer than 2^20 distinct tokens (`Jaccard` says why).
`u64` counts do not overflow for any input that fits a machine and are naturals.

`seen`, `owner` and the fields `id` and `touched` are history that no guard
reads. They let the properties say which line a count stands for.

### LruTable

States only residents, their last use, capacity, and that the resident replaced
is the oldest. The clusterer keeps no clock; the mapping reads recency from the
history field `touched`, so `ImplementsLru` says that the order of the vector
is as good as a clock.

### Normalizer

A text is a sequence of symbols: the classes of characters that some rule tells
apart (`zero`, other digits, the hex letters, `x`, `T`, `Z`, other letters, each
punctuation mark with a role, `space` for the character ' ', `tab` for the
control characters that are white space, `control` for the others, everything
else), a whole escape sequence, or a tag. Only ' ' may stand between a day and a
time; both `space` and `tab` separate tokens. A rule of `MASK_PATTERN` is the set of its patterns, one for
each choice of its optional groups; a pattern is a sequence of runs of a class
and of word boundaries, and `Ends` says where its matches may end. `Masked` is
`replace_all`: leftmost, first rule in order, longest match. The engine is
leftmost-first and not longest, but in each of these nine rules the alternative
it prefers is the longest. `AnyLength` as the maximum of a run stands for `+` and
`{16,}` and is no bound. `TokenSet` is the set the clusterer makes of `tokenize`.

`StripAnsi` is `strip_str` behind its test: of a line with an escape sequence it
drops every control character, tabs included, and it leaves a line without one
as it is. So a color can change more than colors: where a tab alone stood between
two numbers they are one number in the colored line.

### Pipeline

Holds the clusterer's variables through `Clusterer == INSTANCE JaccardClusterer`,
whose `Lines` and `TokensOf` are what the normalizer makes of the log's lines,
and its own: the phase, the log and the three counters of it, the finished
clusters `compressed`, the index `at` of the next one, and `result`. `ReadLine`
is one turn of the loop, `EndInput` the read of `lost_lines`, `finish` and the
Stage 1 output, `Ask` and `Answer`/`Refuse` the two ends of a `compress` call,
`Finish` the return. A log line is a sequence of parts, each with its text and
the tags it should become; the tags are for the two properties of masking alone.

`MasksAsMeant` speaks of legible lines (`Legible`), where every value follows the
start of the line, white space, a control, a tag or other punctuation, and is
followed by its end, one of those, a colon or a dot. It says nothing of a path
before a dot, which takes it; of values glued to a letter, to a digit or to each
other; and of a decimal number that begins with sixteen digits, of which `<HEX>`
takes those. The values it knows are those the rules describe, not all that the
docs name: see `placeholder_doc`.

`StatsAccount` relates the returned statistics to the whole input and to the
rows: `raw_tokens` is the sum of the tokens of each line (rounded up line by
line), `stage1_tokens` those of the rows before Stage 2 rewrites them.

`Bytes`, `OutputBytes` and `TokenCount` are the byte heuristic over that text,
`Retention` the two retentions with their saturating cast at `MaxU32`, `Report`
what `render_stats` makes of them (wording left out). The sums are `Total`s of
module `Sums` and not folds: adding or taking away one term needs no induction.
Savings are 1 minus a retention: `SavingsNotOverstated` compares the reported fraction with the true
one, and demands equality where nothing saturates.

### OnnxCompressor

One step is what a thread does between two points where another thread can be
seen: `get`, load, `get_or_init`, `lock`. `runtime` is ONNX Runtime's own record
of whether the process has an environment, an external rule taken from the
comments at `onnx.rs:12` and `onnx.rs:45`. `Run` ends in success, in a returned
error, or in the panic of `outputs["logits"]` for a model without that output,
which poisons the mutex (`has_logits` is fixed per compressor at the start).

`LazySession` knows neither the tokenizer, nor the environment, nor the steps of
a call: only who has the session, whether it is loaded, and whether it is lost.
The mapping is by name, the mutex's owner being `holder` and its poison `broken`.
`ImplementsLazySession` says that no error on the way, at whatever point, breaks
a compressor or unloads its session.

### RpcCompressor

`compress` is `Call` (the look for a current handle), `Post` (the first poll of
the future sends the request), `Return`. tokio's current-thread `block_on` is
external and modelled from its documentation: one of the threads inside it holds
the core and finds the replies for all (`TakeCore`, `Drive`); a woken thread
polls its own future, core or not; the core is free when its holder returns. A
thread is plain, of an application's blocking pool, or running that
application's tasks: the last two have a current handle, only the last must not
block. `Reply` is the daemon: at any time, in any order, well, badly or never.
`Drop` gives up a thread's `Arc`; the last one drops the runtime with the
compressor, which panics where blocking is not allowed.

### TokenPruning

Logits are integers, -inf, +inf or NaN; `Exp` is any function of the integers
among them to numbers above 0 (2^x in the runs), since nothing here rests on
more of exp than that it is positive. `Precedes` is the order the stable sort
produces, and `Rank` the place it gives a token. The filter over the window is
`Survivor`: the k-th survivor is the kept token that k - 1 kept tokens precede.

### PushU64 and Formatter

`Formatter` extends `PushU64` and shares `out` with it. A row is `BeginRow` (what
stands before the count), the digit loop, and `EndRow` (what stands behind it).
The loop is the code's: a buffer filled from its end, the index going down.
`Base`, `BufferLen` and `MaxU64` are parameters under the assumption of the
code's comment, that the largest count has at most `BufferLen` digits. A text is
a sequence of pieces (a word, a digit, a tab, a quote, `[x` ...), never of
characters; `Read` is what a reader of the format recovers, digits included.

### Cli

One action per block of `run_pipeline`, in the code's order, for every subset of
the cargo features. `stdout` and `stderr` are the kinds of text that have been
written to them. Log records of ltk itself are at debug and trace (`lib.rs:501`,
`527`) and go to stdout (`main.rs:118`) when `RUST_LOG` lets them. A `println!`
to a closed stdout panics. `run_token_counter` is one action per outcome of a
turn of its loop; `counted` is the sequence of blocks it prints, `unread` the
files it names on stderr.

## Runs

| Run | Question | Bounds and why they are enough |
|---|---|---|
| `clusterer` (pass) | all properties of Stage 1 | 6 lines with similarities 0, 1/2, 3/4, 1 (not transitive at 0.7; equal token sets with different texts; a blank line), 5 lines per behaviour, windows 0..3, thresholds 0.7, 0.5, clamped from both sides, NaN. Five lines fill a window of three, touch, evict and merge, and evict a merged cluster again at windows 1 and 2. |
| `count_doc` (violation) | is `count` the number of lines that matched, as documented? | as above, 4 lines |
| `pipeline` (pass) | masking, accounting, reported savings, all or nothing, placement, progress of a run | logs with every two of 18 values (each rule, each optional part, the shortest and the longest forms) one behind the other, in three plain surroundings and in three lines with tabs and other controls, two of them colored; and every log of up to 3 lines of 4 kinds (one colored, one blank); thresholds 0.7 and NaN, windows 0..2, with and without a compressor, 2 possible answers (one equals a template); `MaxU32` is 6, so that counts on both sides of it occur |
| `placeholder_doc` (violation) | does every value the doc of `Placeholder` names become its tag? | six one-line logs, one for each kind that seems not to |
| `onnx` (pass) | initialisation, locking, poisoning, progress | 2 threads, 2 compressors, 2 calls each, every external operation may fail: both races (same compressor, different compressors) and a retry after each failure occur |
| `onnx_race` (violation) | does the loser of the environment race reuse the winner's? | 2 threads, 1 call, nothing else fails |
| `rpc` (pass) | panics, whose reply an answer is, progress | 3 threads in every combination of contexts, 2 calls each: one drives, one is driven, one arrives; the driver leaves, or never does |
| `rpc_blocking` (violation) | does `compress` work on a blocking-pool thread, as advised? | as above |
| `pruning` (pass) | how many, which, in what order | up to 4 tokens with a window of 3 (truncation happens), up to 3 classes, 4 logits, 7 rates |
| `formatter` (pass) | is every count written whole, does the output read back? | 2 clusters, 12 templates with every special piece, base 10 with a buffer of 3 digits and counts 0, 1, 3, 10 and the largest, 255 |
| `json_doc` (violation) | is json-minimal output JSON? | log lines with a tab |
| `cli` (pass) | is the requested backend used, are streams clean, are files paired? | every build, option combination and log level, up to 2 input, 2 raw and 2 compressed files, every file unreadable or not |

`MaxLines`, `MaxSegments`, `MaxCalls`, `MaxTokens`, `MaxClusters` and `MaxFiles`
bound the behaviours. Deadlock checking is off because every one of these ends: the input
stops, threads make their last call, a run returns.

No symmetry is used: lines differ in their token sets, and liveness is checked
in the threaded modules.

### What the violations show

- `count_doc`: "Number of raw lines that matched this cluster" (`clusterer.rs:55`,
  `lib.rs:181`) is not what `count` holds after an eviction: it includes lines of
  clusters merged into this one. The accounting properties hold; the comment is
  too narrow. `RecentLinesRepresented` says what is still true: a line is only
  merged into a stranger when it is older than the window.
- `onnx_race`: the comment of `environment()` (`onnx.rs:58`) does not hold: the
  loser's own `build()` is rejected before it can reach `get_or_init`, and its
  call fails. A later call succeeds.
- `placeholder_doc`: the patterns (`normalizer.rs:26`) do not know all values that
  the doc of `Placeholder` names (`lib.rs:90` to `100`). An IPv6 address, an epoch
  or syslog time, and `deadbeef` have no rule of their own; `5432` without a
  colon before it is a number; a number of sixteen digits is a hash.
- `rpc_blocking`: `rpc.rs:23` and the error text itself send async applications
  to `spawn_blocking`, where the check of `rpc.rs:108` finds the application's
  handle and refuses every call, although `block_on` would work there.
- `json_doc`: a tab is copied into a JSON string, which a JSON reader refuses.

More disagreements were seen and not turned into runs. A log line that itself
begins with `[x3] ` (ltk's own output does) and occurs once is printed without a
prefix and read as three lines, against README.md:40 ("all `[xN]` counts sum to
the exact original line count"); `Carried` in `ReadsBack` excludes just such rows,
and `DocsHoldWhenCarried` proves the claim of all others. The doc of
`JaccardClusterer::new` says the window is 1000, the constant is 0
(`clusterer.rs:36`, `64`); `with_params` says the threshold is clamped, and NaN
is not (`clusterer.rs:70`).

## Fairness

`OnnxCompressor!FairSpec` gives each thread weak fairness on its own steps: the
OS runs every runnable thread. `std::sync::Mutex` promises no fairness, but a
thread makes a bounded number of calls, so the lock is eventually free for good
when the others are done. `Call` is not fair: nobody must call. Loads and
inference are assumed to return, with an error or without.

`RpcCompressor!FairSpec` is weakly fair to what a thread inside `block_on` does,
each thread for itself, and to nothing else: nobody must call, and the daemon
owes no reply. `CallsEnd` says that this is the only thing that keeps a call
from ending, for the call whose reply it is and for no other.

`Pipeline!FairSpec` is fair to the pipeline's own steps only, not to the
compressor: an HTTP daemon called without a timeout may never answer, and
`RunEnds` says that this is the only thing that can keep a run from ending. It
assumes a finite input.

## Proofs

TLAPS proves every property of every passing run but the three liveness
properties, of which it proves the safety half (a bounded variant, and nobody
stuck), and `MasksAsMeant` of the logs whose lines can be cut in fields, for all
values of the constants: any lines and token sets, thresholds, windows, numbers of lines,
threads, compressors, calls, tokens, files, any base and buffer. The bounds of
the runs (`MaxLines`, `MaxCalls`, `MaxTokens` ...) are arbitrary naturals here.

| Module | Theorem | States |
|---|---|---|
| `JaccardClustererProofs` | `TypeCorrect` | `[]TypeOK` |
| | `WindowNeverExceeded` | `[]WindowBound` |
| | `LossNeedsWindowOne` | `[]LostOnlyAtWindowOne` |
| | `ClustersStayDissimilar` | `[]PairwiseDissimilar` |
| | `NoTwinsLive` | `[]NoTwins` |
| | `VectorInRecencyOrder` | `[]RecencyOrder` |
| | `RecentLinesKept` | `[]RecentLinesRepresented` |
| | `LedgerBalances` | `[]Ledger` |
| | `EveryLineAccounted` | `[]Accounting` |
| | `EvictedGoToNearest` | `MergesGoToNearest` |
| | `VectorIsLru` | `ImplementsLru`: refinement of `LruTable` |
| `PipelineProofs` | `TypeCorrect` | `[]TypeOK` |
| | `AnswersLandCorrect` | `[]AnswersLandInPlace` |
| | `AllOrNothingCorrect` | `[]AllOrNothing` |
| | `StatsAccountCorrect` | `[]StatsAccount` |
| | `SavingsNotOverstatedCorrect` | `[]SavingsNotOverstated` |
| | `NormalizeType` | the normalizer returns a text for every raw line |
| | `FieldsApart` | both sides of a separator are masked as if alone |
| | `WordMasked` | what one word of any length becomes |
| | `ValueMasked` | what a rule takes from end to end becomes its tags |
| | `LineMasked` | a line of values and words becomes their tags |
| | `FieldsMaskedAsMeant` | `[](MasksFields /\ (LogInFields => MasksAsMeant))` |
| | `RunIsFinite` | `StepsLeft`, a natural number, falls with every step |
| | `RunWaitsForCompressorOnly` | `[]WaitsForCompressorOnly` |
| `OnnxCompressorProofs` | `TypeCorrect` | `[]TypeOK` |
| | `MutexIsHeld` | `[]MutexHeld` |
| | `SessionIsLoadedOnce` | `[]SessionLoadedOnce` |
| | `PoisonedStaysUnused` | `[]PoisonedIsUnused` |
| | `LazySessionImplemented` | `ImplementsLazySession`: refinement of `LazySession` |
| | `LoneCompressorReuses` | with one compressor, `[]LosingRacerReuses` |
| | `CallsAreFinite` | every step brings one thread nearer to its end |
| | `NobodyWaitsForAWaiter` | `[](HolderGoesOn /\ SomebodyGoesOn)` |
| `RpcCompressorProofs` | `TypeCorrect` | `[]TypeOK` |
| | `OnlyTheLastDropPanics` | `[]OnlyLastDropPanics` |
| | `RuntimeIsSound` | the runtime outlives its calls and keeps its core |
| | `AnswersAreTheReplies` | `[]AnswersAreReplies` |
| | `CallsAreFinite` | every step brings one thread nearer to its end |
| | `NobodyIsStranded` | `[]SomebodyGoesOn /\ [][RepliesKept]_vars` |
| `TokenPruningProofs` | `TypeCorrect` | `[]TypeOK` |
| | `RateKept` | `[]KeepsTheRate` |
| | `MostInformativeKept` | `[]KeepsMostInformative` |
| | `OrderKept` | `[]OrderPreserved` |
| `FormatterProofs` | `TypeCorrect` | `[]TypeOK` |
| | `DigitsDenoteCorrect` | `[]DigitsDenote` |
| | `ReadsBackCorrect` | `[]ReadsBack` |
| | `DocsHoldWhenCarried` | `[](AllCarried => CompactCountsSum /\ JsonIsArray)` |
| `CliProofs` | `TypeCorrect` | `[]TypeOK` |
| | `NeverFallsBackCorrect` | `[]NeverFallsBack` |
| | `CleanStreamsCorrect` | `[]CleanStreams` |
| | `CountsPairUpCorrect` | `[]CountsPairUp` |

All but the five from `NormalizeType` to `LineMasked`, which are about every text,
are of the form `Spec => ...`; none uses fairness.

### Assumptions

Only those the modules declare about their constants, which TLC evaluates on
every run: they give a constant its type, or a bound its sign. What an operator
computes is never assumed.
`FitsAssumption` is the comment of `push_u64` ("u64::MAX is 20 digits").

### Recursive definitions

The library's induction theorems take an operator as a parameter and cannot be
instantiated. `SetInduction` (`ArithmeticProofs`) replaces them: a set of
naturals with 0 that is closed under + 1 is `Nat`, because its complement would
have a least element (`LeastExists`, from the library's well-foundedness of
`<`). A recursive function is a `CHOOSE` of a function with the recursion's
equation, so it has that equation once such a function exists. One lemma per
recursion shows that by `SetInduction`: `FlattenExists`, `PowerExists`,
`AfterExists`, `WalkType`, `ReadsExists`, `ReaderExists`. What the definitions
compute for every input follows by the same induction; `SeqInduction` is its
form for sequences, a set of sequences with `<< >>` and closed under `Append`.
`WalkUnique` is what makes two `CHOOSE`s equal: a walk over a text has one value,
so the walks over two texts that agree from some place on agree there.

### The clusterer

- `ArithmeticProofs` settles the arithmetic: the code's `len + len - inter` is
  the size of the union (`UnionSize`, `SimilarityIsJaccard`), similarity is a
  fraction of [0, 1], symmetric and 1 on equal sets; finite non-empty sets of
  positions have a least, a greatest and a best element, so the `CHOOSE`s in
  `FirstMatch` and `Nearest` are defined (`FirstMatchIsMatch`, `NearestIsBest`).
- One shape lemma per path of `ingest` (`TouchShape`, `OpenShape`,
  `OpenMergingShape`, `OpenLosingShape`) says what the new vector is, position
  by position. Every later proof cites these and never opens the sequence
  operators again.
- `TypeOK`, `WindowBound` and `LostOnlyAtWindowOne` follow path by path. The
  third needs the guard: an eviction without a survivor means one cluster at
  capacity, so a window of one.
- `PairwiseDissimilar` is inductive with `TypeOK`: `Touch` permutes exemplars,
  the other paths add one that matched nothing, and symmetry of similarity
  covers the pair in the other order. `NoTwins` follows, since the similarity of
  equal sets is 1 (`SameTokensClear`), also of two empty ones.
- `RecencyOrder` is not inductive alone, because it speaks of `touched`, which
  is a line number: `HistoryOK` (names are unique, owners are earlier lines, no
  line joined a cluster after its last use) is proved with it (`HistoryStep`,
  `HistoryCorrect`). `RecentLinesRepresented` rests on both: the victim is at
  the last position of a full window, so by `RecencyOrder` it was last used at
  least a window ago, and by `HistoryOK` it holds no line more recent than that.
- `Ledger` compares each count with the number of lines its cluster owns. Each
  path moves a whole fibre of `owner`, or one line, from one owner to another.
  `Accounting` follows from `Ledger` alone: `TalliesStandForLines` puts the
  tally marks of all counts in bijection with the lines that are not lost.
- `VectorIsLru`: `Touch` is the table's use, the other paths its insertion with
  or without a victim. The victim is the tail, and `RecencyOrder` makes the tail
  the one resident used longest ago (`LruLastIsOnly`).

### The pipeline

`PipelineProofs` does not prove the clusterer again. `P == INSTANCE
JaccardClustererProofs` instantiates the theorems with the pipeline's lines;
`ClustererAssumptions` proves what they assume of them, `IngestsOrLeaves` that
every step of the pipeline is a step of the clusterer or leaves it alone, and
`ClustererHolds` collects what follows. On top of it: `StageInv` (where Stage 2
stands: `compressed` is `HalfAnswered`, the clusters with the answers so far in
place), `ResultInv` (a result is made at the end of input or when the last
cluster is answered, from the counters of that moment) and `InputInv` (the
counters are the sums of bytes and tokens over exactly the lines read, which are
the lines ingested).
`StatsAccount` is these three with `Accounting`. `SavingsNotOverstated` is
arithmetic over `Saturated`: both sides of a retention saturate at the same
bound, which moves a fraction of [0, 1] up and leaves one above it at 1 or more.

`RunIsFinite`: what is left of a run is three steps for each line not read (it
is read, its cluster may be asked for and answered) and two for each cluster not
answered. `RunWaitsForCompressorOnly` names the guards of the pipeline's own
steps: while it reads, one of the four paths of `ingest` is open to the next
line, whatever is in the vector.

### The normalizer

- `NormalizeType` is what makes lines and token sets texts at all. `Masked` walks
  over the line from match to match, so it is defined only if every match ends
  behind its start. `RulePatterns` shows that of every pattern of the nine rules:
  some item takes at least one symbol (`Consumes`), so the ends of a match are
  behind its start and within the line (`EndsBounds`, `MatchItemBounds`), and
  `WalkType` gives the walk a value.
- Fields: a match depends only on the symbols it may take and one on each side,
  for the `\b` of the patterns. `Sits` says that one text lies in another with
  such a neighbour around it; the ends of every rule in it are then the ends in
  the part alone, shifted. That no match crosses a separator is immediate for a
  symbol no class has. A space is in one class, that between the day and the
  time of a timestamp: every pattern is `Solid`, without a space, or `Dated`,
  with the space behind a whole day, so a space with no day before it separates
  too. `FieldsApart` walks both sides with `WalkUnique`.
- One value: `Trail` lists the places a match passes between its items, so
  `Len(text) + 1 \in RuleEnds(text, 1, rule)` says what the text is made of.
  The walk takes the first rule that matches, and of that the longest match, so
  a value is masked by its own rule only if no earlier one matches at its start.
  `ValueMasked` excludes each pair: a rule that needs a symbol (`Needs`: `-`,
  `:`, `.`, `x`, `/`) does not match a text without it (`RulesLack`), and
  `RuleMakes` bounds what a text a rule takes can contain; for the rest, the
  fifth symbol of a timestamp is `-` and of a UUID a hex digit, a path begins
  with `/` and nothing before it in the list does, an address has more dots than
  a number. The hash is the real exception (`StartsLikeHash`): a decimal number
  with sixteen digits in front is, by the order of the alternatives, a hash.
- One word: `WordMasked` is the same argument for texts of word symbols of any
  length, where `\b` leaves a rule only the whole word.
- A line: `CutInFields` says that what `StripAnsi` leaves of it is a sequence of
  values, plain words and separators, no two of the first kinds side by side.
  `LineMasked` is an induction over the fields with `FieldsApart` at each
  separator. It covers the values of `MCPipeline` but the one that begins with
  sixteen digits, side by side in any order with a space or another symbol
  between them - but for a day before a space - and the event lines of that run.
  Of a colored line the fields are those of what `strip_str` leaves. `SeenInv` takes it to the lines Stage 1 is
  given.

### ONNX compressor

The steps of a thread fall into five kinds - outside the lock, enter,
prepare, load, leave (`StepKinds`) - and the inductive invariant `SessionInv`
is proved over these: `MutexHeld` (a thread is at a place inside the lock
exactly when it owns the mutex) makes two threads at such places one
(`Exclusive`); `SessionSeen` (where in `run_inference` the session has been seen
to be loaded or not) is what `SessionLoadedOnce` needs to be inductive.
`LazySessionImplemented` maps each kind to a step of `LazySession` or to a
stutter. `LoneInv` shows how narrow the race of `onnx_race` is: with one
compressor in the process the session mutex serialises the environment's
construction too, and the comment's claim holds.

`CallsAreFinite` gives each place of a call the steps it is from the end
(`StepsFrom`), and `AdvanceDescends` shows every action going to a place with
fewer; there is no way back, not even after an error. `NobodyWaitsForAWaiter` is
`MutexHeld`: the owner is at a place inside the lock, and those have no guard on
another thread. Together they are `CallsEnd` but for the scheduler.

### RPC compressor

`HandleInv`: the last drop is the only panic, the runtime outlives every handle,
no thread inside `block_on` has a current handle, and whoever has the core is
inside `block_on`. `RequestInv`: the number of requests of a call is what the
state of its request says, a woken thread has its own reply, and an outcome
agrees with that reply. Each is inductive with `TypeOK`.

`StepsLeft` counts, for one thread, the calls it has left, where its request is,
and whether it has been woken and has the core; `EveryStepDescends` shows that
also the steps others make for it lower it. `SomebodyGoesOn` follows from
`HandleInv`: the core is free or with a thread inside `block_on`, which can wake
whoever's reply has come, its own missing or not.

### Token pruning

`PruneInv` says what each phase holds of what the phases before it computed.
`DropProbInUnit`: the guard of the division is what keeps every NaN out - a NaN
or infinite row maximum makes the sum NaN, the guard turns it into 0, and an
unguarded row has a positive finite term. So the sort is by a strict total order
(`PrecedesOrder`), its ranks are a bijection to 0, 1, 2, ... (`RankBijection`),
exactly `KeepCount` of them are below `KeepCount` (`RankedBelow`), and
`KeepCount` is the ceiling (`KeepCountIsCeil`). `SurvivorShape` is the same
bijection for the order of the text.

### push_u64

`RowInv`: a call runs only inside a row, what is left of the count fits the
places left (`Fits`), and both parts denote the count (`Denotes`). `Fits` is
what keeps the index in the buffer: `n > 0` and `n < Power[i]` exclude `i = 0`.
`DigitMoves` is the arithmetic of one turn of the loop, `TotalWithout` the new
digit's share in the sum.

### Reading back

`ReadsBackCorrect` rests on three more invariants.

- `ControlInv`: the digit loop runs only for a row with a count, and a text
  that is returned has every row.
- `LinesInv`, for the three line formats: the output is a text of whole lines,
  which are read as the clusters before `next`, and the part of a row behind it.
  `OneLineMore` says that a line without a newline in it adds itself to
  `LinesOf` and changes nothing before; `RowIsRead` that a finished row is such
  a line and read as its cluster. There `ReadsRow` is the heart: the number
  ends at the separator whatever the template starts with, because no separator
  is a digit.
- `JsonInv`: after everything written so far the reader stands where the code
  does (`Standing`), with the rows before `next`. A reader of two texts one
  behind the other is a reader of the second from where the first left it
  (`ReadConcat`), so each step is one lemma: `ReadBefore`, `ReadNumber`,
  `ReadBehind`, and in it `ReadEscaped`, the induction over the template that
  shows every escape undone.

`WrittenIsNumber` ties both to `push_u64`: the digits in the buffer denote the
count they were made of, by Horner's rule from the left as by place values from
the right (`WrittenDenotes`), and no zero leads, which JSON forbids.
`DocsHoldWhenCarried` is a corollary: the claim that `json_doc` refutes, and the
one about `[xN]` counts, are true of every list of clusters without rows such as
those that break them.

### Cli

`BackendInv` says, for each block of `run_pipeline`, what the checks before it
have established of the options, so that attaching follows the request.
`StreamInv` says what has been printed where before the end. `CountInv` ties
`counted` and `unread` to the position of the loop: each file before it is in
exactly one of them, with its own partner.

### Model-checked only

- `CallsEnd` of both compressors and `RunEnds`: liveness under fairness needs
  `ENABLED`, for which the prover has no rules. What is proved is what they rest
  on: a variant that every step lowers, and that somebody can always take one
  (`CallsAreFinite`, `NobodyWaitsForAWaiter`, `NobodyIsStranded`, `RunIsFinite`,
  `RunWaitsForCompressorOnly`). The step from the guards these name to `ENABLED`,
  and from fairness to the end, is the runs'.
- `MasksAsMeant` of legible lines that cannot be cut in fields: the run also puts
  a dot or a colon right behind a value, and a day with no time before a space.
  What stands there may belong to the value or not, rule by rule.

That normalizing twice changes nothing is not claimed.

## Not modelled

- `checkout.rs`: a shopping-cart demo left from a project template; no part of
  ltk uses it.
- `TiktokenCounter`: an external encoder behind the `TokenCounter` trait; that
  loading it may fail is in `Cli`.
- The engines themselves: the regex crate (its matching is modelled as far as
  the nine rules use it), the Hugging Face tokenizers and their training, ONNX
  Runtime's numerics beyond the order of its outputs, HTTP beyond one exchange
  per call, tokio beyond what `RpcCompressor` says of it.
- Wording, layout and number formatting; the counts `token-counter` prints.
- Rates whose f32 product with the token count is inexact may keep one token
  more or less than exact arithmetic says.
- A logits buffer that is not a whole number of rows (`onnx.rs:208`): the code
  states no contract for it.
- Text outside ASCII is one class: `\w` of the tokenizer knows more letters than
  the mask's.

## Plan

What is left:

1. `ValueMasked` with a symbol glued to the value: for each rule and neighbour,
   that `\b` holds or fails there; and a day before a space, where the
   alternatives with a time have to be shown to fail.
2. The step from the variants to `CallsEnd` and `RunEnds`, when the prover has
   rules for `ENABLED`.
