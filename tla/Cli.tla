--------------------------------- MODULE Cli ---------------------------------
(***************************************************************************)
(* The ltk binary, bin/ltk-cli/src/main.rs.  run_pipeline: check the       *)
(* options against each other and against the features of the build, read  *)
(* all the input, attach at most one Stage 2 backend, run the pipeline and *)
(* print.  run_token_counter: train a tokenizer on the raw files and print *)
(* the counts of each of them, next to those of its compressed file.       *)
(*                                                                         *)
(* Records of the tracing subscriber go to stdout.  Those of the libraries *)
(* under the backends are left out; ltk's own are at the levels debug and  *)
(* trace, which only RUST_LOG turns on.                                    *)
(***************************************************************************)
EXTENDS Naturals, Sequences, SequencesExt

CONSTANTS
  Features,  \* the cargo features a build may have
  MaxFiles   \* bound: files in each list of the command line

ASSUME FeaturesAssumption == Features \subseteq {"onnx", "rpc", "tiktoken", "token-counter"}
ASSUME MaxFilesAssumption == MaxFiles \in Nat \ {0}

VARIABLES
  build,      \* the features compiled in
  options,    \* the parsed command line
  loglevel,   \* what RUST_LOG turns on
  step,       \* where the program is
  files_read, \* input files whose lines have been collected
  compressor, \* the backend the pipeline holds, or None
  raw_at,     \* the raw file token-counter is at
  counted,    \* its blocks of counts: of which raw and compressed file
  unread,     \* the files it named on stderr
  stdout, stderr,
  exit        \* None while running; ok, err, or panic (of println!)

counter == <<raw_at, counted, unread>>
data == <<files_read, compressor, counter, stdout, stderr>>
vars == <<build, options, loglevel, step, data, exit>>

None == "none"
Backends == {"onnx", "rpc"}

\* What the parser accepts: every combination.  rate_ok says whether
\* target_rate is a number of [0, 1]; no file means stdin.  count is the
\* subcommand, with as many raw and compressed files; without it raw is 0.
Options ==
  [rate_ok : BOOLEAN, onnx_model : BOOLEAN, onnx_tokenizer : BOOLEAN,
   rpc_endpoint : BOOLEAN, stats : BOOLEAN, files : 0 .. MaxFiles,
   count : BOOLEAN, raw : 0 .. MaxFiles, compressed : 0 .. MaxFiles]
Parsed(o) ==
  IF o.count THEN o.raw > 0 /\ "token-counter" \in build ELSE o.raw = 0 /\ o.compressed = 0

------------------------------------------------------------------------------
Goto(from, to) ==
  /\ exit = None
  /\ step = from
  /\ step' = to
  /\ UNCHANGED <<build, options, loglevel, exit>>

Exit(from, status) ==
  /\ exit = None
  /\ step = from
  /\ exit' = status
  /\ UNCHANGED <<build, options, loglevel, step>>

\* main returns Err: a message on stderr and a failure status.
Bail(from) ==
  /\ Exit(from, "err")
  /\ stderr' = stderr \cup {"error"}
  /\ UNCHANGED <<files_read, compressor, counter, stdout>>

\* println! panics when stdout is gone, after a part of the text.
Panic(from) ==
  /\ Exit(from, "panic")
  /\ stdout' = stdout \cup {"part"}
  /\ stderr' = stderr \cup {"error"}
  /\ UNCHANGED <<files_read, compressor, counter>>

Init ==
  /\ build \in SUBSET Features
  /\ options \in {o \in Options : Parsed(o)}
  /\ loglevel \in {"default", "debug", "trace"}
  /\ step = "main"
  /\ files_read = 0
  /\ compressor = None
  /\ raw_at = 1
  /\ counted = << >>
  /\ unread = {}
  /\ stdout = {}
  /\ stderr = {}
  /\ exit = None

\* The subcommand is looked at before any option.
Dispatch == Goto("main", IF options.count THEN "train" ELSE "rate") /\ UNCHANGED data

------------------------------------------------------------------------------
\* run_pipeline.

CheckRate ==
  IF options.rate_ok THEN Goto("rate", "exclusive") /\ UNCHANGED data ELSE Bail("rate")

\* Mutant: two backends may be asked for.
CheckExclusive_Missing == Goto("exclusive", "features") /\ UNCHANGED data

CheckExclusive ==
  IF options.onnx_model /\ options.rpc_endpoint
    THEN Bail("exclusive")
    ELSE Goto("exclusive", "features") /\ UNCHANGED data

\* A backend this build does not include is an error.
CheckFeatures ==
  IF \/ "onnx" \notin build /\ (options.onnx_model \/ options.onnx_tokenizer)
     \/ "rpc" \notin build /\ options.rpc_endpoint
    THEN Bail("features")
    ELSE Goto("features", "input") /\ UNCHANGED data

\* Mutant: one file too many.
ReadFile_PastEnd ==
  /\ files_read <= options.files
  /\ \/ /\ Goto("input", "input")
        /\ files_read' = files_read + 1
        /\ UNCHANGED <<compressor, counter, stdout, stderr>>
     \/ Bail("input")

\* The files are read one after the other, stdin (no file) to its end.
ReadFile ==
  /\ files_read < options.files
  /\ \/ /\ Goto("input", "input")
        /\ files_read' = files_read + 1
        /\ UNCHANGED <<compressor, counter, stdout, stderr>>
     \/ Bail("input")

InputRead ==
  /\ files_read = options.files
  /\ Goto("input", "onnx")
  /\ UNCHANGED data

\* An input that cannot be read: stdin fails or is not UTF-8.
StdinFails == options.files = 0 /\ Bail("input")

Attach(b) ==
  /\ compressor' = b
  /\ UNCHANGED <<files_read, counter, stdout, stderr>>

\* Model and tokenizer come together or not at all.
AttachOnnx ==
  IF "onnx" \in build /\ options.onnx_model # options.onnx_tokenizer
    THEN Bail("onnx")
    ELSE /\ Goto("onnx", "rpc")
         /\ IF "onnx" \in build /\ options.onnx_model THEN Attach("onnx") ELSE UNCHANGED data

\* Creating the compressor creates its runtime, which may fail.
AttachRpc ==
  \/ /\ Goto("rpc", "counter")
     /\ IF "rpc" \in build /\ options.rpc_endpoint THEN Attach("rpc") ELSE UNCHANGED data
  \/ "rpc" \in build /\ options.rpc_endpoint /\ Bail("rpc")

\* The exact counter's tables may fail to load.
AttachCounter ==
  \/ Goto("counter", "run") /\ UNCHANGED data
  \/ "tiktoken" \in build /\ Bail("counter")

\* Pipeline::run logs at debug when it enters Stage 2, and at trace when it is
\* done.
Log(done) ==
  stdout' = IF \/ compressor # None /\ loglevel \in {"debug", "trace"}
               \/ done /\ loglevel = "trace"
              THEN stdout \cup {"log"} ELSE stdout

\* Mutant: the rows are streamed out before the outcome is known.
RunPipeline_Streams ==
  \/ /\ Goto("run", "print")
     /\ Log(TRUE)
     /\ UNCHANGED <<files_read, compressor, counter, stderr>>
  \/ /\ compressor # None
     /\ Exit("run", "err")
     /\ stdout' = stdout \cup {"output"}
     /\ stderr' = stderr \cup {"error"}
     /\ UNCHANGED <<files_read, compressor, counter>>

\* Only a compressor can make it fail.
RunPipeline ==
  \/ /\ Goto("run", "print")
     /\ Log(TRUE)
     /\ UNCHANGED <<files_read, compressor, counter, stderr>>
  \/ /\ compressor # None
     /\ Exit("run", "err")
     /\ Log(FALSE)
     /\ stderr' = stderr \cup {"error"}
     /\ UNCHANGED <<files_read, compressor, counter>>

PrintOutput ==
  \/ /\ Goto("print", "stats")
     /\ stdout' = stdout \cup {"output"}
     /\ UNCHANGED <<files_read, compressor, counter, stderr>>
  \/ Panic("print")

\* The report goes to stderr.
PrintStats ==
  /\ Exit("stats", "ok")
  /\ stderr' = IF options.stats THEN stderr \cup {"report"} ELSE stderr
  /\ UNCHANGED <<files_read, compressor, counter, stdout>>

------------------------------------------------------------------------------
\* run_token_counter.

\* Training reads every raw file; if it fails the process exits at once.
Train ==
  \/ /\ Goto("train", "count")
     /\ stdout' = stdout \cup {"counts"}
     /\ stderr' = stderr \cup {"training"}
     /\ UNCHANGED <<files_read, compressor, counter>>
  \/ /\ Exit("train", "err")
     /\ stderr' = stderr \cup {"training", "error"}
     /\ UNCHANGED <<files_read, compressor, counter, stdout>>

\* The raw file at hand gives the block of counts and the unread files.
Report(blocks, failed) ==
  /\ raw_at <= options.raw
  /\ Goto("count", "count")
  /\ raw_at' = raw_at + 1
  /\ counted' = counted \o blocks
  /\ unread' = unread \cup failed
  /\ UNCHANGED <<files_read, compressor, stdout, stderr>>

Block(raw, comp) == <<[raw |-> raw, compressed |-> comp]>>
HasPartner == raw_at <= options.compressed

\* A file that cannot be read is named on stderr; its compressed one is then
\* not looked at.
CountUnreadRaw == Report(<< >>, {<<"raw", raw_at>>})

\* A compressed file that cannot be read leaves the raw file's counts alone.
CountRawOnly ==
  IF HasPartner
    THEN Report(Block(raw_at, 0), {<<"compressed", raw_at>>})
    ELSE Report(Block(raw_at, 0), {})

\* Mutant: the next compressed file goes with the next raw file that was read.
CountPair_NextBlock ==
  /\ HasPartner
  /\ Report(Block(raw_at, Len(counted) + 1), {})

\* The compressed file of the same position is counted and compared.
CountPair ==
  /\ HasPartner
  /\ Report(Block(raw_at, raw_at), {})

CountPanic == raw_at <= options.raw /\ Panic("count")

CountDone ==
  /\ raw_at > options.raw
  /\ Exit("count", "ok")
  /\ UNCHANGED data

------------------------------------------------------------------------------
RunPipelineSteps ==
  \/ CheckRate \/ CheckExclusive \/ CheckFeatures
  \/ ReadFile \/ InputRead \/ StdinFails
  \/ AttachOnnx \/ AttachRpc \/ AttachCounter
  \/ RunPipeline \/ PrintOutput \/ PrintStats

RunTokenCounterSteps ==
  Train \/ CountUnreadRaw \/ CountRawOnly \/ CountPair \/ CountPanic \/ CountDone

Next == Dispatch \/ RunPipelineSteps \/ RunTokenCounterSteps

Spec == Init /\ [][Next]_vars

------------------------------------------------------------------------------
\* Properties.

TypeOK ==
  /\ build \subseteq Features
  /\ options \in Options
  /\ loglevel \in {"default", "debug", "trace"}
  /\ step \in {"main", "rate", "exclusive", "features", "input", "onnx", "rpc", "counter", "run",
               "print", "stats", "train", "count"}
  /\ files_read \in 0 .. options.files
  /\ compressor \in Backends \cup {None}
  /\ raw_at \in 1 .. MaxFiles + 1
  /\ counted \in Seq([raw : 1 .. MaxFiles, compressed : 0 .. MaxFiles])
  /\ unread \subseteq {"raw", "compressed"} \X (1 .. MaxFiles)
  /\ stdout \subseteq {"log", "output", "counts", "part"}
  /\ stderr \subseteq {"error", "report", "training"}
  /\ exit \in {None, "ok", "err", "panic"}

\* README: "ltk never silently falls back to the rule-based pipeline".  A run
\* that succeeds used every backend asked for, whatever the build: exactly one
\* of them, with no second one silently replacing it, and a lone ONNX option
\* never succeeds.
NeverFallsBack ==
  exit = "ok" /\ ~options.count =>
    /\ options.onnx_model <=> compressor = "onnx"
    /\ options.rpc_endpoint <=> compressor = "rpc"
    /\ options.onnx_model <=> options.onnx_tokenizer

\* stdout can be redirected and trusted: a failed run prints none of its output
\* there (unless it is the printing that fails), a successful one all of it,
\* with log records in front of it only if RUST_LOG asks for them; the report
\* is on stderr, and only if requested.
CleanStreams ==
  ~options.count =>
    /\ "log" \in stdout => loglevel # "default"
    /\ exit = "err" => stdout \subseteq {"log"} /\ stderr = {"error"}
    /\ exit = "ok" => "output" \in stdout /\ stderr = IF options.stats THEN {"report"} ELSE {}

\* Whatever fails to be read, token-counter compares a compressed file with the
\* raw file of its own position only, and when it is done each raw file, and
\* each compressed file of one that was counted, has been counted once or
\* named as unread.
CountsPairUp ==
  LET raws == [k \in DOMAIN counted |-> counted[k].raw]
      unreadable(kind) == {file[2] : file \in {file \in unread : file[1] = kind}}
      compared == {counted[k].compressed : k \in DOMAIN counted} \ {0}
  IN  /\ \A k \in DOMAIN counted : counted[k].compressed \in {0, counted[k].raw}
      /\ IsInjective(raws)
      /\ exit = "ok" /\ options.count =>
           /\ Range(raws) = (1 .. options.raw) \ unreadable("raw")
           /\ compared = (Range(raws) \cap 1 .. options.compressed) \ unreadable("compressed")

==============================================================================
