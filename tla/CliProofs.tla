------------------------------ MODULE CliProofs -------------------------------
(***************************************************************************)
(* Theorems about Cli for every build, every command line and file lists   *)
(* of any length.                                                          *)
(***************************************************************************)
EXTENDS Cli, TLAPS, SequenceTheorems

------------------------------------------------------------------------------
\* Type correctness.

\* What remains of the types while an action ends the run or goes on.
LEMMA TypeStep == TypeOK /\ [Next]_vars => TypeOK'
<1> SUFFICES ASSUME TypeOK, [Next]_vars PROVE TypeOK'
  OBVIOUS
<1>1. MaxFiles \in Nat
  BY MaxFilesAssumption
<1>2. /\ options.files \in 0 .. MaxFiles
      /\ options.raw \in 0 .. MaxFiles
      /\ files_read \in 0 .. options.files
      /\ raw_at \in 1 .. MaxFiles + 1
  BY DEF TypeOK, Options
<1>3. CASE Dispatch
  BY <1>3 DEF Dispatch, Goto, data, counter, TypeOK
<1>4. CASE RunPipelineSteps
  <2> USE DEF Goto, Exit, data, counter, TypeOK
  <2>1. CASE CheckRate \/ CheckExclusive \/ CheckFeatures
    BY <2>1 DEF CheckRate, CheckExclusive, CheckFeatures, Bail
  <2>2. CASE ReadFile
    <3>1. files_read < options.files => files_read + 1 \in 0 .. options.files
      BY <1>1, <1>2
    <3> QED BY <2>2, <3>1 DEF ReadFile, Bail
  <2>3. CASE InputRead \/ StdinFails
    BY <2>3 DEF InputRead, StdinFails, Bail
  <2>4. CASE AttachOnnx \/ AttachRpc \/ AttachCounter
    BY <2>4 DEF AttachOnnx, AttachRpc, AttachCounter, Attach, Bail, Backends
  <2>5. CASE RunPipeline
    BY <2>5 DEF RunPipeline, Log
  <2>6. CASE PrintOutput
    BY <2>6 DEF PrintOutput, Panic
  <2>7. CASE PrintStats
    BY <2>7 DEF PrintStats
  <2> QED BY <1>4, <2>1, <2>2, <2>3, <2>4, <2>5, <2>6, <2>7 DEF RunPipelineSteps
<1>5. CASE RunTokenCounterSteps
  <2>1. CASE Train \/ CountPanic \/ CountDone
    BY <2>1
    DEF Train, CountPanic, CountDone, Panic, Goto, Exit, data, counter, TypeOK
  <2>2. ASSUME NEW blocks \in Seq([raw : 1 .. MaxFiles, compressed : 0 .. MaxFiles]),
               NEW failed \in SUBSET ({"raw", "compressed"} \X (1 .. MaxFiles)),
               Report(blocks, failed)
        PROVE  TypeOK'
    <3>1. raw_at + 1 \in 1 .. MaxFiles + 1
      BY <1>1, <1>2, <2>2 DEF Report
    <3>2. counted \o blocks \in Seq([raw : 1 .. MaxFiles, compressed : 0 .. MaxFiles])
      BY <2>2, ConcatProperties DEF TypeOK
    <3> QED BY <2>2, <3>1, <3>2 DEF Report, Goto, TypeOK
  <2>3. ASSUME raw_at <= options.raw
        PROVE  raw_at \in 1 .. MaxFiles /\ raw_at \in 0 .. MaxFiles
    BY <1>1, <1>2, <2>3
  <2>4. ASSUME raw_at <= options.raw, NEW c \in 0 .. MaxFiles
        PROVE  Block(raw_at, c) \in Seq([raw : 1 .. MaxFiles, compressed : 0 .. MaxFiles])
    BY <2>3, <2>4 DEF Block
  <2>5. CASE CountUnreadRaw
    <3>1. raw_at <= options.raw
      BY <2>5 DEF CountUnreadRaw, Report
    <3>2. /\ << >> \in Seq([raw : 1 .. MaxFiles, compressed : 0 .. MaxFiles])
          /\ {<<"raw", raw_at>>} \in SUBSET ({"raw", "compressed"} \X (1 .. MaxFiles))
      BY <2>3, <3>1
    <3> QED BY <2>2, <2>5, <3>2 DEF CountUnreadRaw
  <2>6. CASE CountRawOnly
    <3>1. raw_at <= options.raw /\ 0 \in 0 .. MaxFiles
      BY <1>1, <2>6 DEF CountRawOnly, Report
    <3>2. /\ {<<"compressed", raw_at>>} \in SUBSET ({"raw", "compressed"} \X (1 .. MaxFiles))
          /\ {} \in SUBSET ({"raw", "compressed"} \X (1 .. MaxFiles))
      BY <2>3, <3>1
    <3>3. Block(raw_at, 0) \in Seq([raw : 1 .. MaxFiles, compressed : 0 .. MaxFiles])
      BY <2>4, <3>1
    <3> QED BY <2>2, <2>6, <3>2, <3>3 DEF CountRawOnly
  <2>7. CASE CountPair
    <3>1. raw_at <= options.raw
      BY <2>7 DEF CountPair, Report
    <3> QED BY <2>2, <2>3, <2>4, <2>7, <3>1 DEF CountPair
  <2> QED BY <1>5, <2>1, <2>5, <2>6, <2>7 DEF RunTokenCounterSteps
<1>6. CASE UNCHANGED vars
  BY <1>6 DEF vars, data, counter, TypeOK
<1> QED BY <1>3, <1>4, <1>5, <1>6 DEF Next

\* Every variable of the model keeps its domain.
THEOREM TypeCorrect == Spec => []TypeOK
<1>1. ASSUME Init PROVE TypeOK
  <2>1. options \in Options /\ build \subseteq Features
    BY <1>1 DEF Init
  <2>2. files_read \in 0 .. options.files /\ raw_at \in 1 .. MaxFiles + 1
    BY <1>1, <2>1, MaxFilesAssumption DEF Init, Options
  <2>3. counted \in Seq([raw : 1 .. MaxFiles, compressed : 0 .. MaxFiles])
    BY <1>1 DEF Init
  <2> QED BY <1>1, <2>1, <2>2, <2>3 DEF Init, TypeOK
<1> QED BY <1>1, TypeStep, PTL DEF Spec

------------------------------------------------------------------------------
\* Backends: what each check has settled by the time it is passed.

Attached == {"counter", "run", "print", "stats"}
PastOnnx == {"rpc"} \cup Attached
PastFeatures == {"input", "onnx"} \cup PastOnnx
PastExclusive == {"features"} \cup PastFeatures

BackendInv ==
  /\ options.count => step \in {"main", "train", "count"}
  /\ step \in {"train", "count"} => options.count
  /\ step \in PastExclusive => ~(options.onnx_model /\ options.rpc_endpoint)
  /\ step \in PastFeatures =>
       /\ options.onnx_model \/ options.onnx_tokenizer => "onnx" \in build
       /\ options.rpc_endpoint => "rpc" \in build
  /\ step \in PastOnnx => (options.onnx_model <=> options.onnx_tokenizer)
  /\ step \notin PastOnnx => compressor = None
  /\ step = "rpc" => compressor = IF options.onnx_model THEN "onnx" ELSE None
  /\ step \in Attached =>
       /\ options.onnx_model <=> compressor = "onnx"
       /\ options.rpc_endpoint <=> compressor = "rpc"
  /\ exit = "ok" => step \in {"stats", "count"}

LEMMA BackendStep == TypeOK /\ BackendInv /\ [Next]_vars => BackendInv'
<1> SUFFICES ASSUME TypeOK, BackendInv, [Next]_vars PROVE BackendInv'
  OBVIOUS
<1> USE DEF BackendInv, Attached, PastOnnx, PastFeatures, PastExclusive, None,
            Goto, Exit, data, counter
<1>1. options.onnx_model \in BOOLEAN /\ options.onnx_tokenizer \in BOOLEAN
      /\ options.rpc_endpoint \in BOOLEAN /\ options.count \in BOOLEAN
  BY DEF TypeOK, Options
<1>2. CASE Dispatch
  BY <1>2 DEF Dispatch
<1>3. CASE RunPipelineSteps
  <2>1. CASE CheckRate \/ CheckExclusive
    BY <2>1 DEF CheckRate, CheckExclusive, Bail
  <2>2. CASE CheckFeatures
    BY <2>2 DEF CheckFeatures, Bail
  <2>3. CASE ReadFile \/ InputRead \/ StdinFails
    BY <2>3 DEF ReadFile, InputRead, StdinFails, Bail
  <2>4. CASE AttachOnnx
    BY <1>1, <2>4 DEF AttachOnnx, Attach, Bail
  <2>5. CASE AttachRpc
    BY <1>1, <2>5 DEF AttachRpc, Attach, Bail
  <2>6. CASE AttachCounter
    BY <2>6 DEF AttachCounter, Bail
  <2>7. CASE RunPipeline
    BY <2>7 DEF RunPipeline
  <2>8. CASE PrintOutput \/ PrintStats
    BY <2>8 DEF PrintOutput, PrintStats, Panic
  <2> QED BY <1>3, <2>1, <2>2, <2>3, <2>4, <2>5, <2>6, <2>7, <2>8 DEF RunPipelineSteps
<1>4. CASE RunTokenCounterSteps
  BY <1>4
  DEF RunTokenCounterSteps, Train, CountUnreadRaw, CountRawOnly, CountPair, CountPanic,
      CountDone, Report, Panic
<1>5. CASE UNCHANGED vars
  BY <1>5 DEF vars
<1> HIDE DEF BackendInv
<1> QED BY <1>2, <1>3, <1>4, <1>5 DEF Next

LEMMA BackendsCorrect == Spec => []BackendInv
<1>1. Init => BackendInv
  BY DEF Init, BackendInv, Attached, PastOnnx, PastFeatures, PastExclusive, None
<1> QED BY <1>1, BackendStep, TypeCorrect, PTL DEF Spec

\* A run that succeeds used exactly the backends asked for, in every build.
THEOREM NeverFallsBackCorrect == Spec => []NeverFallsBack
<1>1. TypeOK /\ BackendInv => NeverFallsBack
  <2> SUFFICES ASSUME TypeOK, BackendInv, exit = "ok", ~options.count
               PROVE  /\ options.onnx_model <=> compressor = "onnx"
                      /\ options.rpc_endpoint <=> compressor = "rpc"
                      /\ options.onnx_model <=> options.onnx_tokenizer
    BY DEF NeverFallsBack
  <2>1. step = "stats"
    BY DEF BackendInv
  <2> QED BY <2>1 DEF BackendInv, Attached, PastOnnx
<1> QED BY <1>1, TypeCorrect, BackendsCorrect, PTL

------------------------------------------------------------------------------
\* Streams.

\* While the pipeline runs, stderr is empty and stdout has log records only,
\* until the output has been printed.
StreamInv ==
  ~options.count =>
    /\ "log" \in stdout => loglevel # "default"
    /\ exit = None /\ step # "stats" => stdout \subseteq {"log"}
    /\ exit = None => stderr = {}
    /\ step = "stats" => "output" \in stdout
    /\ exit = "err" => stdout \subseteq {"log"} /\ stderr = {"error"}
    /\ exit = "ok" => step = "stats" /\ stderr = IF options.stats THEN {"report"} ELSE {}

LEMMA StreamStep == BackendInv /\ StreamInv /\ [Next]_vars => StreamInv'
<1> SUFFICES ASSUME BackendInv, StreamInv, [Next]_vars, ~options.count'
             PROVE  StreamInv'
  BY DEF StreamInv
<1>1. options' = options
  BY DEF Next, Dispatch, RunPipelineSteps, CheckRate, CheckExclusive, CheckFeatures,
         ReadFile, InputRead, StdinFails, AttachOnnx, AttachRpc, AttachCounter,
         RunPipeline, PrintOutput, PrintStats, RunTokenCounterSteps, Train,
         CountUnreadRaw, CountRawOnly, CountPair, CountPanic, CountDone, Report,
         Bail, Panic, Goto, Exit, vars
<1>2. ~options.count /\ step \notin {"train", "count"}
  BY <1>1 DEF BackendInv
<1> USE DEF StreamInv, None, Goto, Exit, data, counter
<1>3. CASE Dispatch
  BY <1>2, <1>3 DEF Dispatch
<1>4. CASE RunPipelineSteps
  <2>1. ASSUME NEW from, from # "stats", Bail(from) PROVE StreamInv'
    BY <1>2, <2>1 DEF Bail
  <2>2. CASE CheckRate \/ CheckExclusive \/ CheckFeatures
    BY <1>2, <2>1, <2>2 DEF CheckRate, CheckExclusive, CheckFeatures
  <2>3. CASE ReadFile \/ InputRead \/ StdinFails
    BY <1>2, <2>1, <2>3 DEF ReadFile, InputRead, StdinFails
  <2>4. CASE AttachOnnx \/ AttachRpc \/ AttachCounter
    BY <1>2, <2>1, <2>4 DEF AttachOnnx, AttachRpc, AttachCounter, Attach
  <2>5. CASE RunPipeline
    BY <1>2, <2>5 DEF RunPipeline, Log
  <2>6. CASE PrintOutput
    BY <1>2, <2>6 DEF PrintOutput, Panic
  <2>7. CASE PrintStats
    BY <1>2, <2>7 DEF PrintStats
  <2> QED BY <1>4, <2>2, <2>3, <2>4, <2>5, <2>6, <2>7 DEF RunPipelineSteps
<1>5. CASE RunTokenCounterSteps
  BY <1>2, <1>5
  DEF RunTokenCounterSteps, Train, CountUnreadRaw, CountRawOnly, CountPair, CountPanic,
      CountDone, Report, Panic
<1>6. CASE UNCHANGED vars
  BY <1>2, <1>6 DEF vars
<1> HIDE DEF StreamInv
<1> QED BY <1>3, <1>4, <1>5, <1>6 DEF Next

\* A failed run prints none of its output, a successful one all of it, and the
\* report and the errors are on stderr.
THEOREM CleanStreamsCorrect == Spec => []CleanStreams
<1>1. Init => StreamInv
  BY DEF Init, StreamInv, None
<1>2. StreamInv => CleanStreams
  BY DEF StreamInv, CleanStreams
<1> QED BY <1>1, <1>2, StreamStep, BackendsCorrect, PTL DEF Spec

------------------------------------------------------------------------------
\* Counts.

\* The blocks printed so far and the files named account for the raw files
\* before raw_at, each block for a file of its own.
CountInv ==
  /\ \A k \in 1 .. Len(counted) :
       /\ counted[k].raw < raw_at
       /\ counted[k].compressed =
            IF counted[k].raw <= options.compressed /\ <<"compressed", counted[k].raw>> \notin unread
            THEN counted[k].raw ELSE 0
  /\ \A j, k \in 1 .. Len(counted) : counted[j].raw = counted[k].raw => j = k
  /\ \A kind \in {"raw", "compressed"}, r \in 1 .. MaxFiles : <<kind, r>> \in unread => r < raw_at
  /\ \A r \in 1 .. raw_at - 1 :
       <<"raw", r>> \notin unread <=> \E k \in 1 .. Len(counted) : counted[k].raw = r
  /\ raw_at <= options.raw + 1
  /\ exit = "ok" /\ options.count => raw_at = options.raw + 1

\* A block of counts goes to the end; the earlier ones stay.
LEMMA ReportShape ==
  ASSUME TypeOK, NEW r \in 1 .. MaxFiles, NEW c \in 0 .. MaxFiles,
         counted' = counted \o Block(r, c)
  PROVE  /\ Len(counted) \in Nat
         /\ Len(counted') = Len(counted) + 1
         /\ counted'[Len(counted) + 1] = [raw |-> r, compressed |-> c]
         /\ \A k \in 1 .. Len(counted) : counted'[k] = counted[k]
<1> DEFINE b == [raw |-> r, compressed |-> c]
           S == [raw : 1 .. MaxFiles, compressed : 0 .. MaxFiles]
<1>1. counted \in Seq(S) /\ b \in S
  BY DEF TypeOK
<1>2. Len(counted) \in Nat
  BY <1>1, LenProperties
<1> HIDE DEF b, S
<1>3. <<b>> \in Seq(S) /\ Len(<<b>>) = 1 /\ <<b>>[1] = b
  BY <1>1
<1>4. /\ Len(counted \o <<b>>) = Len(counted) + 1
      /\ \A k \in 1 .. Len(counted) + 1 :
           (counted \o <<b>>)[k] = IF k <= Len(counted) THEN counted[k] ELSE <<b>>[k - Len(counted)]
  BY <1>1, <1>3, ConcatProperties
<1>5. counted' = counted \o <<b>>
  BY DEF Block, b
<1> QED BY <1>2, <1>3, <1>4, <1>5 DEF b

\* raw_at is counted, with compressed file c; failed names what was not read.
LEMMA BlockStep ==
  ASSUME TypeOK, CountInv, NEW c \in 0 .. MaxFiles, NEW failed,
         Report(Block(raw_at, c), failed),
         \/ c = 0 /\ HasPartner /\ failed = {<<"compressed", raw_at>>}
         \/ c = 0 /\ ~HasPartner /\ failed = {}
         \/ c = raw_at /\ HasPartner /\ failed = {}
  PROVE  CountInv'
<1> DEFINE n == Len(counted)
<1>1. /\ MaxFiles \in Nat
      /\ options.raw \in 0 .. MaxFiles
      /\ options.compressed \in 0 .. MaxFiles
      /\ raw_at \in 1 .. MaxFiles + 1
      /\ raw_at <= options.raw
      /\ raw_at \in 1 .. MaxFiles
  BY MaxFilesAssumption DEF TypeOK, Options, Report
<1>2. /\ raw_at' = raw_at + 1
      /\ counted' = counted \o Block(raw_at, c)
      /\ unread' = unread \cup failed
      /\ UNCHANGED <<options, exit>>
      /\ exit = None
  BY DEF Report, Goto
<1>3. /\ n \in Nat
      /\ Len(counted') = n + 1
      /\ counted'[n + 1] = [raw |-> raw_at, compressed |-> c]
      /\ \A k \in 1 .. n : counted'[k] = counted[k]
  BY <1>1, <1>2, ReportShape
<1>4. \A k \in 1 .. n : counted[k].raw \in 1 .. MaxFiles /\ counted[k].raw < raw_at
  <2>1. counted \in Seq([raw : 1 .. MaxFiles, compressed : 0 .. MaxFiles])
    BY DEF TypeOK
  <2>2. \A k \in 1 .. n : counted[k] \in [raw : 1 .. MaxFiles, compressed : 0 .. MaxFiles]
    BY <2>1, ElementOfSeq
  <2> QED BY <2>2 DEF CountInv
<1>5. \A kind \in {"raw", "compressed"}, r \in 1 .. MaxFiles :
        r # raw_at => (<<kind, r>> \in unread' <=> <<kind, r>> \in unread)
  BY <1>2
<1>6. /\ <<"raw", raw_at>> \notin unread'
      /\ <<"compressed", raw_at>> \notin unread
      /\ <<"compressed", raw_at>> \in unread' <=> failed # {}
  <2>1. <<"raw", raw_at>> \notin unread /\ <<"compressed", raw_at>> \notin unread
    BY <1>1 DEF CountInv
  <2> QED BY <1>2, <2>1
<1> HIDE DEF n
<1>7. ASSUME NEW k \in 1 .. n + 1
      PROVE  /\ counted'[k].raw < raw_at'
             /\ counted'[k].compressed =
                  IF /\ counted'[k].raw <= options'.compressed
                     /\ <<"compressed", counted'[k].raw>> \notin unread'
                  THEN counted'[k].raw ELSE 0
  <2>1. CASE k \in 1 .. n
    <3>1. counted'[k] = counted[k] /\ counted[k].raw < raw_at /\ counted[k].raw \in 1 .. MaxFiles
      BY <1>3, <1>4, <2>1
    <3>2. counted[k].raw < raw_at + 1 /\ counted[k].raw # raw_at
      BY <1>1, <3>1
    <3>3. <<"compressed", counted[k].raw>> \in unread' <=> <<"compressed", counted[k].raw>> \in unread
      BY <1>5, <3>1, <3>2
    <3>4. counted[k].compressed =
            IF counted[k].raw <= options.compressed /\ <<"compressed", counted[k].raw>> \notin unread
            THEN counted[k].raw ELSE 0
      BY <2>1 DEF CountInv, n
    <3> QED BY <1>2, <3>1, <3>2, <3>3, <3>4
  <2>2. CASE k = n + 1
    <3>1. counted'[k].raw = raw_at /\ counted'[k].compressed = c
      BY <1>3, <2>2
    <3>2. raw_at < raw_at'
      BY <1>1, <1>2
    <3>3. c = IF raw_at <= options.compressed /\ <<"compressed", raw_at>> \notin unread'
              THEN raw_at ELSE 0
      BY <1>6 DEF HasPartner
    <3> QED BY <1>2, <3>1, <3>2, <3>3
  <2> QED BY <1>3, <2>1, <2>2
<1>8. ASSUME NEW j \in 1 .. n + 1, NEW k \in 1 .. n + 1, counted'[j].raw = counted'[k].raw
      PROVE  j = k
  <2>1. counted'[n + 1].raw = raw_at
    BY <1>3
  <2>2. \A i \in 1 .. n : counted'[i].raw = counted[i].raw /\ counted[i].raw # raw_at
    BY <1>1, <1>3, <1>4
  <2>3. \A i, m \in 1 .. n : counted[i].raw = counted[m].raw => i = m
    BY DEF CountInv, n
  <2>4. (j \in 1 .. n \/ j = n + 1) /\ (k \in 1 .. n \/ k = n + 1)
    BY <1>3
  <2> QED BY <1>8, <2>1, <2>2, <2>3, <2>4
<1>9. ASSUME NEW kind \in {"raw", "compressed"}, NEW r \in 1 .. MaxFiles, <<kind, r>> \in unread'
      PROVE  r < raw_at'
  <2>1. CASE r = raw_at
    BY <1>1, <1>2, <2>1
  <2>2. CASE r # raw_at
    <3>1. r < raw_at
      BY <1>5, <1>9, <2>2 DEF CountInv
    <3> QED BY <1>1, <1>2, <3>1
  <2> QED BY <2>1, <2>2
<1>10. ASSUME NEW r \in 1 .. raw_at' - 1
       PROVE  <<"raw", r>> \notin unread' <=> \E k \in 1 .. n + 1 : counted'[k].raw = r
  <2>1. CASE r = raw_at
    BY <1>3, <1>6, <2>1
  <2>2. CASE r # raw_at
    <3>1. r \in 1 .. raw_at - 1 /\ r \in 1 .. MaxFiles
      BY <1>1, <1>2, <2>2
    <3>2. <<"raw", r>> \notin unread <=> \E k \in 1 .. n : counted[k].raw = r
      BY <3>1 DEF CountInv, n
    <3>3. (\E k \in 1 .. n : counted[k].raw = r) <=> \E k \in 1 .. n + 1 : counted'[k].raw = r
      BY <1>3, <2>2
    <3> QED BY <1>5, <2>2, <3>1, <3>2, <3>3
  <2> QED BY <2>1, <2>2
<1>11. raw_at' <= options'.raw + 1 /\ exit' # "ok"
  BY <1>1, <1>2 DEF None
<1> QED BY <1>3, <1>7, <1>8, <1>9, <1>10, <1>11 DEF CountInv

\* raw_at cannot be read.
LEMMA UnreadStep ==
  ASSUME TypeOK, CountInv, CountUnreadRaw
  PROVE  CountInv'
<1>1. /\ MaxFiles \in Nat
      /\ options.raw \in 0 .. MaxFiles
      /\ raw_at \in 1 .. MaxFiles + 1
      /\ raw_at <= options.raw
      /\ raw_at \in 1 .. MaxFiles
  BY MaxFilesAssumption DEF TypeOK, Options, CountUnreadRaw, Report
<1>2. counted \in Seq([raw : 1 .. MaxFiles, compressed : 0 .. MaxFiles])
  BY DEF TypeOK
<1>3. /\ raw_at' = raw_at + 1
      /\ counted' = counted
      /\ unread' = unread \cup {<<"raw", raw_at>>}
      /\ UNCHANGED <<options, exit>>
      /\ exit = None
  <2>1. counted \o << >> = counted
    BY <1>2, ConcatEmptySeq
  <2> QED BY <2>1 DEF CountUnreadRaw, Report, Goto
<1>4. \A k \in 1 .. Len(counted) : counted[k].raw \in 1 .. MaxFiles /\ counted[k].raw < raw_at
  <2>1. \A k \in 1 .. Len(counted) : counted[k] \in [raw : 1 .. MaxFiles, compressed : 0 .. MaxFiles]
    BY <1>2, ElementOfSeq
  <2> QED BY <2>1 DEF CountInv
<1>5. \A r \in 1 .. MaxFiles :
        /\ <<"compressed", r>> \in unread' <=> <<"compressed", r>> \in unread
        /\ r # raw_at => (<<"raw", r>> \in unread' <=> <<"raw", r>> \in unread)
  BY <1>3
<1>6. ASSUME NEW k \in 1 .. Len(counted)
      PROVE  /\ counted[k].raw < raw_at + 1
             /\ counted[k].compressed =
                  IF /\ counted[k].raw <= options.compressed
                     /\ <<"compressed", counted[k].raw>> \notin unread'
                  THEN counted[k].raw ELSE 0
  <2>1. counted[k].raw < raw_at + 1
    BY <1>1, <1>4
  <2>2. <<"compressed", counted[k].raw>> \in unread' <=> <<"compressed", counted[k].raw>> \in unread
    BY <1>4, <1>5
  <2> QED BY <2>1, <2>2 DEF CountInv
<1>7. ASSUME NEW kind \in {"raw", "compressed"}, NEW r \in 1 .. MaxFiles, <<kind, r>> \in unread'
      PROVE  r < raw_at + 1
  <2>1. CASE r = raw_at
    BY <1>1, <2>1
  <2>2. CASE r # raw_at
    <3>1. r < raw_at
      BY <1>5, <1>7, <2>2 DEF CountInv
    <3> QED BY <1>1, <3>1
  <2> QED BY <2>1, <2>2
<1>8. ASSUME NEW r \in 1 .. raw_at
      PROVE  <<"raw", r>> \notin unread' <=> \E k \in 1 .. Len(counted) : counted[k].raw = r
  <2>1. CASE r = raw_at
    <3>1. <<"raw", r>> \in unread'
      BY <1>3, <2>1
    <3>2. \A k \in 1 .. Len(counted) : counted[k].raw # r
      BY <1>1, <1>4, <2>1
    <3> QED BY <3>1, <3>2
  <2>2. CASE r # raw_at
    <3>1. r \in 1 .. raw_at - 1 /\ r \in 1 .. MaxFiles
      BY <1>1, <2>2
    <3> QED BY <1>5, <2>2, <3>1 DEF CountInv
  <2> QED BY <2>1, <2>2
<1>9. raw_at' <= options'.raw + 1 /\ exit' # "ok" /\ raw_at' - 1 = raw_at
  BY <1>1, <1>3 DEF None
<1>10. \A j, k \in 1 .. Len(counted) : counted[j].raw = counted[k].raw => j = k
  BY DEF CountInv
<1> QED BY <1>3, <1>6, <1>7, <1>8, <1>9, <1>10 DEF CountInv

LEMMA CountStep == TypeOK /\ BackendInv /\ CountInv /\ [Next]_vars => CountInv'
<1> SUFFICES ASSUME TypeOK, BackendInv, CountInv, [Next]_vars PROVE CountInv'
  OBVIOUS
<1>1. MaxFiles \in Nat /\ options.raw \in 0 .. MaxFiles /\ raw_at \in 1 .. MaxFiles + 1
  BY MaxFilesAssumption DEF TypeOK, Options
<1>2. ASSUME UNCHANGED <<counter, options>>,
             exit' = "ok" /\ options.count => exit = "ok" \/ raw_at > options.raw
      PROVE  CountInv'
  <2>1. exit' = "ok" /\ options.count => raw_at = options.raw + 1
    BY <1>1, <1>2 DEF CountInv
  <2> QED BY <1>2, <2>1 DEF CountInv, counter
<1>3. CASE Dispatch
  BY <1>2, <1>3 DEF Dispatch, Goto, data
<1>4. CASE RunPipelineSteps
  <2>1. UNCHANGED <<counter, options>>
    BY <1>4
    DEF RunPipelineSteps, CheckRate, CheckExclusive, CheckFeatures, ReadFile, InputRead,
        StdinFails, AttachOnnx, AttachRpc, AttachCounter, RunPipeline, PrintOutput,
        PrintStats, Attach, Bail, Panic, Goto, Exit, data
  <2>2. step \notin {"main", "train", "count"}
    BY <1>4
    DEF RunPipelineSteps, CheckRate, CheckExclusive, CheckFeatures, ReadFile, InputRead,
        StdinFails, AttachOnnx, AttachRpc, AttachCounter, RunPipeline, PrintOutput,
        PrintStats, Bail, Panic, Goto, Exit
  <2>3. ~options.count
    BY <2>2 DEF BackendInv
  <2> QED BY <1>2, <2>1, <2>3
<1>5. CASE RunTokenCounterSteps
  <2>1. CASE Train
    BY <1>2, <2>1 DEF Train, Goto, Exit, None
  <2>2. CASE CountUnreadRaw
    BY <2>2, UnreadStep
  <2>3. CASE CountRawOnly
    <3>1. 0 \in 0 .. MaxFiles
      BY <1>1
    <3> QED BY <2>3, <3>1, BlockStep DEF CountRawOnly
  <2>4. CASE CountPair
    <3>1. raw_at \in 0 .. MaxFiles
      BY <1>1, <2>4 DEF CountPair, Report
    <3> QED BY <2>4, <3>1, BlockStep DEF CountPair
  <2>5. CASE CountPanic
    BY <1>2, <2>5 DEF CountPanic, Panic, Exit, None
  <2>6. CASE CountDone
    BY <1>2, <2>6 DEF CountDone, Exit, data
  <2> QED BY <1>5, <2>1, <2>2, <2>3, <2>4, <2>5, <2>6 DEF RunTokenCounterSteps
<1>6. CASE UNCHANGED vars
  BY <1>2, <1>6 DEF vars, data
<1> QED BY <1>3, <1>4, <1>5, <1>6 DEF Next

\* CountInv says it of positions; CountsPairUp of the sets of files.
LEMMA CountInvPairsUp == TypeOK /\ CountInv => CountsPairUp
<1> SUFFICES ASSUME TypeOK, CountInv PROVE CountsPairUp
  OBVIOUS
<1> DEFINE raws == [k \in DOMAIN counted |-> counted[k].raw]
           unreadable(kind) == {file[2] : file \in {file \in unread : file[1] = kind}}
           compared == {counted[k].compressed : k \in DOMAIN counted} \ {0}
<1>1. counted \in Seq([raw : 1 .. MaxFiles, compressed : 0 .. MaxFiles])
  BY DEF TypeOK
<1>2. /\ DOMAIN counted = 1 .. Len(counted)
      /\ \A k \in 1 .. Len(counted) : counted[k] \in [raw : 1 .. MaxFiles, compressed : 0 .. MaxFiles]
  BY <1>1, LenProperties, ElementOfSeq
<1>3. ASSUME NEW kind \in {"raw", "compressed"}, NEW r
      PROVE  r \in unreadable(kind) <=> <<kind, r>> \in unread
  <2>1. \A file \in unread : file = <<file[1], file[2]>>
    BY DEF TypeOK
  <2>2. ASSUME r \in unreadable(kind) PROVE <<kind, r>> \in unread
    <3>1. PICK file \in unread : file[1] = kind /\ file[2] = r
      BY <2>2
    <3>2. file = <<kind, r>>
      BY <2>1, <3>1
    <3> QED BY <3>1, <3>2
  <2>3. ASSUME <<kind, r>> \in unread PROVE r \in unreadable(kind)
    <3>1. <<kind, r>>[1] = kind /\ <<kind, r>>[2] = r
      OBVIOUS
    <3> QED BY <2>3, <3>1
  <2> QED BY <2>2, <2>3
<1>4. \A k \in DOMAIN counted : counted[k].compressed \in {0, counted[k].raw}
  BY <1>2 DEF CountInv
<1>5. IsInjective(raws)
  <2>1. \A j, k \in DOMAIN counted : counted[j].raw = counted[k].raw => j = k
    BY <1>2 DEF CountInv
  <2> QED BY <2>1 DEF IsInjective
<1>6. Range(raws) = {counted[k].raw : k \in DOMAIN counted}
  BY DEF Range
<1> HIDE DEF raws, unreadable, compared
<1>7. ASSUME exit = "ok", options.count
      PROVE  /\ Range(raws) = (1 .. options.raw) \ unreadable("raw")
             /\ compared = (Range(raws) \cap 1 .. options.compressed) \ unreadable("compressed")
  <2>1. /\ raw_at = options.raw + 1
        /\ options.raw \in Nat /\ options.compressed \in Nat /\ MaxFiles \in Nat
        /\ options.raw <= MaxFiles
    BY <1>7, MaxFilesAssumption DEF CountInv, TypeOK, Options
  <2>2. \A r \in 1 .. options.raw :
          <<"raw", r>> \notin unread <=> \E k \in DOMAIN counted : counted[k].raw = r
    <3>1. 1 .. raw_at - 1 = 1 .. options.raw
      BY <2>1
    <3> QED BY <1>2, <3>1 DEF CountInv
  <2>3. \A k \in DOMAIN counted : counted[k].raw \in 1 .. options.raw
    <3> SUFFICES ASSUME NEW k \in DOMAIN counted PROVE counted[k].raw \in 1 .. options.raw
      OBVIOUS
    <3>1. counted[k].raw < raw_at /\ counted[k].raw \in 1 .. MaxFiles
      BY <1>2 DEF CountInv
    <3> QED BY <2>1, <3>1
  <2>4. Range(raws) = (1 .. options.raw) \ unreadable("raw")
    <3>1. \A r : r \in unreadable("raw") <=> <<"raw", r>> \in unread
      BY <1>3
    <3>2. \A r : r \in Range(raws) <=> \E k \in DOMAIN counted : counted[k].raw = r
      BY <1>6
    <3>3. \A r : r \in Range(raws) => r \in 1 .. options.raw
      BY <2>3, <3>2
    <3> QED BY <2>2, <3>1, <3>2, <3>3
  <2>5. ASSUME NEW r
        PROVE  r \in compared
                 <=> r \in (Range(raws) \cap 1 .. options.compressed) \ unreadable("compressed")
    <3>1. ASSUME r \in compared
          PROVE  r \in (Range(raws) \cap 1 .. options.compressed) \ unreadable("compressed")
      <4>1. PICK k \in DOMAIN counted : r = counted[k].compressed /\ r # 0
        BY <3>1 DEF compared
      <4>2. /\ r = counted[k].raw
            /\ r <= options.compressed
            /\ <<"compressed", r>> \notin unread
        BY <1>2, <4>1 DEF CountInv
      <4>3. r \in 1 .. options.compressed
        BY <1>2, <2>1, <4>2
      <4> QED BY <1>3, <1>6, <4>2, <4>3
    <3>2. ASSUME r \in (Range(raws) \cap 1 .. options.compressed) \ unreadable("compressed")
          PROVE  r \in compared
      <4>1. PICK k \in DOMAIN counted : r = counted[k].raw
        BY <1>6, <3>2
      <4>2. r <= options.compressed /\ <<"compressed", r>> \notin unread /\ r # 0
        BY <1>3, <2>1, <3>2
      <4>3. counted[k].compressed = r
        BY <1>2, <4>1, <4>2 DEF CountInv
      <4> QED BY <4>2, <4>3 DEF compared
    <3> QED BY <3>1, <3>2
  <2>6. compared = (Range(raws) \cap 1 .. options.compressed) \ unreadable("compressed")
    BY <2>5
  <2> QED BY <2>4, <2>6
<1> QED BY <1>4, <1>5, <1>7 DEF CountsPairUp, raws, unreadable, compared

\* Each raw file, and each compressed file of one that was counted, is counted
\* once with its own partner or named as unread, whichever reads fail.
THEOREM CountsPairUpCorrect == Spec => []CountsPairUp
<1>1. ASSUME Init PROVE CountInv
  <2>1. options.raw \in Nat
    BY <1>1, MaxFilesAssumption DEF Init, Options
  <2> QED BY <1>1, <2>1 DEF Init, CountInv, None
<1> QED BY <1>1, CountStep, CountInvPairsUp, TypeCorrect, BackendsCorrect, PTL DEF Spec

==============================================================================
