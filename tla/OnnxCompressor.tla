--------------------------- MODULE OnnxCompressor ----------------------------
(***************************************************************************)
(* Stage 2, the in-process backend: lazy initialisation and locking in     *)
(* crates/ltk-core/src/onnx.rs when several threads share compressors      *)
(* (SemanticCompressor is Send + Sync and the pipeline holds it in an      *)
(* Arc).                                                                   *)
(*                                                                         *)
(* A process has one static ENVIRONMENT (a OnceLock); each compressor has  *)
(* a tokenizer (a OnceLock) and a session (a Mutex<Option<..>>).  A step   *)
(* is what one thread does between two points where another can be seen:   *)
(* a get, a load, a get_or_init, a lock.  What is computed on the thread's *)
(* own data (tensors, softmax, selection, decoding) is part of the step    *)
(* before it or of Finish.                                                 *)
(*                                                                         *)
(* loads and outcome are history.                                          *)
(***************************************************************************)
EXTENDS Naturals, FiniteSets

CONSTANTS
  Threads,
  Compressors,
  None,        \* an empty OnceLock or Option, a free mutex
  MayFail,     \* the external operations that may return an error
  MaxCalls     \* bound: compress calls per thread

External == {"tokenizer", "encode", "environment", "session", "inference", "output"}

ASSUME NoneAssumption == None \notin Threads
ASSUME MayFailAssumption == MayFail \subseteq External
ASSUME MaxCallsAssumption == MaxCalls \in Nat

VARIABLES
  environment,  \* static ENVIRONMENT: None, or the thread whose value it holds
  runtime,      \* ONNX Runtime's own: whether an environment exists in the process
  tokenizer,    \* per compressor: None, or the thread whose value it holds
  session,      \* per compressor: whether the Option is Some
  lock,         \* per compressor: the thread holding the session mutex, or None
  poisoned,     \* per compressor: the mutex's poison flag
  has_logits,   \* per compressor: its model file has an output named "logits"
  pc, on,       \* per thread: where it is, and in which compressor
  calls,        \* per thread: calls started
  loads,        \* history: sessions loaded per compressor
  outcome       \* history: how each thread's last call ended

shared == <<environment, runtime, tokenizer, session, lock, poisoned, has_logits>>
vars == <<shared, pc, on, calls, loads, outcome>>

\* The steps made holding the session mutex.
Locked == {"env_get", "env_build", "env_set", "session_load", "run"}
Running == {"tokenizer_get", "tokenizer_load", "tokenizer_set", "encode", "lock", "finish"}
             \cup Locked

------------------------------------------------------------------------------
\* A thread goes on inside its call.
Goto(t, from, to) ==
  /\ pc[t] = from
  /\ pc' = [pc EXCEPT ![t] = to]
  /\ UNCHANGED <<on, calls, outcome>>

\* A thread returns from compress with result r.
Return(t, from, r) ==
  /\ pc[t] = from
  /\ pc' = [pc EXCEPT ![t] = "idle"]
  /\ outcome' = [outcome EXCEPT ![t] = r]
  /\ UNCHANGED <<on, calls>>

\* Mutant: an error path that leaks the guard.
Unlock_Leaked(t) == UNCHANGED lock

\* The guard is dropped.
Unlock(t) == lock' = [lock EXCEPT ![on[t]] = None]

Init ==
  /\ environment = None
  /\ runtime = FALSE
  /\ tokenizer = [c \in Compressors |-> None]
  /\ session = [c \in Compressors |-> FALSE]
  /\ lock = [c \in Compressors |-> None]
  /\ poisoned = [c \in Compressors |-> FALSE]
  /\ has_logits \in [Compressors -> BOOLEAN]
  /\ pc = [t \in Threads |-> "idle"]
  /\ on \in [Threads -> Compressors]
  /\ calls = [t \in Threads |-> 0]
  /\ loads = [c \in Compressors |-> 0]
  /\ outcome = [t \in Threads |-> "none"]

\* compress(text) with a non-empty text; an empty one returns at once.
Call(t) ==
  /\ pc[t] = "idle"
  /\ calls[t] < MaxCalls
  /\ \E c \in Compressors : on' = [on EXCEPT ![t] = c]
  /\ calls' = [calls EXCEPT ![t] = @ + 1]
  /\ pc' = [pc EXCEPT ![t] = "tokenizer_get"]
  /\ outcome' = [outcome EXCEPT ![t] = "none"]
  /\ UNCHANGED <<shared, loads>>

------------------------------------------------------------------------------
\* tokenizer(): get, else load, then get_or_init.

TokenizerGet(t) ==
  /\ Goto(t, "tokenizer_get", IF tokenizer[on[t]] = None THEN "tokenizer_load" ELSE "encode")
  /\ UNCHANGED <<shared, loads>>

TokenizerLoad(t) ==
  /\ \/ Goto(t, "tokenizer_load", "tokenizer_set")
     \/ "tokenizer" \in MayFail /\ Return(t, "tokenizer_load", "err")
  /\ UNCHANGED <<shared, loads>>

\* The first writer wins; a later one finds the stored value.
TokenizerSet(t) ==
  /\ Goto(t, "tokenizer_set", "encode")
  /\ tokenizer' = [tokenizer EXCEPT ![on[t]] = IF @ = None THEN t ELSE @]
  /\ UNCHANGED <<environment, runtime, session, lock, poisoned, has_logits, loads>>

\* Encoding may fail, or give no token at all.
Encode(t) ==
  /\ \/ Goto(t, "encode", "lock")
     \/ Return(t, "encode", "ok")
     \/ "encode" \in MayFail /\ Return(t, "encode", "err")
  /\ UNCHANGED <<shared, loads>>

------------------------------------------------------------------------------
\* run_inference(): all of it under the session mutex.

\* Mutant: the poison flag is ignored (into_inner on the error).
Acquire_IgnorePoison(t) ==
  /\ lock[on[t]] = None
  /\ Goto(t, "lock", IF session[on[t]] THEN "run" ELSE "env_get")
  /\ lock' = [lock EXCEPT ![on[t]] = t]
  /\ UNCHANGED <<environment, runtime, tokenizer, session, poisoned, has_logits, loads>>

\* lock() waits for the mutex; the session is loaded if it is not there yet.
Acquire(t) ==
  /\ lock[on[t]] = None
  /\ ~poisoned[on[t]]
  /\ Goto(t, "lock", IF session[on[t]] THEN "run" ELSE "env_get")
  /\ lock' = [lock EXCEPT ![on[t]] = t]
  /\ UNCHANGED <<environment, runtime, tokenizer, session, poisoned, has_logits, loads>>

\* lock() on a poisoned mutex: the guard inside the error is dropped.
AcquirePoisoned(t) ==
  /\ lock[on[t]] = None
  /\ poisoned[on[t]]
  /\ Return(t, "lock", "err")
  /\ UNCHANGED <<shared, loads>>

EnvironmentGet(t) ==
  /\ Goto(t, "env_get", IF environment = None THEN "env_build" ELSE "session_load")
  /\ UNCHANGED <<shared, loads>>

\* ort::init().build(): ONNX Runtime rejects a second environment in a process.
EnvironmentBuild(t) ==
  /\ \/ /\ ~runtime
        /\ runtime' = TRUE
        /\ Goto(t, "env_build", "env_set")
        /\ UNCHANGED lock
     \/ /\ runtime \/ "environment" \in MayFail
        /\ Return(t, "env_build", "err")
        /\ Unlock(t)
        /\ UNCHANGED runtime
  /\ UNCHANGED <<environment, tokenizer, session, poisoned, has_logits, loads>>

EnvironmentSet(t) ==
  /\ Goto(t, "env_set", "session_load")
  /\ environment' = IF environment = None THEN t ELSE environment
  /\ UNCHANGED <<runtime, tokenizer, session, lock, poisoned, has_logits, loads>>

\* Mutant: the new session is used but never stored.
SessionLoad_NotStored(t) ==
  /\ Goto(t, "session_load", "run")
  /\ loads' = [loads EXCEPT ![on[t]] = @ + 1]
  /\ UNCHANGED shared

SessionLoad(t) ==
  /\ \/ /\ Goto(t, "session_load", "run")
        /\ session' = [session EXCEPT ![on[t]] = TRUE]
        /\ loads' = [loads EXCEPT ![on[t]] = @ + 1]
        /\ UNCHANGED lock
     \/ /\ "session" \in MayFail
        /\ Return(t, "session_load", "err")
        /\ Unlock(t)
        /\ UNCHANGED <<session, loads>>
  /\ UNCHANGED <<environment, runtime, tokenizer, poisoned, has_logits>>

\* Mutant: a failed inference unwinds (unwrap) instead of returning.
Run_Unwrap(t) ==
  /\ \/ has_logits[on[t]] /\ Goto(t, "run", "finish") /\ UNCHANGED poisoned
     \/ /\ ~has_logits[on[t]] \/ "inference" \in MayFail
        /\ Goto(t, "run", "panicked")
        /\ poisoned' = [poisoned EXCEPT ![on[t]] = TRUE]
  /\ Unlock(t)
  /\ UNCHANGED <<environment, runtime, tokenizer, session, has_logits, loads>>

\* session.run, then outputs["logits"], which panics when there is no such
\* output; the guard is dropped by the return or by the unwinding.
Run(t) ==
  /\ \/ has_logits[on[t]] /\ Goto(t, "run", "finish") /\ UNCHANGED poisoned
     \/ "inference" \in MayFail /\ Return(t, "run", "err") /\ UNCHANGED poisoned
     \/ /\ ~has_logits[on[t]]
        /\ Goto(t, "run", "panicked")
        /\ poisoned' = [poisoned EXCEPT ![on[t]] = TRUE]
  /\ Unlock(t)
  /\ UNCHANGED <<environment, runtime, tokenizer, session, has_logits, loads>>

\* Mutant: logits of the wrong shape give a third kind of answer.
Finish_Partial(t) ==
  /\ \/ Return(t, "finish", "ok")
     \/ "output" \in MayFail /\ Return(t, "finish", "partial")
  /\ UNCHANGED <<shared, loads>>

\* The shape checks, the selection and the decoding, on the thread's own data.
Finish(t) ==
  /\ \/ Return(t, "finish", "ok")
     \/ "output" \in MayFail /\ Return(t, "finish", "err")
  /\ UNCHANGED <<shared, loads>>

------------------------------------------------------------------------------
\* What a thread inside a call does next.
Advance(t) ==
  \/ TokenizerGet(t) \/ TokenizerLoad(t) \/ TokenizerSet(t) \/ Encode(t)
  \/ Acquire(t) \/ AcquirePoisoned(t)
  \/ EnvironmentGet(t) \/ EnvironmentBuild(t) \/ EnvironmentSet(t)
  \/ SessionLoad(t) \/ Run(t) \/ Finish(t)

Next == \E t \in Threads : Call(t) \/ Advance(t)

Spec == Init /\ [][Next]_vars

\* The scheduler runs every thread that can move.
Fairness == \A t \in Threads : WF_vars(Advance(t))
FairSpec == Spec /\ Fairness

------------------------------------------------------------------------------
\* Properties.

TypeOK ==
  /\ environment \in Threads \cup {None}
  /\ runtime \in BOOLEAN
  /\ tokenizer \in [Compressors -> Threads \cup {None}]
  /\ session \in [Compressors -> BOOLEAN]
  /\ lock \in [Compressors -> Threads \cup {None}]
  /\ poisoned \in [Compressors -> BOOLEAN]
  /\ has_logits \in [Compressors -> BOOLEAN]
  /\ pc \in [Threads -> Running \cup {"idle", "panicked"}]
  /\ on \in [Threads -> Compressors]
  /\ calls \in [Threads -> 0 .. MaxCalls]
  /\ loads \in [Compressors -> Nat]
  /\ outcome \in [Threads -> {"none", "ok", "err"}]

\* A session is used by one thread at a time, and the mutex is held exactly by
\* a thread inside run_inference: no return, error or panic leaves it locked.
MutexHeld ==
  \A t \in Threads, c \in Compressors :
    lock[c] = t <=> pc[t] \in Locked /\ on[t] = c

\* The model file is loaded at most once per compressor ("lazy-load the ONNX
\* session (once)"), whatever threads race for the first call and whatever
\* failed before.
SessionLoadedOnce ==
  \A c \in Compressors : loads[c] <= 1 /\ (session[c] <=> loads[c] = 1)

\* After a panic inside the mutex no thread runs the session again.
PoisonedIsUnused ==
  \A t \in Threads : pc[t] \in Locked => ~poisoned[on[t]]

\* Lazy loading, the mutex, its poisoning and every error path together are a
\* session that is loaded once, had by one thread at a time and broken only by
\* a model without logits: after an error a later call may try again.
Session == INSTANCE LazySession WITH holder <- lock, broken <- poisoned
ImplementsLazySession == Session!Spec

\* Every call ends: no thread waits forever for a session.
CallsEnd == \A t \in Threads : (pc[t] \in Running) ~> (pc[t] \in {"idle", "panicked"})

\* The comment of environment(): a losing racer reuses the winner's environment.
\* So if nothing else fails, no call does.
LosingRacerReuses ==
  MayFail = {} /\ (\A c \in Compressors : has_logits[c])
    => \A t \in Threads : outcome[t] # "err"

==============================================================================
