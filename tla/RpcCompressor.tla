---------------------------- MODULE RpcCompressor ----------------------------
(***************************************************************************)
(* Stage 2, the HTTP backend: crates/ltk-core/src/rpc.rs when threads      *)
(* share one compressor (an Arc<dyn SemanticCompressor>, Send + Sync).     *)
(*                                                                         *)
(* The compressor owns a current-thread tokio runtime.  Of the threads     *)
(* inside block_on one at a time holds its core, that is, polls sockets    *)
(* and wakes whoever a reply has come for; the others poll their own       *)
(* future when woken, and one of them takes the core when it is put back.  *)
(* A thread is plain, a blocking thread of an application's runtime        *)
(* (spawn_blocking), or one that runs that runtime's tasks (async).        *)
(*                                                                         *)
(* tokio, hpx and the daemon are external.  posts and outcome are history. *)
(***************************************************************************)
EXTENDS Naturals

CONSTANTS
  Threads,
  None,      \* the core is not held
  MaxCalls   \* bound: compress calls per thread

Contexts == {"plain", "blocking", "async"}

\* How the one HTTP exchange of a call may end: a 2xx with the field
\* "compressed", another status, a body without it, no response at all.
Replies == {"ok", "status", "malformed", "unreachable"}

ASSUME NoneAssumption == None \notin Threads
ASSUME MaxCallsAssumption == MaxCalls \in Nat

VARIABLES
  runtime,  \* the owned runtime exists
  core,     \* the thread that drives it, or None
  context,  \* per thread: where it runs
  pc,       \* per thread: holding its Arc, calling (inside block_on), gone or panicked
  request,  \* per thread: unsent, sent, or the reply on its socket
  woken,    \* per thread: its future has been told of the reply
  calls,    \* per thread: calls started
  posts,    \* history: requests sent by the current call
  outcome   \* history: how the last call ended

vars == <<runtime, core, context, pc, request, woken, calls, posts, outcome>>

\* Handle::try_current().is_ok(): tokio enters its handle on the threads that
\* run tasks and on those of the blocking pool.
HasHandle(t) == context[t] \in {"blocking", "async"}

\* Where block_on, or dropping a runtime, panics.
MayNotBlock(t) == context[t] = "async"

------------------------------------------------------------------------------
Init ==
  /\ runtime = TRUE
  /\ core = None
  /\ context \in [Threads -> Contexts]
  /\ pc = [t \in Threads |-> "holding"]
  /\ request = [t \in Threads |-> "unsent"]
  /\ woken = [t \in Threads |-> FALSE]
  /\ calls = [t \in Threads |-> 0]
  /\ posts = [t \in Threads |-> 0]
  /\ outcome = [t \in Threads |-> "none"]

\* A call starts; it goes on at next, and has ended already if it is refused.
Begin(t, next, result) ==
  /\ pc[t] = "holding"
  /\ calls[t] < MaxCalls
  /\ pc' = [pc EXCEPT ![t] = next]
  /\ request' = [request EXCEPT ![t] = "unsent"]
  /\ woken' = [woken EXCEPT ![t] = FALSE]
  /\ calls' = [calls EXCEPT ![t] = @ + 1]
  /\ posts' = [posts EXCEPT ![t] = 0]
  /\ outcome' = [outcome EXCEPT ![t] = result]
  /\ UNCHANGED <<runtime, core, context>>

\* Mutant: block_on is entered without looking for a runtime.
Call_Unchecked(t) ==
  IF MayNotBlock(t) THEN Begin(t, "panicked", "none") ELSE Begin(t, "calling", "none")

Call(t) ==
  \/ HasHandle(t) /\ Begin(t, "holding", "refused")
  \/ ~HasHandle(t) /\ Begin(t, "calling", "none")

\* block_on takes the core if nobody holds it.
TakeCore(t) ==
  /\ pc[t] = "calling"
  /\ core = None
  /\ core' = t
  /\ UNCHANGED <<runtime, context, pc, request, woken, calls, posts, outcome>>

\* Mutant: the runtime sits in a mutex held for the whole call.
Post_Exclusive(t) ==
  /\ pc[t] = "calling"
  /\ core = t
  /\ request[t] = "unsent"
  /\ request' = [request EXCEPT ![t] = "sent"]
  /\ posts' = [posts EXCEPT ![t] = @ + 1]
  /\ UNCHANGED <<runtime, core, context, pc, woken, calls, outcome>>

\* The first poll of the future sends the request, core or no core.
Post(t) ==
  /\ pc[t] = "calling"
  /\ request[t] = "unsent"
  /\ request' = [request EXCEPT ![t] = "sent"]
  /\ posts' = [posts EXCEPT ![t] = @ + 1]
  /\ UNCHANGED <<runtime, core, context, pc, woken, calls, outcome>>

\* The holder of the core finds a reply on some socket and wakes its thread.
Drive(t) ==
  /\ core = t
  /\ \E u \in Threads :
       /\ request[u] \in Replies
       /\ ~woken[u]
       /\ woken' = [woken EXCEPT ![u] = TRUE]
  /\ UNCHANGED <<runtime, core, context, pc, request, calls, posts, outcome>>

\* Mutants: the reply itself is the outcome; the status is not looked at.
Outcome_Raw(reply) == reply
Outcome_AnyStatus(reply) == IF reply \in {"ok", "status"} THEN "ok" ELSE "err"

\* send, error_for_status and json: one error each, and no retry.
Outcome(reply) == IF reply = "ok" THEN "ok" ELSE "err"

\* The future is ready: block_on puts the core back and returns.
Return(t) ==
  /\ pc[t] = "calling"
  /\ woken[t]
  /\ pc' = [pc EXCEPT ![t] = "holding"]
  /\ core' = IF core = t THEN None ELSE core
  /\ outcome' = [outcome EXCEPT ![t] = Outcome(request[t])]
  /\ UNCHANGED <<runtime, context, request, woken, calls, posts>>

\* The daemon, or the network, answers a request: at any time, in any order,
\* or never.
Reply(t) ==
  /\ request[t] = "sent"
  /\ \E reply \in Replies : request' = [request EXCEPT ![t] = reply]
  /\ UNCHANGED <<runtime, core, context, pc, woken, calls, posts, outcome>>

\* A thread gives up its Arc (Pipeline::run does, however it returns); the
\* last one drops the compressor and with it the runtime.
Last(t) == \A u \in Threads \ {t} : pc[u] \in {"gone", "panicked"}
Drop(t) ==
  /\ pc[t] = "holding"
  /\ runtime' = ~Last(t)
  /\ pc' = [pc EXCEPT ![t] = IF Last(t) /\ MayNotBlock(t) THEN "panicked" ELSE "gone"]
  /\ UNCHANGED <<core, context, request, woken, calls, posts, outcome>>

\* What a thread inside block_on does.
Advance(t) == TakeCore(t) \/ Post(t) \/ Drive(t) \/ Return(t)

Next == \E t \in Threads : Call(t) \/ Advance(t) \/ Reply(t) \/ Drop(t)

Spec == Init /\ [][Next]_vars

\* The scheduler runs every thread that can move; the daemon owes nothing.
Fairness == \A t \in Threads : WF_vars(Advance(t))
FairSpec == Spec /\ Fairness

------------------------------------------------------------------------------
\* Properties.

TypeOK ==
  /\ runtime \in BOOLEAN
  /\ core \in Threads \cup {None}
  /\ context \in [Threads -> Contexts]
  /\ pc \in [Threads -> {"holding", "calling", "gone", "panicked"}]
  /\ request \in [Threads -> {"unsent", "sent"} \cup Replies]
  /\ woken \in [Threads -> BOOLEAN]
  /\ calls \in [Threads -> 0 .. MaxCalls]
  /\ posts \in [Threads -> Nat]
  /\ outcome \in [Threads -> {"none", "ok", "err", "refused"}]

\* compress "returns a clean LtkError::Rpc instead of panicking": the one panic
\* left is that of a task that drops the last handle, runtime included.
OnlyLastDropPanics ==
  \A t \in Threads : pc[t] = "panicked" => MayNotBlock(t) /\ ~runtime /\ Last(t)

\* A call sends at most one request, whatever comes back; it succeeds only
\* with a good reply to its own request, and a refused call has sent nothing.
AnswersAreReplies ==
  \A t \in Threads :
    /\ posts[t] <= 1
    /\ outcome[t] = "ok" => posts[t] = 1 /\ request[t] = "ok"
    /\ outcome[t] = "refused" => posts[t] = 0

\* Threads do not wait for each other's replies: a call ends unless its own
\* request is never answered, although a call that never ends may be the one
\* that drives the runtime.
CallsEnd ==
  \A t \in Threads :
    pc[t] = "calling" ~> (pc[t] # "calling" \/ [](request[t] = "sent"))

\* The module's advice: "Embed ltk-core in an async app by spawning the
\* pipeline on a blocking thread", where compress must then work.
BlockingThreadsServed ==
  \A t \in Threads : context[t] = "blocking" => outcome[t] # "refused"

==============================================================================
