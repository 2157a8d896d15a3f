------------------------- MODULE RpcCompressorProofs --------------------------
(***************************************************************************)
(* Theorems about RpcCompressor for every set of threads, in any contexts, *)
(* and any number of calls.                                                *)
(***************************************************************************)
EXTENDS RpcCompressor, TLAPS

------------------------------------------------------------------------------
\* Type correctness.

\* Every step keeps every variable in its domain.
LEMMA TypeStep == TypeOK /\ [Next]_vars => TypeOK'
<1> SUFFICES ASSUME TypeOK, [Next]_vars PROVE TypeOK'
  OBVIOUS
<1>1. ASSUME NEW t \in Threads, NEW next \in {"holding", "calling"},
             NEW result \in {"none", "refused"}, Begin(t, next, result)
      PROVE  TypeOK'
  BY <1>1, MaxCallsAssumption DEF Begin, TypeOK
<1>2. ASSUME NEW t \in Threads, Call(t) PROVE TypeOK'
  BY <1>1, <1>2 DEF Call
<1>3. ASSUME NEW t \in Threads, TakeCore(t) PROVE TypeOK'
  BY <1>3 DEF TakeCore, TypeOK
<1>4. ASSUME NEW t \in Threads, Post(t) PROVE TypeOK'
  BY <1>4 DEF Post, TypeOK
<1>5. ASSUME NEW t \in Threads, Drive(t) PROVE TypeOK'
  BY <1>5 DEF Drive, TypeOK
<1>6. ASSUME NEW t \in Threads, Return(t) PROVE TypeOK'
  BY <1>6 DEF Return, Outcome, TypeOK
<1>7. ASSUME NEW t \in Threads, Reply(t) PROVE TypeOK'
  BY <1>7 DEF Reply, TypeOK
<1>8. ASSUME NEW t \in Threads, Drop(t) PROVE TypeOK'
  BY <1>8 DEF Drop, TypeOK
<1>9. CASE UNCHANGED vars
  BY <1>9 DEF vars, TypeOK
<1> QED BY <1>2, <1>3, <1>4, <1>5, <1>6, <1>7, <1>8, <1>9 DEF Next, Advance

\* Every variable of the model keeps its domain.
THEOREM TypeCorrect == Spec => []TypeOK
<1>1. ASSUME Init PROVE TypeOK
  <2>1. calls \in [Threads -> 0 .. MaxCalls] /\ posts \in [Threads -> Nat]
    BY <1>1, MaxCallsAssumption DEF Init
  <2> QED BY <1>1, <2>1 DEF Init, TypeOK
<1> QED BY <1>1, TypeStep, PTL DEF Spec

------------------------------------------------------------------------------
\* The handles and the runtime.

Holders == {t \in Threads : pc[t] \in {"holding", "calling"}}

\* The runtime is there as long as a thread has its Arc: no call is left inside
\* block_on of a runtime that another thread has dropped.
RuntimeOutlivesHandles == \A t \in Holders : runtime

\* compress looks for a runtime before it enters block_on, so it never does so
\* on a thread that tokio has entered, and such a thread sends nothing.
NeverBlocksARuntime == \A t \in Threads : HasHandle(t) => pc[t] # "calling" /\ posts[t] = 0

\* The core is held by a thread inside block_on: none returns or ends with it.
CoreIsDriven == core # None => core \in Threads /\ pc[core] = "calling"

HandleInv == /\ OnlyLastDropPanics
             /\ RuntimeOutlivesHandles
             /\ NeverBlocksARuntime
             /\ CoreIsDriven

\* The two paths of Call: what changes of the state that HandleInv speaks of.
LEMMA CallShape ==
  ASSUME TypeOK, NEW t \in Threads, Call(t)
  PROVE  /\ pc[t] = "holding"
         /\ \/ pc' = pc /\ HasHandle(t)
            \/ pc' = [pc EXCEPT ![t] = "calling"] /\ ~HasHandle(t)
         /\ posts' = [posts EXCEPT ![t] = 0]
         /\ UNCHANGED <<runtime, core, context>>
BY DEF Call, Begin, TypeOK

LEMMA HandleStep == TypeOK /\ HandleInv /\ [Next]_vars => HandleInv'
<1> SUFFICES ASSUME TypeOK, HandleInv, [Next]_vars PROVE HandleInv'
  OBVIOUS
<1>1. /\ pc \in [Threads -> {"holding", "calling", "gone", "panicked"}]
      /\ posts \in [Threads -> Nat]
      /\ core \in Threads \cup {None}
  BY DEF TypeOK
<1> USE DEF HandleInv, OnlyLastDropPanics, RuntimeOutlivesHandles, NeverBlocksARuntime,
            CoreIsDriven, Holders, HasHandle, MayNotBlock, Last
<1>2. ASSUME NEW t \in Threads, Call(t) PROVE HandleInv'
  BY <1>1, <1>2, CallShape
<1>3. ASSUME NEW t \in Threads, TakeCore(t) PROVE HandleInv'
  BY <1>1, <1>3 DEF TakeCore
<1>4. ASSUME NEW t \in Threads, Post(t) PROVE HandleInv'
  BY <1>1, <1>4 DEF Post
<1>5. ASSUME NEW t \in Threads, Drive(t) PROVE HandleInv'
  BY <1>1, <1>5 DEF Drive
<1>6. ASSUME NEW t \in Threads, Return(t) PROVE HandleInv'
  BY <1>1, <1>6, NoneAssumption DEF Return
<1>7. ASSUME NEW t \in Threads, Reply(t) PROVE HandleInv'
  BY <1>1, <1>7 DEF Reply
<1>8. ASSUME NEW t \in Threads, Drop(t) PROVE HandleInv'
  BY <1>1, <1>8 DEF Drop
<1>9. CASE UNCHANGED vars
  BY <1>9 DEF vars
<1> HIDE DEF HandleInv
<1> QED BY <1>2, <1>3, <1>4, <1>5, <1>6, <1>7, <1>8, <1>9 DEF Next, Advance

LEMMA HandlesCorrect == Spec => []HandleInv
<1>1. Init => HandleInv
  BY DEF Init, HandleInv, OnlyLastDropPanics, RuntimeOutlivesHandles,
         NeverBlocksARuntime, CoreIsDriven
<1> QED BY <1>1, HandleStep, TypeCorrect, PTL DEF Spec

\* The one panic left is that of a task that drops the last handle.
THEOREM OnlyTheLastDropPanics == Spec => []OnlyLastDropPanics
<1> QED BY HandlesCorrect, PTL DEF HandleInv

\* No call outlives the runtime it runs on, none is made from inside another
\* runtime, and the core of the runtime is never lost.
THEOREM RuntimeIsSound ==
  Spec => [](RuntimeOutlivesHandles /\ NeverBlocksARuntime /\ CoreIsDriven)
<1> QED BY HandlesCorrect, PTL DEF HandleInv

------------------------------------------------------------------------------
\* Requests and answers.

\* How the state of a call's request decides what the history can be.
RequestInv ==
  \A t \in Threads :
    /\ posts[t] = IF request[t] = "unsent" THEN 0 ELSE 1
    /\ woken[t] => request[t] \in Replies
    /\ pc[t] = "calling" => outcome[t] = "none"
    /\ outcome[t] = "ok" => request[t] = "ok"
    /\ outcome[t] = "refused" => request[t] = "unsent"

LEMMA RequestStep == TypeOK /\ RequestInv /\ [Next]_vars => RequestInv'
<1> SUFFICES ASSUME TypeOK, RequestInv, [Next]_vars PROVE RequestInv'
  OBVIOUS
<1>1. /\ pc \in [Threads -> {"holding", "calling", "gone", "panicked"}]
      /\ request \in [Threads -> {"unsent", "sent"} \cup Replies]
      /\ woken \in [Threads -> BOOLEAN]
      /\ posts \in [Threads -> Nat]
      /\ outcome \in [Threads -> {"none", "ok", "err", "refused"}]
  BY DEF TypeOK
<1> USE DEF RequestInv, Replies
<1>2. ASSUME NEW t \in Threads, Call(t) PROVE RequestInv'
  BY <1>1, <1>2 DEF Call, Begin
<1>3. ASSUME NEW t \in Threads, TakeCore(t) PROVE RequestInv'
  BY <1>1, <1>3 DEF TakeCore
<1>4. ASSUME NEW t \in Threads, Post(t) PROVE RequestInv'
  BY <1>1, <1>4 DEF Post
<1>5. ASSUME NEW t \in Threads, Drive(t) PROVE RequestInv'
  BY <1>1, <1>5 DEF Drive
<1>6. ASSUME NEW t \in Threads, Return(t) PROVE RequestInv'
  BY <1>1, <1>6 DEF Return, Outcome
<1>7. ASSUME NEW t \in Threads, Reply(t) PROVE RequestInv'
  BY <1>1, <1>7 DEF Reply
<1>8. ASSUME NEW t \in Threads, Drop(t) PROVE RequestInv'
  BY <1>1, <1>8 DEF Drop
<1>9. CASE UNCHANGED vars
  BY <1>9 DEF vars
<1> HIDE DEF RequestInv
<1> QED BY <1>2, <1>3, <1>4, <1>5, <1>6, <1>7, <1>8, <1>9 DEF Next, Advance

\* A call sends at most one request, succeeds only with a good reply to it, and
\* sends nothing when it is refused, whatever the other threads' replies do.
THEOREM AnswersAreTheReplies == Spec => []AnswersAreReplies
<1>1. Init => RequestInv
  BY DEF Init, RequestInv
<1>2. ASSUME RequestInv PROVE AnswersAreReplies
  <2> SUFFICES ASSUME NEW t \in Threads
               PROVE  /\ posts[t] <= 1
                      /\ outcome[t] = "ok" => posts[t] = 1 /\ request[t] = "ok"
                      /\ outcome[t] = "refused" => posts[t] = 0
    BY DEF AnswersAreReplies
  <2>1. /\ request[t] = "unsent" => posts[t] = 0
        /\ request[t] # "unsent" => posts[t] = 1
        /\ outcome[t] = "ok" => request[t] = "ok"
        /\ outcome[t] = "refused" => request[t] = "unsent"
    BY <1>2 DEF RequestInv
  <2>2. posts[t] = 0 \/ posts[t] = 1
    BY <2>1
  <2>3. posts[t] <= 1
    BY <2>2
  <2> QED BY <2>1, <2>3
<1> QED BY <1>1, <1>2, RequestStep, TypeCorrect, PTL DEF Spec

------------------------------------------------------------------------------
\* Why an answered call ends: what CallsEnd rests on besides the scheduler.

PlaceLeft == [calling |-> 3, holding |-> 1, gone |-> 0, panicked |-> 0]
RequestLeft ==
  [unsent |-> 2, sent |-> 1, ok |-> 0, status |-> 0, malformed |-> 0, unreachable |-> 0]

\* The steps a thread has before it, at most, those of its request and those
\* that others make for it included.
StepsLeft(t) ==
  6 * (MaxCalls - calls[t]) + PlaceLeft[pc[t]] + RequestLeft[request[t]]
    + (IF woken[t] THEN 0 ELSE 1) + (IF core = t THEN 0 ELSE 1)

StepsBounded == \A t \in Threads : StepsLeft(t) \in Nat

\* One thread comes nearer to its end, and no other is set back.
Descends(t) ==
  /\ StepsLeft(t)' < StepsLeft(t)
  /\ \A u \in Threads \ {t} : StepsLeft(u)' = StepsLeft(u)

\* What a thread inside block_on may do: the guards of Advance.
CanAdvance(t) ==
  /\ pc[t] = "calling"
  /\ \/ request[t] = "unsent"
     \/ woken[t]
     \/ core = None
     \/ core = t /\ \E u \in Threads : request[u] \in Replies /\ ~woken[u]

\* While a call waits for something else than its daemon, some call can go on.
SomebodyGoesOn ==
  (\E t \in Threads : pc[t] = "calling" /\ request[t] # "sent") => \E t \in Threads : CanAdvance(t)

\* A reply that has come stays until its thread has returned with it, and so
\* does the news of it.
RepliesKept ==
  \A t \in Threads :
    pc[t] = "calling" /\ request[t] \in Replies =>
      request'[t] = request[t] /\ (woken[t] => woken'[t])

LEMMA StepsLeftType ==
  ASSUME TypeOK, NEW t \in Threads
  PROVE  StepsLeft(t) \in Nat
<1>1. MaxCalls - calls[t] \in Nat
  BY MaxCallsAssumption DEF TypeOK
<1>2. PlaceLeft[pc[t]] \in Nat
  BY DEF TypeOK, PlaceLeft
<1>3. RequestLeft[request[t]] \in Nat
  BY DEF TypeOK, Replies, RequestLeft
<1> QED BY <1>1, <1>2, <1>3 DEF StepsLeft

LEMMA EveryStepDescends ==
  TypeOK /\ Next => \E t \in Threads : Descends(t)
<1> SUFFICES ASSUME TypeOK, Next PROVE \E t \in Threads : Descends(t)
  OBVIOUS
<1>1. /\ pc \in [Threads -> {"holding", "calling", "gone", "panicked"}]
      /\ request \in [Threads -> {"unsent", "sent"} \cup Replies]
      /\ woken \in [Threads -> BOOLEAN]
      /\ calls \in [Threads -> 0 .. MaxCalls]
      /\ core \in Threads \cup {None}
  BY DEF TypeOK
<1>2. /\ PlaceLeft["calling"] = 3 /\ PlaceLeft["holding"] = 1
      /\ PlaceLeft["gone"] = 0 /\ PlaceLeft["panicked"] = 0
  BY DEF PlaceLeft
<1>3. /\ RequestLeft["unsent"] = 2 /\ RequestLeft["sent"] = 1
      /\ \A r \in Replies : RequestLeft[r] = 0
      /\ \A r \in {"unsent", "sent"} \cup Replies : RequestLeft[r] \in 0 .. 2
  BY DEF RequestLeft, Replies
<1> USE MaxCallsAssumption, NoneAssumption
<1>4. ASSUME NEW t \in Threads, Call(t) PROVE Descends(t)
  <2>1. /\ pc[t] = "holding" /\ pc'[t] \in {"holding", "calling"}
        /\ calls[t] \in 0 .. MaxCalls /\ calls[t] < MaxCalls /\ calls'[t] = calls[t] + 1
        /\ request'[t] = "unsent" /\ woken'[t] = FALSE /\ core' = core
    BY <1>1, <1>4 DEF Call, Begin
  <2>2. \A u \in Threads \ {t} :
          /\ pc'[u] = pc[u] /\ calls'[u] = calls[u]
          /\ request'[u] = request[u] /\ woken'[u] = woken[u]
    BY <1>1, <1>4 DEF Call, Begin
  <2>3. StepsLeft(t)' < StepsLeft(t)
    <3>1. RequestLeft[request[t]] \in 0 .. 2
      BY <1>1, <1>3
    <3> QED BY <1>2, <1>3, <2>1, <3>1 DEF StepsLeft
  <2> QED BY <2>1, <2>2, <2>3 DEF Descends, StepsLeft
<1>5. ASSUME NEW t \in Threads, TakeCore(t) PROVE Descends(t)
  BY <1>1, <1>2, <1>3, <1>5 DEF TakeCore, Descends, StepsLeft
<1>6. ASSUME NEW t \in Threads, Post(t) PROVE Descends(t)
  BY <1>1, <1>2, <1>3, <1>6 DEF Post, Descends, StepsLeft
<1>7. ASSUME NEW t \in Threads, Drive(t) PROVE \E u \in Threads : Descends(u)
  <2>1. PICK u \in Threads : ~woken[u] /\ woken' = [woken EXCEPT ![u] = TRUE]
    BY <1>7 DEF Drive
  <2>2. UNCHANGED <<core, pc, request, calls>>
    BY <1>7 DEF Drive
  <2>3. Descends(u)
    BY <1>1, <1>2, <1>3, <2>1, <2>2 DEF Descends, StepsLeft
  <2> QED BY <2>3
<1>8. ASSUME NEW t \in Threads, Return(t) PROVE Descends(t)
  BY <1>1, <1>2, <1>3, <1>8 DEF Return, Descends, StepsLeft
<1>9. ASSUME NEW t \in Threads, Reply(t) PROVE Descends(t)
  BY <1>1, <1>2, <1>3, <1>9 DEF Reply, Descends, StepsLeft
<1>10. ASSUME NEW t \in Threads, Drop(t) PROVE Descends(t)
  BY <1>1, <1>2, <1>3, <1>10 DEF Drop, Descends, StepsLeft
<1> QED BY <1>4, <1>5, <1>6, <1>7, <1>8, <1>9, <1>10 DEF Next, Advance

\* Every step - of a thread, of the driver for another, of the daemon - brings
\* one thread nearer to its end and sets no other back: no request is retried,
\* no reply waited for twice, and no thread is woken for nothing, however the
\* core changes hands.  So there are finitely many steps.
THEOREM CallsAreFinite ==
  Spec => []StepsBounded /\ [][\E t \in Threads : Descends(t)]_vars
<1>1. TypeOK => StepsBounded
  BY StepsLeftType DEF StepsBounded
<1>2. TypeOK /\ [Next]_vars => [\E t \in Threads : Descends(t)]_vars
  BY EveryStepDescends
<1> QED BY <1>1, <1>2, TypeCorrect, PTL DEF Spec

\* Nobody needs another's reply: as long as a call waits for anything but its
\* own daemon, some call can go on - the core is free, or the thread that has
\* it can wake the one whose reply is there, although its own may never come -
\* and no step of the others loses a reply or a wake-up.
THEOREM NobodyIsStranded ==
  Spec => []SomebodyGoesOn /\ [][RepliesKept]_vars
<1>1. TypeOK /\ HandleInv => SomebodyGoesOn
  <2> SUFFICES ASSUME TypeOK, HandleInv, NEW t \in Threads, pc[t] = "calling", request[t] # "sent"
               PROVE  \E u \in Threads : CanAdvance(u)
    BY DEF SomebodyGoesOn
  <2>1. request[t] = "unsent" \/ request[t] \in Replies
    BY DEF TypeOK
  <2>2. CASE request[t] = "unsent" \/ woken[t] \/ core = None
    BY <2>2 DEF CanAdvance
  <2>3. CASE request[t] \in Replies /\ ~woken[t] /\ core # None
    <3>1. core \in Threads /\ pc[core] = "calling"
      BY <2>3 DEF HandleInv, CoreIsDriven
    <3>2. CanAdvance(core)
      BY <2>3, <3>1 DEF CanAdvance
    <3> QED BY <3>1, <3>2
  <2> QED BY <2>1, <2>2, <2>3
<1>2. TypeOK /\ [Next]_vars => [RepliesKept]_vars
  <2> SUFFICES ASSUME TypeOK, Next, NEW t \in Threads, pc[t] = "calling", request[t] \in Replies
               PROVE  request'[t] = request[t] /\ (woken[t] => woken'[t])
    BY DEF RepliesKept
  <2>1. /\ request \in [Threads -> {"unsent", "sent"} \cup Replies]
        /\ woken \in [Threads -> BOOLEAN]
    BY DEF TypeOK
  <2>2. ASSUME NEW u \in Threads, Call(u) PROVE request'[t] = request[t] /\ (woken[t] => woken'[t])
    BY <2>1, <2>2 DEF Call, Begin
  <2>3. ASSUME NEW u \in Threads, Post(u) \/ Reply(u)
        PROVE  request'[t] = request[t] /\ (woken[t] => woken'[t])
    BY <2>1, <2>3 DEF Post, Reply, Replies
  <2>4. ASSUME NEW u \in Threads, Drive(u)
        PROVE  request'[t] = request[t] /\ (woken[t] => woken'[t])
    BY <2>1, <2>4 DEF Drive
  <2>5. ASSUME NEW u \in Threads, TakeCore(u) \/ Return(u) \/ Drop(u)
        PROVE  request'[t] = request[t] /\ (woken[t] => woken'[t])
    BY <2>5 DEF TakeCore, Return, Drop
  <2> QED BY <2>2, <2>3, <2>4, <2>5 DEF Next, Advance
<1> QED BY <1>1, <1>2, HandlesCorrect, TypeCorrect, PTL DEF Spec

==============================================================================
