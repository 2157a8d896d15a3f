------------------------- MODULE OnnxCompressorProofs -------------------------
(***************************************************************************)
(* Theorems about OnnxCompressor for every set of threads and compressors, *)
(* whatever external operations may fail and however many calls are made.  *)
(***************************************************************************)
EXTENDS OnnxCompressor, TLAPS

------------------------------------------------------------------------------
\* Type correctness.

\* Every step keeps every variable in its domain.
LEMMA TypeStep == TypeOK /\ [Next]_vars => TypeOK'
<1> SUFFICES ASSUME TypeOK, [Next]_vars PROVE TypeOK'
  OBVIOUS
<1> USE DEF TypeOK, Running, Locked
<1>1. ASSUME NEW t \in Threads, Call(t) PROVE TypeOK'
  BY <1>1, MaxCallsAssumption DEF Call, shared
<1>2. ASSUME NEW t \in Threads, Advance(t) PROVE TypeOK'
  <2> USE DEF Goto, Return, shared
  <2>1. CASE TokenizerGet(t)
    BY <2>1 DEF TokenizerGet
  <2>2. CASE TokenizerLoad(t)
    BY <2>2 DEF TokenizerLoad
  <2>3. CASE TokenizerSet(t)
    BY <2>3 DEF TokenizerSet
  <2>4. CASE Encode(t)
    BY <2>4 DEF Encode
  <2>5. CASE Acquire(t)
    BY <2>5 DEF Acquire
  <2>6. CASE AcquirePoisoned(t)
    BY <2>6 DEF AcquirePoisoned
  <2>7. CASE EnvironmentGet(t)
    BY <2>7 DEF EnvironmentGet
  <2>8. CASE EnvironmentBuild(t)
    BY <2>8 DEF EnvironmentBuild, Unlock
  <2>9. CASE EnvironmentSet(t)
    BY <2>9 DEF EnvironmentSet
  <2>10. CASE SessionLoad(t)
    <3>1. on[t] \in Compressors /\ loads[on[t]] + 1 \in Nat
      OBVIOUS
    <3>2. /\ session' \in [Compressors -> BOOLEAN]
          /\ lock' \in [Compressors -> Threads \cup {None}]
      BY <2>10 DEF SessionLoad, Unlock
    <3>3. loads' \in [Compressors -> Nat]
      <4>1. loads' = loads \/ loads' = [loads EXCEPT ![on[t]] = loads[on[t]] + 1]
        BY <2>10 DEF SessionLoad
      <4> QED BY <3>1, <4>1
    <3>4. /\ pc' \in [Threads -> Running \cup {"idle", "panicked"}]
          /\ outcome' \in [Threads -> {"none", "ok", "err"}]
          /\ UNCHANGED <<on, calls>>
      BY <2>10 DEF SessionLoad
    <3> QED BY <2>10, <3>2, <3>3, <3>4 DEF SessionLoad
  <2>11. CASE Run(t)
    BY <2>11 DEF Run, Unlock
  <2>12. CASE Finish(t)
    BY <2>12 DEF Finish
  <2> QED
    BY <1>2, <2>1, <2>2, <2>3, <2>4, <2>5, <2>6, <2>7, <2>8, <2>9, <2>10, <2>11, <2>12
    DEF Advance
<1>3. CASE UNCHANGED vars
  BY <1>3 DEF vars, shared
<1> HIDE DEF TypeOK
<1> QED BY <1>1, <1>2, <1>3 DEF Next

\* Every variable of the model keeps its domain.
THEOREM TypeCorrect == Spec => []TypeOK
<1>1. ASSUME Init PROVE TypeOK
  <2>1. calls \in [Threads -> 0 .. MaxCalls] /\ loads \in [Compressors -> Nat]
    BY <1>1, MaxCallsAssumption DEF Init
  <2> QED BY <1>1, <2>1 DEF Init, TypeOK, Running
<1> QED BY <1>1, TypeStep, PTL DEF Spec

------------------------------------------------------------------------------
\* What a step does with the session, its mutex and its poison flag: every
\* action of the model is of one of these kinds.

Places == Running \cup {"idle", "panicked"}
Loading == {"env_get", "env_build", "env_set", "session_load"}

\* A step without the mutex; Call alone chooses a compressor.
Outside(t) ==
  /\ pc[t] \notin Locked
  /\ \E s \in Places \ Locked : pc' = [pc EXCEPT ![t] = s]
  /\ \E c \in Compressors : on' = [on EXCEPT ![t] = c]
  /\ UNCHANGED <<session, lock, poisoned, has_logits, loads>>

\* The mutex is taken: the thread sees whether the session is there.
Enter(t) ==
  /\ pc[t] = "lock"
  /\ lock[on[t]] = None
  /\ ~poisoned[on[t]]
  /\ pc' = [pc EXCEPT ![t] = IF session[on[t]] THEN "run" ELSE "env_get"]
  /\ lock' = [lock EXCEPT ![on[t]] = t]
  /\ UNCHANGED <<on, session, poisoned, has_logits, loads>>

\* A step on the way to the session, with the mutex.
Prepare(t) ==
  /\ pc[t] \in Loading
  /\ \E s \in Loading : pc' = [pc EXCEPT ![t] = s]
  /\ UNCHANGED <<on, session, lock, poisoned, has_logits, loads>>

Load(t) ==
  /\ pc[t] = "session_load"
  /\ pc' = [pc EXCEPT ![t] = "run"]
  /\ session' = [session EXCEPT ![on[t]] = TRUE]
  /\ loads' = [loads EXCEPT ![on[t]] = loads[on[t]] + 1]
  /\ UNCHANGED <<on, lock, poisoned, has_logits>>

\* The guard is dropped, by a return, an error or a panic.
Leave(t) ==
  /\ pc[t] \in Locked
  /\ \E s \in Places \ Locked : pc' = [pc EXCEPT ![t] = s]
  /\ lock' = [lock EXCEPT ![on[t]] = None]
  /\ \/ UNCHANGED poisoned
     \/ /\ pc[t] = "run"
        /\ ~has_logits[on[t]]
        /\ poisoned' = [poisoned EXCEPT ![on[t]] = TRUE]
  /\ UNCHANGED <<on, session, has_logits, loads>>

Kinds(t) == Outside(t) \/ Enter(t) \/ Prepare(t) \/ Load(t) \/ Leave(t)

sessionVars == <<session, lock, poisoned, has_logits, pc, on, loads>>

LEMMA StepKinds ==
  TypeOK /\ [Next]_vars => (\E t \in Threads : Kinds(t)) \/ UNCHANGED sessionVars
<1> SUFFICES ASSUME TypeOK, [Next]_vars
             PROVE  (\E t \in Threads : Kinds(t)) \/ UNCHANGED sessionVars
  OBVIOUS
<1>1. on \in [Threads -> Compressors] /\ pc \in [Threads -> Places]
  BY DEF TypeOK, Places
<1>2. \A t \in Threads : on[t] \in Compressors /\ on = [on EXCEPT ![t] = on[t]]
  BY <1>1
<1>3. ASSUME NEW t \in Threads, Call(t) PROVE Outside(t)
  BY <1>3 DEF Call, shared, Outside, Places, Running, Locked
<1>4. ASSUME NEW t \in Threads, Advance(t) PROVE Kinds(t)
  <2> USE DEF Goto, Return, shared, Places, Running, Locked
  <2>1. CASE TokenizerGet(t)
    <3>1. Outside(t)
      BY <1>2, <2>1 DEF TokenizerGet, Outside
    <3> QED BY <3>1 DEF Kinds
  <2>2. CASE TokenizerLoad(t)
    <3>1. Outside(t)
      BY <1>2, <2>2 DEF TokenizerLoad, Outside
    <3> QED BY <3>1 DEF Kinds
  <2>3. CASE TokenizerSet(t)
    <3>1. Outside(t)
      BY <1>2, <2>3 DEF TokenizerSet, Outside
    <3> QED BY <3>1 DEF Kinds
  <2>4. CASE Encode(t)
    <3>1. Outside(t)
      BY <1>2, <2>4 DEF Encode, Outside
    <3> QED BY <3>1 DEF Kinds
  <2>5. CASE Acquire(t)
    <3>1. Enter(t)
      BY <2>5 DEF Acquire, Enter
    <3> QED BY <3>1 DEF Kinds
  <2>6. CASE AcquirePoisoned(t)
    <3>1. Outside(t)
      BY <1>2, <2>6 DEF AcquirePoisoned, Outside
    <3> QED BY <3>1 DEF Kinds
  <2>7. CASE EnvironmentGet(t)
    <3>1. Prepare(t)
      BY <2>7 DEF EnvironmentGet, Prepare, Loading
    <3> QED BY <3>1 DEF Kinds
  <2>8. CASE EnvironmentBuild(t)
    <3>1. Prepare(t) \/ Leave(t)
      BY <2>8 DEF EnvironmentBuild, Unlock, Prepare, Leave, Loading
    <3> QED BY <3>1 DEF Kinds
  <2>9. CASE EnvironmentSet(t)
    <3>1. Prepare(t)
      BY <2>9 DEF EnvironmentSet, Prepare, Loading
    <3> QED BY <3>1 DEF Kinds
  <2>10. CASE SessionLoad(t)
    <3>1. Load(t) \/ Leave(t)
      BY <2>10 DEF SessionLoad, Unlock, Load, Leave
    <3> QED BY <3>1 DEF Kinds
  <2>11. CASE Run(t)
    <3>1. Leave(t)
      BY <2>11 DEF Run, Unlock, Leave
    <3> QED BY <3>1 DEF Kinds
  <2>12. CASE Finish(t)
    <3>1. Outside(t)
      BY <1>2, <2>12 DEF Finish, Outside
    <3> QED BY <3>1 DEF Kinds
  <2> QED
    BY <1>4, <2>1, <2>2, <2>3, <2>4, <2>5, <2>6, <2>7, <2>8, <2>9, <2>10, <2>11, <2>12
    DEF Advance
<1>5. CASE UNCHANGED vars
  BY <1>5 DEF vars, shared, sessionVars
<1> QED BY <1>3, <1>4, <1>5 DEF Next, Kinds

------------------------------------------------------------------------------
\* The mutex and the session.

\* What a thread with the mutex knows of the session.
SessionSeen ==
  \A t \in Threads :
    /\ pc[t] \in Loading => ~session[on[t]]
    /\ pc[t] = "run" => session[on[t]]

\* MutexHeld is inductive; the others lean on it, because only the thread with
\* the mutex can change what they say of a compressor.
SessionInv == MutexHeld /\ SessionSeen /\ PoisonedIsUnused /\ SessionLoadedOnce

LEMMA MutexStep ==
  ASSUME TypeOK, MutexHeld, NEW t \in Threads, Kinds(t)
  PROVE  MutexHeld'
<1> SUFFICES ASSUME NEW u \in Threads, NEW c \in Compressors
             PROVE  lock'[c] = u <=> pc'[u] \in Locked /\ on'[u] = c
  BY DEF MutexHeld
<1>1. /\ pc \in [Threads -> Places] /\ on \in [Threads -> Compressors]
      /\ lock \in [Compressors -> Threads \cup {None}]
      /\ on[t] \in Compressors
  BY DEF TypeOK, Places
<1>2. \A v \in Threads, d \in Compressors : lock[d] = v <=> pc[v] \in Locked /\ on[v] = d
  BY DEF MutexHeld
<1>3. CASE Outside(t)
  BY <1>1, <1>2, <1>3 DEF Outside
<1>4. CASE Enter(t)
  BY <1>1, <1>2, <1>4, NoneAssumption DEF Enter, Locked
<1>5. CASE Prepare(t)
  BY <1>1, <1>2, <1>5 DEF Prepare, Loading, Locked
<1>6. CASE Load(t)
  BY <1>1, <1>2, <1>6 DEF Load, Locked
<1>7. CASE Leave(t)
  BY <1>1, <1>2, <1>7, NoneAssumption DEF Leave
<1> QED BY <1>3, <1>4, <1>5, <1>6, <1>7 DEF Kinds

\* Two threads with the mutex of one compressor are one.
LEMMA Exclusive ==
  ASSUME TypeOK, MutexHeld, NEW t \in Threads, NEW u \in Threads,
         pc[t] \in Locked, pc[u] \in Locked, on[t] = on[u]
  PROVE  t = u
<1>1. on[t] \in Compressors
  BY DEF TypeOK
<1> QED BY <1>1 DEF MutexHeld

LEMMA SeenStep ==
  ASSUME TypeOK, MutexHeld, SessionSeen, NEW t \in Threads, Kinds(t)
  PROVE  SessionSeen'
<1> SUFFICES ASSUME NEW u \in Threads
             PROVE  /\ pc'[u] \in Loading => ~session'[on'[u]]
                    /\ pc'[u] = "run" => session'[on'[u]]
  BY DEF SessionSeen
<1>1. /\ pc \in [Threads -> Places] /\ on \in [Threads -> Compressors]
      /\ session \in [Compressors -> BOOLEAN]
      /\ on[t] \in Compressors /\ on[u] \in Compressors
  BY DEF TypeOK, Places
<1>2. /\ pc[u] \in Loading => ~session[on[u]]
      /\ pc[u] = "run" => session[on[u]]
      /\ pc[t] \in Loading => ~session[on[t]]
  BY DEF SessionSeen
<1>3. CASE Outside(t)
  BY <1>1, <1>2, <1>3 DEF Outside, Loading, Locked
<1>4. CASE Enter(t)
  BY <1>1, <1>2, <1>4 DEF Enter, Loading
<1>5. CASE Prepare(t)
  BY <1>1, <1>2, <1>5 DEF Prepare, Loading
<1>6. CASE Load(t)
  <2>1. CASE u = t
    BY <1>1, <1>6, <2>1 DEF Load, Loading
  <2>2. CASE u # t
    <3>1. pc'[u] = pc[u] /\ on'[u] = on[u]
      BY <1>1, <1>6, <2>2 DEF Load
    <3>2. pc[u] \in Loading \cup {"run"} => on[u] # on[t]
      BY <1>6, <2>2, Exclusive DEF Load, Locked, Loading
    <3>3. on[u] # on[t] => session'[on[u]] = session[on[u]]
      BY <1>1, <1>6 DEF Load
    <3> QED BY <1>2, <3>1, <3>2, <3>3
  <2> QED BY <2>1, <2>2
<1>7. CASE Leave(t)
  BY <1>1, <1>2, <1>7 DEF Leave, Loading, Locked
<1> QED BY <1>3, <1>4, <1>5, <1>6, <1>7 DEF Kinds

LEMMA PoisonStep ==
  ASSUME TypeOK, MutexHeld, PoisonedIsUnused, NEW t \in Threads, Kinds(t)
  PROVE  PoisonedIsUnused'
<1> SUFFICES ASSUME NEW u \in Threads, pc'[u] \in Locked
             PROVE  ~poisoned'[on'[u]]
  BY DEF PoisonedIsUnused
<1>1. /\ pc \in [Threads -> Places] /\ on \in [Threads -> Compressors]
      /\ poisoned \in [Compressors -> BOOLEAN]
      /\ on[t] \in Compressors /\ on[u] \in Compressors
  BY DEF TypeOK, Places
<1>2. pc[u] \in Locked => ~poisoned[on[u]]
  BY DEF PoisonedIsUnused
<1>3. CASE Outside(t)
  BY <1>1, <1>2, <1>3 DEF Outside
<1>4. CASE Enter(t)
  BY <1>1, <1>2, <1>4 DEF Enter
<1>5. CASE Prepare(t)
  BY <1>1, <1>2, <1>5 DEF Prepare, Loading, Locked
<1>6. CASE Load(t)
  BY <1>1, <1>2, <1>6 DEF Load, Locked
<1>7. CASE Leave(t)
  <2>1. u # t /\ pc'[u] = pc[u] /\ on'[u] = on[u]
    BY <1>1, <1>7 DEF Leave
  <2>2. on[u] # on[t]
    BY <1>7, <2>1, Exclusive DEF Leave
  <2>3. poisoned'[on[u]] = poisoned[on[u]]
    BY <1>1, <1>7, <2>2 DEF Leave
  <2> QED BY <1>2, <2>1, <2>3
<1> QED BY <1>3, <1>4, <1>5, <1>6, <1>7 DEF Kinds

LEMMA LoadedOnceStep ==
  ASSUME TypeOK, SessionSeen, SessionLoadedOnce, NEW t \in Threads, Kinds(t)
  PROVE  SessionLoadedOnce'
<1> SUFFICES ASSUME NEW c \in Compressors
             PROVE  loads'[c] <= 1 /\ (session'[c] <=> loads'[c] = 1)
  BY DEF SessionLoadedOnce
<1>1. /\ session \in [Compressors -> BOOLEAN]
      /\ loads \in [Compressors -> Nat]
      /\ on[t] \in Compressors
  BY DEF TypeOK
<1>2. loads[c] <= 1 /\ (session[c] <=> loads[c] = 1)
  BY DEF SessionLoadedOnce
<1>3. CASE Load(t)
  <2>1. ~session[on[t]]
    BY <1>3 DEF SessionSeen, Load, Loading
  <2>2. CASE c = on[t]
    <3>1. loads[c] = 0
      <4>1. loads[c] # 1 /\ loads[c] \in Nat /\ loads[c] <= 1
        BY <1>1, <1>2, <2>1, <2>2
      <4> QED BY <4>1
    <3>2. session'[c]
      BY <1>1, <1>3, <2>2 DEF Load
    <3>3. loads'[c] = loads[c] + 1
      BY <1>1, <1>3, <2>2 DEF Load
    <3>4. loads'[c] = 1
      BY <3>1, <3>3
    <3> QED BY <3>2, <3>4
  <2>3. CASE c # on[t]
    <3>1. session'[c] = session[c] /\ loads'[c] = loads[c]
      BY <1>1, <1>3, <2>3 DEF Load
    <3> QED BY <1>2, <3>1
  <2> QED BY <2>2, <2>3
<1>4. CASE ~Load(t)
  <2>1. session' = session /\ loads' = loads
    BY <1>4 DEF Kinds, Outside, Enter, Prepare, Leave
  <2> QED BY <1>2, <2>1
<1> QED BY <1>3, <1>4

LEMMA SessionInvCorrect == Spec => [](TypeOK /\ SessionInv)
<1>1. Init => SessionInv
  <2> SUFFICES ASSUME Init PROVE SessionInv
    OBVIOUS
  <2>1. \A t \in Threads : pc[t] = "idle" /\ on[t] \in Compressors
    BY DEF Init
  <2>2. \A c \in Compressors : lock[c] = None /\ session[c] = FALSE /\ loads[c] = 0
    BY DEF Init
  <2>3. MutexHeld
    BY <2>1, <2>2, NoneAssumption DEF MutexHeld, Locked
  <2>4. SessionSeen /\ PoisonedIsUnused
    BY <2>1 DEF SessionSeen, PoisonedIsUnused, Loading, Locked
  <2>5. SessionLoadedOnce
    BY <2>2 DEF SessionLoadedOnce
  <2> QED BY <2>3, <2>4, <2>5 DEF SessionInv
<1>2. TypeOK /\ SessionInv /\ [Next]_vars => SessionInv'
  <2> SUFFICES ASSUME TypeOK, SessionInv, [Next]_vars PROVE SessionInv'
    OBVIOUS
  <2>1. CASE \E t \in Threads : Kinds(t)
    BY <2>1, MutexStep, SeenStep, PoisonStep, LoadedOnceStep DEF SessionInv
  <2>2. CASE UNCHANGED sessionVars
    BY <2>2 DEF sessionVars, SessionInv, MutexHeld, SessionSeen, PoisonedIsUnused,
                SessionLoadedOnce
  <2> QED BY <2>1, <2>2, StepKinds
<1> QED BY <1>1, <1>2, TypeCorrect, PTL DEF Spec

\* One thread at a time is inside run_inference of a compressor, and whatever
\* ends its stay - a return, any error, a panic - frees the mutex.
THEOREM MutexIsHeld == Spec => []MutexHeld
<1> QED BY SessionInvCorrect, PTL DEF SessionInv

\* The session is loaded at most once per compressor, and stays.
THEOREM SessionIsLoadedOnce == Spec => []SessionLoadedOnce
<1> QED BY SessionInvCorrect, PTL DEF SessionInv

\* A compressor whose model panicked is never run again.
THEOREM PoisonedStaysUnused == Spec => []PoisonedIsUnused
<1> QED BY SessionInvCorrect, PTL DEF SessionInv

------------------------------------------------------------------------------
\* The detailed compressor implements LazySession.

LEMMA SessionVars == UNCHANGED sessionVars => UNCHANGED Session!vars
BY DEF sessionVars, Session!vars

\* A step of some thread is a step of the abstract session, or none.
LEMMA SessionStep ==
  ASSUME TypeOK, SessionInv, NEW t \in Threads, Kinds(t)
  PROVE  Session!Next \/ UNCHANGED Session!vars
<1>1. on[t] \in Compressors
  BY DEF TypeOK
<1>2. pc[t] \in Locked => lock[on[t]] = t
  BY <1>1 DEF SessionInv, MutexHeld
<1>3. CASE Outside(t)
  BY <1>3 DEF Outside, Session!vars
<1>4. CASE Enter(t)
  <2>1. Session!Acquire(t, on[t])
    BY <1>4 DEF Enter, Session!Acquire
  <2> QED BY <1>1, <2>1 DEF Session!Next
<1>5. CASE Prepare(t)
  BY <1>5 DEF Prepare, Session!vars
<1>6. CASE Load(t)
  <2>1. ~session[on[t]]
    BY <1>6 DEF SessionInv, SessionSeen, Load, Loading
  <2>2. Session!Load(t, on[t])
    BY <1>2, <1>6, <2>1 DEF Load, Locked, Session!Load
  <2> QED BY <1>1, <2>2 DEF Session!Next
<1>7. CASE Leave(t)
  <2>1. lock[on[t]] = t
    BY <1>2, <1>7 DEF Leave
  <2>2. CASE UNCHANGED poisoned
    <3>1. Session!Release(t, on[t])
      BY <1>7, <2>1, <2>2 DEF Leave, Session!Release
    <3> QED BY <1>1, <3>1 DEF Session!Next
  <2>3. CASE /\ pc[t] = "run"
             /\ ~has_logits[on[t]]
             /\ poisoned' = [poisoned EXCEPT ![on[t]] = TRUE]
    <3>1. session[on[t]]
      BY <2>3 DEF SessionInv, SessionSeen
    <3>2. Session!Break(t, on[t])
      BY <1>7, <2>1, <2>3, <3>1 DEF Leave, Session!Break
    <3> QED BY <1>1, <3>2 DEF Session!Next
  <2> QED BY <1>7, <2>2, <2>3 DEF Leave
<1> QED BY <1>3, <1>4, <1>5, <1>6, <1>7 DEF Kinds

\* OnceLocks, mutex, poisoning and every error path together are a session that
\* is loaded once, had by one thread at a time and lost only to a bad model.
THEOREM LazySessionImplemented == Spec => ImplementsLazySession
<1>1. Init => Session!Init
  BY DEF Init, Session!Init
<1>2. TypeOK /\ SessionInv /\ [Next]_vars => [Session!Next]_(Session!vars)
  <2> SUFFICES ASSUME TypeOK, SessionInv, [Next]_vars
               PROVE  Session!Next \/ UNCHANGED Session!vars
    OBVIOUS
  <2> QED BY StepKinds, SessionStep, SessionVars
<1> QED BY <1>1, <1>2, SessionInvCorrect, PTL DEF Spec, ImplementsLazySession, Session!Spec

------------------------------------------------------------------------------
\* When the comment of environment() is right.

Faultless == MayFail = {} /\ \A c \in Compressors : has_logits[c]

\* With one compressor its mutex also guards the environment: an environment
\* that is there has been stored, or its builder is about to store it.
LoneInv ==
  Faultless =>
    /\ runtime => environment # None \/ \E t \in Threads : pc[t] = "env_set"
    /\ \A t \in Threads : pc[t] = "env_build" => environment = None
    /\ \A c \in Compressors : ~poisoned[c]
    /\ \A t \in Threads : outcome[t] # "err"

LEMMA LoneStep ==
  ASSUME NEW c, Compressors = {c}, TypeOK, MutexHeld, LoneInv, [Next]_vars
  PROVE  LoneInv'
<1> SUFFICES ASSUME Faultless' PROVE LoneInv'
  BY DEF LoneInv
<1>1. has_logits' = has_logits
  BY DEF Next, vars, shared, Call, Advance, TokenizerGet, TokenizerLoad, TokenizerSet,
         Encode, Acquire, AcquirePoisoned, EnvironmentGet, EnvironmentBuild,
         EnvironmentSet, SessionLoad, Run, Finish
<1>2. MayFail = {} /\ \A d \in Compressors : has_logits[d]
  BY <1>1 DEF Faultless
<1>3. /\ runtime => environment # None \/ \E t \in Threads : pc[t] = "env_set"
      /\ \A t \in Threads : pc[t] = "env_build" => environment = None
      /\ \A d \in Compressors : ~poisoned[d]
      /\ \A t \in Threads : outcome[t] # "err"
  BY <1>2 DEF LoneInv, Faultless
<1>4. /\ pc \in [Threads -> Places]
      /\ outcome \in [Threads -> {"none", "ok", "err"}]
      /\ \A t \in Threads : on[t] \in Compressors
  BY DEF TypeOK, Places
<1>5. ASSUME NEW t \in Threads, NEW u \in Threads, pc[t] \in Locked, pc[u] \in Locked
      PROVE  t = u
  <2>1. on[t] = on[u]
    BY <1>4
  <2> QED BY <1>5, <2>1, Exclusive
<1>6. ASSUME NEW t \in Threads, Call(t) \/ Advance(t)
      PROVE  /\ runtime' => environment' # None \/ \E u \in Threads : pc'[u] = "env_set"
             /\ \A u \in Threads : pc'[u] = "env_build" => environment' = None
             /\ \A d \in Compressors : ~poisoned'[d]
             /\ \A u \in Threads : outcome'[u] # "err"
  <2> USE DEF Goto, Return
  <2>1. CASE Call(t)
    BY <1>3, <1>4, <2>1 DEF Call, shared
  <2>2. CASE TokenizerGet(t)
    BY <1>3, <1>4, <2>2 DEF TokenizerGet, shared
  <2>3. CASE TokenizerLoad(t)
    BY <1>2, <1>3, <1>4, <2>3 DEF TokenizerLoad, shared
  <2>4. CASE TokenizerSet(t)
    BY <1>3, <1>4, <2>4 DEF TokenizerSet
  <2>5. CASE Encode(t)
    BY <1>2, <1>3, <1>4, <2>5 DEF Encode, shared
  <2>6. CASE Acquire(t)
    BY <1>3, <1>4, <2>6 DEF Acquire
  <2>7. CASE AcquirePoisoned(t)
    BY <1>3, <1>4, <2>7 DEF AcquirePoisoned
  <2>8. CASE EnvironmentGet(t)
    BY <1>3, <1>4, <2>8 DEF EnvironmentGet, shared
  <2>9. CASE EnvironmentBuild(t)
    <3>1. ~runtime
      BY <1>3, <1>5, <2>9 DEF EnvironmentBuild, Locked
    <3>2. pc' = [pc EXCEPT ![t] = "env_set"] /\ UNCHANGED <<environment, poisoned, outcome>>
      BY <1>2, <2>9, <3>1 DEF EnvironmentBuild
    <3> QED BY <1>3, <1>4, <3>2
  <2>10. CASE EnvironmentSet(t)
    <3>1. environment' # None
      BY <2>10, NoneAssumption DEF EnvironmentSet
    <3>2. \A u \in Threads : pc[u] # "env_build"
      BY <1>5, <2>10 DEF EnvironmentSet, Locked
    <3> QED BY <1>3, <1>4, <2>10, <3>1, <3>2 DEF EnvironmentSet
  <2>11. CASE SessionLoad(t)
    BY <1>2, <1>3, <1>4, <2>11 DEF SessionLoad
  <2>12. CASE Run(t)
    BY <1>2, <1>3, <1>4, <2>12 DEF Run
  <2>13. CASE Finish(t)
    BY <1>2, <1>3, <1>4, <2>13 DEF Finish, shared
  <2> QED
    BY <1>6, <2>1, <2>2, <2>3, <2>4, <2>5, <2>6, <2>7, <2>8, <2>9, <2>10, <2>11, <2>12, <2>13
    DEF Advance
<1>7. CASE Next
  BY <1>6, <1>7 DEF Next, LoneInv
<1>8. CASE UNCHANGED vars
  BY <1>3, <1>8 DEF vars, shared, LoneInv
<1> QED BY <1>7, <1>8

\* In a process with one compressor a losing racer does reuse the winner's
\* environment, as the comment says: when nothing else fails no call does. (The
\* race that refutes it needs two compressors.)
THEOREM LoneCompressorReuses ==
  ASSUME NEW c, Compressors = {c}
  PROVE  Spec => []LosingRacerReuses
<1>1. Init => LoneInv
  BY DEF Init, LoneInv
<1>2. TypeOK /\ SessionInv /\ LoneInv /\ [Next]_vars => LoneInv'
  BY LoneStep DEF SessionInv
<1>3. LoneInv => LosingRacerReuses
  BY DEF LoneInv, Faultless, LosingRacerReuses
<1> QED BY <1>1, <1>2, <1>3, SessionInvCorrect, PTL DEF Spec

------------------------------------------------------------------------------
\* Why every call ends: what CallsEnd rests on besides the scheduler.

\* The steps a call still has before it, at most, from each place.
StepsFrom ==
  [tokenizer_get |-> 11, tokenizer_load |-> 10, tokenizer_set |-> 9, encode |-> 8,
   lock |-> 7, env_get |-> 6, env_build |-> 5, env_set |-> 4, session_load |-> 3,
   run |-> 2, finish |-> 1, idle |-> 0, panicked |-> 0]

\* The steps a thread has before it: twelve for each call not yet started.
StepsLeft(t) == 12 * (MaxCalls - calls[t]) + StepsFrom[pc[t]]

\* The thread comes nearer to its end, and no other is set back.
Descends(t) ==
  /\ StepsLeft(t)' < StepsLeft(t)
  /\ \A u \in Threads \ {t} : StepsLeft(u)' = StepsLeft(u)

\* The thread has called lock() while another has the guard.
Waits(t) == pc[t] = "lock" /\ lock[on[t]] # None

\* The mutex a thread waits for is had by one inside run_inference.
HolderGoesOn ==
  \A t \in Threads : Waits(t) => lock[on[t]] \in Threads /\ pc[lock[on[t]]] \in Locked

\* While a call is running, some running call waits for nobody.
SomebodyGoesOn ==
  (\E t \in Threads : pc[t] \in Running) => \E t \in Threads : pc[t] \in Running /\ ~Waits(t)

\* Every step but Call goes to a place with fewer steps before it.
LEMMA AdvanceDescends ==
  ASSUME TypeOK, NEW t \in Threads, Advance(t)
  PROVE  /\ \E s \in Places : /\ pc' = [pc EXCEPT ![t] = s]
                              /\ StepsFrom[s] < StepsFrom[pc[t]]
         /\ calls' = calls
<1> USE DEF Goto, Return, Places, Running, Locked, StepsFrom
<1>1. CASE TokenizerGet(t)
  <2>1. PICK s \in {"tokenizer_load", "encode"} : pc' = [pc EXCEPT ![t] = s]
    BY <1>1 DEF TokenizerGet
  <2>2. pc[t] = "tokenizer_get" /\ calls' = calls
    BY <1>1 DEF TokenizerGet
  <2>3. s \in Places /\ StepsFrom[s] < StepsFrom["tokenizer_get"]
    BY <2>1
  <2> QED BY <2>1, <2>2, <2>3
<1>2. CASE TokenizerLoad(t)
  BY <1>2 DEF TokenizerLoad
<1>3. CASE TokenizerSet(t)
  BY <1>3 DEF TokenizerSet
<1>4. CASE Encode(t)
  BY <1>4 DEF Encode
<1>5. CASE Acquire(t)
  <2>1. PICK s \in {"run", "env_get"} : pc' = [pc EXCEPT ![t] = s]
    BY <1>5 DEF Acquire
  <2>2. pc[t] = "lock" /\ calls' = calls
    BY <1>5 DEF Acquire
  <2>3. s \in Places /\ StepsFrom[s] < StepsFrom["lock"]
    BY <2>1
  <2> QED BY <2>1, <2>2, <2>3
<1>6. CASE AcquirePoisoned(t)
  BY <1>6 DEF AcquirePoisoned
<1>7. CASE EnvironmentGet(t)
  <2>1. PICK s \in {"env_build", "session_load"} : pc' = [pc EXCEPT ![t] = s]
    BY <1>7 DEF EnvironmentGet
  <2>2. pc[t] = "env_get" /\ calls' = calls
    BY <1>7 DEF EnvironmentGet
  <2>3. s \in Places /\ StepsFrom[s] < StepsFrom["env_get"]
    BY <2>1
  <2> QED BY <2>1, <2>2, <2>3
<1>8. CASE EnvironmentBuild(t)
  BY <1>8 DEF EnvironmentBuild
<1>9. CASE EnvironmentSet(t)
  BY <1>9 DEF EnvironmentSet
<1>10. CASE SessionLoad(t)
  BY <1>10 DEF SessionLoad
<1>11. CASE Run(t)
  BY <1>11 DEF Run
<1>12. CASE Finish(t)
  BY <1>12 DEF Finish
<1> QED
  BY <1>1, <1>2, <1>3, <1>4, <1>5, <1>6, <1>7, <1>8, <1>9, <1>10, <1>11, <1>12 DEF Advance

LEMMA StepsLeftType ==
  ASSUME TypeOK, NEW t \in Threads
  PROVE  StepsLeft(t) \in Nat
<1>1. MaxCalls - calls[t] \in Nat
  BY MaxCallsAssumption DEF TypeOK
<1>2. StepsFrom[pc[t]] \in Nat
  BY DEF TypeOK, Running, Locked, StepsFrom
<1> QED BY <1>1, <1>2 DEF StepsLeft

\* Every step brings one thread nearer to its end and no other farther from it:
\* no call goes round in circles, retries, or is set back by another thread,
\* whatever fails and however the threads interleave.  So a process makes at
\* most twelve steps for each call.
THEOREM CallsAreFinite ==
  Spec => [](\A t \in Threads : StepsLeft(t) \in Nat)
          /\ [][\E t \in Threads : Descends(t)]_vars
<1>1. TypeOK => \A t \in Threads : StepsLeft(t) \in Nat
  BY StepsLeftType
<1>2. TypeOK /\ TypeOK' /\ [Next]_vars => [\E t \in Threads : Descends(t)]_vars
  <2> SUFFICES ASSUME TypeOK, TypeOK', Next PROVE \E t \in Threads : Descends(t)
    OBVIOUS
  <2>1. /\ pc \in [Threads -> Places] /\ calls \in [Threads -> 0 .. MaxCalls]
        /\ \A u \in Threads : calls'[u] \in 0 .. MaxCalls
    BY DEF TypeOK, Places
  <2>2. \A s \in Places : StepsFrom[s] \in Nat
    BY DEF Places, Running, Locked, StepsFrom
  <2>3. ASSUME NEW t \in Threads, Call(t) PROVE Descends(t)
    <3>1. /\ pc[t] = "idle" /\ pc' = [pc EXCEPT ![t] = "tokenizer_get"]
          /\ calls' = [calls EXCEPT ![t] = calls[t] + 1]
      BY <2>3 DEF Call
    <3>2. /\ calls'[t] = calls[t] + 1 /\ pc'[t] = "tokenizer_get"
          /\ \A u \in Threads \ {t} : calls'[u] = calls[u] /\ pc'[u] = pc[u]
      BY <2>1, <3>1
    <3>3. StepsLeft(t)' < StepsLeft(t)
      <4>1. StepsFrom["idle"] = 0 /\ StepsFrom["tokenizer_get"] = 11
        BY DEF StepsFrom
      <4> QED BY <2>1, <3>1, <3>2, <4>1, MaxCallsAssumption DEF StepsLeft
    <3> QED BY <3>2, <3>3 DEF StepsLeft, Descends
  <2>4. ASSUME NEW t \in Threads, Advance(t) PROVE Descends(t)
    <3>1. PICK s \in Places : /\ pc' = [pc EXCEPT ![t] = s]
                              /\ StepsFrom[s] < StepsFrom[pc[t]]
      BY <2>4, AdvanceDescends
    <3>2. calls' = calls
      BY <2>4, AdvanceDescends
    <3>3. pc'[t] = s /\ \A u \in Threads \ {t} : pc'[u] = pc[u]
      BY <2>1, <3>1
    <3>4. StepsFrom[s] \in Nat /\ StepsFrom[pc[t]] \in Nat
      BY <2>1, <2>2
    <3>5. StepsLeft(t)' < StepsLeft(t)
      BY <2>1, <3>1, <3>2, <3>3, <3>4, MaxCallsAssumption DEF StepsLeft
    <3> QED BY <3>2, <3>3, <3>5 DEF StepsLeft, Descends
  <2> QED BY <2>3, <2>4 DEF Next
<1> QED BY <1>1, <1>2, TypeCorrect, PTL DEF Spec

\* Nobody waits for somebody who waits: the mutex a thread waits for is had by
\* one that is past its lock() and whose next step asks nothing of any other
\* thread.  So while a call is running, some running call can go on.
THEOREM NobodyWaitsForAWaiter ==
  Spec => [](HolderGoesOn /\ SomebodyGoesOn)
<1>1. ASSUME TypeOK, MutexHeld, NEW t \in Threads, Waits(t)
      PROVE  /\ lock[on[t]] \in Threads
             /\ pc[lock[on[t]]] \in Locked
  <2>1. on[t] \in Compressors /\ lock[on[t]] \in Threads
    BY <1>1 DEF TypeOK, Waits
  <2> QED BY <1>1, <2>1 DEF MutexHeld
<1>2. ASSUME TypeOK, MutexHeld, NEW t \in Threads, pc[t] \in Running
      PROVE  \E u \in Threads : pc[u] \in Running /\ ~Waits(u)
  <2>1. CASE Waits(t)
    <3>1. lock[on[t]] \in Threads /\ pc[lock[on[t]]] \in Locked
      BY <1>1, <1>2, <2>1
    <3>2. pc[lock[on[t]]] \in Running /\ pc[lock[on[t]]] # "lock"
      BY <3>1 DEF Running, Locked
    <3> QED BY <3>1, <3>2 DEF Waits
  <2> QED BY <1>2, <2>1
<1>3. TypeOK /\ MutexHeld => HolderGoesOn /\ SomebodyGoesOn
  BY <1>1, <1>2 DEF HolderGoesOn, SomebodyGoesOn
<1> QED BY <1>3, SessionInvCorrect, PTL DEF SessionInv

==============================================================================
