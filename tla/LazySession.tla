----------------------------- MODULE LazySession -----------------------------
(***************************************************************************)
(* What an OnnxCompressor promises about its session, whatever threads     *)
(* share it: one thread has it at a time; the first that has it may load   *)
(* it, and nothing unloads it; it is lost for good only when the model     *)
(* turns out, in use, to lack its logits.                                  *)
(***************************************************************************)
CONSTANTS Threads, Compressors, None

VARIABLES
  session,     \* per compressor: it is loaded
  holder,      \* per compressor: the thread that has it, or None
  broken,      \* per compressor: it is lost
  has_logits   \* per compressor: its model is what it should be

vars == <<session, holder, broken, has_logits>>

Init ==
  /\ session = [c \in Compressors |-> FALSE]
  /\ holder = [c \in Compressors |-> None]
  /\ broken = [c \in Compressors |-> FALSE]
  /\ has_logits \in [Compressors -> BOOLEAN]

Acquire(t, c) ==
  /\ holder[c] = None
  /\ ~broken[c]
  /\ holder' = [holder EXCEPT ![c] = t]
  /\ UNCHANGED <<session, broken, has_logits>>

Load(t, c) ==
  /\ holder[c] = t
  /\ ~session[c]
  /\ session' = [session EXCEPT ![c] = TRUE]
  /\ UNCHANGED <<holder, broken, has_logits>>

\* After using the session, or after an error that leaves it as it was.
Release(t, c) ==
  /\ holder[c] = t
  /\ holder' = [holder EXCEPT ![c] = None]
  /\ UNCHANGED <<session, broken, has_logits>>

Break(t, c) ==
  /\ holder[c] = t
  /\ session[c]
  /\ ~has_logits[c]
  /\ holder' = [holder EXCEPT ![c] = None]
  /\ broken' = [broken EXCEPT ![c] = TRUE]
  /\ UNCHANGED <<session, has_logits>>

Next ==
  \E t \in Threads, c \in Compressors :
    Acquire(t, c) \/ Load(t, c) \/ Release(t, c) \/ Break(t, c)

Spec == Init /\ [][Next]_vars

==============================================================================
