CONSTANTS
  Threads = {t1, t2}
  Compressors = {c1, c2}
  None = None
  MayFail <- MCAllFail
  MaxCalls = 2
SPECIFICATION FairSpec
INVARIANTS
  TypeOK
  MutexHeld
  SessionLoadedOnce
  PoisonedIsUnused
PROPERTIES
  ImplementsLazySession
  CallsEnd
\* Every thread stops after MaxCalls calls, or by a panic.
CHECK_DEADLOCK FALSE
