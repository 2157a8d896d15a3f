CONSTANTS
  Threads = {t1, t2}
  None = None
  MaxCalls = 1
SPECIFICATION FairSpec
INVARIANT BlockingThreadsServed
CHECK_DEADLOCK FALSE
