CONSTANTS
  Threads = {t1, t2}
  Compressors = {c1, c2}
  None = None
  MayFail <- MCNoneFail
  MaxCalls = 1
SPECIFICATION Spec
INVARIANT LosingRacerReuses
CHECK_DEADLOCK FALSE
