CONSTANTS
  Threads = {t1, t2, t3}
  None = None
  MaxCalls = 2
SPECIFICATION FairSpec
INVARIANTS
  TypeOK
  OnlyLastDropPanics
  AnswersAreReplies
PROPERTY CallsEnd
\* Threads drop their handles and stop; a reply may never come.
CHECK_DEADLOCK FALSE
