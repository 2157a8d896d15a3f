CONSTANTS
  RequestedThresholds <- MCThresholds
  Windows <- MCWindows
  MaxLines = 3
  Logs <- MCLogs
  MaxSegments = 2
  Texts <- MCTexts
  Compressors = {TRUE, FALSE}
  MaxU32 = 6
  None = None
SPECIFICATION FairSpec
INVARIANTS
  TypeOK
  MasksAsMeant
  StatsAccount
  SavingsNotOverstated
  AnswersLandInPlace
  AllOrNothing
PROPERTY
  RunEnds
\* A run ends by returning.
CHECK_DEADLOCK FALSE
