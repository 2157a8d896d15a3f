CONSTANTS
  RequestedThresholds <- MCThresholds
  Windows <- MCWindows
  MaxLines = 3
  Logs <- MCDocLogs
  MaxSegments = 2
  Texts <- MCTexts
  Compressors = {TRUE, FALSE}
  MaxU32 = 6
  None = None
SPECIFICATION Spec
INVARIANT MaskedAsDocumented
CHECK_DEADLOCK FALSE
