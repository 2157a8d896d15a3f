CONSTANTS
  Lines <- MCLines
  Tokens <- MCTokens
  TokensOf <- MCTokensOf
  RequestedThresholds <- MCThresholds
  Windows <- MCWindows
  MaxLines = 5
SPECIFICATION Spec
INVARIANTS
  TypeOK
  Accounting
  Ledger
  PairwiseDissimilar
  NoTwins
  WindowBound
  LostOnlyAtWindowOne
  RecencyOrder
  RecentLinesRepresented
PROPERTIES
  MergesGoToNearest
  ImplementsLru
\* The input ends after MaxLines lines.
CHECK_DEADLOCK FALSE
