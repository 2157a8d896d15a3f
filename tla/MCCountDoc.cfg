CONSTANTS
  Lines <- MCLines
  Tokens <- MCTokens
  TokensOf <- MCTokensOf
  RequestedThresholds <- MCNumberThresholds
  Windows <- MCWindows
  MaxLines = 4
SPECIFICATION Spec
INVARIANT CountIsLinesMatched
CHECK_DEADLOCK FALSE
