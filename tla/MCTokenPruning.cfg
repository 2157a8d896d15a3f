CONSTANTS
  Logits <- MCLogits
  Exp <- MCExp
  Classes = {0, 1, 2, 3}
  Rates <- MCRates
  MaxSeqLen = 3
  MaxTokens = 4
SPECIFICATION Spec
INVARIANTS
  TypeOK
  KeepsTheRate
  KeepsMostInformative
  OrderPreserved
\* A call ends.
CHECK_DEADLOCK FALSE
