CONSTANTS
  Templates <- MCTemplates
  Counts = {0, 1, 3, 10, 255}
  Base = 10
  BufferLen = 3
  MaxU64 = 255
  Formats = {"compact", "tsv", "toon", "json"}
  MaxClusters = 2
SPECIFICATION Spec
INVARIANTS
  TypeOK
  DigitsDenote
  ReadsBack
\* Formatting ends.
CHECK_DEADLOCK FALSE
