CONSTANTS
  Templates <- MCLogLines
  Counts = {1, 3, 12}
  Base = 10
  BufferLen = 3
  MaxU64 = 255
  Formats = {"json"}
  MaxClusters = 2
SPECIFICATION Spec
INVARIANT JsonIsArray
CHECK_DEADLOCK FALSE
