CONSTANTS
  Features = {"onnx", "rpc", "tiktoken", "token-counter"}
  MaxFiles = 2
SPECIFICATION Spec
INVARIANTS
  TypeOK
  NeverFallsBack
  CleanStreams
  CountsPairUp
\* The program exits.
CHECK_DEADLOCK FALSE
