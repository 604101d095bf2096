SPECIFICATION Spec
CONSTANTS
  Half = 4
  TssBase = 5000
  TssSize = 104
  Vectors <- AllVectors
  SystemCalls = {0, 1, 2}
  MaxDepth = 2
CHECK_DEADLOCK FALSE
INVARIANTS
  PageFaultSeesErrorCode
