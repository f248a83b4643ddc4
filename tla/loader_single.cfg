SPECIFICATION Spec
CONSTANTS
  Frames <- AllFrames
  Procs = {p1}
  Names = {a}
  Captures <- SingleCaptures
  Options <- SingleOptions
  Faults <- AnyFault
  NULL = NULL
INVARIANTS
  OneFramePerRow
  SealedComplete
  RanksChain
  BatchBoundary
CHECK_DEADLOCK FALSE
