SPECIFICATION Spec
CONSTANTS
  Frames <- AllFrames
  Procs = {p1}
  Names = {a}
  Captures <- RankCaptures
  Options <- PlainOptions
  Faults <- NoFault
  NULL = NULL
INVARIANT RankInFile
CHECK_DEADLOCK FALSE
