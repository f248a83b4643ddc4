SPECIFICATION Spec
CONSTANTS
  Frames <- AllFrames
  Procs = {p1}
  Names = {a}
  Captures <- SectoralCaptures
  Options <- PlainOptions
  Faults <- NoFault
  NULL = NULL
INVARIANT RegisteredDomainOfRow
CHECK_DEADLOCK FALSE
