SPECIFICATION Spec
CONSTANTS
  Frames <- AllFrames
  Procs = {p1, p2}
  Names = {a, b}
  Captures <- RaceCaptures
  Options <- RaceOptions
  Faults <- AnyFault
  NULL = NULL
INVARIANTS
  TypeOK
  NoFrameTwice
  NoWaitInVain
PROPERTIES
  StoreSpec
  RunsEnd
  EveryFileLoaded
CHECK_DEADLOCK FALSE
