SPECIFICATION Spec
CONSTANTS
  MaxName = 9
  MaxLabel = 3
  Start = 2
  CapLens <- SmallCapLens
INVARIANTS
  TypeOK
  ReadsStayNear
  DroppedForCause
  LegalNameFits
  WholeName
PROPERTY WalkEnds
CHECK_DEADLOCK FALSE
