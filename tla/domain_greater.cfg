SPECIFICATION Spec
CONSTANTS
  Texts <- SomeTexts
  Before <- StrcmpBefore
  Size <- SizeOf
  MaxLength = 19
  Sectoral = {"com"}
  MaxRows = 2
  NULL = NULL
  ERROR = ERROR
INVARIANT SearchGreater
CHECK_DEADLOCK FALSE
