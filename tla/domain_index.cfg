SPECIFICATION Spec
CONSTANTS
  Texts <- SomeTexts
  Before <- StrcmpBefore
  Size <- SizeOf
  MaxLength = 19
  Sectoral = {"com"}
  MaxRows = 3
  NULL = NULL
  ERROR = ERROR
INVARIANTS
  TypeOK
  NamesOnce
  IndexOrdered
  SearchesAgree
  DumpRestores
  ResultsRight
  SameDomains
CHECK_DEADLOCK FALSE
