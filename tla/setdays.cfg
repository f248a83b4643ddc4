SPECIFICATION Spec
CONSTANTS
  Queries <- AnyFiles
  NULL = NULL
INVARIANTS
  EarliestPairs
  LessThanTenDays
CHECK_DEADLOCK FALSE
