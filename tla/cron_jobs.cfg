SPECIFICATION Spec
CONSTANTS
  NumCaptures = 2
  Nights = 2
  Weeks = 2
  BackupDays = 0
  Scenarios <- AnyScenario
INVARIANTS
  TypeOK
  LoadsUndisturbed
  RotationRepairs
  FreshWeek
  PacketsOfTheirFile
  SavedUnlessFailed
PROPERTY WeekStoreSpec
CHECK_DEADLOCK FALSE
