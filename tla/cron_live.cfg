SPECIFICATION Spec
CONSTANTS
  NumCaptures = 2
  Nights = 2
  Weeks = 1
  BackupDays = 0
  Scenarios <- AnyScenario
PROPERTIES
  DailyEnds
  CurrentLoaded
CHECK_DEADLOCK FALSE
