SPECIFICATION Spec
CONSTANTS
  NumCaptures = 2
  Nights = 2
  Weeks = 1
  BackupDays = 0
  Scenarios <- Failing
INVARIANT NewFilesSaved
CHECK_DEADLOCK FALSE
