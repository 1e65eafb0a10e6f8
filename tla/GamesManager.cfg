SPECIFICATION Spec
CONSTANTS
  MaxVersion = 2
  MaxDay = 2
  MaxCrashes = 1
  Blocks = 1
  MaxRedirects = 1
  UpdatesFrom = {1}
INVARIANTS
  ClosedWindowInstallsNothing
  OnlyVerifiedIsInstalled
PROPERTY UpdatesRunTheirCourse
CHECK_DEADLOCK FALSE
