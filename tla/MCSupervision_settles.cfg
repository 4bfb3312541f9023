\* Supervisors of a run whose files and branch get lost.
CONSTANTS
  NumItems = 2
  AutoAdvance = FALSE
  Budget = 1
  WaitBounded = TRUE
  Damages = {"plan_missing", "branch_missing"}
  MaxAttempts = 2
  MaxPackages = 1
  MaxDeaths = 0
  MaxHumanResumes = 0
SPECIFICATION Spec
PROPERTIES
  SpinsNotIdly
CHECK_DEADLOCK FALSE
