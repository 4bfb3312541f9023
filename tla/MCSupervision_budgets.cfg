\* Supervisors that die and are restarted, and a human who resumes the run.
CONSTANTS
  NumItems = 2
  AutoAdvance = TRUE
  Budget = 1
  WaitBounded = TRUE
  Damages = {}
  MaxAttempts = 2
  MaxPackages = 1
  MaxDeaths = 1
  MaxHumanResumes = 1
SPECIFICATION Spec
INVARIANTS
  EscalationBudget
  KernelsOverlapOnlyUnseen
PROPERTIES
  RejectionHolds
  OutlineRefined
CHECK_DEADLOCK FALSE
