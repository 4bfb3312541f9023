SPECIFICATION Spec
CONSTANTS
  NumItems = 1
  Prerequisites <- MCNoPrerequisites
  GateRequired = {1}
  EvidenceRequired = {}
  TriageAsksGate = {}
  Requests <- MCFirstOnly
  MaxItems = 0
  MaxFixRounds = 2
  MaxRemediationRounds = 1
  MaxAttempts = 2
  MaxRefreshes = 1
  MaxInterrupts = 1
INVARIANTS
  PassedWasReviewed
\* a finished or stranded run stops
CHECK_DEADLOCK FALSE
