SPECIFICATION Spec
CONSTANTS
  NumItems = 2
  Prerequisites <- MCChain
  GateRequired = {2}
  EvidenceRequired = {}
  TriageAsksGate = {2}
  Requests <- MCFirstOnly
  MaxItems = 0
  MaxFixRounds = 1
  MaxRemediationRounds = 1
  MaxAttempts = 1
  MaxRefreshes = 0
  MaxInterrupts = 0
INVARIANTS
  NoMoveRefused
PROPERTIES
  CallsAdvance
  CallEnds
  ApprovedItemPasses
\* a finished or stranded run stops
CHECK_DEADLOCK FALSE
