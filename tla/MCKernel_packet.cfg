SPECIFICATION Spec
CONSTANTS
  NumItems = 1
  Prerequisites <- MCNoPrerequisites
  GateRequired = {}
  EvidenceRequired = {}
  TriageAsksGate = {}
  Requests <- MCFirstOnly
  MaxItems = 0
  MaxFixRounds = 1
  MaxRemediationRounds = 0
  MaxAttempts = 2
  MaxRefreshes = 0
  MaxInterrupts = 0
INVARIANTS
  PacketHoldsLatestReport
\* a finished or stranded run stops
CHECK_DEADLOCK FALSE
