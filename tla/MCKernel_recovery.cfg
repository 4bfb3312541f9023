SPECIFICATION Spec
CONSTANTS
  NumItems = 2
  Prerequisites <- MCChain
  GateRequired = {2}
  EvidenceRequired = {1}
  TriageAsksGate = {1, 2}
  Requests <- MCRequests
  MaxItems = 0
  MaxFixRounds = 0
  MaxRemediationRounds = 0
  MaxAttempts = 2
  MaxRefreshes = 1
  MaxInterrupts = 1
INVARIANTS
  BuildsOnPrerequisites
  PassedIsLanded
  GateGuardsLanding
  LandsOnce
  PendingGateHolds
  GitAgrees
  StrandedOnlyByMishap
  DecisionTakesEffect
PROPERTIES
  PassedIsFinal
  EarlierAttemptsPreserved
  LedgerRefined
  OutlineRefined
\* a finished or stranded run stops
CHECK_DEADLOCK FALSE
