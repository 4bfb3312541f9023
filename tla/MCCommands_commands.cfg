\* Three commands in any overlap on two items; the first needs evidence, the second
\* is gated.
CONSTANTS
  Callers = {p1, p2, p3}
  NumItems = 2
  GateRequired = {2}
  EvidenceRequired = {1}
  MaxAttempts = 2
  MaxRefreshes = 2
SYMMETRY Symmetry
SPECIFICATION Spec
INVARIANTS
  OneWorkerPerAttempt
  PassedIsLanded
  GateGuardsLanding
PROPERTIES
  RunBranchesOnlyGrow
  ReviewedStays
  PassErasedOnlyByStaleCopy
CHECK_DEADLOCK FALSE
