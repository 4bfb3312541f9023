\* One audit finding, which two lanes may name, and what the mutation stage raises;
\* a required command may fail.
CONSTANTS
  AuditIds = {a}
  Commands = {c}
  RequiredCommands = {c}
  Artifacts = {}
  MutationReports <- MCMutationReports
  GateRequired = TRUE
  ClaudeEffort = "max"
  MaxFixRounds = 1
  MaxRemediationRounds = 1
SPECIFICATION Spec
INVARIANTS
  BlockingSurvivesMerge
  StopsAreHonoured
  RepairsBeforeGate
PROPERTIES
  FixCarriesFindings
\* an attempt ends
CHECK_DEADLOCK FALSE
