\* A command of a required group, which fails; a mutation stage without a stop.
CONSTANTS
  AuditIds = {a}
  Commands = {c}
  RequiredCommands = {c}
  Artifacts = {}
  MutationReports <- MCQuietReports
  GateRequired = TRUE
  ClaudeEffort = "max"
  MaxFixRounds = 1
  MaxRemediationRounds = 1
SPECIFICATION Spec
INVARIANTS
  VerificationGates
\* an attempt ends
CHECK_DEADLOCK FALSE
