CONSTANTS
  Flows = {f1}
  f1 = f1
  NoMapping = NoMapping
  NoType = NoType
  NoToken = NoToken
  profile <- MCProfile
  metadata <- MCMetadata
  Evaluate <- MCEvaluate
  transfer_type_mappings <- MCConfig
  Submissions <- MCSubmissions
  Backends = {"memory", "postgres_vault"}
  MaxTokens = 2
  MaxFaults = 1
SPECIFICATION FlowSpec
CHECK_DEADLOCK FALSE
INVARIANTS NoOrphanedToken BackstopNeverFires ClaimsAsConfigured EndedLeavesNothing
PROPERTY FlowsTerminate
