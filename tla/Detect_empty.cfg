SPECIFICATION DetectSpec
CONSTANTS
  TextLength = 3
  SecretHits <- MCSecretHits
  RuleHits <- MCRuleHitsEmpty
  Reports <- MCReports
  MlReports <- MCMlReports
  Allowed <- MCAllowed
  Dated <- MCDated
  EngineConfigs <- MCEngineConfigs
  MostFound <- MCMostFound
  MaxFindings = 3
INVARIANT SpliceIsExact
CHECK_DEADLOCK FALSE
