\* The rollout stops when its last round has ended.
SPECIFICATION Spec
CHECK_DEADLOCK FALSE
CONSTANTS
  Configs <- MCConfigs
  Managers = {0, 1}
  Servers = {0, 1}
  CacheSize = 3
INVARIANTS
  ServersBalanced
  OneServerPerRequest
  MaskMatchesTokens
  TurnsBounded
  OwnScores
  ToolsWithinLimit
  EnginesReachWorkers
PROPERTY
  RolloutEnds
