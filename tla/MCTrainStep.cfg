\* One validation, then two training steps of four rows, under each of the
\* configurations of MCConfigs and for all lengths in {1, 2, 4}.
SPECIFICATION Spec
CONSTANTS
  Configs <- MCConfigs
  LenProfiles <- MCLens
  ValRows = 3
  Steps = 2
  Responses <- MCResponses
  PairStats <- MCPairStats
  SimUnit = 4
  ScoreChunk = 3
  Masks <- MCMasks
  TokenValues <- MCTokenValues
  Gamma = 2
  Lam = 3
INVARIANTS
  ColumnsAligned
  ScoresFair
  AdvantagesComparePeers
  EachRowTrained
  EqualWeights
  GeneratesWithCurrentPolicy
  PoliciesMatch
  MemoryShared
  RandomnessContinues
  BalancedLoad
  RanksInStep
