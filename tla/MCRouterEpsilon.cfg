\* A constant temperature with a decaying epsilon.
SPECIFICATION Spec
CONSTANTS
    Langs = {"en", "ja"}
    Topics = {"general", "regional", "translation"}
    Regional = "regional"
    Regions = {"jp"}
    None = "None"
    Batches <- RoutingBatches
    Rewards <- NoRewards
    Prior <- FlatPrior
    AlphaInverse = 2
    UpdateEvery = 2
    OrigLangMin = 2
    GroupNorms = {"none"}
    One = 384
    Temperature = 8
    TemperatureInit = 8
    TemperatureMin = 8
    TemperatureDivisor = 1
    Epsilon = 0
    EpsilonInit = 4
    EpsilonMin = 0
    EpsilonDivisor = 2
    MaxSteps = 3
INVARIANTS
    EpsilonOnSchedule
