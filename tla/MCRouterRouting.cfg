\* Routing, buffering and annealing; the arms stay at rest.
SPECIFICATION Spec
CONSTANTS
    Langs = {"en", "ja"}
    Topics = {"general", "regional", "translation"}
    Regional = "regional"
    Regions = {"jp"}
    None = "None"
    Batches <- RoutingBatches
    Rewards <- NoRewards
    Prior <- FlatPrior
    AlphaInverse = 2
    UpdateEvery = 2
    OrigLangMin = 2
    GroupNorms = {"none"}
    One = 384
    Temperature = 8
    TemperatureInit = 8
    TemperatureMin = 2
    TemperatureDivisor = 2
    Epsilon = 4
    EpsilonInit = 4
    EpsilonMin = 0
    EpsilonDivisor = 2
    MaxSteps = 3
INVARIANTS
    OrigLangKept
    BufferMatchesSteps
PROPERTIES
    AnnealOnlyCools
