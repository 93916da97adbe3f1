\* Two updates of the arms, centered rewards and z-scores of up to three languages.
SPECIFICATION Spec
CONSTANTS
    Langs = {"en", "ja", "zh"}
    Topics = {"regional", "translation"}
    Regional = "regional"
    Regions = {"jp", "sa"}
    None = "None"
    Batches <- UpdateBatches
    Rewards <- TwoRewards
    Prior <- TiltedPrior
    AlphaInverse = 2
    UpdateEvery = 2
    OrigLangMin = 1
    GroupNorms = {"center", "zscore"}
    One = 32
    Temperature = 8
    TemperatureInit = 8
    TemperatureMin = 8
    TemperatureDivisor = 1
    Epsilon = 4
    EpsilonInit = 4
    EpsilonMin = 0
    EpsilonDivisor = 2
    MaxSteps = 4
INVARIANTS
    ArmsBounded
PROPERTIES
    CreditWhereDue
    NeutralUpdate
