\* Default resume mode, rotation with room for two checkpoints, three starts.
SPECIFICATION SampledFairSpec
CONSTANTS
    UseCritic = TRUE
    TotalSteps = 6
    Epochs = 2
    BatchesPerEpoch = 3
    SaveFreq = 2
    CriticWarmup = 2
    MaxKeep <- KeepTwo
    ResumeModes = {"auto"}
    MaxRuns = 3
    NumPrompts = 7
    Repeats = 2
    RolloutN = 2
    TrainBatchSize = 4
    Permutation <- Orders
INVARIANTS
    TypeOK
    OneLineage
    EpochServesEachPrompt
    TrackedIsWhole
    BoundedLoss
    FinishedIsSaved
PROPERTIES
    ImplementsResumableTraining
    RunEnds
CHECK_DEADLOCK FALSE
