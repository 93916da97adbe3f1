\* Defaults: every checkpoint is kept; one crash and one restart.
SPECIFICATION Spec
CONSTANTS
    UseCritic = FALSE
    TotalSteps = 3
    Epochs = 3
    BatchesPerEpoch = 1
    SaveFreq = 1
    CriticWarmup = 0
    MaxKeep <- KeepAll
    ResumeModes = {"auto"}
    MaxRuns = 2
INVARIANT
    AutoResumeNeverRaises
CHECK_DEADLOCK FALSE
