\* Two checkpoints to keep, one restart.
SPECIFICATION Spec
CONSTANTS
    UseCritic = FALSE
    TotalSteps = 3
    Epochs = 3
    BatchesPerEpoch = 1
    SaveFreq = 1
    CriticWarmup = 0
    MaxKeep <- KeepTwo
    ResumeModes = {"auto"}
    MaxRuns = 2
INVARIANT
    RetentionOnDisk
CHECK_DEADLOCK FALSE
