\* Every resume mode on every start, in one directory.
SPECIFICATION Spec
CONSTANTS
    UseCritic = TRUE
    TotalSteps = 5
    Epochs = 2
    BatchesPerEpoch = 2
    SaveFreq = 2
    CriticWarmup = 2
    MaxKeep <- KeepOneCritic
    ResumeModes = {"auto", "disable", "resume_path"}
    MaxRuns = 3
INVARIANTS
    NoStepLostOrRepeated
    RetentionPerRun
    OvershootBound
PROPERTY
    PublishOnlyWhole
CHECK_DEADLOCK FALSE
