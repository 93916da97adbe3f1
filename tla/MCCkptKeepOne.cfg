\* max_actor_ckpt_to_keep=1, as the deprecation warning of remove_previous_ckpt_in_save advises.
SPECIFICATION Spec
CONSTANTS
    UseCritic = FALSE
    TotalSteps = 3
    Epochs = 3
    BatchesPerEpoch = 1
    SaveFreq = 1
    CriticWarmup = 0
    MaxKeep <- KeepOne
    ResumeModes = {"auto"}
    MaxRuns = 1
INVARIANT
    TrackedIsWhole
CHECK_DEADLOCK FALSE
