\* With fewer threads than rows on a worker, a submission may never return.
SPECIFICATION Spec
CHECK_DEADLOCK FALSE
CONSTANTS
  Configs <- StallConfigs
  Managers = {0}
  Servers = {0}
  CacheSize = 3
PROPERTY
  EverySubmissionReturns
