SPECIFICATION Spec
CONSTANTS
    Workloads      <- MCRecovery
    Stem           <- MCStem
    MaxNodes       = 2
    MaxSavedNodes  = 2
    MaxKeys        = 2
    TotalDeadline  = 3
    RequestTimeout = 2
INVARIANT AnchorIsOfTheSameCollection
