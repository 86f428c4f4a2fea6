SPECIFICATION Spec
CONSTANTS
    Workloads      <- Fleets
    Stem           <- MCStem
    MaxNodes       = 2
    MaxSavedNodes  = 2
    MaxKeys        = 2
    TotalDeadline  = 3
    RequestTimeout = 2
INVARIANT UncoveredIsNotAFault
