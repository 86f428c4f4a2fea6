SPECIFICATION Spec
CONSTANTS
    Workloads      <- MCWorkloads
    Stem           <- MCStem
    MaxNodes       = 2
    MaxSavedNodes  = 2
    MaxKeys        = 2
    TotalDeadline  = 3
    RequestTimeout = 2
INVARIANTS
    FleetPassIsEarned
    AttestationPassIsEarned
    RebuildPassIsEarned
    DevicePassIsEarned
    FailureHasGrounds
    CollectedFromThePinned
    LoadedIsOneCollection
    SavedReplays
    CollectionInDeadline
PROPERTY
    EveryRunEnds
