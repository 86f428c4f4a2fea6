SPECIFICATION Spec
CONSTANTS
    Selections     <- MCSelections
    SourceCounts   <- MCSourceCounts
    KeySets        <- MCKeySets
    TotalDeadline  = 3
    RequestTimeout = 2
    MaxRotations   = 1
INVARIANTS
    DeadlineHolds
    KeysAreTheServices
    ConfigurationIsTheSameService
    EveryoneIsAccountedFor
PROPERTY
    Terminates
