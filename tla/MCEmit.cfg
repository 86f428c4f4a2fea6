SPECIFICATION Spec
CONSTANTS
    Jobs       <- MCJobs
    PriorTrust <- MCPriorTrust
    AllFiles   <- MCAllFiles
INVARIANTS
    ExitZeroLeavesEverything
    RecordAgreesWithExit
PROPERTIES
    SnapshotIsFinal
    ImplementsGate
