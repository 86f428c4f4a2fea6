SPECIFICATION Spec
CONSTANTS
    Policies    <- MCPolicies
    Statements  <- MCStatements
    SourceLists <- MCSources
    Clocks      = {100}
    Receipts    <- MCReceipts
    JsonTypes   = {6}
    MaxDepth    = 2
    Half        = 128
    Day         = 2
INVARIANTS
    LessKnownDecidesNoMore
    JunkReceiptsDecideNothing
    PurposeNeedsAnAuthority
    AuthorisedByOneAcquisition
    KnownFailuresAreReported
    AcceptanceAnsweredEverything
    HeadersReadAlike
    RecentByEveryLedger
    LiveAtEveryRegistration
