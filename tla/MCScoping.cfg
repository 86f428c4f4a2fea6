SPECIFICATION Spec
CONSTANTS
    Issuers    = {1, 2, 3, 4}
    Routable   = {1, 2, 3}
    Allowlists <- MCAllowlists
    Statements <- MCStatements
    KeySets    <- MCKeySets
    MaxLedgers = 2
INVARIANTS
    StatementChoosesNothing
    DecidedByOwnLedger
    AppendedReceiptsAreInert
    ReplayAgrees
