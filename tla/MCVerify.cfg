SPECIFICATION Spec
CONSTANTS
    Requests     <- MCRequests
    Policies     <- MCPolicies
    Statements   <- MCStatements
    Decisions    <- MCDecisions
    Acquisitions <- MCAcquisitions
    Required     <- MCRequired
    Appraisals   <- MCAppraisals
INVARIANTS
    PassMeansEstablished
    NoVetoByReceipt
    FailureIsNamed
PROPERTY
    AdapterOnlyNarrows
