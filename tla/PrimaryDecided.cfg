SPECIFICATION Spec
CONSTANTS
    Requests     <- MCRequests
    Policies     <- MCPolicies
    Statements   <- MCStatements
    Decisions    <- MCDecisions
    Acquisitions <- MCAcquisitions
    Required     <- MCRequired
    Appraisals   <- MCAppraisals
INVARIANT PrimaryDecidedTheVerdict
