SPECIFICATION Spec
CONSTANTS
    Certificates <- MCCertificates
    Chains       <- MCChains
    Files        <- MCFiles
    Requests     <- MCRequests
INVARIANTS
    ValidIsGenuine
    NeverAccusedWrongly
    GenuineIsFound
    WindowAnswersForThePath
