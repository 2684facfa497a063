SPECIFICATION Spec
CONSTANTS
    Inputs = {i1}
    Scripts <- MCScripts
    BatchSize = 1
    MaxDeployments = 3
    MaxExits = 1
    maxAttempts = 2
    MaxVerified = 1
CHECK_DEADLOCK FALSE
INVARIANTS
    RecordsAreTrue
    RecordsAreComplete
    ReportedAsVerified
    NoContractIsLeftOut
PROPERTIES
    NothingForgotten
