SPECIFICATION Spec
CONSTANTS
    Inputs = {i1}
    Scripts <- MCScripts
    BatchSize = 1
    MaxDeployments = 2
    MaxExits = 0
    maxAttempts = 2
    MaxVerified = 0
CHECK_DEADLOCK FALSE
INVARIANTS
    TopLevelIsMostRecent
