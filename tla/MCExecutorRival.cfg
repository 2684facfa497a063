CONSTANTS
    deployment = deployment
    cancellation = cancellation
    retirement = retirement
    rival = rival
    Roots = {deployment, cancellation, retirement, rival}
    NoRoot = NoRoot
    Size <- MCSize
    Nonce <- MCNonce
    Required = {1, 3}
    LeafGas <- MCLeafGas
    LeafBytes <- MCLeafBytes
    Networks <- MCNetworks
    ExecutionModes = {"Platform", "LiveNetworkCLI"}
    StartingBalance = 1
    FundsRequested = 1
    SimulatedBalance <- MCSimulatedBalance
    NumSystem = 2
    MaxCrashes = 2
SPECIFICATION Spec
INVARIANT
    SuccessIsOurs
CHECK_DEADLOCK FALSE
