SPECIFICATION Spec
CONSTANTS
    Commands = {c1}
    Configs <- MCConfigs
    RpcEndpoints <- MCRpcEndpoints
    NetworkType <- MCNetworkType
    CliNetworks <- MCCliNetworks
    Sigs <- MCSigs
    MaxActions = 2
    MaxStarts = 2
CHECK_DEADLOCK FALSE
INVARIANTS
    OwnTransactions
    ProposedTreeIsComplete
    ProposedAsConfigured
