SPECIFICATION CollectionSpec
CONSTANTS
    Codes = {"a", "b", "raw", "big"}
    WithConstructor = {"b"}
    Args = {"x"}
    Artifacts <- MCArtifacts
    Oversized = {"big"}
    Salts = {"s"}
    Inner <- MCInner
    GasUsed = {10, 600}
    Networks <- MCNetworks
    Funds = {0, 3}
    MaxAccesses = 3
CHECK_DEADLOCK FALSE
INVARIANTS
    ActionsAreTheTransactions
    DeploymentsAreLabeled
    PreviewIsTrue
