CONSTANTS
    Chains = {1, 5, 10}
    MaxTxs = 2
    MaxNetworks = 3
SPECIFICATION LoopSpec
INVARIANTS
    LeavesAreValid
    ThrowsExactlyOnConflict
    NetworkLeavesAreABatchPlan
CHECK_DEADLOCK FALSE
