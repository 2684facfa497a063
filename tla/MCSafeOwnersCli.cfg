CONSTANTS
    Owners = {10, 35, 50, 60}
    InitialOwners <- MCInitialOwners
    InitialThreshold = 3
    ConfigThreshold = 3
    Thresholds = {3}
    NumWallets = 3
    WalletAddress <- MCWalletAddress
    Signers = {{40}}
    MaxCrashes = 0
SPECIFICATION Spec
INVARIANT
    LocalDeploymentsWork
