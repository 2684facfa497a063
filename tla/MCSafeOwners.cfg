CONSTANTS
    Owners = {10, 35, 50, 60}
    InitialOwners <- MCInitialOwners
    InitialThreshold = 3
    ConfigThreshold = 3
    Thresholds = {3}
    NumWallets = 3
    WalletAddress <- MCWalletAddress
    Signers = {{20}, {20, 30, 40}}
    MaxCrashes = 2
SPECIFICATION Spec
INVARIANTS
    TypeOK
    WalletsCanApprove
    LeavesNoTrace
PROPERTY
    OnlyWalletsMove
