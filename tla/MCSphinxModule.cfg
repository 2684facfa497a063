CONSTANTS
    o1 = o1
    o2 = o2
    o3 = o3
    deploy = deploy
    cancelDeploy = cancelDeploy
    retire = retire
    everywhere = everywhere
    twin = twin
    Roots = {deploy, cancelDeploy, retire, everywhere, twin}
    NoRoot = NoRoot
    Tree <- MCTree
    SignedBy <- MCSignedBy
    Accounts = {o1, o2, o3}
    Threshold = 2
    ChainId = 1
    SafeProxy = "safe"
    ModuleProxy = "module"
    NonceSpace = 16
    MaxBatch = 4
SPECIFICATION Spec
INVARIANTS
    TypeOK
    ActiveIsApproved
    CachedStateFresh
    ExecutedInOrder
    OutcomeMatchesActions
    UsedOnceInNonceOrder
    NeverStuck
PROPERTIES
    TerminalForever
    ImplementsLifecycle
