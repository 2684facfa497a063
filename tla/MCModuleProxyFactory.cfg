CONSTANTS
    alpha = alpha
    beta = beta
    old = old
    account = account
    Safes = {alpha, beta, old}
    Accounts = {account}
    SphinxSafes = {alpha, beta}
    Supported = {alpha, beta}
    SaltNonces = {0}
    NoSafe = NoSafe
SPECIFICATION Spec
INVARIANTS
    TypeOK
    EnabledModulesAreOwn
    CreatedSafesAreReady
    AlwaysCreatable
