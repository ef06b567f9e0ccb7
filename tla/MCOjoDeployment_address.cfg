SPECIFICATION Spec
CONSTANTS
    eth = eth
    arb = arb
    key1 = key1
    key2 = key2
    account = account
    ojo = ojo
    window = window
    wide = wide
    Chains = {eth, arb}
    Order <- TwoChains
    Keys = {key1, key2}
    Account = account
    Environment <- EnvFile
    Updates <- Corrections
    TooWide = {wide}
    Empty = Empty
    Funds <- WalletFunds
    MaxRuns = 3
CHECK_DEADLOCK FALSE
INVARIANTS
    RequestsReachOjo
