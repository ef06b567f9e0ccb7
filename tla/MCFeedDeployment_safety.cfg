SPECIFICATION Spec
CONSTANTS
    eth = eth
    arb = arb
    pair1 = pair1
    pair2 = pair2
    vault1 = vault1
    vault2 = vault2
    NoVault = NoVault
    NoName = NoName
    ChainOrder <- TwoChains
    Names <- TwoNames
    Vaults <- TwoVaults
    MaxRuns = 4
    MaxFailures = 2
CHECK_DEADLOCK FALSE
INVARIANTS
    TypeOK
    NamesKeepTheirVaults
    ImplementedMeansInitialized
    CompleteUnlessReported
