SPECIFICATION Spec
CONSTANTS
    click1 = click1
    click2 = click2
    arch = arch
    atom = atom
    wallet = wallet
    other = other
    Requests = {click1, click2}
    Assets = {arch, atom}
    Lengths = {1, 2}
    Order <- OfferedAssets
    Users = {wallet, other}
    Amounts = {1, 2}
    Limits = {1, 2}
    Funds = 2
    MockOjo = MockOjo
    Ojo = Ojo
    Gateway = Gateway
SYMMETRY AnyClick
CHECK_DEADLOCK FALSE
INVARIANTS
    TypeOK
    SuccessMeansSent
    LeftoverNeedsFailure
    AllowancesUsedUp
PROPERTIES
    PaidByAsker
    ContractsKeepNothing
