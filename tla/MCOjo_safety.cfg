SPECIFICATION Spec
CONSTANTS
    Commands = {c1, c2}
    Assets = {a1, a2}
    Prices = {0, 7}
    Multipliers = {1, 3}
    Windows = {1, 18}
    Limits = {0, 2}
    UintMax = 20
    StartTime = 1
    MaxTime = 2
    MaxSkew = 1
    Payloads <- OtherPayloads
    MaxBalances = 1
SYMMETRY Symmetry
INVARIANTS
    TypeOK
    ExactlyOnce
    StoreIsFromLanded
PROPERTIES
    ImplementsOracle
    BoundedRegression
    CallbackUsesOwnPrices
