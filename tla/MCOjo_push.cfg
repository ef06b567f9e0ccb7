SPECIFICATION Spec
CONSTANTS
    Commands = {c1, c2}
    Assets = {a1}
    Prices = {7}
    Multipliers = {1}
    Windows = {1, 18}
    Limits = {1}
    UintMax = 20
    StartTime = 1
    MaxTime = 2
    MaxSkew = 1
    Payloads = {}
    MaxBalances = 1
INVARIANTS
    PushMakesNoCall
