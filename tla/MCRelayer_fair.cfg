SPECIFICATION FairSpec
CONSTANTS
    btc = btc
    usdt = usdt
    Config <- TwoDenoms
    Prices <- MovingAndPegged
    Interval = 1
    Deviation = 50
    Timeout = 1
    MaxFaults = 2
    MaxBacklog = 1
    MayDelist = {usdt}
INVARIANTS
    TypeOK
    AttemptsBounded
PROPERTIES
    RenewedOnlyAfterAccepted
    BroadcastReturns
    HeartbeatSent
    SettlesOnMarket
