SPECIFICATION Spec
CONSTANTS
    Base = "BTC"
    Quote = "ETH"
    Usd = "USD"
    UsdPrice = 2
    One = 3
    IntMax = 15
    Prices <- Edges
    Amounts <- FewEdges
    Times = {1, 2}
INVARIANTS
    TypeOK
    FeedsAgree
    NotFresherThanEither
    RoundTripLoses
    VaultRateExact
