SPECIFICATION Spec
CONSTANTS
    Base = "BTC"
    Quote = "ETH"
    Usd = "USD"
    UsdPrice = 2
    One = 3
    IntMax = 15
    Prices <- AllUint
    Amounts = {0}
    Times = {1}
INVARIANTS
    UsdPairAgrees
