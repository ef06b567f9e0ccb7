----------------------------- MODULE PriceFeeds -----------------------------
(***************************************************************************)
(* The prices readers compute from stored data: getPrice of                *)
(* contracts/Ojo.sol and latestRoundData of the five chainlink-shaped      *)
(* feeds, in integers of a given width.  All of them are views; the state  *)
(* is what they read, and it changes between two reads as postings and     *)
(* vaults please.                                                          *)
(***************************************************************************)
EXTENDS Integers

CONSTANTS
    Base,       \* name of the base asset of a pair
    Quote,      \* name of the quote asset of a pair
    Usd,        \* the name OjoTypes.USD
    UsdPrice,   \* OjoTypes.USD_PRICE, 10**9
    One,        \* 10**18
    IntMax,     \* type(int256).max
    Prices,     \* prices Ojo stores
    Amounts,    \* rates, deposits and supplies of the vaults
    Times       \* timestamps

UintMax == 2 * IntMax + 1

Uint == 0 .. UintMax

Names == {Base, Quote, Usd}

ASSUME PriceFeedsAssumption ==
    /\ IntMax \in Nat
    /\ One \in 1 .. IntMax
    /\ UsdPrice \in 1 .. IntMax
    /\ Prices \subseteq Uint
    /\ Amounts \subseteq Uint
    /\ Times \subseteq Nat
    /\ Usd \notin {Base, Quote}

VARIABLES
    priceData,  \* Ojo's store, price and time of each name
    rate,       \* getRate of a Mellow oracle or a YieldNest viewer
    deposited,  \* getTotalDeposited of an Inception vault
    supply,     \* totalSupply of the Inception LRT
    now         \* block.timestamp

vars == <<priceData, rate, deposited, supply, now>>

PriceData == [price : Prices, resolveTime : Times]

NoPriceData == [price |-> 0, resolveTime |-> 0]

Init ==
    /\ priceData = [a \in Names |-> NoPriceData]
    /\ rate = 0
    /\ deposited = 0
    /\ supply = 0
    /\ now = 0

(***************************************************************************)
(* Solidity arithmetic.  A call that reverts returns no value.             *)
(***************************************************************************)
Reverted == [ok |-> FALSE]

\* The cast int256(x) of a uint256 keeps the bits.
ToInt(x) == IF x > IntMax THEN x - (UintMax + 1) ELSE x

InInt(x) == x >= -IntMax - 1 /\ x <= IntMax

Abs(x) == IF x < 0 THEN -x ELSE x

\* Signed division truncates towards zero.
IntDiv(x, y) ==
    IF (x < 0) = (y < 0) THEN Abs(x) \div Abs(y) ELSE -(Abs(x) \div Abs(y))

\* int256 x * 10**18 / y, checked: overflow and division by zero revert.
ScaledRatioInt(x, y) ==
    IF ~InInt(x * One) \/ y = 0 \/ ~InInt(IntDiv(x * One, y))
    THEN Reverted ELSE [ok |-> TRUE, answer |-> IntDiv(x * One, y)]

(***************************************************************************)
(* Ojo.getPrice.                                                           *)
(***************************************************************************)
PriceValueAndResolveTime(a) ==
    IF a = Usd THEN [price |-> UsdPrice, resolveTime |-> 0] ELSE priceData[a]

RoundedUp(base, quote) ==
    LET b == PriceValueAndResolveTime(base)
        q == PriceValueAndResolveTime(quote)
    IN  IF b.price * One > UintMax \/ q.price = 0
        THEN Reverted
        ELSE [ok |-> TRUE,
              price |-> (b.price * One + q.price - 1) \div q.price,
              baseResolveTime |-> b.resolveTime,
              quoteResolveTime |-> q.resolveTime]

GetPrice(base, quote) ==
    LET b == PriceValueAndResolveTime(base)
        q == PriceValueAndResolveTime(quote)
    IN  IF b.price * One > UintMax \/ q.price = 0
        THEN Reverted
        ELSE [ok |-> TRUE,
              price |-> (b.price * One) \div q.price,
              baseResolveTime |-> b.resolveTime,
              quoteResolveTime |-> q.resolveTime]

(***************************************************************************)
(* latestRoundData of the feeds.                                           *)
(***************************************************************************)
UncheckedCast(a) ==
    [ok |-> TRUE, answer |-> ToInt(priceData[a].price),
     updatedAt |-> priceData[a].resolveTime]

PriceFeed(a) ==
    IF priceData[a].price > IntMax
    THEN Reverted
    ELSE [ok |-> TRUE, answer |-> priceData[a].price,
          updatedAt |-> priceData[a].resolveTime]

Earlier(s, t) == IF s < t THEN s ELSE t

QuoteUnchecked(base, quote) ==
    LET b == priceData[base]
        q == priceData[quote]
        ratio == ScaledRatioInt(ToInt(b.price), ToInt(q.price))
    IN  IF b.price > IntMax \/ (q.price # 0 /\ ~ratio.ok)
        THEN Reverted
        ELSE [ok |-> TRUE,
              answer |-> IF q.price = 0 THEN 0 ELSE ratio.answer,
              updatedAt |-> Earlier(b.resolveTime, q.resolveTime)]

LaterTime(base, quote) ==
    LET b == priceData[base]
        q == priceData[quote]
        ratio == ScaledRatioInt(b.price, q.price)
    IN  IF b.price > IntMax \/ q.price > IntMax \/ (q.price # 0 /\ ~ratio.ok)
        THEN Reverted
        ELSE [ok |-> TRUE,
              answer |-> IF q.price = 0 THEN 0 ELSE ratio.answer,
              updatedAt |-> b.resolveTime]

PriceFeedQuoted(base, quote) ==
    LET b == priceData[base]
        q == priceData[quote]
        ratio == ScaledRatioInt(b.price, q.price)
    IN  IF b.price > IntMax \/ q.price > IntMax \/ (q.price # 0 /\ ~ratio.ok)
        THEN Reverted
        ELSE [ok |-> TRUE,
              answer |-> IF q.price = 0 THEN 0 ELSE ratio.answer,
              updatedAt |-> Earlier(b.resolveTime, q.resolveTime)]

\* MellowPriceFeed and ynPriceFeed: the rate is cast without a check.
SignDropped == [ok |-> TRUE, answer |-> rate % (IntMax + 1), updatedAt |-> now]

RateFeed == [ok |-> TRUE, answer |-> ToInt(rate), updatedAt |-> now]

InceptionPriceFeed ==
    LET ratio == ScaledRatioInt(ToInt(deposited), ToInt(supply))
    IN  IF supply # 0 /\ ~ratio.ok
        THEN Reverted
        ELSE [ok |-> TRUE,
              answer |-> IF supply = 0 THEN 0 ELSE ratio.answer,
              updatedAt |-> now]

(***************************************************************************)
(* What the views read changes under them.                                 *)
(***************************************************************************)
Post(a, data) ==
    /\ priceData' = [priceData EXCEPT ![a] = data]
    /\ UNCHANGED <<rate, deposited, supply, now>>

RateMoves(r) ==
    /\ rate' = r
    /\ UNCHANGED <<priceData, deposited, supply, now>>

DepositsMove(d) ==
    /\ deposited' = d
    /\ UNCHANGED <<priceData, rate, supply, now>>

SupplyMoves(s) ==
    /\ supply' = s
    /\ UNCHANGED <<priceData, rate, deposited, now>>

Tick(t) ==
    /\ t > now
    /\ now' = t
    /\ UNCHANGED <<priceData, rate, deposited, supply>>

Next ==
    \/ \E a \in {Base, Quote}, data \in PriceData : Post(a, data)
    \/ \E x \in Amounts : RateMoves(x) \/ DepositsMove(x) \/ SupplyMoves(x)
    \/ \E t \in Times : Tick(t)

Spec == Init /\ [][Next]_vars

(***************************************************************************)
(* Properties.                                                             *)
(***************************************************************************)

\* What the views read stays in its type, and no answer of a feed over Ojo's
\* store is negative: a price that does not fit int256 reverts.
TypeOK ==
    /\ \A a \in Names : priceData[a] \in PriceData \cup {NoPriceData}
    /\ {rate, deposited, supply} \subseteq Amounts \cup {0}
    /\ now \in Times \cup {0}
    /\ \A a \in Names : PriceFeed(a).ok => PriceFeed(a).answer >= 0

\* The two ways to price a pair agree: where PriceFeedQuoted answers and the
\* quote has a price, getPrice answers too, with the same number.
FeedsAgree ==
    LET feed == PriceFeedQuoted(Base, Quote)
        ojo == GetPrice(Base, Quote)
    IN  feed.ok /\ priceData[Quote].price # 0 => ojo.ok /\ feed.answer = ojo.price

\* A pair is never reported fresher than either of its halves.
NotFresherThanEither ==
    LET feed == PriceFeedQuoted(Base, Quote)
    IN  feed.ok => /\ feed.updatedAt <= priceData[Base].resolveTime
                   /\ feed.updatedAt <= priceData[Quote].resolveTime

\* Pricing there and back never gains: both divisions round down.
RoundTripLoses ==
    \A a, b \in Names :
        GetPrice(a, b).ok /\ GetPrice(b, a).ok =>
            GetPrice(a, b).price * GetPrice(b, a).price <= One * One

\* What the feeds over vaults answer in spite of their unchecked casts
\* (MellowPriceFeed.sol:110, InceptionPriceFeed.sol:116-124).  A rate is exact
\* or negative.  An empty vault gives zero; a ratio is exact but for rounding
\* down where both amounts fit int256, and not positive where one does not.
\* Where neither fits the signs cancel, and nothing is said of the answer: it
\* may be positive and still not be the ratio.
VaultRateExact ==
    /\ RateFeed.answer >= 0 => RateFeed.answer = rate
    /\ LET feed == InceptionPriceFeed
       IN  /\ supply = 0 => feed.ok /\ feed.answer = 0
           /\ supply # 0 /\ feed.ok =>
                 \/ /\ feed.answer * supply <= deposited * One
                    /\ deposited * One < (feed.answer + 1) * supply
                 \/ /\ feed.answer <= 0
                    /\ deposited > IntMax \/ supply > IntMax
                 \/ deposited > IntMax /\ supply > IntMax

\* PriceFeedQuoted.sol:93: the answer is the price of the base quoted by the
\* quote; IOjo.sol:69: USD is used with a price of its own.
UsdPairAgrees ==
    LET feed == PriceFeedQuoted(Base, Usd)
        ojo == GetPrice(Base, Usd)
    IN  feed.ok /\ ojo.ok => feed.answer = ojo.price

=============================================================================
