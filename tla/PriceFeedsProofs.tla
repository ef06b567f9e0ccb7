--------------------------- MODULE PriceFeedsProofs ---------------------------
(***************************************************************************)
(* Theorems about PriceFeeds, for integers of any width, any scale and any *)
(* prices: TLC checks them with integers of five bits.                     *)
(***************************************************************************)
EXTENDS PriceFeeds, TLAPS

(***************************************************************************)
(* Division.                                                               *)
(***************************************************************************)

LEMMA ProductIsNatural ==
    ASSUME NEW m \in Nat, NEW n \in Nat
    PROVE  m * n \in Nat
OBVIOUS

LEMMA QuotientBounds ==
    ASSUME NEW m \in Nat, NEW n \in Nat, n > 0
    PROVE  /\ m \div n \in Nat
           /\ (m \div n) * n <= m
           /\ m < (m \div n + 1) * n
OBVIOUS

LEMMA ProductGrows ==
    ASSUME NEW k \in Nat, NEW l \in Nat, NEW m \in Nat, NEW n \in Nat, k <= m, l <= n
    PROVE  k * l <= m * n
<1>1. k * l <= m * l
    OBVIOUS
<1>2. m * l <= m * n
    OBVIOUS
<1> QED
    BY <1>1, <1>2, ProductIsNatural

LEMMA FactorCancels ==
    ASSUME NEW m \in Nat, NEW n \in Nat, NEW k \in Nat, k > 0, m * k <= n * k
    PROVE  m <= n
OBVIOUS

\* Signed division and scaling are the unsigned ones where nothing is negative.
LEMMA SignedIsUnsigned ==
    ASSUME NEW m \in Nat, NEW n \in Nat
    PROVE  IntDiv(m, n) = m \div n
BY DEF IntDiv, Abs

LEMMA ScaleIsNatural == One \in Nat /\ IntMax \in Nat /\ UintMax \in Nat /\ IntMax <= UintMax
BY PriceFeedsAssumption DEF UintMax

LEMMA RatioOfNaturals ==
    ASSUME NEW m \in Nat, NEW n \in Nat, n # 0, ScaledRatioInt(m, n).ok
    PROVE  /\ m * One \in Nat /\ m * One <= IntMax
           /\ ScaledRatioInt(m, n).answer = (m * One) \div n
<1>1. m * One \in Nat
    BY ProductIsNatural, ScaleIsNatural
<1>2. InInt(m * One)
    BY DEF ScaledRatioInt, Reverted
<1>3. ScaledRatioInt(m, n).answer = IntDiv(m * One, n)
    BY DEF ScaledRatioInt, Reverted
<1> QED
    BY <1>1, <1>2, <1>3, SignedIsUnsigned DEF InInt

(***************************************************************************)
(* The inductive invariant.                                                *)
(***************************************************************************)

\* The store has an entry for each name.
IInv ==
    /\ priceData \in [Names -> PriceData \cup {NoPriceData}]
    /\ {rate, deposited, supply} \subseteq Amounts \cup {0}
    /\ now \in Times \cup {0}

LEMMA InitIInv == Init => IInv
BY DEF Init, IInv

LEMMA NextKeepsIInv == IInv /\ [Next]_vars => IInv'
<1> SUFFICES ASSUME IInv, [Next]_vars PROVE IInv'
    OBVIOUS
<1>1. ASSUME NEW a \in {Base, Quote}, NEW data \in PriceData, Post(a, data)
      PROVE  IInv'
    BY <1>1 DEF Post, IInv, Names
<1>2. ASSUME NEW x \in Amounts, RateMoves(x) \/ DepositsMove(x) \/ SupplyMoves(x)
      PROVE  IInv'
    BY <1>2 DEF RateMoves, DepositsMove, SupplyMoves, IInv
<1>3. ASSUME NEW t \in Times, Tick(t)
      PROVE  IInv'
    BY <1>3 DEF Tick, IInv
<1>4. CASE UNCHANGED vars
    BY <1>4 DEF vars, IInv
<1> QED
    BY <1>1, <1>2, <1>3, <1>4 DEF Next

LEMMA Invariance == Spec => []IInv
BY InitIInv, NextKeepsIInv, PTL DEF Spec

LEMMA UintIsNatural == \A x \in Uint : x \in Nat /\ x <= UintMax
BY ScaleIsNatural DEF Uint

\* What the views compute with.
LEMMA StoredTyped ==
    ASSUME IInv, NEW a \in Names
    PROVE  /\ priceData[a].price \in Nat /\ priceData[a].price <= UintMax
           /\ priceData[a].resolveTime \in Nat
<1>1. priceData[a] \in PriceData \cup {NoPriceData}
    BY DEF IInv
<1>2. CASE priceData[a] \in PriceData
    <2>1. priceData[a].price \in Uint /\ priceData[a].resolveTime \in Nat
        BY <1>2, PriceFeedsAssumption DEF PriceData
    <2> QED
        BY <2>1, UintIsNatural
<1>3. CASE priceData[a] = NoPriceData
    BY <1>3, ScaleIsNatural DEF NoPriceData
<1> QED
    BY <1>1, <1>2, <1>3

LEMMA AmountsTyped ==
    ASSUME IInv
    PROVE  \A x \in {rate, deposited, supply} : x \in Nat /\ x <= UintMax
<1>1. {rate, deposited, supply} \subseteq Uint \cup {0}
    BY PriceFeedsAssumption DEF IInv
<1> QED
    BY <1>1, UintIsNatural, ScaleIsNatural

LEMMA PairTyped == Base \in Names /\ Quote \in Names /\ Base # Usd /\ Quote # Usd
BY PriceFeedsAssumption DEF Names

(***************************************************************************)
(* The theorems.                                                           *)
(***************************************************************************)

\* The views read well-typed data, and no feed over Ojo's store answers a
\* negative price (PriceFeed.sol:94-127), in integers of any width.
THEOREM TypeCorrect == Spec => []TypeOK
<1>1. ASSUME IInv
      PROVE  TypeOK
    <2>1. \A a \in Names : PriceFeed(a).ok => PriceFeed(a).answer >= 0
        BY <1>1, StoredTyped DEF PriceFeed, Reverted
    <2> QED
        BY <1>1, <2>1 DEF IInv, TypeOK
<1> QED
    BY Invariance, <1>1, PTL

\* The signed and the unsigned way to price a pair agree: casts, overflow
\* checks and roundings of PriceFeedQuoted.sol:97-142 and Ojo.sol:168-186
\* lead to the same number.
THEOREM FeedsAlwaysAgree == Spec => []FeedsAgree
<1>1. ASSUME IInv
      PROVE  FeedsAgree
    <2> DEFINE b == priceData[Base].price
               q == priceData[Quote].price
    <2> SUFFICES ASSUME PriceFeedQuoted(Base, Quote).ok, q # 0
                 PROVE  /\ GetPrice(Base, Quote).ok
                        /\ PriceFeedQuoted(Base, Quote).answer = GetPrice(Base, Quote).price
        BY DEF FeedsAgree
    <2>1. b \in Nat /\ q \in Nat
        BY <1>1, StoredTyped, PairTyped
    <2>2. ScaledRatioInt(b, q).ok
        BY DEF PriceFeedQuoted, Reverted
    <2>3. PriceFeedQuoted(Base, Quote).answer = ScaledRatioInt(b, q).answer
        BY DEF PriceFeedQuoted, Reverted
    <2>4. /\ b * One \in Nat /\ b * One <= IntMax
          /\ ScaledRatioInt(b, q).answer = (b * One) \div q
        BY <2>1, <2>2, RatioOfNaturals
    <2>5. ~(b * One > UintMax \/ q = 0)
        BY <2>4, ScaleIsNatural
    <2>6. /\ PriceValueAndResolveTime(Base) = priceData[Base]
          /\ PriceValueAndResolveTime(Quote) = priceData[Quote]
        BY PairTyped DEF PriceValueAndResolveTime
    <2>7. GetPrice(Base, Quote).ok /\ GetPrice(Base, Quote).price = (b * One) \div q
        BY <2>5, <2>6 DEF GetPrice
    <2> QED
        BY <2>3, <2>4, <2>7
<1> QED
    BY Invariance, <1>1, PTL

\* A pair is as old as its older half (PriceFeedQuoted.sol:126-130).
THEOREM PairsNotFresher == Spec => []NotFresherThanEither
<1>1. ASSUME IInv
      PROVE  NotFresherThanEither
    <2>1. priceData[Base].resolveTime \in Nat /\ priceData[Quote].resolveTime \in Nat
        BY <1>1, StoredTyped, PairTyped
    <2> QED
        BY <2>1 DEF NotFresherThanEither, PriceFeedQuoted, Reverted, Earlier
<1> QED
    BY Invariance, <1>1, PTL

\* What a reader is given as the price of a name.
LEMMA PriceRead ==
    ASSUME IInv, NEW a \in Names
    PROVE  PriceValueAndResolveTime(a).price \in Nat
BY StoredTyped, PriceFeedsAssumption DEF PriceValueAndResolveTime

\* Pricing there and back never gains (Ojo.sol:168-186): the two quotients
\* multiply to at most the square of the scale.
THEOREM RoundTripsLose == Spec => []RoundTripLoses
<1>1. ASSUME IInv
      PROVE  RoundTripLoses
    <2> SUFFICES ASSUME NEW a \in Names, NEW b \in Names,
                        GetPrice(a, b).ok, GetPrice(b, a).ok
                 PROVE  GetPrice(a, b).price * GetPrice(b, a).price <= One * One
        BY DEF RoundTripLoses
    <2> DEFINE m == PriceValueAndResolveTime(a).price
               n == PriceValueAndResolveTime(b).price
               there == (m * One) \div n
               back == (n * One) \div m
    <2>1. m \in Nat /\ n \in Nat /\ One \in Nat
        BY <1>1, PriceRead, ScaleIsNatural
    <2>2. m # 0 /\ n # 0
        BY DEF GetPrice, Reverted
    <2>3. GetPrice(a, b).price = there /\ GetPrice(b, a).price = back
        BY DEF GetPrice, Reverted
    <2>4. m * One \in Nat /\ n * One \in Nat /\ m > 0 /\ n > 0
        BY <2>1, <2>2, ProductIsNatural
    <2>5. there \in Nat /\ there * n <= m * One /\ back \in Nat /\ back * m <= n * One
        BY <2>1, <2>4, QuotientBounds
    <2> HIDE DEF m, n, there, back
    <2>6. there * n \in Nat /\ back * m \in Nat
        BY <2>1, <2>5, ProductIsNatural
    <2>7. (there * n) * (back * m) <= (m * One) * (n * One)
        BY <2>4, <2>5, <2>6, ProductGrows
    <2>8. (there * back) * (m * n) <= (One * One) * (m * n)
        BY <2>1, <2>5, <2>7
    <2>9. /\ there * back \in Nat /\ One * One \in Nat
          /\ m * n \in Nat /\ m * n > 0
        BY <2>1, <2>4, <2>5, ProductIsNatural
    <2>10. there * back <= One * One
        BY <2>8, <2>9, FactorCancels
    <2> QED
        BY <2>3, <2>10
<1> QED
    BY Invariance, <1>1, PTL

\* A quotient of two numbers of which one is negative is not positive.
LEMMA SignsDiffer ==
    ASSUME NEW x \in Int, NEW y \in Int, y # 0, (x < 0 /\ y > 0) \/ (x >= 0 /\ y < 0)
    PROVE  IntDiv(x, y) <= 0
<1>1. Abs(x) \in Nat /\ Abs(y) \in Nat /\ Abs(y) > 0
    BY DEF Abs
<1>2. Abs(x) \div Abs(y) \in Nat
    BY <1>1, QuotientBounds
<1>3. IntDiv(x, y) = -(Abs(x) \div Abs(y))
    BY DEF IntDiv
<1> QED
    BY <1>2, <1>3

\* The casts keep amounts that fit and turn the others negative.
LEMMA CastKeepsOrNegates ==
    ASSUME NEW x \in Nat, x <= UintMax
    PROVE  /\ ToInt(x) \in Int
           /\ x <= IntMax => ToInt(x) = x
           /\ x > IntMax => ToInt(x) < 0
BY ScaleIsNatural DEF ToInt, UintMax

\* In spite of unchecked casts and truncations (MellowPriceFeed.sol:110,
\* InceptionPriceFeed.sol:116-124) a rate is exact or negative, and a ratio is
\* exact where both amounts fit and not positive where only one does.
THEOREM VaultRatesExact == Spec => []VaultRateExact
<1>1. ASSUME IInv
      PROVE  VaultRateExact
    <2>1. /\ rate \in Nat /\ rate <= UintMax
          /\ deposited \in Nat /\ deposited <= UintMax
          /\ supply \in Nat /\ supply <= UintMax
        BY <1>1, AmountsTyped
    <2>2. RateFeed.answer >= 0 => RateFeed.answer = rate
        <3>1. /\ ToInt(rate) \in Int
              /\ rate <= IntMax => ToInt(rate) = rate
              /\ rate > IntMax => ToInt(rate) < 0
            BY <2>1, CastKeepsOrNegates
        <3>2. RateFeed.answer = ToInt(rate)
            BY DEF RateFeed
        <3> QED
            BY <2>1, <3>1, <3>2, ScaleIsNatural
    <2>3. supply = 0 => InceptionPriceFeed.ok /\ InceptionPriceFeed.answer = 0
        BY DEF InceptionPriceFeed
    <2>4. ASSUME supply # 0, deposited <= IntMax, supply <= IntMax, InceptionPriceFeed.ok
          PROVE  /\ InceptionPriceFeed.answer * supply <= deposited * One
                 /\ deposited * One < (InceptionPriceFeed.answer + 1) * supply
        <3>1. ToInt(deposited) = deposited /\ ToInt(supply) = supply /\ supply > 0
            BY <2>1, <2>4, CastKeepsOrNegates
        <3>2. /\ ScaledRatioInt(deposited, supply).ok
              /\ InceptionPriceFeed.answer = ScaledRatioInt(deposited, supply).answer
            BY <2>4, <3>1 DEF InceptionPriceFeed, Reverted
        <3>3. /\ deposited * One \in Nat
              /\ InceptionPriceFeed.answer = (deposited * One) \div supply
            BY <2>1, <3>1, <3>2, RatioOfNaturals
        <3> QED
            BY <2>1, <3>1, <3>3, QuotientBounds
    <2>5. ASSUME supply # 0, InceptionPriceFeed.ok,
                 (deposited > IntMax) # (supply > IntMax)
          PROVE  InceptionPriceFeed.answer <= 0
        <3> DEFINE d == ToInt(deposited)
                   s == ToInt(supply)
        <3>1. /\ d \in Int /\ s \in Int /\ s # 0
              /\ (d < 0 /\ s > 0) \/ (d >= 0 /\ s < 0)
            <4>1. /\ d \in Int
                  /\ deposited <= IntMax => d = deposited
                  /\ deposited > IntMax => d < 0
                BY <2>1, CastKeepsOrNegates
            <4>2. /\ s \in Int
                  /\ supply <= IntMax => s = supply
                  /\ supply > IntMax => s < 0
                BY <2>1, CastKeepsOrNegates
            <4> HIDE DEF d, s
            <4>3. IntMax \in Nat
                BY ScaleIsNatural
            <4>4. CASE deposited > IntMax /\ supply <= IntMax
                BY <2>1, <2>5, <4>1, <4>2, <4>3, <4>4
            <4>5. CASE deposited <= IntMax /\ supply > IntMax
                BY <2>1, <4>1, <4>2, <4>3, <4>5
            <4> QED
                BY <2>1, <2>5, <4>3, <4>4, <4>5
        <3>2. InceptionPriceFeed.answer = IntDiv(d * One, s)
            BY <2>5 DEF InceptionPriceFeed, ScaledRatioInt, Reverted
        <3> HIDE DEF d, s
        <3>3. One \in Nat /\ One > 0
            BY PriceFeedsAssumption
        <3>4. /\ d * One \in Int
              /\ d < 0 => d * One < 0
              /\ d >= 0 => d * One >= 0
            BY <3>1, <3>3
        <3> QED
            BY <3>1, <3>2, <3>4, SignsDiffer
    <2>6. ASSUME supply # 0, InceptionPriceFeed.ok, deposited > IntMax \/ supply > IntMax
          PROVE  \/ InceptionPriceFeed.answer <= 0
                 \/ deposited > IntMax /\ supply > IntMax
        BY <2>5, <2>6
    <2>7. \/ deposited <= IntMax /\ supply <= IntMax
          \/ deposited > IntMax \/ supply > IntMax
        BY <2>1, ScaleIsNatural
    <2> QED
        BY <2>2, <2>3, <2>4, <2>6, <2>7 DEF VaultRateExact
<1> QED
    BY Invariance, <1>1, PTL

=============================================================================
