----------------------------- MODULE OjoProofs -----------------------------
(***************************************************************************)
(* Theorems about Ojo for every value of its constants.                    *)
(***************************************************************************)
EXTENDS Ojo, TLAPS

(***************************************************************************)
(* The inductive invariant.  ExactlyOnce and StoreIsFromLanded are not     *)
(* inductive alone: nothing in them says that the price data of a call is  *)
(* there, with prices and stamps as assumed, before the call lands.        *)
(***************************************************************************)

Answered(c) == stage[c] \in {"inbound", "approved", "executed"}

\* A command has no price data before it is sent, and then known prices.
RepliesKnown ==
    \A c \in Commands :
        /\ stage[c] = "unsent" => DOMAIN reply[c] = {}
        /\ \A a \in DOMAIN reply[c] : reply[c][a].price \in Prices

\* Nothing lands before its answer exists, and a finished command has no
\* express record left.
ExpressOnlyInFlight ==
    \A c \in expressed : stage[c] \in {"inbound", "approved"}

\* No stamp lies further ahead of the chain's clock than the skew.
StampBounded ==
    \A c \in Commands :
        /\ request[c].timestamp <= now + MaxSkew
        /\ \A a \in DOMAIN reply[c] : reply[c][a].resolveTime <= now + MaxSkew

IInv ==
    /\ TypeOK
    /\ RepliesKnown
    /\ ExpressOnlyInFlight
    /\ StampBounded
    /\ ExactlyOnce
    /\ StoreIsFromLanded

(***************************************************************************)
(* The helpers of _execute and setBalance.                                 *)
(***************************************************************************)

\* postPriceData keeps the store well typed.
LEMMA PostTyped ==
    ASSUME TypeOK, NEW data, IsReply(data)
    PROVE  PostPriceData(data) \in [Assets -> PriceData]
<1>1. \A a \in DOMAIN data : data[a] \in PriceData
    BY DEF IsReply
<1> QED
    BY <1>1 DEF TypeOK, PostPriceData

\* A product of naturals is a natural; the one arithmetic fact used.
LEMMA ProductIsNat ==
    ASSUME NEW x \in Nat, NEW y \in Nat
    PROVE  x * y \in Nat
    OBVIOUS

\* setBalance, when it does not revert, records amounts that fit the width.
LEMMA BalancesTyped ==
    ASSUME TypeOK,
           NEW store \in [Assets -> PriceData],
           NEW names \in SUBSET Assets,
           NEW multiplier \in Nat,
           ~SetBalanceReverts(store, names, multiplier)
    PROVE  BalancesFrom(store, names, multiplier) \in [Assets -> Seq(0 .. UintMax)]
<1>1. ASSUME NEW a \in Assets, a \in names
      PROVE  store[a].price * multiplier \in 0 .. UintMax
    <2>1. store[a].price \in Nat
        BY DEF PriceData
    <2>2. store[a].price * multiplier \in Nat
        BY <2>1, ProductIsNat
    <2>3. ~(store[a].price * multiplier > UintMax)
        BY <1>1 DEF SetBalanceReverts
    <2>4. UintMax \in Nat
        BY OjoAssumption
    <2> QED
        BY <2>2, <2>3, <2>4
<1>2. ASSUME NEW a \in Assets, a \in names
      PROVE  Append(balances[a], store[a].price * multiplier) \in Seq(0 .. UintMax)
    <2>1. balances[a] \in Seq(0 .. UintMax)
        BY DEF TypeOK
    <2> QED
        BY <1>1, <1>2, <2>1
<1>3. \A a \in Assets : balances[a] \in Seq(0 .. UintMax)
    BY DEF TypeOK
<1> QED
    BY <1>2, <1>3 DEF BalancesFrom

(***************************************************************************)
(* A request, whoever sends it, is a Send with a stamp the skew bounds.    *)
(***************************************************************************)
SomeSend(c) ==
    \E names \in SUBSET Assets, selector \in Selectors,
       params \in Nat, timestamp \in Nat :
        /\ timestamp <= now + MaxSkew
        /\ Send(c, names, selector, params, timestamp)

LEMMA ConsumerSends ==
    ASSUME TypeOK, NEW c \in Commands, ConsumerStep(c)
    PROVE  SomeSend(c)
<1>1. now \in Nat /\ now <= now + MaxSkew /\ 0 \in Nat
    BY OjoAssumption DEF TypeOK
<1>2. PICK names \in SUBSET Assets :
        \/ RelayOjoPriceData(c, names)
        \/ \E m \in Multipliers : SetBalanceWithOjoPriceData(c, names, m)
    BY DEF ConsumerStep
<1>3. CASE RelayOjoPriceData(c, names)
    BY <1>1, <1>3 DEF RelayOjoPriceData, CallContractMethodWithOjoPriceData,
                      SomeSend, Selectors
<1>4. CASE \E m \in Multipliers : SetBalanceWithOjoPriceData(c, names, m)
    <2>1. PICK m \in Multipliers : SetBalanceWithOjoPriceData(c, names, m)
        BY <1>4
    <2>2. m \in Nat
        BY OjoAssumption
    <2>3. Send(c, names, SetBalanceSelector, m, now)
        BY <2>1 DEF SetBalanceWithOjoPriceData, CallContractMethodWithOjoPriceData
    <2> QED
        BY <1>1, <2>2, <2>3 DEF SomeSend, Selectors
<1> QED
    BY <1>2, <1>3, <1>4

LEMMA PushSends ==
    ASSUME TypeOK, NEW c \in Commands, NEW names \in SUBSET Assets,
           NEW timestamp \in 0 .. now + MaxSkew,
           RelayerPush(c, names, timestamp)
    PROVE  SomeSend(c)
<1>1. timestamp \in Nat /\ timestamp <= now + MaxSkew /\ 0 \in Nat
    BY OjoAssumption DEF TypeOK
<1>2. Send(c, names, ZeroSelector, 0, timestamp)
    BY DEF RelayerPush
<1> QED
    BY <1>1, <1>2 DEF SomeSend, Selectors

(***************************************************************************)
(* A call of another origin carries what OjoAssumption says of payloads.   *)
(***************************************************************************)
LEMMA PayloadTyped ==
    ASSUME NEW payload \in Payloads
    PROVE  /\ payload.assetNames \in SUBSET Assets
           /\ payload.selector \in Selectors
           /\ payload.params \in Nat
           /\ IsReply(payload.priceData)
           /\ \A a \in DOMAIN payload.priceData :
                 /\ payload.priceData[a].price \in Prices
                 /\ payload.priceData[a].resolveTime \in Nat
<1>1. IsPayload(payload)
    BY OjoAssumption
<1>2. PICK names \in SUBSET Assets :
          payload.priceData \in [names -> [price : Prices, resolveTime : Nat]]
    BY <1>1 DEF IsPayload
<1>3. [price : Prices, resolveTime : Nat] \subseteq PriceData
    BY OjoAssumption DEF PriceData
<1>4. payload.priceData \in [names -> PriceData]
    BY <1>2, <1>3
<1> QED
    BY <1>1, <1>2, <1>4 DEF IsPayload, IsReply

(***************************************************************************)
(* The ways a step can be taken.                                           *)
(***************************************************************************)
SomeStep ==
    \/ \E c \in Commands :
          \/ SomeSend(c)
          \/ \E payload \in Payloads : OtherCall(c, payload)
          \/ \E price \in [Assets -> Prices] : OjoChainReply(c, price)
          \/ GatewayApprove(c)
          \/ Execute(c)
          \/ ExpressExecute(c)
    \/ \E names \in SUBSET Assets, m \in Multipliers : SetBalance(names, m)
    \/ \E window \in Windows : UpdateResolveWindow(window)
    \/ \E limit \in Limits : UpdateAssetLimit(limit)
    \/ Tick

LEMMA NextIsSomeStep ==
    ASSUME TypeOK, Next
    PROVE  SomeStep
<1>1. CASE \E c \in Commands : CommandStep(c)
    <2>1. PICK c \in Commands : CommandStep(c)
        BY <1>1
    <2>2. CASE ConsumerStep(c)
        BY <2>2, ConsumerSends DEF SomeStep
    <2>3. CASE \E names \in SUBSET Assets, timestamp \in 0 .. now + MaxSkew :
                   RelayerPush(c, names, timestamp)
        BY <2>3, PushSends DEF SomeStep
    <2>4. CASE NetworkStep(c)
        BY <2>4 DEF NetworkStep, SomeStep
    <2>5. CASE \E payload \in Payloads : OtherCall(c, payload)
        BY <2>5 DEF SomeStep
    <2> QED
        BY <2>1, <2>2, <2>3, <2>4, <2>5 DEF CommandStep
<1>2. CASE ~(\E c \in Commands : CommandStep(c))
    BY <1>2 DEF Next, SomeStep
<1> QED
    BY <1>1, <1>2

(***************************************************************************)
(* Type correctness.                                                       *)
(***************************************************************************)
LEMMA InitTyped == Init => TypeOK
<1> SUFFICES ASSUME Init PROVE TypeOK
    OBVIOUS
<1>1. NoPriceData \in PriceData
    BY DEF NoPriceData, PriceData
<1>2. NoRequest \in Request
    BY DEF NoRequest, Request, Selectors
<1>3. IsReply(NoReply)
    BY DEF IsReply, NoReply
<1>4. <<>> \in Seq(0 .. UintMax)
    OBVIOUS
<1> QED
    BY <1>1, <1>2, <1>3, <1>4, OjoAssumption DEF Init, TypeOK, Stages

\* An answer that runs to its end leaves store, balances and history typed.
LEMMA ExecuteTyped ==
    ASSUME TypeOK, NEW c \in Commands, Execute_(c)
    PROVE  /\ priceData' \in [Assets -> PriceData]
           /\ balances' \in [Assets -> Seq(0 .. UintMax)]
           /\ runs' \in [Commands -> Nat]
           /\ called' \subseteq Commands
<1> DEFINE posted == PostPriceData(reply[c])
<1>1. posted \in [Assets -> PriceData]
    BY PostTyped DEF TypeOK
<1>2. request[c] \in Request
    BY DEF TypeOK
<1>3. request[c].assetNames \in SUBSET Assets /\ request[c].params \in Nat
    BY <1>2 DEF Request
<1>4. priceData' \in [Assets -> PriceData]
    BY <1>1 DEF Execute_
<1>5. balances' \in [Assets -> Seq(0 .. UintMax)]
    <2>1. CASE /\ ~SetBalanceReverts(posted, request[c].assetNames, request[c].params)
               /\ balances' = BalancesFrom(posted, request[c].assetNames, request[c].params)
        BY <1>1, <1>3, <2>1, BalancesTyped
    <2>2. CASE UNCHANGED balances
        BY <2>2 DEF TypeOK
    <2> QED
        BY <2>1, <2>2 DEF Execute_
<1>6. runs' \in [Commands -> Nat]
    BY DEF Execute_, TypeOK
<1>7. called' \subseteq Commands
    BY DEF Execute_, TypeOK
<1> QED
    BY <1>4, <1>5, <1>6, <1>7

LEMMA StepTyped ==
    ASSUME TypeOK, [Next]_vars
    PROVE  TypeOK'
<1> USE DEF TypeOK
<1>1. CASE UNCHANGED vars
    BY <1>1 DEF vars, IsReply
<1>2. ASSUME NEW c \in Commands, SomeSend(c) PROVE TypeOK'
    <2>1. PICK names \in SUBSET Assets, selector \in Selectors,
               params \in Nat, timestamp \in Nat :
                   Send(c, names, selector, params, timestamp)
        BY <1>2 DEF SomeSend
    <2>2. [assetNames |-> names, selector |-> selector,
           params |-> params, timestamp |-> timestamp] \in Request
        BY DEF Request
    <2>3. "outbound" \in Stages
        BY DEF Stages
    <2> QED
        BY <2>1, <2>2, <2>3 DEF Send, contractVars, IsReply
<1>3. ASSUME NEW c \in Commands, NEW price \in [Assets -> Prices], OjoChainReply(c, price)
      PROVE TypeOK'
    <2> DEFINE answer == [a \in request[c].assetNames |->
                   [price |-> price[a], resolveTime |-> request[c].timestamp]]
    <2>1. request[c].assetNames \in SUBSET Assets /\ request[c].timestamp \in Nat
        BY DEF Request
    <2>2. IsReply(answer)
        BY <2>1, OjoAssumption DEF IsReply, PriceData
    <2>3. reply' = [reply EXCEPT ![c] = answer]
        BY <1>3 DEF OjoChainReply
    <2>4. \A d \in Commands : reply'[d] = IF d = c THEN answer ELSE reply[d]
        BY <2>3
    <2>5. reply' = [d \in Commands |-> reply'[d]]
        BY <2>3
    <2>6. \A d \in Commands : IsReply(reply[d])'
        BY <2>2, <2>4 DEF IsReply
    <2> QED
        BY <1>3, <2>5, <2>6 DEF OjoChainReply, contractVars, Stages
<1>4. ASSUME NEW c \in Commands, GatewayApprove(c) PROVE TypeOK'
    BY <1>4 DEF GatewayApprove, contractVars, Stages, IsReply
<1>5. ASSUME NEW c \in Commands, Execute(c) PROVE TypeOK'
    <2>1. CASE c \in expressed
        BY <1>5, <2>1 DEF Execute, contractVars, Stages, IsReply
    <2>2. CASE c \notin expressed
        BY <1>5, <2>2, ExecuteTyped DEF Execute, contractVars, Stages, IsReply
    <2> QED
        BY <2>1, <2>2
<1>6. ASSUME NEW c \in Commands, ExpressExecute(c) PROVE TypeOK'
    BY <1>6, ExecuteTyped DEF ExpressExecute, contractVars, IsReply
<1>7. ASSUME NEW names \in SUBSET Assets, NEW m \in Multipliers, SetBalance(names, m)
      PROVE TypeOK'
    BY <1>7, BalancesTyped, OjoAssumption DEF SetBalance, contractVars, IsReply
<1>8. ASSUME NEW window \in Windows, UpdateResolveWindow(window) PROVE TypeOK'
    BY <1>8 DEF UpdateResolveWindow, IsReply
<1>9. ASSUME NEW limit \in Limits, UpdateAssetLimit(limit) PROVE TypeOK'
    BY <1>9 DEF UpdateAssetLimit, IsReply
<1>10. CASE Tick
    BY <1>10 DEF Tick, contractVars, IsReply
<1>11. ASSUME NEW c \in Commands, NEW payload \in Payloads, OtherCall(c, payload)
       PROVE TypeOK'
    <2>1. /\ payload.assetNames \in SUBSET Assets
          /\ payload.selector \in Selectors
          /\ payload.params \in Nat
          /\ IsReply(payload.priceData)
        BY PayloadTyped
    <2>2. [assetNames |-> payload.assetNames, selector |-> payload.selector,
           params |-> payload.params, timestamp |-> 0] \in Request
        BY <2>1 DEF Request
    <2>3. reply' = [reply EXCEPT ![c] = payload.priceData]
        BY <1>11 DEF OtherCall
    <2>4. \A d \in Commands : reply'[d] = IF d = c THEN payload.priceData ELSE reply[d]
        BY <2>3
    <2>5. reply' = [d \in Commands |-> reply'[d]]
        BY <2>3
    <2>6. \A d \in Commands : IsReply(reply[d])'
        BY <2>1, <2>4 DEF IsReply
    <2> QED
        BY <1>11, <2>2, <2>5, <2>6 DEF OtherCall, contractVars, Stages
<1> QED
    BY <1>1, <1>2, <1>3, <1>4, <1>5, <1>6, <1>7, <1>8, <1>9, <1>10, <1>11,
       NextIsSomeStep DEF SomeStep

\* Every state the contract, its consumer and the network reach is well typed,
\* and no balance was ever computed from a product that does not fit.
THEOREM TypeCorrect == Spec => []TypeOK
BY InitTyped, StepTyped, PTL DEF Spec

(***************************************************************************)
(* The invariant.  Each conjunct is a lemma about a step, assuming IInv    *)
(* before it; types after the step come from StepTyped.                    *)
(***************************************************************************)
LEMMA InitIInv == Init => IInv
<1> SUFFICES ASSUME Init PROVE IInv
    OBVIOUS
<1>1. TypeOK
    BY InitTyped
<1>2. RepliesKnown /\ ExpressOnlyInFlight /\ ExactlyOnce /\ StoreIsFromLanded
    BY DEF Init, RepliesKnown, NoReply, ExpressOnlyInFlight,
           ExactlyOnce, StoreIsFromLanded
<1>3. StampBounded
    BY OjoAssumption DEF Init, StampBounded, NoRequest, NoReply
<1> QED
    BY <1>1, <1>2, <1>3 DEF IInv

LEMMA ReplyStep ==
    ASSUME IInv, [Next]_vars
    PROVE  RepliesKnown'
<1> USE DEF IInv, TypeOK, RepliesKnown
<1>1. CASE UNCHANGED <<stage, reply>>
    BY <1>1
<1>2. ASSUME NEW c \in Commands, SomeSend(c) PROVE RepliesKnown'
    BY <1>2 DEF SomeSend, Send
<1>3. ASSUME NEW c \in Commands, NEW price \in [Assets -> Prices], OjoChainReply(c, price)
      PROVE RepliesKnown'
    <2>1. request[c].assetNames \in SUBSET Assets
        BY DEF Request
    <2> QED
        BY <1>3, <2>1 DEF OjoChainReply
<1>4. ASSUME NEW c \in Commands, GatewayApprove(c) PROVE RepliesKnown'
    BY <1>4 DEF GatewayApprove
<1>5. ASSUME NEW c \in Commands, Execute(c) PROVE RepliesKnown'
    BY <1>5 DEF Execute
<1>6. ASSUME NEW c \in Commands, ExpressExecute(c) PROVE RepliesKnown'
    BY <1>6 DEF ExpressExecute
<1>7. ASSUME NEW c \in Commands, NEW payload \in Payloads, OtherCall(c, payload)
      PROVE RepliesKnown'
    BY <1>7, PayloadTyped DEF OtherCall
<1> QED
    BY <1>1, <1>2, <1>3, <1>4, <1>5, <1>6, <1>7, NextIsSomeStep
       DEF SomeStep, SetBalance, UpdateResolveWindow, UpdateAssetLimit, Tick, vars

LEMMA ExpressStep ==
    ASSUME IInv, [Next]_vars
    PROVE  ExpressOnlyInFlight'
<1> USE DEF IInv, TypeOK, ExpressOnlyInFlight
<1>1. CASE UNCHANGED <<stage, expressed>>
    BY <1>1
<1>2. ASSUME NEW c \in Commands, SomeSend(c) PROVE ExpressOnlyInFlight'
    BY <1>2 DEF SomeSend, Send
<1>3. ASSUME NEW c \in Commands, NEW price \in [Assets -> Prices], OjoChainReply(c, price)
      PROVE ExpressOnlyInFlight'
    BY <1>3 DEF OjoChainReply
<1>4. ASSUME NEW c \in Commands, GatewayApprove(c) PROVE ExpressOnlyInFlight'
    BY <1>4 DEF GatewayApprove
<1>5. ASSUME NEW c \in Commands, Execute(c) PROVE ExpressOnlyInFlight'
    BY <1>5 DEF Execute
<1>6. ASSUME NEW c \in Commands, ExpressExecute(c) PROVE ExpressOnlyInFlight'
    BY <1>6 DEF ExpressExecute
<1>7. ASSUME NEW c \in Commands, NEW payload \in Payloads, OtherCall(c, payload)
      PROVE ExpressOnlyInFlight'
    BY <1>7 DEF OtherCall
<1> QED
    BY <1>1, <1>2, <1>3, <1>4, <1>5, <1>6, <1>7, NextIsSomeStep
       DEF SomeStep, SetBalance, UpdateResolveWindow, UpdateAssetLimit, Tick, vars

LEMMA StampStep ==
    ASSUME IInv, [Next]_vars
    PROVE  StampBounded'
<1> USE OjoAssumption DEF IInv, TypeOK, StampBounded, Request
<1>1. CASE UNCHANGED <<now, request, reply>>
    BY <1>1
<1>2. ASSUME NEW c \in Commands, SomeSend(c) PROVE StampBounded'
    BY <1>2 DEF SomeSend, Send
<1>3. ASSUME NEW c \in Commands, NEW price \in [Assets -> Prices], OjoChainReply(c, price)
      PROVE StampBounded'
    <2>1. request[c].assetNames \in SUBSET Assets
        OBVIOUS
    <2> QED
        BY <1>3, <2>1 DEF OjoChainReply
<1>4. ASSUME NEW c \in Commands, NEW payload \in Payloads, OtherCall(c, payload)
      PROVE StampBounded'
    BY <1>4 DEF OtherCall
<1>5. CASE Tick
    <2>1. \A d \in Commands : \A a \in DOMAIN reply[d] : reply[d][a].resolveTime \in Nat
        BY DEF IsReply, PriceData
    <2> QED
        BY <1>5, <2>1 DEF Tick
<1> QED
    BY <1>1, <1>2, <1>3, <1>4, <1>5, NextIsSomeStep
       DEF SomeStep, GatewayApprove, Execute, ExpressExecute,
           SetBalance, UpdateResolveWindow, UpdateAssetLimit, vars

LEMMA OnceStep ==
    ASSUME IInv, [Next]_vars
    PROVE  ExactlyOnce'
<1> USE DEF IInv, TypeOK, ExactlyOnce
<1>1. CASE UNCHANGED <<stage, expressed, runs>>
    BY <1>1
<1>2. ASSUME NEW c \in Commands, SomeSend(c) PROVE ExactlyOnce'
    BY <1>2 DEF SomeSend, Send
<1>3. ASSUME NEW c \in Commands, NEW price \in [Assets -> Prices], OjoChainReply(c, price)
      PROVE ExactlyOnce'
    BY <1>3 DEF OjoChainReply
<1>4. ASSUME NEW c \in Commands, GatewayApprove(c) PROVE ExactlyOnce'
    BY <1>4 DEF GatewayApprove
<1>5. ASSUME NEW c \in Commands, Execute(c) PROVE ExactlyOnce'
    <2>1. CASE c \in expressed
        BY <1>5, <2>1 DEF Execute
    <2>2. CASE c \notin expressed
        BY <1>5, <2>2 DEF Execute, Execute_
    <2> QED
        BY <2>1, <2>2
<1>6. ASSUME NEW c \in Commands, ExpressExecute(c) PROVE ExactlyOnce'
    BY <1>6 DEF ExpressExecute, Execute_
<1>7. ASSUME NEW c \in Commands, NEW payload \in Payloads, OtherCall(c, payload)
      PROVE ExactlyOnce'
    BY <1>7 DEF OtherCall
<1> QED
    BY <1>1, <1>2, <1>3, <1>4, <1>5, <1>6, <1>7, NextIsSomeStep
       DEF SomeStep, SetBalance, UpdateResolveWindow, UpdateAssetLimit, Tick, vars

\* A completed _execute stores only the entries of the command that ran.
LEMMA ExecuteStores ==
    ASSUME IInv, NEW c \in Commands, Execute_(c), UNCHANGED reply
    PROVE  StoreIsFromLanded'
<1>1. SUFFICES ASSUME NEW a \in Assets, priceData'[a] # NoPriceData
               PROVE  \E d \in Commands : /\ runs'[d] > 0
                                          /\ a \in DOMAIN reply[d]
                                          /\ priceData'[a] = reply[d][a]
    BY DEF StoreIsFromLanded
<1>2. priceData' = PostPriceData(reply[c])
    BY DEF Execute_
<1>3. runs'[c] > 0 /\ \A d \in Commands : runs[d] > 0 => runs'[d] > 0
    BY DEF IInv, TypeOK, Execute_
<1>4. CASE a \in DOMAIN reply[c] /\ Fresh(reply[c][a])
    BY <1>2, <1>3, <1>4 DEF PostPriceData
<1>5. CASE ~(a \in DOMAIN reply[c] /\ Fresh(reply[c][a]))
    <2>1. priceData'[a] = priceData[a]
        BY <1>2, <1>5 DEF PostPriceData
    <2> QED
        BY <1>1, <1>3, <2>1 DEF IInv, StoreIsFromLanded
<1> QED
    BY <1>4, <1>5

LEMMA StoreStep ==
    ASSUME IInv, [Next]_vars
    PROVE  StoreIsFromLanded'
<1>1. CASE UNCHANGED <<priceData, reply, runs>>
    BY <1>1 DEF IInv, StoreIsFromLanded
<1>2. ASSUME NEW c \in Commands, NEW price \in [Assets -> Prices], OjoChainReply(c, price)
      PROVE StoreIsFromLanded'
    <2>1. runs[c] = 0
        BY <1>2 DEF IInv, ExactlyOnce, ExpressOnlyInFlight, OjoChainReply
    <2>2. \A d \in Commands : runs[d] > 0 => reply'[d] = reply[d]
        BY <1>2, <2>1 DEF OjoChainReply, IInv, TypeOK
    <2>3. UNCHANGED <<priceData, runs>>
        BY <1>2 DEF OjoChainReply
    <2> QED
        BY <2>2, <2>3 DEF IInv, StoreIsFromLanded
<1>3. ASSUME NEW c \in Commands, Execute(c) PROVE StoreIsFromLanded'
    BY <1>1, <1>3, ExecuteStores DEF Execute
<1>4. ASSUME NEW c \in Commands, ExpressExecute(c) PROVE StoreIsFromLanded'
    BY <1>4, ExecuteStores DEF ExpressExecute
<1>5. ASSUME NEW c \in Commands, NEW payload \in Payloads, OtherCall(c, payload)
      PROVE StoreIsFromLanded'
    <2>1. runs[c] = 0
        BY <1>5 DEF IInv, ExactlyOnce, ExpressOnlyInFlight, OtherCall
    <2>2. \A d \in Commands : runs[d] > 0 => reply'[d] = reply[d]
        BY <1>5, <2>1 DEF OtherCall, IInv, TypeOK
    <2>3. UNCHANGED <<priceData, runs>>
        BY <1>5 DEF OtherCall
    <2> QED
        BY <2>2, <2>3 DEF IInv, StoreIsFromLanded
<1> QED
    BY <1>1, <1>2, <1>3, <1>4, <1>5, NextIsSomeStep
       DEF IInv, SomeStep, SomeSend, Send, GatewayApprove, SetBalance,
           UpdateResolveWindow, UpdateAssetLimit, Tick, vars

LEMMA StepIInv == IInv /\ [Next]_vars => IInv'
BY StepTyped, ReplyStep, ExpressStep, StampStep, OnceStep, StoreStep DEF IInv

LEMMA Invariance == Spec => []IInv
BY InitIInv, StepIInv, PTL DEF Spec

\* The effects of an answer happen exactly once, through the gateway or an
\* express executor, with any number of commands in flight.
THEOREM EffectsExactlyOnce == Spec => []ExactlyOnce
<1>1. IInv => ExactlyOnce
    BY DEF IInv
<1> QED
    BY <1>1, Invariance, PTL

\* Whatever a reader finds in the store was brought by a call whose whole
\* execution completed; no price is left of one that reverted.
THEOREM StoreOnlyFromLanded == Spec => []StoreIsFromLanded
<1>1. IInv => StoreIsFromLanded
    BY DEF IInv
<1> QED
    BY <1>1, Invariance, PTL

(***************************************************************************)
(* Action properties.                                                      *)
(***************************************************************************)

\* Only a completed _execute of an answer in flight changes the store or the
\* history.
LEMMA OnlyExecuteLands ==
    ASSUME TypeOK, [Next]_vars, <<priceData, runs>>' # <<priceData, runs>>
    PROVE  \E c \in Commands : /\ Answered(c)
                               /\ Execute_(c)
                               /\ UNCHANGED <<now, resolveWindow, request, reply>>
BY NextIsSomeStep
   DEF SomeStep, SomeSend, Send, OtherCall, OjoChainReply, GatewayApprove, Execute,
       ExpressExecute, SetBalance, UpdateResolveWindow, UpdateAssetLimit,
       Tick, contractVars, vars, Answered

\* No stored stamp lies further ahead of the clock than the skew.
LEMMA StoredStampBounded ==
    ASSUME IInv, NEW a \in Assets
    PROVE  priceData[a].resolveTime \in Nat /\ priceData[a].resolveTime <= now + MaxSkew
<1>1. priceData[a].resolveTime \in Nat
    BY DEF IInv, TypeOK, PriceData
<1>2. CASE priceData[a] = NoPriceData
    BY <1>1, <1>2, OjoAssumption DEF NoPriceData, IInv, TypeOK
<1>3. CASE priceData[a] # NoPriceData
    <2>1. PICK c \in Commands : /\ runs[c] > 0
                                /\ a \in DOMAIN reply[c]
                                /\ priceData[a] = reply[c][a]
        BY <1>3 DEF IInv, StoreIsFromLanded
    <2> QED
        BY <1>1, <2>1 DEF IInv, StampBounded
<1> QED
    BY <1>2, <1>3

LEMMA RegressionStep ==
    ASSUME IInv, [Next]_vars, NEW a \in Assets, priceData'[a] # priceData[a]
    PROVE  priceData'[a].resolveTime + resolveWindow + MaxSkew > priceData[a].resolveTime
<1>1. TypeOK
    BY DEF IInv
<1>2. PICK c \in Commands : Execute_(c)
    BY <1>1, OnlyExecuteLands
<1>3. priceData'[a] = reply[c][a] /\ Fresh(reply[c][a])
    BY <1>2 DEF Execute_, PostPriceData
<1>4. priceData'[a].resolveTime + resolveWindow > now
    BY <1>3 DEF Fresh
<1>5. priceData'[a].resolveTime \in Nat
    BY <1>1, StepTyped DEF TypeOK, PriceData
<1>6. /\ now \in Nat /\ resolveWindow \in Nat /\ MaxSkew \in Nat
    BY <1>1, OjoAssumption DEF TypeOK
<1> QED
    BY <1>4, <1>5, <1>6, StoredStampBounded

\* However answers overtake each other, a stored price never steps back in
\* time by the window plus the skew, or more.
THEOREM RegressionBounded == Spec => BoundedRegression
<1>1. IInv /\ [Next]_vars =>
        [\A a \in Assets :
            priceData'[a] # priceData[a] =>
                priceData'[a].resolveTime + resolveWindow + MaxSkew
                    > priceData[a].resolveTime]_vars
    BY RegressionStep
<1> QED
    BY <1>1, Invariance, PTL DEF Spec, BoundedRegression

LEMMA CallbackStep ==
    ASSUME IInv, [Next]_vars,
           NEW c \in Commands,
           runs'[c] > runs[c],
           request[c].selector = SetBalanceSelector,
           NEW a \in DOMAIN reply[c] \cap request[c].assetNames,
           Fresh(reply[c][a]), reply[c][a].price > 0
    PROVE  balances'[a] = Append(balances[a], reply[c][a].price * request[c].params)
<1>1. TypeOK
    BY DEF IInv
<1>2. PICK d \in Commands : Answered(d) /\ Execute_(d)
    BY <1>1, OnlyExecuteLands DEF TypeOK
<1>3. d = c
    BY <1>1, <1>2 DEF Execute_, TypeOK
<1>4. a \in Assets /\ a \in request[c].assetNames
    BY <1>1 DEF TypeOK, Request
<1>5. PostPriceData(reply[c])[a] = reply[c][a]
    BY <1>4 DEF PostPriceData
<1>6. balances' = BalancesFrom(PostPriceData(reply[c]), request[c].assetNames,
                               request[c].params)
    BY <1>2, <1>3 DEF Execute_
<1> QED
    BY <1>4, <1>5, <1>6 DEF BalancesFrom

\* A callback runs on the prices of its own call.
THEOREM CallbackOnOwnPrices == Spec => CallbackUsesOwnPrices
<1>1. IInv /\ [Next]_vars =>
        [\A c \in Commands :
          runs'[c] > runs[c] /\ request[c].selector = SetBalanceSelector =>
              \A a \in DOMAIN reply[c] \cap request[c].assetNames :
                  Fresh(reply[c][a]) /\ reply[c][a].price > 0 =>
                      balances'[a] = Append(balances[a],
                                            reply[c][a].price * request[c].params)]_vars
    BY CallbackStep
<1> QED
    BY <1>1, Invariance, PTL DEF Spec, CallbackUsesOwnPrices

(***************************************************************************)
(* Refinement: sending is Oracle!Ask, a completed _execute is Oracle!Land, *)
(* and the network's own steps are invisible.                              *)
(***************************************************************************)

\* Of a command that is not sent the abstract contract knows nothing.
LEMMA UnsentNotAsked ==
    ASSUME IInv, NEW c \in Commands, stage[c] = "unsent"
    PROVE  askedBar[c] = Oracle!NotAsked
<1>1. DOMAIN reply[c] = {}
    BY DEF IInv, RepliesKnown
<1>2. StampsAsked(c) = [a \in {} |-> 0]
    BY <1>1 DEF StampsAsked
<1> QED
    BY <1>2 DEF askedBar, Oracle!NotAsked

LEMMA InitRefines == Init => Oracle!Init
<1> SUFFICES ASSUME Init PROVE Oracle!Init
    OBVIOUS
<1>1. IInv
    BY InitIInv
<1>2. \A c \in Commands : askedBar[c] = Oracle!NotAsked
    BY <1>1, UnsentNotAsked DEF Init
<1>3. askedBar = [c \in Commands |-> Oracle!NotAsked]
    BY <1>2 DEF askedBar
<1>4. landedBar = {}
    BY DEF Init, landedBar
<1> QED
    BY <1>3, <1>4 DEF Init, Oracle!Init, NoPriceData, Oracle!NoPriceData

LEMMA SendRefines ==
    ASSUME IInv, NEW c \in Commands, SomeSend(c)
    PROVE  Oracle!Ask(c)
<1>1. PICK names \in SUBSET Assets, selector \in Selectors,
           params \in Nat, timestamp \in Nat :
               /\ timestamp <= now + MaxSkew
               /\ Send(c, names, selector, params, timestamp)
    BY DEF SomeSend
<1> DEFINE stamps == [a \in names |-> timestamp]
<1>2. stamps \in [names -> 0 .. now + MaxSkew]
    BY <1>1, OjoAssumption DEF IInv, TypeOK
<1>3. askedBar[c] = Oracle!NotAsked
    BY <1>1, UnsentNotAsked DEF Send
<1>4. StampsAsked(c)' = stamps
    BY <1>1 DEF StampsAsked, Send, IInv, TypeOK
<1>5. \A d \in Commands : d # c => UNCHANGED StampsAsked(d)
    BY <1>1 DEF StampsAsked, Send, IInv, TypeOK
<1>6. askedBar' = [askedBar EXCEPT ![c] = [sent |-> TRUE, stamps |-> stamps]]
    BY <1>1, <1>4, <1>5 DEF askedBar, Send, IInv, TypeOK
<1>7. UNCHANGED <<now, resolveWindow, landedBar, priceData>>
    BY <1>1 DEF Send, contractVars, landedBar
<1> QED
    BY <1>2, <1>3, <1>6, <1>7 DEF Oracle!Ask

LEMMA OtherCallRefines ==
    ASSUME IInv, NEW c \in Commands, NEW payload \in Payloads, OtherCall(c, payload)
    PROVE  Oracle!Ask(c)
<1> DEFINE names == DOMAIN payload.priceData
           stamps == [a \in names |-> payload.priceData[a].resolveTime]
<1>1. names \in SUBSET Assets
    BY PayloadTyped DEF IsReply
<1>2. stamps \in [names -> 0 .. now + MaxSkew]
    BY PayloadTyped, OjoAssumption DEF OtherCall, IInv, TypeOK
<1>3. askedBar[c] = Oracle!NotAsked
    BY UnsentNotAsked DEF OtherCall
<1>4. StampsAsked(c)' = stamps
    BY DEF StampsAsked, OtherCall, IInv, TypeOK
<1>5. \A d \in Commands : d # c => UNCHANGED StampsAsked(d)
    BY DEF StampsAsked, OtherCall, IInv, TypeOK
<1>6. askedBar' = [askedBar EXCEPT ![c] = [sent |-> TRUE, stamps |-> stamps]]
    BY <1>4, <1>5 DEF askedBar, OtherCall, IInv, TypeOK
<1>7. UNCHANGED <<now, resolveWindow, landedBar, priceData>>
    BY DEF OtherCall, contractVars, landedBar
<1> QED
    BY <1>1, <1>2, <1>3, <1>6, <1>7 DEF Oracle!Ask

\* The answer of the Ojo chain carries the assets and the stamp of its request.
LEMMA ReplyRefines ==
    ASSUME IInv, NEW c \in Commands, NEW price \in [Assets -> Prices],
           OjoChainReply(c, price)
    PROVE  UNCHANGED Oracle!vars
<1>1. StampsAsked(c)' = StampsAsked(c)
    BY DEF StampsAsked, OjoChainReply, IInv, TypeOK
<1>2. \A d \in Commands : d # c => UNCHANGED StampsAsked(d)
    BY DEF StampsAsked, OjoChainReply, IInv, TypeOK
<1>3. UNCHANGED askedBar
    BY <1>1, <1>2 DEF askedBar, OjoChainReply, IInv, TypeOK
<1> QED
    BY <1>3 DEF Oracle!vars, OjoChainReply, contractVars, landedBar

LEMMA LandRefines ==
    ASSUME IInv, NEW c \in Commands, Answered(c), Execute_(c),
           runs[c] = 0,
           UNCHANGED <<now, resolveWindow>>,
           UNCHANGED askedBar
    PROVE  Oracle!Land(c)
<1> DEFINE stamps == [a \in DOMAIN reply[c] |-> reply[c][a].resolveTime]
           price == [a \in DOMAIN reply[c] |-> reply[c][a].price]
<1>1. askedBar[c].sent /\ askedBar[c].stamps = stamps
    BY DEF askedBar, StampsAsked, Answered
<1>2. c \notin landedBar
    BY DEF landedBar
<1>3. landedBar' = landedBar \cup {c}
    BY DEF landedBar, Execute_, IInv, TypeOK
<1>4. price \in [DOMAIN stamps -> Prices]
    BY DEF IInv, RepliesKnown
<1>5. ASSUME NEW a \in DOMAIN reply[c]
      PROVE  /\ Fresh(reply[c][a]) <=> Oracle!InTime(stamps[a])
             /\ reply[c][a] = [price |-> price[a], resolveTime |-> stamps[a]]
    <2>1. reply[c][a] \in PriceData
        BY DEF IInv, TypeOK, IsReply
    <2> QED
        BY <2>1 DEF Fresh, Oracle!InTime, PriceData
<1>6. priceData' = [a \in Assets |->
          IF a \in DOMAIN stamps /\ Oracle!InTime(stamps[a])
          THEN [price |-> price[a], resolveTime |-> stamps[a]]
          ELSE priceData[a]]
    <2>1. priceData' = [a \in Assets |->
              IF a \in DOMAIN reply[c] /\ Fresh(reply[c][a])
              THEN reply[c][a] ELSE priceData[a]]
        BY DEF Execute_, PostPriceData
    <2> QED
        BY <1>5, <2>1
<1> QED
    BY <1>1, <1>2, <1>3, <1>4, <1>6 DEF Oracle!Land

\* A completed _execute lands its command in the abstract contract.
LEMMA ExecuteRefines ==
    ASSUME IInv, NEW c \in Commands, Answered(c), Execute_(c),
           c \notin expressed, stage[c] # "executed",
           \A d \in Commands : /\ (stage'[d] = "unsent") <=> (stage[d] = "unsent")
                               /\ (stage'[d] = "outbound") <=> (stage[d] = "outbound"),
           UNCHANGED <<now, resolveWindow, request, reply>>
    PROVE  Oracle!Next
<1>1. runs[c] = 0
    BY DEF IInv, ExactlyOnce
<1>2. UNCHANGED askedBar
    BY DEF askedBar, StampsAsked
<1>3. Oracle!Land(c)
    BY <1>1, <1>2, LandRefines
<1> QED
    BY <1>3 DEF Oracle!Next

LEMMA StepRefines ==
    ASSUME IInv, [Next]_vars
    PROVE  [Oracle!Next]_(Oracle!vars)
<1> USE DEF Oracle!vars
<1>1. TypeOK
    BY DEF IInv
<1>2. CASE UNCHANGED vars
    BY <1>2 DEF vars, askedBar, StampsAsked, landedBar
<1>3. ASSUME NEW c \in Commands, SomeSend(c) PROVE Oracle!Next
    BY <1>3, SendRefines DEF Oracle!Next
<1>4. ASSUME NEW c \in Commands, NEW price \in [Assets -> Prices], OjoChainReply(c, price)
      PROVE UNCHANGED Oracle!vars
    BY <1>4, ReplyRefines
<1>5. ASSUME NEW c \in Commands, GatewayApprove(c) PROVE UNCHANGED Oracle!vars
    BY <1>1, <1>5 DEF GatewayApprove, contractVars, askedBar, StampsAsked, landedBar, TypeOK
<1>6. ASSUME NEW c \in Commands, Execute(c) PROVE [Oracle!Next]_(Oracle!vars)
    <2>1. \A d \in Commands : /\ (stage'[d] = "unsent") <=> (stage[d] = "unsent")
                              /\ (stage'[d] = "outbound") <=> (stage[d] = "outbound")
        BY <1>1, <1>6 DEF Execute, TypeOK
    <2>2. CASE c \in expressed
        BY <1>6, <2>1, <2>2 DEF Execute, contractVars, askedBar, StampsAsked, landedBar
    <2>3. CASE c \notin expressed
        BY <1>6, <2>1, <2>3, ExecuteRefines DEF Execute, contractVars, Answered
    <2> QED
        BY <2>2, <2>3
<1>7. ASSUME NEW c \in Commands, ExpressExecute(c) PROVE Oracle!Next
    BY <1>7, ExecuteRefines DEF ExpressExecute, contractVars, Answered
<1>8. ASSUME NEW names \in SUBSET Assets, NEW m \in Multipliers, SetBalance(names, m)
      PROVE UNCHANGED Oracle!vars
    BY <1>8 DEF SetBalance, contractVars, askedBar, StampsAsked, landedBar
<1>9. ASSUME NEW window \in Windows, UpdateResolveWindow(window) PROVE Oracle!Next
    BY <1>9 DEF UpdateResolveWindow, askedBar, StampsAsked, landedBar, Oracle!Next, Oracle!SetWindow
<1>10. ASSUME NEW limit \in Limits, UpdateAssetLimit(limit) PROVE UNCHANGED Oracle!vars
    BY <1>10 DEF UpdateAssetLimit, askedBar, StampsAsked, landedBar
<1>11. CASE Tick
    BY <1>11 DEF Tick, contractVars, askedBar, StampsAsked, landedBar,
                 Oracle!Next, Oracle!Tick
<1>12. ASSUME NEW c \in Commands, NEW payload \in Payloads, OtherCall(c, payload)
       PROVE Oracle!Next
    BY <1>12, OtherCallRefines DEF Oracle!Next
<1> QED
    BY <1>1, <1>2, <1>3, <1>4, <1>5, <1>6, <1>7, <1>8, <1>9, <1>10, <1>11, <1>12,
       NextIsSomeStep DEF SomeStep

\* The contract, its consumer and the network implement the abstract oracle.
THEOREM Implements == Spec => ImplementsOracle
BY InitRefines, StepRefines, Invariance, PTL
   DEF Spec, ImplementsOracle, Oracle!Spec

(***************************************************************************)
(* What PriceOracle is worth to a reader: its promise alone, whatever      *)
(* implements it, bounds how far a price may step back.                    *)
(***************************************************************************)

\* No command asks, and so no price is stored, with a stamp from further
\* ahead than the skew.
OracleStamps ==
    /\ now \in Nat
    /\ resolveWindow \in Nat
    /\ \A c \in Commands : \A a \in DOMAIN askedBar[c].stamps :
          askedBar[c].stamps[a] \in 0 .. now + MaxSkew
    /\ \A a \in Assets : priceData[a].resolveTime \in 0 .. now + MaxSkew

LEMMA OracleStarts == Oracle!Init => OracleStamps
<1> SUFFICES ASSUME Oracle!Init PROVE OracleStamps
    OBVIOUS
<1>1. now \in Nat /\ resolveWindow \in Nat
    BY OjoAssumption DEF Oracle!Init
<1>2. \A a \in Assets : priceData[a].resolveTime = 0
    BY DEF Oracle!Init, Oracle!NoPriceData
<1>3. 0 \in 0 .. now + MaxSkew
    BY <1>1, OjoAssumption
<1>4. \A c \in Commands : DOMAIN askedBar[c].stamps = {}
    BY DEF Oracle!Init, Oracle!NotAsked
<1> QED
    BY <1>1, <1>2, <1>3, <1>4 DEF OracleStamps

\* A landing stores only stamps it was asked with, and only those in time.
LEMMA OracleLands ==
    ASSUME OracleStamps, NEW c \in Commands, Oracle!Land(c), NEW a \in Assets,
           priceData'[a] # priceData[a]
    PROVE  /\ priceData'[a].resolveTime \in 0 .. now + MaxSkew
           /\ priceData'[a].resolveTime + resolveWindow > now
<1> DEFINE stamps == askedBar[c].stamps
<1>1. PICK price \in [DOMAIN stamps -> Prices] :
          priceData' = [b \in Assets |->
              IF b \in DOMAIN stamps /\ Oracle!InTime(stamps[b])
              THEN [price |-> price[b], resolveTime |-> stamps[b]]
              ELSE priceData[b]]
    BY DEF Oracle!Land
<1>2. /\ a \in DOMAIN stamps
      /\ Oracle!InTime(stamps[a])
      /\ priceData'[a].resolveTime = stamps[a]
    BY <1>1
<1>3. stamps[a] \in 0 .. now + MaxSkew
    BY <1>2 DEF OracleStamps
<1> QED
    BY <1>2, <1>3 DEF Oracle!InTime

LEMMA OracleStep == OracleStamps /\ [Oracle!Next]_(Oracle!vars) => OracleStamps'
<1> SUFFICES ASSUME OracleStamps, [Oracle!Next]_(Oracle!vars) PROVE OracleStamps'
    OBVIOUS
<1>1. CASE Oracle!Tick
    <2>1. now + MaxSkew \in Nat /\ now' + MaxSkew = now + MaxSkew + 1
        BY <1>1, OjoAssumption DEF Oracle!Tick, OracleStamps
    <2>2. \A t \in 0 .. now + MaxSkew : t \in 0 .. now' + MaxSkew
        BY <2>1
    <2> QED
        BY <1>1, <2>2 DEF Oracle!Tick, OracleStamps
<1>2. CASE Oracle!SetWindow
    BY <1>2, OjoAssumption DEF Oracle!SetWindow, OracleStamps
<1>3. ASSUME NEW c \in Commands, Oracle!Ask(c)
      PROVE  OracleStamps'
    <2>1. PICK names \in SUBSET Assets :
              \E stamps \in [names -> 0 .. now + MaxSkew] :
                  askedBar' = [askedBar EXCEPT ![c] = [sent |-> TRUE, stamps |-> stamps]]
        BY <1>3 DEF Oracle!Ask
    <2>2. PICK stamps \in [names -> 0 .. now + MaxSkew] :
              askedBar' = [askedBar EXCEPT ![c] = [sent |-> TRUE, stamps |-> stamps]]
        BY <2>1
    <2>3. \A d \in Commands : askedBar'[d].stamps = askedBar[d].stamps
                             \/ askedBar'[d].stamps = stamps
        BY <2>2 DEF askedBar
    <2> QED
        BY <1>3, <2>3 DEF Oracle!Ask, OracleStamps
<1>4. ASSUME NEW c \in Commands, Oracle!Land(c)
      PROVE  OracleStamps'
    <2>1. \A a \in Assets : priceData'[a].resolveTime \in 0 .. now + MaxSkew
        BY <1>4, OracleLands DEF OracleStamps
    <2> QED
        BY <1>4, <2>1 DEF Oracle!Land, OracleStamps
<1>5. CASE UNCHANGED Oracle!vars
    BY <1>5 DEF Oracle!vars, OracleStamps
<1> QED
    BY <1>1, <1>2, <1>3, <1>4, <1>5 DEF Oracle!Next

LEMMA OracleRegression ==
    ASSUME OracleStamps, [Oracle!Next]_(Oracle!vars), NEW a \in Assets,
           priceData'[a] # priceData[a]
    PROVE  priceData'[a].resolveTime + resolveWindow + MaxSkew > priceData[a].resolveTime
<1>1. PICK c \in Commands : Oracle!Land(c)
    BY DEF Oracle!Next, Oracle!Tick, Oracle!SetWindow, Oracle!Ask, Oracle!vars
<1>2. /\ priceData'[a].resolveTime \in 0 .. now + MaxSkew
      /\ priceData'[a].resolveTime + resolveWindow > now
    BY <1>1, OracleLands
<1>3. /\ now \in Nat /\ resolveWindow \in Nat /\ MaxSkew \in Nat
      /\ priceData[a].resolveTime \in 0 .. now + MaxSkew
    BY OjoAssumption DEF OracleStamps
<1> QED
    BY <1>2, <1>3

\* The abstract specification is strong enough for its readers: whatever
\* implements it moves no price back by the window plus the skew, or more.
THEOREM OracleBoundsRegression == Oracle!Spec => BoundedRegression
<1>1. OracleStamps /\ [Oracle!Next]_(Oracle!vars) =>
        [\A a \in Assets :
            priceData'[a] # priceData[a] =>
                priceData'[a].resolveTime + resolveWindow + MaxSkew
                    > priceData[a].resolveTime]_vars
    BY OracleRegression
<1> QED
    BY <1>1, OracleStarts, OracleStep, PTL DEF Oracle!Spec, BoundedRegression

=============================================================================
