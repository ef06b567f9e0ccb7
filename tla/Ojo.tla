-------------------------------- MODULE Ojo --------------------------------
(***************************************************************************)
(* The Ojo contract (contracts/Ojo.sol) with its sample consumer           *)
(* (contracts/MockOjo.sol), the message network that carries a request to  *)
(* the Ojo chain and the answer back, the relayer's unsolicited pushes,    *)
(* and calls of other origin, since _execute does not look at its source.  *)
(* Transactions are atomic, so each is one action; a transaction that      *)
(* reverts changes nothing and is a step the system does not take.         *)
(*                                                                         *)
(* A command stands for what the gateway and the express executors keep    *)
(* records of: an identity together with its payload.  The asset names of  *)
(* one payload are taken to be distinct.  Median data rides along with a   *)
(* price and is left out.                                                  *)
(***************************************************************************)
EXTENDS Integers, Sequences, FiniteSets

CONSTANTS
    Commands,     \* identities of the cross-chain commands
    Assets,       \* asset names (bytes32)
    Prices,       \* prices a call may carry
    Multipliers,  \* arguments of setBalance
    Windows,      \* values the owner gives resolveWindow
    Limits,       \* values the owner gives assetLimit
    UintMax,      \* type(uint256).max
    StartTime,    \* timestamp of the block the contract is deployed in
    MaxTime,      \* bound on the clock
    MaxSkew,      \* how far a sender's clock may differ from the chain's; no
                  \* code checks this, it is assumed of whoever sends
    Payloads,     \* what a call of another origin may carry
    MaxBalances   \* bound on direct calls of setBalance

\* Only bytes4(keccak256("")) means "no call"; four zero bytes do not.
EmptySelector == "0xc5d24601"
ZeroSelector  == "0x00000000"
SetBalanceSelector == "setBalance"

Selectors == {EmptySelector, ZeroSelector, SetBalanceSelector}

\* The payload of a call: nothing ties its price data to its asset names, nor
\* the stamps of its entries to each other.
IsPayload(p) ==
    /\ p.assetNames \in SUBSET Assets
    /\ p.selector \in Selectors
    /\ p.params \in Nat
    /\ \E names \in SUBSET Assets :
           p.priceData \in [names -> [price : Prices, resolveTime : Nat]]

ASSUME OjoAssumption ==
    /\ Prices \subseteq Nat
    /\ Multipliers \subseteq Nat
    /\ Windows \subseteq Nat
    /\ Limits \subseteq Nat
    /\ UintMax \in Nat
    /\ StartTime \in Nat
    /\ MaxTime \in Nat
    /\ MaxSkew \in Nat
    /\ \A p \in Payloads : IsPayload(p)

VARIABLES
    now,            \* block.timestamp
    resolveWindow,
    assetLimit,
    priceData,      \* mapping of asset name to its latest posted data
    balances,       \* MockOjo's balances, grouped by asset
    stage,          \* how far each command has travelled
    request,        \* payload of the request, fixed when it is sent
    reply,          \* price data of the call, fixed before it reaches the contract
    expressed,      \* commands with a recorded express executor
    runs,           \* history: how often _execute completed for a command
    called          \* history: commands whose _execute made an external call

contractVars == <<resolveWindow, assetLimit>>
vars == <<now, resolveWindow, assetLimit, priceData, balances,
          stage, request, reply, expressed, runs, called>>

(***************************************************************************)
(* Values.                                                                 *)
(***************************************************************************)

Stages == {"unsent", "outbound", "inbound", "approved", "executed"}

PriceData == [price : Nat, resolveTime : Nat]

NoPriceData == [price |-> 0, resolveTime |-> 0]

Request == [assetNames : SUBSET Assets, selector : Selectors,
            params : Nat, timestamp : Nat]

NoRequest == [assetNames |-> {}, selector |-> EmptySelector,
              params |-> 0, timestamp |-> 0]

IsReply(r) == \E names \in SUBSET Assets : r \in [names -> PriceData]

NoReply == [a \in {} |-> NoPriceData]

Init ==
    /\ now = StartTime
    /\ resolveWindow \in Windows
    /\ assetLimit \in Limits
    /\ priceData = [a \in Assets |-> NoPriceData]
    /\ balances = [a \in Assets |-> <<>>]
    /\ stage = [c \in Commands |-> "unsent"]
    /\ request = [c \in Commands |-> NoRequest]
    /\ reply = [c \in Commands |-> NoReply]
    /\ expressed = {}
    /\ runs = [c \in Commands |-> 0]
    /\ called = {}

(***************************************************************************)
(* Requests: the pull side of Ojo, called through MockOjo.                 *)
(***************************************************************************)

Send(c, names, selector, params, timestamp) ==
    /\ stage[c] = "unsent"
    /\ stage' = [stage EXCEPT ![c] = "outbound"]
    /\ request' = [request EXCEPT ![c] =
           [assetNames |-> names, selector |-> selector,
            params |-> params, timestamp |-> timestamp]]
    /\ UNCHANGED <<now, contractVars, priceData, balances,
                   reply, expressed, runs, called>>

CallContractMethodWithOjoPriceData(c, names, selector, params) ==
    /\ Cardinality(names) <= assetLimit
    /\ Send(c, names, selector, params, now)

RelayOjoPriceData(c, names) ==
    CallContractMethodWithOjoPriceData(c, names, EmptySelector, 0)

SetBalanceWithOjoPriceData(c, names, multiplier) ==
    CallContractMethodWithOjoPriceData(c, names, SetBalanceSelector, multiplier)

\* A push of the Go relayer starts on the Ojo chain: no asset limit applies,
\* the stamp is the relayer's clock, the selector is four zero bytes.
RelayerPush(c, names, timestamp) ==
    /\ names # {}
    /\ timestamp >= now - MaxSkew
    /\ timestamp <= now + MaxSkew
    /\ Send(c, names, ZeroSelector, 0, timestamp)

\* A call of another origin: _execute drops the source chain and address, and
\* whoever calls expressExecute brings the payload along.  Its stamps are those
\* of its entries; there is no request with one.
OtherCall(c, payload) ==
    /\ stage[c] = "unsent"
    /\ \A a \in DOMAIN payload.priceData :
           payload.priceData[a].resolveTime <= now + MaxSkew
    /\ stage' = [stage EXCEPT ![c] = "inbound"]
    /\ request' = [request EXCEPT ![c] =
           [assetNames |-> payload.assetNames, selector |-> payload.selector,
            params |-> payload.params, timestamp |-> 0]]
    /\ reply' = [reply EXCEPT ![c] = payload.priceData]
    /\ UNCHANGED <<now, contractVars, priceData, balances,
                   expressed, runs, called>>

(***************************************************************************)
(* The Ojo chain and the Axelar network.  Requests travel independently of *)
(* each other and any of them may stop on the way.                         *)
(***************************************************************************)

OjoChainReply(c, price) ==
    /\ stage[c] = "outbound"
    /\ stage' = [stage EXCEPT ![c] = "inbound"]
    /\ reply' = [reply EXCEPT ![c] =
           [a \in request[c].assetNames |->
               [price |-> price[a], resolveTime |-> request[c].timestamp]]]
    /\ UNCHANGED <<now, contractVars, priceData, balances,
                   request, expressed, runs, called>>

GatewayApprove(c) ==
    /\ stage[c] = "inbound"
    /\ stage' = [stage EXCEPT ![c] = "approved"]
    /\ UNCHANGED <<now, contractVars, priceData, balances,
                   request, reply, expressed, runs, called>>

(***************************************************************************)
(* Answers: _execute and the callback.                                     *)
(***************************************************************************)

FreshAtBoundary(d) == d.resolveTime + resolveWindow >= now

FreshAlways(d) == TRUE

Fresh(d) == d.resolveTime + resolveWindow > now

\* postPriceData: an entry past the window is dropped without an error.
PostPriceData(data) ==
    [a \in Assets |-> IF a \in DOMAIN data /\ Fresh(data[a])
                      THEN data[a] ELSE priceData[a]]

\* Checked arithmetic: the sum in postPriceData reverts when it overflows.
PostReverts(data) ==
    \E a \in DOMAIN data : data[a].resolveTime + resolveWindow > UintMax

\* MockOjo.setBalance over the stored prices, and when its product overflows.
BalancesFrom(store, names, multiplier) ==
    [a \in Assets |-> IF a \in names /\ store[a].price > 0
                      THEN Append(balances[a], store[a].price * multiplier)
                      ELSE balances[a]]

UncheckedProduct(store, names, multiplier) == FALSE

SetBalanceReverts(store, names, multiplier) ==
    \E a \in names : store[a].price * multiplier > UintMax

\* A variant a mistake in _execute would give: the callback ahead of the post.
CallBeforePost(c) ==
    LET names == request[c].assetNames
        multiplier == request[c].params
    IN  /\ ~PostReverts(reply[c])
        /\ priceData' = PostPriceData(reply[c])
        /\ runs' = [runs EXCEPT ![c] = @ + 1]
        /\ UNCHANGED called
        /\ IF request[c].selector = SetBalanceSelector
           THEN balances' = BalancesFrom(priceData, names, multiplier)
           ELSE UNCHANGED balances

\* Another: a callback that fails is no longer rethrown, and its prices stay.
ErrorSwallowed(c) ==
    LET posted == PostPriceData(reply[c])
        names == request[c].assetNames
        multiplier == request[c].params
    IN  /\ ~PostReverts(reply[c])
        /\ priceData' = posted
        /\ UNCHANGED called
        /\ IF SetBalanceReverts(posted, names, multiplier)
           THEN UNCHANGED <<runs, balances>>
           ELSE /\ runs' = [runs EXCEPT ![c] = @ + 1]
                /\ balances' = BalancesFrom(posted, names, multiplier)

Execute_(c) ==
    LET posted == PostPriceData(reply[c])
        names == request[c].assetNames
        multiplier == request[c].params
    IN  /\ ~PostReverts(reply[c])
        /\ priceData' = posted
        /\ runs' = [runs EXCEPT ![c] = @ + 1]
        /\ called' = IF request[c].selector # EmptySelector
                     THEN called \cup {c} ELSE called
        /\ \/ /\ request[c].selector = SetBalanceSelector
              /\ ~SetBalanceReverts(posted, names, multiplier)
              /\ balances' = BalancesFrom(posted, names, multiplier)
           \/ /\ request[c].selector # SetBalanceSelector
              /\ UNCHANGED balances

RecordIgnored(c) ==
    /\ stage[c] = "approved"
    /\ stage' = [stage EXCEPT ![c] = "executed"]
    /\ Execute_(c)
    /\ UNCHANGED <<now, contractVars, request, reply, expressed>>

\* The approval is consumed in the same transaction.  After an express
\* execution only the executor's record is cleared.
Execute(c) ==
    /\ stage[c] = "approved"
    /\ stage' = [stage EXCEPT ![c] = "executed"]
    /\ \/ /\ c \in expressed
          /\ expressed' = expressed \ {c}
          /\ UNCHANGED <<priceData, balances, runs, called>>
       \/ /\ c \notin expressed
          /\ Execute_(c)
          /\ UNCHANGED expressed
    /\ UNCHANGED <<now, contractVars, request, reply>>

\* Someone runs the answer ahead of its approval.
ExpressExecute(c) ==
    /\ stage[c] = "inbound"
    /\ c \notin expressed
    /\ expressed' = expressed \cup {c}
    /\ Execute_(c)
    /\ UNCHANGED <<now, contractVars, stage, request, reply>>

\* setBalance is external: anyone may call it on the prices as they stand.
SetBalance(names, multiplier) ==
    /\ \A a \in names : Len(balances[a]) < MaxBalances
    /\ ~SetBalanceReverts(priceData, names, multiplier)
    /\ balances' = BalancesFrom(priceData, names, multiplier)
    /\ UNCHANGED <<now, contractVars, priceData, stage, request, reply,
                   expressed, runs, called>>

(***************************************************************************)
(* The owner and the clock.                                                *)
(***************************************************************************)

UpdateResolveWindow(window) ==
    /\ resolveWindow' = window
    /\ UNCHANGED <<now, assetLimit, priceData, balances, stage, request,
                   reply, expressed, runs, called>>

UpdateAssetLimit(limit) ==
    /\ assetLimit' = limit
    /\ UNCHANGED <<now, resolveWindow, priceData, balances, stage, request,
                   reply, expressed, runs, called>>

Tick ==
    /\ now < MaxTime
    /\ now' = now + 1
    /\ UNCHANGED <<contractVars, priceData, balances, stage, request, reply,
                   expressed, runs, called>>

ConsumerStep(c) ==
    \E names \in SUBSET Assets :
        \/ RelayOjoPriceData(c, names)
        \/ \E m \in Multipliers : SetBalanceWithOjoPriceData(c, names, m)

NetworkStep(c) ==
    \/ \E price \in [Assets -> Prices] : OjoChainReply(c, price)
    \/ GatewayApprove(c)
    \/ Execute(c)
    \/ ExpressExecute(c)

CommandStep(c) ==
    \/ ConsumerStep(c)
    \/ \E names \in SUBSET Assets, timestamp \in 0 .. now + MaxSkew :
           RelayerPush(c, names, timestamp)
    \/ \E payload \in Payloads : OtherCall(c, payload)
    \/ NetworkStep(c)

Next ==
    \/ \E c \in Commands : CommandStep(c)
    \/ \E names \in SUBSET Assets, m \in Multipliers : SetBalance(names, m)
    \/ \E window \in Windows : UpdateResolveWindow(window)
    \/ \E limit \in Limits : UpdateAssetLimit(limit)
    \/ Tick

Spec == Init /\ [][Next]_vars

(***************************************************************************)
(* Properties.                                                             *)
(***************************************************************************)

\* Every variable stays in its type; no product that overflowed is ever
\* recorded as a balance (MockOjo.setBalance under checked arithmetic).
TypeOK ==
    /\ now \in Nat
    /\ resolveWindow \in Windows
    /\ assetLimit \in Limits
    /\ priceData \in [Assets -> PriceData]
    /\ balances \in [Assets -> Seq(0 .. UintMax)]
    /\ stage \in [Commands -> Stages]
    /\ request \in [Commands -> Request]
    /\ reply = [c \in Commands |-> reply[c]]
    /\ \A c \in Commands : IsReply(reply[c])
    /\ expressed \subseteq Commands
    /\ runs \in [Commands -> Nat]
    /\ called \subseteq Commands

\* The effects of an answer, prices and callback, take place exactly once,
\* whichever of the gateway and an express executor comes first and however
\* often an execution has reverted before.
ExactlyOnce ==
    \A c \in Commands :
        runs[c] = IF stage[c] = "executed" \/ c \in expressed THEN 1 ELSE 0

\* A stored price was brought by a call whose whole execution completed: a
\* callback that reverts takes the prices of its call back with it, and no
\* price outlives that.  Who sent the call is not said: _execute takes any.
StoreIsFromLanded ==
    \A a \in Assets :
        \/ priceData[a] = NoPriceData
        \/ \E c \in Commands : /\ runs[c] > 0
                              /\ a \in DOMAIN reply[c]
                              /\ priceData[a] = reply[c][a]

\* postPriceData compares an answer with the clock, never with the price it
\* replaces, so an answer overtaken on the way may move an asset back in
\* time; but never by more than the window and the relayer's clock skew.
BoundedRegression ==
    [][\A a \in Assets :
          priceData'[a] # priceData[a] =>
              priceData'[a].resolveTime + resolveWindow + MaxSkew
                  > priceData[a].resolveTime]_vars

\* A setBalance callback sees the prices of the very call it came with, for
\* every asset it names whose entry was in time, and no price that another command,
\* landed in between, has left in the store.
CallbackUsesOwnPrices ==
    [][\A c \in Commands :
          runs'[c] > runs[c] /\ request[c].selector = SetBalanceSelector =>
              \A a \in DOMAIN reply[c] \cap request[c].assetNames :
                  Fresh(reply[c][a]) /\ reply[c][a].price > 0 =>
                      balances'[a] = Append(balances[a],
                                            reply[c][a].price * request[c].params)]_vars

\* The contract keeps the promise of PriceOracle: with the network, the
\* express path, callbacks and reverts hidden, a command lands at most once,
\* with all of its entries that are in time and none of the others.
StampsAsked(c) ==
    IF stage[c] = "outbound"
    THEN [a \in request[c].assetNames |-> request[c].timestamp]
    ELSE [a \in DOMAIN reply[c] |-> reply[c][a].resolveTime]

askedBar ==
    [c \in Commands |-> [sent |-> stage[c] # "unsent", stamps |-> StampsAsked(c)]]

landedBar == {c \in Commands : runs[c] > 0}

Oracle == INSTANCE PriceOracle WITH asked <- askedBar, landed <- landedBar

ImplementsOracle == Oracle!Spec

\* README.md:26 and :35 of the repository: an oracle update that timed out
\* does not execute the DeFi function.
LateAnswerMakesNoCall ==
    [][\A c \in called' \ called :
          request[c].selector = SetBalanceSelector =>
              \A a \in DOMAIN reply[c] : Fresh(reply[c][a])]_vars

\* relayer/relayer/relayer.go:261-262 and contracts/Ojo.sol:120: a push has an
\* empty command selector, and the contract is called only when the selector
\* is not empty.
PushMakesNoCall ==
    \A c \in called : request[c].selector # ZeroSelector

=============================================================================
