# Verification of ojo-evm

TLA+ models of the Ojo price oracle for EVM chains, the TLC runs that check
them on small instances, and TLAPS proofs for every size. File and line numbers
refer to the repository's sources.

## 1. The system

ojo-evm brings prices of the Ojo chain to EVM chains over Axelar's general
message passing (GMP).

* **Pull.** A DeFi contract (the sample is `contracts/MockOjo.sol`) calls
  `Ojo.callContractMethodWithOjoPriceData`. The request travels over Axelar to
  the Ojo chain, which answers with prices stamped with the time of the
  request. Axelar delivers the answer to `Ojo._execute`, which posts the prices
  and calls the DeFi contract back.
* **Push.** The Go relayer (`relayer/`) watches prices on the Ojo chain and, when
  a heartbeat is due or a price has deviated, sends a transaction there that
  starts the same delivery without a request and without a callback.
* **Read.** Contracts read `getPriceData`, `getPrice`, or one of five price feeds
  with Chainlink's interface.

| Component | State | Operations | Interacts with |
|---|---|---|---|
| `contracts/Ojo.sol` | `priceData`, `resolveWindow`, `assetLimit`, the Ojo chain's name and address | requests with and without token, `_execute`, `postPriceData`, getters, owner updates, `_setup` | Axelar gateway and gas service, consumer contracts |
| `contracts/MockOjo.sol` | `balances` | relay and set-balance requests, the callback `setBalance` | Ojo |
| Axelar, Ojo chain (external) | where each command stands, express executors' records | delivery, approval, execution, express execution | Ojo, relayer |
| `relayer/relayer/relayer.go` | `latestAssets` | `tick`, `init`, `relay`, `updateMemory` | relayer client |
| `relayer/relayer/client` | cached chain height and error | `GetPrice`, `BroadcastTx`, `EstimateGasFee`, the height subscriber | Ojo node, gas API |
| `relayer/cmd` | process, context, signal trap | start, prompt, trap, wait, exit | the two above |
| `relayer/config` | none after start | load and validate a file | process |
| price feeds (5) | names, decimals, vault addresses, set once | `latestRoundData` and constants | Ojo or a vault |
| clone factories (5) | latest clone per sender | create a feed | price feeds |
| `OjoProxy.sol`, `scripts/utils/upgradable.ts` | implementation, owner, settings | deploy and init, setup, upgrade | Ojo |
| `scripts/` | the chains' file, pending transactions | deploy, upgrade and create loops over chains and feeds | chains |
| `frontend/` | selected assets, shown prices | relay and display buttons | Ojo, MockOjo, wallet |

**What is hard.** Transactions are atomic, but between a request and its answer
anything may happen: other answers land, the owner changes the window, an
express executor runs the answer first, a callback reverts and the execution is
tried again later. Nothing orders answers. In the relayer every call may fail or
lose its answer, block headers lag behind, and the memory is renewed separately
from the transaction it describes. The process can be told to stop at any of
these points. The feeds cross between unsigned and signed arithmetic. The browser
tool and the deployment scripts read something, await other things, and act on
what they read; transactions they have sent stay sent when they give up.

**What makes the components correct.**

* Ojo: a call takes effect exactly once and completely or not at all; the store
  holds only prices of calls whose execution completed; an answer out of order
  does bounded harm; a callback computes with the prices of its own call.
* Relayer: bounded attempts, memory renewed only for what was sent, heartbeats
  and market moves arrive in the end in spite of failures.
* Process: a signal ends it; at most the batch of the tick under way is still relayed.
* Feeds: agree with `getPrice`, never look fresher than their data, are exact where
  the numbers they cast fit.
* Token path: whoever asks pays, and nothing stays behind with the contracts.
* Browser tool: success is reported only for a request that is on the gateway.
* Deployment: no feed gets another one's vault or stays uninitialized, no proxy
  stands without code behind it, what the owner has corrected stays, and a run that reports no error is complete whatever earlier runs left pending.

The full list of hazards, each with its line and the properties that look after
it, is `hazards` in `PROJECT.json`.

## 2. Modules

| Module | Models | Kind |
|---|---|---|
| `PriceOracle` | what Ojo promises its readers | abstract specification |
| `Ojo` | `Ojo.sol`, `MockOjo.sol`, delivery, pushes | detailed specification, refines `PriceOracle` |
| `OjoProofs` | theorems about `Ojo` | proofs |
| `Relayer` | `relayer/relayer` and the node it talks to | specification |
| `RelayerProofs` | theorems about `Relayer` | proofs |
| `RelayerLifecycle` | `relayer/cmd/relayer.go` and `Start` | specification |
| `RelayerLifecycleProofs` | theorems about `RelayerLifecycle` | proofs |
| `PriceFeeds` | `getPrice` and the five `latestRoundData` | views over changing inputs |
| `PriceFeedsProofs` | theorems about `PriceFeeds` | proofs |
| `OjoToken` | requests that carry a fee token, from user to gateway | specification |
| `OjoTokenProofs` | theorems about `OjoToken` | proofs |
| `Frontend` | the asset form and the relay button, on `OjoToken` | composition |
| `FrontendProofs` | theorems about `Frontend`, on those about `OjoToken` | proofs |
| `FeedDeployment` | clone factories, `initialize`, the scripts that deploy feeds | specification |
| `FeedDeploymentProofs` | theorems about `FeedDeployment` | proofs |
| `OjoDeployment` | the proxy, `_setup`, upgrades, owner updates, the scripts that deploy and upgrade Ojo and MockOjo | specification |
| `OjoDeploymentProofs` | theorems about `OjoDeployment` | proofs |
| `MC...` | instances for TLC | |

Definitions carry the names of the functions they model; `map` in `PROJECT.json`
gives the lines. Definitions named after a mistake (`FreshAlways`,
`RecordIgnored`, `ErrorIgnored`, ...) are not part of a specification. Each is
a variant of the definition below it that a plausible bug would give, kept to
show that the property next to it in `PROJECT.json` notices the bug.

### Ojo

A command is a request or a push on its way; `stage` follows it from `unsent`
over `outbound` (to the Ojo chain), `inbound` (the answer exists) and `approved`
(by the gateway) to `executed`. Every transaction is one action:
`RelayOjoPriceData`, `SetBalanceWithOjoPriceData`, `RelayerPush`, `OtherCall`,
`OjoChainReply`, `GatewayApprove`, `Execute`, `ExpressExecute`, `SetBalance` (it
is external, anyone may call it), `UpdateResolveWindow`, `UpdateAssetLimit`,
`Tick`. A transaction that reverts changes nothing, so it is a step that is not
taken: an answer whose callback overflows stays `approved` and may be executed
later, when the window or the prices have changed.

`Execute_` contains the whole of `_execute`: `PostPriceData` over all entries,
the overflow of `resolveTime + resolveWindow`, the comparison of the selector
with `bytes4(keccak256(""))`, the callback on the posted store and its
own overflow. `Execute` and `ExpressExecute` are the two entry points of
`AxelarExpressExecutable`, external code that is modelled from its use: an
express execution leaves a record, and the later approved execution then only
clears it.

`_execute` drops the source chain and address, and `expressExecute` takes its
payload from its caller. So the contract's promises must not rest on what the Ojo
chain would answer: `OtherCall` starts a call whose payload is any member of
`Payloads`, with asset names, price data and stamps that need not match each
other. The gateway and the express path keep their records under a command's
identity together with the hash of its payload, and that pair is what an element
of `Commands` stands for; another payload under the same identity is another
element. No property says who sent a price. `MaxSkew`, how far the stamp of a call
may lie ahead of the block that receives it, is an assumption on all senders: the
contract does not check it, and `BoundedRegression` and the refinement hold under
it.

Left out: median data (it rides along unread), the relayer's and users' fees,
duplicates in one call's asset list. A callback to a contract other than MockOjo appears through the push's
zero selector: it is called, and has no effect of its own here.

The history variables `runs` and `called` count completed `_execute`s and record
external calls; no guard reads them.

### PriceOracle

Commands are asked with a stamp for each of their assets, and land at most once: at
landing the assets whose stamps are in time are replaced, all of them, and no
others. (The stamps of an answer of the Ojo chain are equal, so it replaces all or
none.)
`Ojo` refines it under `askedBar`, `landedBar` and the variables of the same
name; network, callback, express path and `balances` are hidden.

### Relayer

The loop of `Start` is `phase`: `sleep`, `init` or `check` (the loop over the
denoms, at index `k`), `gas` (waiting for the fee estimate), `broadcast` and
`update`. Each price query, the gas request and each broadcast attempt is a step
of its own, so blocks, headers, price moves and time fall in between. `TickReturns`
is every early `return` of the tick. The subscriber's goroutine is `BlockHeader`;
headers queue in `backlog`; an event that is no header sets `heightErr` until
the next header, and some events never arrive. A header carries its own height, so
the next one that is read makes up for those that were `missed`. The node accepts one pending transaction of the relayer per
block, because the sequence number is queried anew for each attempt and is that
of the last block (`client/tx.go:55-79`). `Commit` makes a block, and with it
the pending relay reads the prices as they then are.

Heights are counted from the one `BroadcastTx` checked last (`lead`: cached minus
checked, `room`: maximum minus checked) and times as `age` since the last relay,
because the code uses only these differences; both are capped where larger
values behave alike. `Prices` names the prices each denom may have, so a pegged
denom need not move as the others do. `Deviated` compares integers, as `|new - old| * 100 >=
Deviation * old`, instead of 64-bit floats.

Left out: the amount of the fee, the content of the message other than its
denoms, the telemetry.

### RelayerLifecycle

The main goroutine (`off`, `prompt`, `connect`, `wait`), the trap's goroutine, the
context, the subscriber and the loop, which is reduced to the calls it waits in.
`Exit` is the end of the process and takes every goroutine with it, also when the
prompt or the connection fails (`PromptFails`, `ConnectFails`); `Launch` starts it
again. `trapSignal` listens once.

`height` says whether the cached height is one that `BroadcastTx` has tried
(`old`), a newer one, or an error, which a garbled header leaves behind and an
`Unsubscribe` that fails. `BroadcastTx` does not look at the context: after the
cancellation it may go on with the one newer height that is cached, ends with the
error, or spins for heights that a stopped subscriber no longer delivers, and only
`WaitReturns` ends that. Queries of prices carry the context and fail, but a tick
in which every heartbeat is due asks for none and goes on to its broadcast
(`Queries`). `late` counts the relays that succeed after the cancellation.

### PriceFeeds

The views as operators over a store and vaults that change as they please, in
integers of width `IntMax`, with `One` for `10**18`. A revert is the value
`Reverted`. Casts from unsigned to signed keep the bits; signed division
truncates. `MellowPriceFeed` and `ynPriceFeed` differ only in the contract they
ask, so both are `RateFeed`.

`VaultRateExact` draws the line for the vaults' feeds: a rate is exact or negative;
Inception's ratio is exact where deposits and supply fit `int256`, and not positive
where one of them does not. Where neither fits, both casts turn negative, their
signs cancel (`InceptionPriceFeed.sol:120`), and the answer may be positive and
wrong; the property says nothing of that case because nothing holds in it.

### OjoToken

`held` and `allowance` are the ledger of the ERC20 token the gateway names for a
symbol; the token and the gateway's `callContractWithToken` are external and
modelled from their use. A request is one transaction through both contracts, so
it is one action, `RelayOjoPriceDataWithToken`: MockOjo takes the token from its
caller and approves Ojo (`AfterMockOjo`), Ojo takes it and approves the gateway
(`AfterOjo`), and the gateway takes it or reverts. `RelayWithTokenReverts` lists
what reverts it. Besides requests, users approve (`Approve`), the owner moves
`assetLimit`, and users may send a contract tokens by mistake (`Stray`).

Both contracts drop the results of `transferFrom` and `approve`. The variable
`reverting` says which kind of token this is. With one that answers false, a
request goes on after a transfer that failed, and tokens strayed to the contracts
may pay for it. That is why `AllowancesUsedUp`, `PaidByAsker` and
`LeftoverNeedsFailure` speak of tokens that revert, and only
`ContractsKeepNothing` of both.

Left out: the native gas fee, symbols the gateway does not know, tokens that take
a fee of their own in a transfer. MockOjo takes the token's address from its caller
(`MockOjo.sol:42`), who may name another than the gateway's; and `Ojo.sol:55` may be
called without MockOjo. The module has neither: its properties speak of requests
through MockOjo with the token that the gateway names for the symbol.

### Frontend

`Frontend` extends `OjoToken`. `assetNames` and `selectAll` are the state of
`AssetForm`; `pc` says in which await the handler of a click stands, and `form`
holds the values the handler closed over when the button was clicked. A click's
request bears the click's name. Between two awaits the handler is one action:
`Click`, `ReadAssetLimit`, `EstimateGasFee`, `SendApprove`, `SendRelay`; an await
may throw instead (`Throw`). ethers estimates the gas of a transaction before it
is sent, so a request that would revert at that moment is never sent. The
wallet's transactions wait in `mempool` in nonce order and `Mine` takes the next;
in between, the owner and other users act on the same contracts (`Others`).

A switch that is on takes its asset out with a filter in the code; `Toggled` removes
the one place where the asset stands. The two agree because the form lists no asset
twice, which is part of `TypeOK` and proved.

Left out: the display button and the price table, switching the wallet to another
chain, the choice between the two request functions (they treat the token alike),
and the amount of the gas fee.

### FeedDeployment

Fifteen scripts have one of three shapes, and an operator runs them one at a time
(`Start`): `DeployImplementation` and `DeployCloneFactory` send one deployment for
each chain, print its address and do not wait; the third creates feeds and waits
for each. `at` holds the positions of a script's loops, `config` the addresses in
the chains' file and `printed` those the operator may copy there before the next
run. `family` chooses between the feeds with a name alone (`CreatePriceFeed`, for
two scripts and factories) and those with a vault beside it
(`CreateMellowPriceFeed`, for three). An error outside a `try`, or an
interruption, ends the run (`Abort`); one inside it is reported and the loop goes
on (`CreateFails`). `Mine` takes the wallet's transactions in nonce order, and any
of them may fail and use up its nonce.

A factory clones and initializes in one transaction (`Cloned`). A call of an
address without code succeeds and does nothing: this holds for a factory that was
never deployed (`MineCreate`) and for a clone of an implementation that was not
(`Initialized`). The nonces, not the scripts, keep a clone from being older than
its implementation. `initialize` is external, so `Initialize` lets anyone call it.

Left out: other users of the factories, the mapping from a sender to its latest
clone (no script reads it), `initialize` on the implementation itself (it has no
effect on clones), several scripts at a time, and a node that loses an accepted
transaction.

### OjoDeployment

`deployOjo`, `upgradeOjo` and `deployMockOjo` share one loop over the chains that
are selected (`GoOn`) and one shape: look at the balance, deploy an
implementation and wait, send the transaction and wait. `script`, `pc` and `at`
say where the run stands; `runs` numbers the runs, and the number stands for the
address of the implementation a run deploys. A proxy's address depends on wallet
and key alone, so the key stands for it, on every chain. `printed` and
`ojoContract` are what the operator reads and copies, as in `FeedDeployment`.

`Mine` takes the wallet's transactions in nonce order, whichever run has sent
them, and each may fail: `MineProxy` deploys and initializes in one transaction
(`DeployedAndInit`), `MineUpgrade` is the owner's alone and compares the hash of
the code, `MineMock` makes a consumer for an oracle's address. `Abort` is any
error outside a `try`, and the operator's interruption; what was sent stays sent.
`SetupReverts` is the check in `_setup` that no field has been set before.

The hash in `upgradeContract` is read from a node that may not know the new code
yet, so it may be that of no code (`hashed`). What the owner does by hand is an
action each: the four updates (`Update`, with the 8-bit argument of
`updateAssetLimit`), `TransferOwnership` and `UpgradeByHand`.

Every transaction costs one unit of funds, and a node takes no transaction the
funds do not pay for. `deployOjo` compares the funds with the cost of the
implementation and not of the proxy, so a run may end between the two.

A proxy's constructor makes its deployer the owner and `init` is the owner's, so it
is not a matter of who may call `init`: what a deployment in two transactions would
leave behind, when the second fails, is a proxy with no implementation, which has an
address and no price to give. That is what `ProxiesServe` excludes.

Left out: the address of a consumer, which `deployMockOjo` prints before it sends
the transaction (no script and no file has it, and `printed` does not record it),
changes of the proxy's bytecode (they move its address), several scripts at a time, a node that loses an accepted transaction.

## 3. Runs

| Run | Shows | Instance |
|---|---|---|
| `ojo` | `TypeOK`, `ExactlyOnce`, `StoreIsFromLanded`, `BoundedRegression`, `CallbackUsesOwnPrices`, `ImplementsOracle` | 2 commands, 2 assets, prices 0 and 7, multipliers 1 and 3, windows 1 and 18, limits 0 and 2, width 20, payloads of other origin in 2 shapes |
| `ojo_late` | violation: an answer that timed out makes its call | 1 asset, 3 times, no calls of other origin |
| `ojo_push` | violation: a push makes a call | 1 asset, no calls of other origin |
| `relayer` | `TypeOK`, `AttemptsBounded`, `RenewedOnlyAfterAccepted`, `BroadcastReturns`, `HeartbeatSent`, `SettlesOnMarket` | 2 denoms, one of which moves and one may be delisted, 2 faults, timeout 1 |
| `pricefeeds` | `TypeOK`, `FeedsAgree`, `NotFresherThanEither`, `RoundTripLoses`, `VaultRateExact` | 5-bit integers, edge values |
| `pricefeeds_usd` | violation: a pair in USD is priced differently by feed and `getPrice` | all 5-bit prices |
| `lifecycle_exit` | `TypeOK`, `AtMostOneLateRelay`, `SignalEndsProcess` | 2 lives, 2 relays |
| `lifecycle_graceful` | violation: the process exits in the middle of a tick | the same |
| `frontend` | `TypeOK`, `SuccessMeansSent`, `LeftoverNeedsFailure`, `AllowancesUsedUp`, `PaidByAsker`, `ContractsKeepNothing` | 2 clicks, 2 assets, amounts 1 and 2, limits 1 and 2, 2 users with 2 tokens each |
| `feed_deployment` | `TypeOK`, `NamesKeepTheirVaults`, `ImplementedMeansInitialized`, `CompleteUnlessReported` | 2 chains, 2 feeds, 4 runs of scripts, 2 failed transactions |
| `ojo_deployment` | `TypeOK`, `ProxiesServe`, `DoneEverywhere`, `AddressesHaveProxies`, `SettingsStay` | 2 chains with funds for 4 and 2 transactions, 2 keys, 3 runs of scripts |
| `ojo_deployment_address` | violation: a new contract's requests go to another address than `OJO_ADDRESS` | the same |

**Why the bounds suffice.** For `ojo`, two commands are what an overtaking, a
landing between a request and its answer, or a race of executors needs: every
property speaks of one command and at most one other. With `width = 20`, price 7
overflows under multiplier 3 and window 18 overflows with a stamp of 3, so both
reverts occur next to executions that succeed; window 1 makes answers late at
the second tick; skew 1 puts pushes' stamps on both sides of the clock. Limit 0
refuses all requests and 2 none. A call of another origin brings different stamps for
its assets, so that one is in time and the other late, or a price for an asset it
does not name, so that the callback finds what another call has left. Commands and
assets are symmetric, and every property quantifies over them alike. The two runs
that expect a violation have no such calls, so that the counterexample is one of
the repository's own requests and pushes.

For the relayer, timeout 1 gives the window two heights, so first attempt, retry
and expiry all occur; two faults fail one call and its repetition or lose an
answer and then a transaction; a backlog of one header lets the subscriber lag
behind the chain by a block at each step. Prices 2 and 3 deviate at 50 percent
upwards (1/2) but not downwards (1/3), so the memory and the pushed price can
disagree unnoticed, which is the case `SettlesOnMarket` has to survive. The second
denom keeps its price and may be delisted: two denoms are needed where one
denom's failure stops the other, and where one is relayed without the other.

For the feeds, 5 bits keep every edge: zero, one, the largest `int256` and its
neighbours, the largest `uint256`, products and quotients that overflow. The scale
is 3 in place of `10**18`, so products overflow for some prices and not for others.

For the frontend, two clicks at a time are what it takes for an approval to
replace another, or for one click to spend what the other approved. Two assets
exceed limit 1 and keep to limit 2. With 2 tokens the wallet can pay one request
of 2 or two of 1, so the second request may find too little; the other user's
tokens stray to the contracts in amounts that do or do not pay for a request.

For the deployment, three runs take a chain from nothing to feeds, and a fourth
repeats any of them after an abort or a failure. Two feeds make one's vault a
wrong one for the other, and two chains make an index carried over from one to
the next show. Two transactions may fail: a deployment and the creation that
rests on it.

For `OjoDeployment`, three runs are a deployment, an upgrade that is interrupted
and another run behind its pending transactions. One chain's funds pay for a
deployment and an upgrade, the other's for a deployment only, so a run ends for
want of funds after the first chain is done. Two keys let a second deployment
miss or meet the first one's proxy; keys are symmetric, chains are not, because
the file has an order. Any number of transactions may fail.

**Fairness.** `Relayer` assumes that its goroutine and the subscriber are
scheduled, calls to the node end (they carry a timeout), the Ojo chain makes
blocks and time passes. That the gas API answers is a separate assumption,
`GasAnswers`: `EstimateGasFee` uses an HTTP client without a timeout
(`client/gas_estimate.go:69`), so without it no heartbeat property holds.
Failures are finite (`MaxFaults`); a denom that is delisted fails for ever.
`RelayerLifecycle` assumes scheduling; that somebody answers the password prompt
is the extra conjunct of `AnsweredSpec`, because a signal during the prompt is
trapped and has no effect until it is answered. Nothing is assumed of signals,
of the market, or of deliveries: `Ojo`, `Frontend`,
`FeedDeployment` and `OjoDeployment` have only safety properties.

**Deadlock** is checked in no run. The systems may stop: all commands are executed
and the clock at its bound, a process that may not be launched again.

## 4. Findings

Places where the code does something other than its documentation says; each is
a run whose counterexample shows it (`findings` in `PROJECT.json`).

* `README.md:26` and `:35` say the DeFi function is not executed when the oracle
  message timed out. `_execute` drops the late prices and calls anyway, on
  whatever the store holds.
* `relayer.go:261-262` sends an "empty" selector with a push. The contract
  compares with `bytes4(keccak256(""))`, receives four zero bytes and calls.
* `PriceFeedQuoted` answers 0 for a pair quoted in USD, which `getPrice` prices.
* `cmd/relayer.go:141-142` says main waits for its goroutines; it leaves them in
  the middle of a tick.
* `deployOjo.ts:53` gives `_setup` the address of the proxy in the chains' file,
  empty for a new chain, where the account on the Ojo chain belongs;
  `.env.example:6` has `OJO_ADDRESS`, which nothing reads.

## 5. Proofs

The theorems hold for all values of the constants that satisfy the assumptions
named in the modules: `OjoAssumption`, `RelayerAssumption`, `TokenAssumption`,
`FrontendAssumption`, `PriceFeedsAssumption`, `LifecycleAssumption` and the two
`DeploymentAssumption`s. They say that prices, bounds, timestamps, funds and
amounts are naturals, that configurations and lists are finite sequences (of
chains and of the form's assets without repetition), that the contracts are
accounts of their own, that scale and width of the feeds' integers are positive,
and that `Empty` is no address. No bound of a run is assumed.

| Theorem | Statement |
|---|---|
| `OjoProofs!TypeCorrect` | `Spec => []TypeOK` |
| `OjoProofs!EffectsExactlyOnce` | `Spec => []ExactlyOnce` |
| `OjoProofs!StoreOnlyFromLanded` | `Spec => []StoreIsFromLanded` |
| `OjoProofs!RegressionBounded` | `Spec => BoundedRegression` |
| `OjoProofs!CallbackOnOwnPrices` | `Spec => CallbackUsesOwnPrices` |
| `OjoProofs!Implements` | `Spec => ImplementsOracle` |
| `OjoProofs!OracleBoundsRegression` | `Oracle!Spec => BoundedRegression` |
| `RelayerProofs!TypeCorrect` | `Spec => []TypeOK` |
| `RelayerProofs!AttemptsStayBounded` | `Spec => []AttemptsBounded` |
| `RelayerProofs!RenewalAfterAcceptance` | `Spec => RenewedOnlyAfterAccepted` |
| `RelayerProofs!BroadcastsRunOut` | `Spec => WindowCloses` |
| `OjoTokenProofs!AllowancesStayUsedUp` | `TokenSpec => []AllowancesUsedUp` |
| `OjoTokenProofs!AskerPays` | `TokenSpec => PaidByAsker` |
| `OjoTokenProofs!RequestsLeaveNothing` | `TokenSpec => ContractsKeepNothing` |
| `FrontendProofs!TypeCorrect` | `Spec => []TypeOK` |
| `FrontendProofs!ImplementsOjoToken` | `Spec => TokenSpec` |
| `FrontendProofs!ToolUsesUpAllowances` | `Spec => []AllowancesUsedUp` |
| `FrontendProofs!ToolPaidByAsker` | `Spec => PaidByAsker` |
| `FrontendProofs!ToolLeavesNothing` | `Spec => ContractsKeepNothing` |
| `FrontendProofs!SuccessAlwaysReal` | `Spec => []SuccessMeansSent` |
| `FrontendProofs!LeftoversExplained` | `Spec => []LeftoverNeedsFailure` |
| `PriceFeedsProofs!TypeCorrect` | `Spec => []TypeOK` |
| `PriceFeedsProofs!FeedsAlwaysAgree` | `Spec => []FeedsAgree` |
| `PriceFeedsProofs!PairsNotFresher` | `Spec => []NotFresherThanEither` |
| `PriceFeedsProofs!RoundTripsLose` | `Spec => []RoundTripLoses` |
| `PriceFeedsProofs!VaultRatesExact` | `Spec => []VaultRateExact` |
| `RelayerLifecycleProofs!TypeCorrect` | `Spec => []TypeOK` |
| `RelayerLifecycleProofs!OneLateRelayAtMost` | `Spec => []AtMostOneLateRelay` |
| `FeedDeploymentProofs!TypeCorrect` | `Spec => []TypeOK` |
| `FeedDeploymentProofs!CompleteRuns` | `Spec => []CompleteUnlessReported` |
| `FeedDeploymentProofs!NamesAlwaysKeepTheirVaults` | `Spec => []NamesKeepTheirVaults` |
| `FeedDeploymentProofs!ImplementedAlwaysInitialized` | `Spec => []ImplementedMeansInitialized` |
| `OjoDeploymentProofs!TypeCorrect` | `Spec => []TypeOK` |
| `OjoDeploymentProofs!ProxiesAlwaysServe` | `Spec => []ProxiesServe` |
| `OjoDeploymentProofs!AddressesAreProxies` | `Spec => []AddressesHaveProxies` |
| `OjoDeploymentProofs!DoneIsComplete` | `Spec => []DoneEverywhere` |
| `OjoDeploymentProofs!SettingsStayPut` | `Spec => SettingsStay` |

**Ojo.** `ExactlyOnce` and `StoreIsFromLanded` are not inductive: they say nothing
of calls that have not landed. `IInv` adds that a call has price data only once it
is on its way (`RepliesKnown`; whether it matches the asset names is not assumed),
that express records belong to commands in flight (`ExpressOnlyInFlight`) and that
no stamp is further ahead than the skew (`StampBounded`, which rests on the guards
of `RelayerPush` and `OtherCall`). One lemma per action shows that it preserves
`IInv`; the lemmas about `PostPriceData` and `BalancesFrom` carry the data.
`BoundedRegression` follows from `StampBounded` and the test in
`postPriceData`; the refinement maps executions to `Land`, requests, pushes and calls of
other origin to `Ask`, and everything else but the clock and the window to stuttering. The bound also follows
from the abstract specification alone (`OracleBoundsRegression`, with
`OracleStamps` as its invariant): `PriceOracle` is strong enough for a reader, and
the bound does not depend on how answers travel.

**Relayer.** The bound on attempts needs the measure `attempts + room <= Timeout + 1`
during a broadcast: each attempt uses up at least one height. That the memory is
renewed only after acceptance needs to know what a tick has gathered before its
first relay (`InitGathers`: all denoms) and achieved before `updateMemory`
(`UpdateAfterAccepted`). `WindowCloses` is what `BroadcastReturns` rests on, fairness
apart: the heights between the cached one and the end of the window never grow, an
attempt uses up room and a header that is read uses up one height or more.

**OjoToken.** The invariant is `TokenTypeOK` and `AllowancesUsedUp`: with a token
that reverts, both transfers of a request happen in full, so each contract's
approval is taken up at once by the next. `Passed` is the ledger after all three
transfers and `PulledFrom` what each account lost on the way; from them follow who
paid (`AskerPays`) and that nothing stays behind. `ContractsKeepNothing` does not
need the token to revert: a contract gains at most what the next one takes,
because the gateway takes the whole amount or reverts.

**Frontend.** Overlapping clicks replace each other's approvals, so no click can
be tied to the allowance by its own steps. The invariant says who backs it
(`AllowanceBacked`): a click that has approved at least what is left and has not
succeeded yet. `SentOnce` carries it: a click's transactions are pending once
each, and only while the click awaits them or has given up. The contracts' part
comes from the lemmas of `OjoTokenProofs`.

`Selected` and `FormTyped` are about the form: a selection without repetition is no
longer than the list of assets (`SelectionFits`), so a click asks for at least one
asset and for no more than there are. With that, every step of the tool is a step
of `OjoToken` or leaves its variables alone (`StepsAreTokenSteps`): `Frontend`
implements `OjoToken`, and what is proved there of any users holds of overlapping
clicks.

**PriceFeeds.** The invariant is only that the store is typed; the properties are
about the views. `QuotientBounds`, `ProductGrows` and `FactorCancels` are the
arithmetic of rounding; `RoundTripLoses` multiplies two quotients and never
exceeds the product of the dividends. For the vaults, `CastKeepsOrNegates` says what
a cast leaves of an amount and `SignsDiffer` what division does with one wrong sign.

**RelayerLifecycle.** `TypeOK` is not inductive: `GoroutinesTogether` ties
the goroutines to the main goroutine's wait, `CancelledByTrap` and
`StopsAfterCancel` the context to the one trap of a process, and
`TakenBeforeUpdate` the memory to a relay the node took. `AtMostOneLateRelay` needs
to know what a late relay leaves to be done: nothing but the memory and a loop that
begins no other tick (`LateIsLast`).

**FeedDeployment.** That a clone is initialized rests on nonces: every address a
script uses is older than the transaction it sends. `AddressesPrinted`,
`SentLater` and `MinedLater` say this of the addresses in the file, of pending
transactions and of mined contracts. `IndexInStep` and `SentAsListed` keep a
vault beside its name from the loop to the chain.

Completeness needs a second layer, `CInv`, over the first. `BehindIsSettled` says
that a feed behind the loops is settled: its factory's address is in the past, and
if a factory with a deployed implementation stands there, this run has made the
clone. What is settled stays so, because nonces are never reused (`SettledStays`). A
feed becomes settled when its receipt arrives, and `WaitsForOwn` says whose receipt
that is: while a run waits, the wallet's last transaction is its own, whatever
earlier runs left before it. `FactoriesMakeClones`, `OneContractEach` and
`AddressesKnown` say what stands at an address that a script uses; `SendsBounded`
counts a run's transactions by the loops' positions and keeps addresses in their type.

**OjoDeployment.** `WaitsForOwn` says that the last transaction pending on the
chain a script waits for is its own, although earlier runs' may stand before it;
hence a receipt with an empty mempool is its own, and `DoneBehind` follows for the
chains behind the loop. `MocksForProxies` says of pending consumers what
`AddressesHaveProxies` says of mined ones. `PoolPaid` keeps the funds natural.

Only model-checked: liveness (`BroadcastReturns`, `HeartbeatSent`,
`SettlesOnMarket`, `SignalEndsProcess`), which is out of the prover's reach. Every
invariant and every action property of the passing runs is a theorem. The runs that
expect a violation have no theorem: what they check does not hold.

## 6. Plan

Done, in this order: `PriceOracle`, `Ojo`, `OjoProofs`, `Relayer`, `PriceFeeds`,
`RelayerLifecycle`, `RelayerProofs`, `OjoToken`, `Frontend`, `OjoTokenProofs`,
`FeedDeployment`, `OjoDeployment`, `OjoDeploymentProofs`,
`RelayerLifecycleProofs`, `PriceFeedsProofs`, `FeedDeploymentProofs`,
`FrontendProofs`. To come:

1. The frontend's display button: what the price table shows when the chain or the
   prices change during its awaits.
2. `PushOracle`: `Relayer` composed with `Ojo` from market to reader, with an
   end-to-end bound on the age of a price.
3. Proofs: the views of `PriceFeeds` on the store of `Ojo`, so that the theorems of
   the two compose.

## 7. Not modelled

Configuration loading (it runs once before anything else), the amount of gas
fees, the keyring and transaction encoding, logging, telemetry, the version
command, the CI workflows, styling of the frontend, and generated or vendored
files. `Ojo.sol:133` rethrows a callback's error with the end address as its
size: what is returned beyond the error is data the models leave out. The mapping
from a sender to its latest clone is read by no script. Of the frontend, the
display button and the price table are missing.

## 8. Running

    tlc -workers 2 -config MCOjo_safety.cfg MCOjo
    tlapm OjoProofs.tla

Each run's module and configuration are listed under `runs` in `PROJECT.json`.
