------------------------------ MODULE Relayer ------------------------------
(***************************************************************************)
(* The Go relayer (relayer/relayer): one goroutine that ticks, compares    *)
(* prices with its memory and broadcasts relay transactions, a second one  *)
(* that caches the Ojo chain's height, and the Ojo node they talk to.      *)
(* Every call that waits for the network is a step of its own.             *)
(*                                                                         *)
(* Only differences of heights and of times matter to the code, so heights *)
(* are counted from the last one BroadcastTx checked (lead, room) and      *)
(* times from the last relay (age), each capped where the code stops       *)
(* telling larger values apart.                                            *)
(***************************************************************************)
EXTENDS Integers, Sequences

CONSTANTS
    Config,      \* the configured denoms, in order
    Prices,      \* the prices the Ojo chain may hold, for each denom
    Interval,    \* heartbeat interval
    Deviation,   \* deviation threshold in hundredths (0.05 is 5)
    Timeout,     \* broadcastTimeout, in blocks
    MaxFaults,   \* bound on failing calls, lost transactions and headers
    MaxBacklog,  \* bound on block headers the subscriber lags behind
    MayDelist    \* denoms the chain may stop quoting

Denoms == {Config[i] : i \in DOMAIN Config}

ASSUME RelayerAssumption ==
    /\ Config \in Seq(Denoms)
    /\ \A d \in Denoms : Prices[d] \subseteq Nat
    /\ Interval \in Nat \ {0}
    /\ Deviation \in Nat
    /\ Timeout \in Nat
    /\ MaxFaults \in Nat
    /\ MaxBacklog \in Nat

VARIABLES
    price,      \* chain: current exchange rates
    listed,     \* chain: denoms it quotes
    mempool,    \* node: denoms of the pending relay transaction, {} if none
    pushed,     \* chain: price each denom was last relayed with
    backlog,    \* block headers the subscriber has not received yet
    heightErr,  \* ChainHeight.errGetChainHeight is set
    lead,       \* cached height minus lastCheckHeight
    missed,     \* blocks since the last header the subscriber could read
    room,       \* maxBlockHeight minus lastCheckHeight
    phase,      \* where the relayer's goroutine stands
    k,          \* index of the denom its loop is at
    batch,      \* denoms to relay
    ready,      \* latestAssets is not empty
    memory,     \* latestAssets: price and age of the last relay
    draft,      \* init's local latestAssets
    attempts,   \* history: broadcast attempts of this relay
    accepted,   \* history: the node took a transaction of this relay
    faults      \* failures so far

nodeVars == <<price, listed, pushed, mempool, backlog>>
heightVars == <<heightErr, lead, missed>>
broadcastVars == <<room, attempts, accepted>>
memoryVars == <<ready, memory, draft>>
vars == <<nodeVars, heightVars, broadcastVars, memoryVars,
          phase, k, batch, faults>>

NoPrice == 0

\* What the chain may quote.
Quotes ==
    {quotes \in [Denoms -> UNION {Prices[d] : d \in Denoms}] :
        \A d \in Denoms : quotes[d] \in Prices[d]}

Blank == [d \in Denoms |-> [price |-> NoPrice, age |-> 0]]

Init ==
    /\ price \in Quotes
    /\ listed = Denoms
    /\ mempool = {}
    /\ pushed = [d \in Denoms |-> NoPrice]
    /\ backlog = 0
    /\ heightErr = FALSE
    /\ lead = 0
    /\ missed = 0
    /\ room = 0
    /\ phase = "sleep"
    /\ k = 1
    /\ batch = {}
    /\ ready = FALSE
    /\ memory = Blank
    /\ draft = Blank
    /\ attempts = 0
    /\ accepted = FALSE
    /\ faults = 0

(***************************************************************************)
(* Calls that may fail.                                                    *)
(***************************************************************************)

Fault == faults < MaxFaults /\ faults' = faults + 1

\* GetPrice: a denom the chain does not quote always fails.
PriceFails(d) ==
    \/ d \notin listed /\ UNCHANGED faults
    \/ d \in listed /\ Fault

PriceArrives(d) == d \in listed /\ UNCHANGED faults

\* The tick returns, with an error or without, and its locals are gone; the
\* loop in Start sleeps and tries again.
TickReturns ==
    /\ phase' = "sleep"
    /\ k' = 1
    /\ batch' = {}
    /\ draft' = Blank
    /\ lead' = 0
    /\ room' = 0
    /\ attempts' = 0
    /\ accepted' = FALSE
    /\ UNCHANGED <<nodeVars, heightErr, missed, ready, memory>>

Here == Config[k]

Heartbeat(d) == memory[d].age >= Interval

Distance(p, q) == IF p > q THEN p - q ELSE q - p

\* A remembered price of zero never deviates.
Deviated(old, new) ==
    old # 0 /\ Distance(old, new) * 100 >= Deviation * old

(***************************************************************************)
(* tick and init.                                                          *)
(***************************************************************************)

StartTick ==
    /\ phase = "sleep"
    /\ phase' = IF ready THEN "check" ELSE "init"
    /\ UNCHANGED <<nodeVars, heightVars, broadcastVars, memoryVars, k, batch, faults>>

InitAsset ==
    /\ phase = "init"
    /\ k <= Len(Config)
    /\ \/ /\ PriceArrives(Here)
          /\ draft' = [draft EXCEPT ![Here] = [price |-> price[Here], age |-> 0]]
          /\ batch' = batch \cup {Here}
          /\ k' = k + 1
          /\ UNCHANGED <<nodeVars, heightVars, broadcastVars, ready, memory, phase>>
       \/ PriceFails(Here) /\ TickReturns

\* Variants a mistake in tick would give: prices fetched ahead of the
\* heartbeat check, and deviations alone.
PriceFirst ==
    /\ phase = "check"
    /\ k <= Len(Config)
    /\ \/ /\ PriceArrives(Here)
          /\ batch' = IF Heartbeat(Here) \/ Deviated(memory[Here].price, price[Here])
                      THEN batch \cup {Here} ELSE batch
          /\ k' = k + 1
          /\ UNCHANGED <<nodeVars, heightVars, broadcastVars, memoryVars, phase>>
       \/ PriceFails(Here) /\ TickReturns

NoHeartbeat ==
    /\ phase = "check"
    /\ k <= Len(Config)
    /\ \/ /\ PriceArrives(Here)
          /\ batch' = IF Deviated(memory[Here].price, price[Here])
                      THEN batch \cup {Here} ELSE batch
          /\ k' = k + 1
          /\ UNCHANGED <<nodeVars, heightVars, broadcastVars, memoryVars, phase>>
       \/ PriceFails(Here) /\ TickReturns

\* A due heartbeat needs no price; otherwise the current price is fetched.
CheckAsset ==
    /\ phase = "check"
    /\ k <= Len(Config)
    /\ \/ /\ \/ /\ Heartbeat(Here)
                /\ batch' = batch \cup {Here}
                /\ UNCHANGED faults
             \/ /\ ~Heartbeat(Here)
                /\ PriceArrives(Here)
                /\ batch' = IF Deviated(memory[Here].price, price[Here])
                            THEN batch \cup {Here} ELSE batch
          /\ k' = k + 1
          /\ UNCHANGED <<nodeVars, heightVars, broadcastVars, memoryVars, phase>>
       \/ ~Heartbeat(Here) /\ PriceFails(Here) /\ TickReturns

NothingToRelay ==
    /\ phase = "check"
    /\ k > Len(Config)
    /\ batch = {}
    /\ TickReturns
    /\ UNCHANGED faults

EmptyRelay ==
    /\ phase \in {"init", "check"}
    /\ k > Len(Config)
    /\ phase' = "gas"
    /\ UNCHANGED <<nodeVars, heightVars, broadcastVars, memoryVars, k, batch, faults>>

\* relay asks the gas API what the message will cost.
Relay ==
    /\ phase \in {"init", "check"}
    /\ k > Len(Config)
    /\ batch # {}
    /\ phase' = "gas"
    /\ UNCHANGED <<nodeVars, heightVars, broadcastVars, memoryVars, k, batch, faults>>

\* The answer, or the default fee in place of an error; the height cached by
\* now fixes the window of BroadcastTx.
GasKnown ==
    /\ phase = "gas"
    /\ \/ /\ ~heightErr
          /\ phase' = "broadcast"
          /\ lead' = 1
          /\ room' = Timeout + 1
          /\ UNCHANGED <<nodeVars, heightErr, missed, attempts, accepted, memoryVars,
                         k, batch, faults>>
       \/ heightErr /\ TickReturns /\ UNCHANGED faults
       \/ Fault /\ TickReturns

(***************************************************************************)
(* BroadcastTx.                                                            *)
(***************************************************************************)

LastCheckNotSet ==
    /\ phase = "broadcast"
    /\ room > 0
    /\ ~heightErr
    /\ lead > 0
    /\ attempts' = attempts + 1
    /\ UNCHANGED <<room, lead>>

\* One pass of the loop body: a height not tried yet is available.
Trying ==
    /\ phase = "broadcast"
    /\ room > 0
    /\ ~heightErr
    /\ lead > 0
    /\ room' = room - lead
    /\ lead' = 0
    /\ attempts' = attempts + 1

\* A transaction is signed with the sequence number of the last block, so the
\* node takes it only when none of the relayer's is pending.
NodeTakes ==
    /\ mempool = {}
    /\ mempool' = batch
    /\ accepted' = TRUE

\* init sets its draft as the memory and is done; a later relay leaves the
\* memory to updateMemory.
AttemptSucceeds ==
    /\ Trying
    /\ NodeTakes
    /\ phase' = "update"
    /\ k' = IF ready THEN 1 ELSE Len(Config) + 1
    /\ ready' = TRUE
    /\ memory' = IF ready THEN memory ELSE draft
    /\ UNCHANGED <<price, listed, pushed, backlog, heightErr, missed, draft, batch,
                   faults>>

\* An error or a non-zero code; the node may have taken the transaction and
\* only its answer got lost.
AttemptFails ==
    /\ Trying
    /\ \/ /\ mempool # {}
          /\ UNCHANGED <<mempool, accepted, faults>>
       \/ /\ Fault
          /\ UNCHANGED <<mempool, accepted>>
       \/ /\ Fault
          /\ NodeTakes
    /\ UNCHANGED <<price, listed, pushed, backlog, heightErr, missed, memoryVars,
                   phase, k, batch>>

ErrorIgnored ==
    /\ phase = "broadcast"
    /\ room <= 0 \/ heightErr
    /\ phase' = "update"
    /\ k' = 1
    /\ UNCHANGED <<nodeVars, heightVars, broadcastVars, memoryVars, batch, faults>>

BroadcastEnds ==
    /\ phase = "broadcast"
    /\ room <= 0 \/ heightErr
    /\ TickReturns
    /\ UNCHANGED faults

(***************************************************************************)
(* updateMemory: prices are fetched again; the first error ends the loop.  *)
(***************************************************************************)
UpdateMemory ==
    /\ phase = "update"
    /\ k <= Len(Config)
    /\ \/ /\ Here \in batch
          /\ PriceArrives(Here)
          /\ memory' = [memory EXCEPT ![Here] = [price |-> price[Here], age |-> 0]]
          /\ k' = k + 1
          /\ UNCHANGED <<nodeVars, heightVars, broadcastVars, ready, draft,
                         phase, batch>>
       \/ /\ Here \in batch
          /\ PriceFails(Here)
          /\ TickReturns
       \/ /\ Here \notin batch
          /\ k' = k + 1
          /\ UNCHANGED <<nodeVars, heightVars, broadcastVars, memoryVars,
                         phase, batch, faults>>

TickEnds ==
    /\ phase = "update"
    /\ k > Len(Config)
    /\ TickReturns
    /\ UNCHANGED faults

(***************************************************************************)
(* The height subscriber, the Ojo chain and time.                          *)
(***************************************************************************)
AtMost(x, cap) == IF x > cap THEN cap ELSE x

HeightKept ==
    /\ backlog > 0
    /\ backlog' = backlog - 1
    /\ heightErr' = FALSE
    /\ UNCHANGED <<price, listed, pushed, mempool, broadcastVars,
                   memoryVars, lead, missed, phase, k, batch, faults>>

\* A header sets the cached height to its own, that of missed ones included,
\* and clears an earlier error; an event that is not a header sets the error
\* and keeps the height; an event that never arrives does neither.
BlockHeader ==
    /\ backlog > 0
    /\ backlog' = backlog - 1
    /\ \/ /\ heightErr' = FALSE
          /\ lead' = IF phase = "broadcast"
                     THEN AtMost(lead + 1 + missed, Timeout + 1) ELSE 0
          /\ missed' = 0
          /\ UNCHANGED faults
       \/ /\ Fault
          /\ heightErr' \in {TRUE, heightErr}
          /\ missed' = missed + 1
          /\ UNCHANGED lead
    /\ UNCHANGED <<price, listed, pushed, mempool, broadcastVars,
                   memoryVars, phase, k, batch>>

\* A block of the Ojo chain: the pending relay reads the prices as they now
\* are, or fails and is gone.
Commit ==
    /\ backlog < MaxBacklog
    /\ backlog' = backlog + 1
    /\ \/ /\ pushed' = [d \in Denoms |-> IF d \in mempool THEN price[d] ELSE pushed[d]]
          /\ UNCHANGED faults
       \/ /\ mempool # {}
          /\ Fault
          /\ UNCHANGED pushed
    /\ mempool' = {}
    /\ UNCHANGED <<price, listed, heightVars, broadcastVars, memoryVars,
                   phase, k, batch>>

MarketMoves(d, p) ==
    /\ price' = [price EXCEPT ![d] = p]
    /\ UNCHANGED <<listed, pushed, mempool, backlog, heightVars,
                   broadcastVars, memoryVars, phase, k, batch, faults>>

Delist(d) ==
    /\ listed' = listed \ {d}
    /\ UNCHANGED <<price, pushed, mempool, backlog, heightVars,
                   broadcastVars, memoryVars, phase, k, batch, faults>>

Older(m) == [d \in Denoms |-> [m[d] EXCEPT !.age = AtMost(@ + 1, Interval)]]

TimePasses ==
    /\ memory' = IF ready THEN Older(memory) ELSE memory
    /\ draft' = IF ~ready /\ phase # "sleep"
                THEN Older(draft) ELSE draft
    /\ UNCHANGED <<nodeVars, heightVars, broadcastVars, ready, phase, k,
                   batch, faults>>

RelayerStep ==
    \/ StartTick
    \/ InitAsset
    \/ CheckAsset
    \/ NothingToRelay
    \/ Relay
    \/ AttemptSucceeds
    \/ AttemptFails
    \/ BroadcastEnds
    \/ UpdateMemory
    \/ TickEnds

Next ==
    \/ RelayerStep
    \/ GasKnown
    \/ BlockHeader
    \/ Commit
    \/ \E d \in Denoms : \E p \in Prices[d] : MarketMoves(d, p)
    \/ \E d \in MayDelist : Delist(d)
    \/ TimePasses

Spec == Init /\ [][Next]_vars

\* The Go scheduler runs the goroutines, a call to the node ends with its RPC
\* timeout, the Ojo chain makes blocks and time passes.
Fairness ==
    /\ WF_vars(RelayerStep)
    /\ WF_vars(BlockHeader)
    /\ WF_vars(Commit)
    /\ WF_vars(TimePasses)

\* The HTTP client of EstimateGasFee has no timeout, so that its request ever
\* ends is an assumption on the gas API.
GasAnswers == WF_vars(GasKnown)

FairSpec == Spec /\ Fairness /\ GasAnswers

(***************************************************************************)
(* Properties.                                                             *)
(***************************************************************************)
Phases == {"sleep", "init", "check", "gas", "broadcast", "update"}

Remembered == [price : Nat, age : 0 .. Interval]

FlagsTyped ==
    /\ heightErr \in BOOLEAN
    /\ ready \in BOOLEAN
    /\ accepted \in BOOLEAN

DataTyped ==
    /\ price \in Quotes
    /\ listed \subseteq Denoms
    /\ mempool \subseteq Denoms
    /\ pushed \in [Denoms -> Nat]
    /\ backlog \in 0 .. MaxBacklog
    /\ lead \in 0 .. Timeout + 1
    /\ missed \in Nat
    /\ room \in Int
    /\ phase \in Phases
    /\ k \in 1 .. Len(Config) + 1
    /\ batch \subseteq Denoms
    /\ memory \in [Denoms -> Remembered]
    /\ draft \in [Denoms -> Remembered]
    /\ attempts \in Nat
    /\ faults \in 0 .. MaxFaults

\* Every variable stays in its type, and no empty batch is ever broadcast.
TypeOK ==
    /\ FlagsTyped
    /\ DataTyped
    /\ phase \in {"gas", "broadcast", "update"} => batch # {}

\* BroadcastTx re-tries at most once a block and gives up: one relay makes at
\* most broadcastTimeout + 1 attempts, however headers arrive or get lost.
AttemptsBounded == attempts <= Timeout + 1

\* The memory of a denom is renewed only after the node took a transaction
\* that carries it; a tick that fails on the way leaves it due.
RenewedOnlyAfterAccepted ==
    [][\A d \in Denoms :
          ready' /\ (~ready \/ memory'[d].price # memory[d].price
                            \/ memory'[d].age < memory[d].age)
              => accepted' /\ d \in batch]_vars

\* BroadcastTx always returns, as long as the chain makes blocks.
BroadcastReturns == phase = "broadcast" ~> phase # "broadcast"

\* A denom whose interval is over is relayed again, whatever finitely many
\* failures come in between, and even when the chain has stopped quoting
\* another denom, whose failing price aborts the ticks that ask for it.
HeartbeatSent ==
    \A d \in Denoms :
        ready /\ memory[d].age = Interval ~> d \in mempool

\* Once the market stands still, what was pushed comes to agree with it, as
\* long as the chain quotes every configured denom.
SettlesOnMarket ==
    \A d \in Denoms : \A p \in Prices[d] :
        [](listed = Denoms) /\ <>[](price[d] = p) => <>[](pushed[d] = p)

=============================================================================
