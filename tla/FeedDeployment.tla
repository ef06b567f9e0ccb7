--------------------------- MODULE FeedDeployment ---------------------------
(***************************************************************************)
(* How price feeds come onto the chains: three scripts that an operator    *)
(* runs one at a time and in any order, deploying the implementation,      *)
(* deploying a clone factory for it, and creating clones through the       *)
(* factory.  Each script loops over the chains with one wallet; the        *)
(* addresses it prints go by hand into testnet_chains.json or              *)
(* mainnet_chains.json, where the next script reads them.                  *)
(*                                                                         *)
(* The five families of feeds have scripts and factories of their own.     *)
(* They come in two shapes: with a name only (pricefeed, pricefeedquoted), *)
(* or with a vault beside each name (mellow, inception, yn).               *)
(***************************************************************************)
EXTENDS Integers, SequencesExt

CONSTANTS
    ChainOrder,    \* the chains in EVM_CHAINS, in the order of the file
    Names,         \* the feeds to create, as listed in the environment
    Vaults,        \* the vaults, listed beside them
    NoVault,       \* what a feed without a vault has instead
    NoName,        \* the name of a clone that is not initialized
    MaxRuns,       \* bound on how often a script is run
    MaxFailures    \* bound on the transactions that fail when mined

Chains == Range(ChainOrder)

ASSUME DeploymentAssumption ==
    /\ ChainOrder \in Seq(Chains) /\ IsInjective(ChainOrder)
    /\ Names \in Seq(Range(Names)) /\ Vaults \in Seq(Range(Vaults))
    /\ Len(ChainOrder) > 0
    /\ Len(Names) > 0 /\ Len(Vaults) = Len(Names)
    /\ NoName \notin Range(Names)
    /\ MaxRuns \in Nat /\ MaxFailures \in Nat

VARIABLES
    family,      \* the shape of the feeds: "named" or "vault"
    script, pc,  \* the script that is run, and where it stands
    at,          \* its loops: the chain, the feed and the index i into Vaults
    reported,    \* whether it has reported a failure
    runs,        \* how many runs there have been
    printed,     \* addresses the scripts have printed, by chain
    config,      \* addresses in the chains' file
    mempool,     \* the wallet's transactions, in nonce order
    mined,       \* whether each mined transaction succeeded
    contracts,   \* what is deployed
    clones       \* the clones made, oldest first

scriptVars == <<script, pc, at, reported, runs>>
chainVars == <<mempool, mined, contracts, clones>>
vars == <<family, scriptVars, printed, config, chainVars>>

Unset == -1
AtStart == [chain |-> 1, feed |-> 1, i |-> 1]
Unprinted == [implementation |-> Unset, factory |-> Unset]

Init ==
    /\ family \in {"named", "vault"}
    /\ script = "none" /\ pc = "done"
    /\ at = AtStart
    /\ reported = FALSE
    /\ runs = 0
    /\ printed = [c \in Chains |-> Unprinted]
    /\ config = [c \in Chains |-> Unprinted]
    /\ mempool = [c \in Chains |-> <<>>]
    /\ mined = [c \in Chains |-> <<>>]
    /\ contracts = [c \in Chains |-> {}]
    /\ clones = [c \in Chains |-> <<>>]

(***************************************************************************)
(* The contracts.                                                          *)
(***************************************************************************)

HasCode(c, address) == \E contract \in contracts[c] : contract.at = address

\* A variant without the modifier initializer.
InitializedAgain(c, clone, name, vault) ==
    IF HasCode(c, clone.implementation)
    THEN [clone EXCEPT !.name = name, !.vault = vault] ELSE clone

\* initialize on a clone.  It reverts the second time; a clone of an address
\* without code accepts the call and does nothing.
Initialized(c, clone, name, vault) ==
    IF HasCode(c, clone.implementation) /\ clone.name = NoName
    THEN [clone EXCEPT !.name = name, !.vault = vault] ELSE clone

NewClone(implementation, run) ==
    [implementation |-> implementation, name |-> NoName, vault |-> NoVault, run |-> run]

\* A variant that leaves initialize to the creator.
ClonedOnly(c, factory, tx) == NewClone(factory.implementation, tx.run)

\* The clone createPriceFeed of a factory makes.
Cloned(c, factory, tx) ==
    Initialized(c, NewClone(factory.implementation, tx.run), tx.name, tx.vault)

(***************************************************************************)
(* The chain mines the wallet's next transaction.  One that fails, for     *)
(* want of gas for instance, uses up its nonce.                            *)
(***************************************************************************)

MineDeployment(c, tx) ==
    /\ tx.kind \in {"implementation", "factory"}
    /\ contracts' = [contracts EXCEPT ![c] = @ \cup
           {[at |-> Len(mined[c]), kind |-> tx.kind, implementation |-> tx.implementation]}]
    /\ UNCHANGED clones

\* A call of an address without code succeeds and does nothing.
MineCreate(c, tx) ==
    /\ tx.kind = "create"
    /\ \/ \E factory \in contracts[c] :
             /\ factory.at = tx.factory
             /\ clones' = [clones EXCEPT ![c] = Append(@, Cloned(c, factory, tx))]
       \/ ~HasCode(c, tx.factory) /\ UNCHANGED clones
    /\ UNCHANGED contracts

Failures(c) == Len(SelectSeq(mined[c], LAMBDA succeeded : ~succeeded))

MineFails ==
    /\ MapThenSumSet(Failures, Chains) < MaxFailures
    /\ UNCHANGED <<contracts, clones>>

Mine(c) ==
    /\ mempool[c] # <<>>
    /\ mempool' = [mempool EXCEPT ![c] = Tail(@)]
    /\ \/ /\ MineDeployment(c, Head(mempool[c])) \/ MineCreate(c, Head(mempool[c]))
          /\ mined' = [mined EXCEPT ![c] = Append(@, TRUE)]
       \/ MineFails /\ mined' = [mined EXCEPT ![c] = Append(@, FALSE)]
    /\ UNCHANGED <<family, scriptVars, printed, config>>

\* initialize is external: anyone may call it on any clone.
Initialize(c) ==
    /\ \E k \in DOMAIN clones[c], name \in Range(Names), vault \in Range(Vaults) :
           clones' = [clones EXCEPT ![c][k] = Initialized(c, @, name, vault)]
    /\ UNCHANGED <<family, scriptVars, printed, config, mempool, mined, contracts>>

(***************************************************************************)
(* The scripts.                                                            *)
(***************************************************************************)

Here == ChainOrder[at.chain]

Running == pc \in {"balance", "work", "wait"}

\* The operator copies printed addresses for some chains and runs a script.
Start(s) ==
    /\ ~Running
    /\ runs < MaxRuns
    /\ \E copied \in SUBSET Chains :
           config' = [c \in Chains |-> IF c \in copied THEN printed[c] ELSE config[c]]
    /\ script' = s
    /\ pc' = "balance"
    /\ at' = AtStart
    /\ reported' = FALSE
    /\ runs' = runs + 1
    /\ UNCHANGED <<family, printed, chainVars>>

\* getBalance, the first await on each chain.
GetBalance ==
    /\ pc = "balance"
    /\ pc' = "work"
    /\ UNCHANGED <<family, script, at, reported, runs, printed, config, chainVars>>

\* An error outside a try ends main, as the operator may at any time.
Abort ==
    /\ Running
    /\ script' = "none"
    /\ pc' = "aborted"
    /\ at' = AtStart
    /\ reported' = FALSE
    /\ UNCHANGED <<family, runs, printed, config, chainVars>>

LastChain ==
    /\ at.chain = Len(ChainOrder)
    /\ pc' = "done"
    /\ at' = AtStart

\* A variant that declares i before the loop over the chains.
IndexNotReset ==
    \/ /\ at.chain < Len(ChainOrder)
       /\ pc' = "balance"
       /\ at' = [chain |-> at.chain + 1, feed |-> 1, i |-> at.i + 1]
    \/ LastChain

NextChain ==
    \/ /\ at.chain < Len(ChainOrder)
       /\ pc' = "balance"
       /\ at' = [chain |-> at.chain + 1, feed |-> 1, i |-> 1]
    \/ LastChain

LastFeed == at.feed = Len(Names) /\ NextChain

\* A variant that skips the increment once a feed has failed.
SkippedOnFailure ==
    \/ /\ at.feed < Len(Names)
       /\ pc' = "work"
       /\ at' = [at EXCEPT !.feed = @ + 1, !.i = IF reported' THEN @ ELSE @ + 1]
    \/ LastFeed

\* The increment of i stands behind the try, so a failure does not skip it.
NextFeed ==
    \/ /\ at.feed < Len(Names)
       /\ pc' = "work"
       /\ at' = [at EXCEPT !.feed = @ + 1, !.i = @ + 1]
    \/ LastFeed

Send(tx) == mempool' = [mempool EXCEPT ![Here] = Append(@, tx)]

\* Deployments are not waited for: the address follows from the nonce.
NextAddress == Len(mined[Here]) + Len(mempool[Here])

DeployImplementation ==
    /\ script = "implementation" /\ pc = "work"
    /\ Send([kind |-> "implementation", implementation |-> Unset])
    /\ printed' = [printed EXCEPT ![Here].implementation = NextAddress]
    /\ NextChain
    /\ UNCHANGED <<family, script, reported, runs, config, mined, contracts, clones>>

\* Where no implementation is configured, deploy throws: see Abort.
DeployCloneFactory ==
    /\ script = "factory" /\ pc = "work"
    /\ config[Here].implementation # Unset
    /\ Send([kind |-> "factory", implementation |-> config[Here].implementation])
    /\ printed' = [printed EXCEPT ![Here].factory = NextAddress]
    /\ NextChain
    /\ UNCHANGED <<family, script, reported, runs, config, mined, contracts, clones>>

SendCreate(vault) ==
    /\ script = "create" /\ pc = "work"
    /\ config[Here].factory # Unset
    /\ Send([kind |-> "create", factory |-> config[Here].factory,
             name |-> Names[at.feed], vault |-> vault, run |-> runs])
    /\ pc' = "wait"
    /\ UNCHANGED <<family, script, at, reported, runs, printed,
                   config, mined, contracts, clones>>

CreatePriceFeed == family = "named" /\ SendCreate(NoVault)

CreateMellowPriceFeed == family = "vault" /\ SendCreate(Vaults[at.i])

\* A variant that counts a transaction as made once it is sent.
NotWaitedFor ==
    /\ pc = "wait"
    /\ UNCHANGED reported
    /\ NextFeed
    /\ UNCHANGED <<family, script, runs, printed, config, chainVars>>

\* The transaction waited for is the wallet's last.
Receipt ==
    /\ pc = "wait"
    /\ mempool[Here] = <<>>
    /\ Last(mined[Here])
    /\ UNCHANGED reported
    /\ NextFeed
    /\ UNCHANGED <<family, script, runs, printed, config, chainVars>>

\* The try around a feed catches what is thrown: no factory configured, no
\* gas estimate, a receipt that does not come or that says failure.
CreateFails ==
    /\ script = "create" /\ pc \in {"work", "wait"}
    /\ reported' = TRUE
    /\ NextFeed
    /\ UNCHANGED <<family, script, runs, printed, config, chainVars>>

ScriptStep ==
    \/ \E s \in {"implementation", "factory", "create"} : Start(s)
    \/ GetBalance
    \/ Abort
    \/ DeployImplementation
    \/ DeployCloneFactory
    \/ CreatePriceFeed
    \/ CreateMellowPriceFeed
    \/ Receipt
    \/ CreateFails

Next ==
    \/ ScriptStep
    \/ \E c \in Chains : Mine(c) \/ Initialize(c)

Spec == Init /\ [][Next]_vars

(***************************************************************************)
(* Properties.                                                             *)
(***************************************************************************)

Addresses == 0 .. MaxRuns * Len(Names)
Configured == [implementation : Addresses \cup {Unset}, factory : Addresses \cup {Unset}]

TypeOK ==
    /\ family \in {"named", "vault"}
    /\ script \in {"none", "implementation", "factory", "create"}
    /\ pc \in {"balance", "work", "wait", "done", "aborted"}
    /\ at \in [chain : DOMAIN ChainOrder, feed : DOMAIN Names, i : DOMAIN Vaults]
    /\ reported \in BOOLEAN
    /\ runs \in 0 .. MaxRuns
    /\ printed \in [Chains -> Configured]
    /\ config \in [Chains -> Configured]
    /\ mined \in [Chains -> Seq(BOOLEAN)]
    /\ \A c \in Chains :
          /\ \A contract \in contracts[c] : mined[c][contract.at + 1]
          /\ \A k \in DOMAIN clones[c] :
                /\ clones[c][k].implementation \in Addresses
                /\ clones[c][k].name \in Range(Names) \cup {NoName}
                /\ clones[c][k].vault \in Range(Vaults) \cup {NoVault}

\* A feed has the vault that is listed beside its name, whichever feeds
\* before it have failed and whoever calls initialize on it later
\* (createMellowPriceFeeds.ts:36-52, MellowPriceFeed.sol:34-44).
NamesKeepTheirVaults ==
    \A c \in Chains : \A k \in DOMAIN clones[c] :
        clones[c][k].name # NoName =>
            \E n \in DOMAIN Names :
                /\ clones[c][k].name = Names[n]
                /\ clones[c][k].vault = IF family = "vault" THEN Vaults[n] ELSE NoVault

\* Deployments are not waited for, yet a clone is never made before its
\* implementation: if that is ever deployed, the clone is initialized
\* (CloneFactory.sol:26-31, deployCloneFactory.ts:28-30).
ImplementedMeansInitialized ==
    \A c \in Chains : \A k \in DOMAIN clones[c] :
        HasCode(c, clones[c][k].implementation) => clones[c][k].name # NoName

\* A run of the last script that ends without an error has created every feed
\* on every chain whose factory and implementation were deployed.
CompleteUnlessReported ==
    script = "create" /\ pc = "done" /\ ~reported =>
        \A c \in Chains : \A factory \in contracts[c] :
            factory.at = config[c].factory /\ HasCode(c, factory.implementation) =>
                \A n \in DOMAIN Names : \E k \in DOMAIN clones[c] :
                    clones[c][k].run = runs /\ clones[c][k].name = Names[n]

=============================================================================
