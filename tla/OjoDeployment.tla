---------------------------- MODULE OjoDeployment ----------------------------
(***************************************************************************)
(* How the oracle itself comes onto the chains and is renewed: deployOjo   *)
(* deploys an implementation and, through Axelar's Create2Deployer, a      *)
(* proxy for it; upgradeOjo moves a proxy to a new implementation;         *)
(* deployMockOjo deploys the sample consumer.  An operator runs one script *)
(* at a time with one wallet, may interrupt it anywhere, and copies the    *)
(* addresses it prints into the chains' file.                              *)
(*                                                                         *)
(* A proxy's address depends on the wallet and the key alone, and is the   *)
(* same on every chain: a key stands for the address.  A run deploys at    *)
(* most one implementation on a chain, so the number of the run stands for *)
(* its address.  Every transaction costs one unit of funds.                *)
(***************************************************************************)
EXTENDS Integers, Sequences

CONSTANTS
    Chains,      \* the chains in the chains' file
    Order,       \* their order in it
    Keys,        \* CONTRACT_KEY, one of them for each run
    Account,     \* OJO_ADDRESS of .env, the account on the Ojo chain
    Environment, \* OJO_CHAIN, RESOLVE_WINDOW and ASSET_LIMIT of .env
    Updates,     \* the fields the owner updates, with their new values
    TooWide,     \* asset limits that need more than 8 bits
    Empty,       \* an empty string, zero, or the address of nothing
    Funds,       \* the wallet's funds, for each chain
    MaxRuns      \* bound on how often a script is run

Fields == {"ojoChain", "ojoAddress", "resolveWindow", "assetLimit"}

\* What a setting may be: an entry of the file is an address or empty.
Values ==
    Keys \cup {Account, Empty}
         \cup {Environment[f] : f \in Fields \ {"ojoAddress"}}
         \cup {update[2] : update \in Updates}

ASSUME DeploymentAssumption ==
    /\ Order \in Seq(Chains)
    /\ \A c \in Chains : \E i \in 1 .. Len(Order) : Order[i] = c
    /\ \A i, j \in 1 .. Len(Order) : Order[i] = Order[j] => i = j
    /\ DOMAIN Environment = Fields \ {"ojoAddress"}
    /\ Updates \subseteq Fields \X Values
    /\ Account \notin Keys /\ Empty \notin Keys
    /\ Funds \in [Chains -> Nat]
    /\ MaxRuns \in Nat

VARIABLES
    script, pc,       \* the script that is run, and where it stands
    at,               \* its position in the chains' file
    selected, key,    \* EVM_CHAINS and CONTRACT_KEY
    runs,             \* how many runs there have been
    printed,          \* the last address printed for each chain
    ojoContract,      \* the addresses in the chains' file
    funds,            \* the wallet's funds
    mempool,          \* the wallet's transactions, in nonce order
    receipt,          \* whether the last mined transaction succeeded
    implementations,  \* the implementations that have code
    proxies,          \* the proxies, by key
    mocks             \* the consumers, by the oracle they were made for

scriptVars == <<script, pc, at, selected, key, runs>>
fileVars == <<printed, ojoContract>>
chainVars == <<funds, mempool, receipt, implementations, proxies, mocks>>
vars == <<scriptVars, fileVars, chainVars>>

Wallet == "wallet"
Admin == "admin"
NoProxy == [implementation |-> 0, owner |-> "nobody",
            settings |-> [f \in Fields |-> Empty], exists |-> FALSE]

Init ==
    /\ script = "none" /\ pc = "done"
    /\ at = 0
    /\ selected = {}
    /\ key \in Keys
    /\ runs = 0
    /\ printed = [c \in Chains |-> Empty]
    /\ ojoContract = [c \in Chains |-> Empty]
    /\ funds = Funds
    /\ mempool = [c \in Chains |-> <<>>]
    /\ receipt = [c \in Chains |-> FALSE]
    /\ implementations = [c \in Chains |-> {}]
    /\ proxies = [c \in Chains |-> [k \in Keys |-> NoProxy]]
    /\ mocks = [c \in Chains |-> {}]

(***************************************************************************)
(* The contracts.                                                          *)
(***************************************************************************)

HasProxy(c, k) == k \in Keys /\ proxies[c][k].exists

\* What is encoded for _setup, and what is when it is not to be called.
Parameters(ojoAddress) ==
    [f \in Fields |-> IF f = "ojoAddress" THEN ojoAddress ELSE Environment[f]]

NoParameters == [f \in {} |-> Empty]

\* A variant without the four checks.
SetupEveryTime(settings, parameters) == FALSE

\* _setup refuses parameters when any of the four fields has been set.
SetupReverts(settings, parameters) ==
    parameters # NoParameters /\ \E f \in Fields : settings[f] # Empty

SetUp(settings, parameters) ==
    IF parameters = NoParameters THEN settings ELSE parameters

\* A variant that leaves init to a transaction of its own.
DeployedOnly(tx) == [NoProxy EXCEPT !.exists = TRUE]

\* The proxy deployAndInit makes, with init in the same transaction.
DeployedAndInit(tx) ==
    [implementation |-> tx.run, owner |-> Wallet,
     settings |-> SetUp(NoProxy.settings, tx.parameters), exists |-> TRUE]

(***************************************************************************)
(* The chain mines the wallet's next transaction.                          *)
(***************************************************************************)

MineImplementation(c, tx) ==
    /\ tx.kind = "implementation"
    /\ implementations' = [implementations EXCEPT ![c] = @ \cup {tx.run}]
    /\ UNCHANGED <<proxies, mocks>>

\* It reverts where the address is taken, and init where the implementation
\* does not answer contractId.
MineProxy(c, tx) ==
    /\ tx.kind = "proxy"
    /\ ~HasProxy(c, tx.key)
    /\ tx.run \in implementations[c]
    /\ proxies' = [proxies EXCEPT ![c][tx.key] = DeployedAndInit(tx)]
    /\ UNCHANGED <<implementations, mocks>>

\* upgrade is the owner's, and compares the hash of the code.
MineUpgrade(c, tx) ==
    /\ tx.kind = "upgrade"
    /\ HasProxy(c, tx.key)
    /\ proxies[c][tx.key].owner = Wallet
    /\ tx.run \in implementations[c] /\ tx.hashed
    /\ proxies' = [proxies EXCEPT ![c][tx.key].implementation = tx.run]
    /\ UNCHANGED <<implementations, mocks>>

\* The address of a consumer depends on its code, and so on its oracle.
MineMock(c, tx) ==
    /\ tx.kind = "mock"
    /\ tx.key \notin mocks[c]
    /\ mocks' = [mocks EXCEPT ![c] = @ \cup {tx.key}]
    /\ UNCHANGED <<implementations, proxies>>

\* One that reverts, or fails for want of gas, changes nothing.
Mine(c) ==
    /\ mempool[c] # <<>>
    /\ mempool' = [mempool EXCEPT ![c] = Tail(@)]
    /\ funds' = [funds EXCEPT ![c] = @ - 1]
    /\ \/ /\ \/ MineImplementation(c, Head(mempool[c]))
             \/ MineProxy(c, Head(mempool[c]))
             \/ MineUpgrade(c, Head(mempool[c]))
             \/ MineMock(c, Head(mempool[c]))
          /\ receipt' = [receipt EXCEPT ![c] = TRUE]
       \/ /\ receipt' = [receipt EXCEPT ![c] = FALSE]
          /\ UNCHANGED <<implementations, proxies, mocks>>
    /\ UNCHANGED <<scriptVars, fileVars>>

(***************************************************************************)
(* What a proxy's owner does by hand.                                      *)
(***************************************************************************)

OwnerChanges(c, k, proxy) ==
    /\ HasProxy(c, k)
    /\ proxies' = [proxies EXCEPT ![c][k] = proxy]
    /\ UNCHANGED <<scriptVars, fileVars, funds, mempool, receipt, implementations, mocks>>

\* updateOjoChain, updateOjoAddress, updateResolveWindow and
\* updateAssetLimit, whose argument has 8 bits.
Update(c, k, field, value) ==
    /\ field = "assetLimit" => value \notin TooWide
    /\ OwnerChanges(c, k, [proxies[c][k] EXCEPT !.settings[field] = value])

TransferOwnership(c, k) ==
    /\ proxies[c][k].owner = Wallet
    /\ OwnerChanges(c, k, [proxies[c][k] EXCEPT !.owner = Admin])

\* A new owner upgrades to an implementation on the chain, with or without
\* parameters for setup.
UpgradeByHand(c, k, implementation, parameters) ==
    /\ proxies[c][k].owner = Admin
    /\ implementation \in implementations[c]
    /\ ~SetupReverts(proxies[c][k].settings, parameters)
    /\ OwnerChanges(c, k,
           [proxies[c][k] EXCEPT !.implementation = implementation,
                                 !.settings = SetUp(@, parameters)])

(***************************************************************************)
(* The scripts.                                                            *)
(***************************************************************************)

Here == Order[at]

Running == pc \notin {"done", "aborted"}

\* The chains of EVM_CHAINS that come after position i of the file.
Later(i, chains) == {j \in i + 1 .. Len(Order) : Order[j] \in chains}

\* A variant that takes the next chain of the file, selected or not.
AnyNext(i, chains) ==
    \/ /\ i = Len(Order)
       /\ at' = 0
       /\ pc' = "done"
    \/ /\ i < Len(Order)
       /\ at' = i + 1
       /\ pc' = "balance"

GoOn(i, chains) ==
    \/ /\ Later(i, chains) = {}
       /\ at' = 0
       /\ pc' = "done"
    \/ \E j \in Later(i, chains) :
          /\ \A other \in Later(i, chains) : j <= other
          /\ at' = j
          /\ pc' = "balance"

\* The operator copies printed addresses, edits .env and runs a script.
Start(s) ==
    /\ ~Running
    /\ runs < MaxRuns
    /\ \E copied \in SUBSET Chains :
           ojoContract' = [c \in Chains |-> IF c \in copied THEN printed[c] ELSE ojoContract[c]]
    /\ script' = s
    /\ selected' \in SUBSET Chains
    /\ key' \in Keys
    /\ runs' = runs + 1
    /\ GoOn(0, selected')
    /\ UNCHANGED <<printed, chainVars>>

\* Nothing is caught before main's own catch: an error of a call, a
\* transaction or a configuration that is missing, or the operator, ends the
\* run.  What has been sent stays sent.
Abort ==
    /\ Running
    /\ pc' = "aborted"
    /\ UNCHANGED <<script, at, selected, key, runs, fileVars, chainVars>>

Goto(label) ==
    /\ pc' = label
    /\ UNCHANGED <<script, at, selected, key, runs>>

\* getBalance; deployOjo also compares it with the cost of the
\* implementation, the proxy's is not counted.
GetBalance ==
    /\ pc = "balance"
    /\ script = "deploy" => funds[Here] >= 1
    /\ Goto(IF script = "mock" THEN "send" ELSE "implementation")
    /\ UNCHANGED <<fileVars, chainVars>>

\* A node takes what the funds pay for.  (It estimates the gas first, on a
\* state that need not be the one in which the transaction is mined.)
Send(tx) ==
    /\ Len(mempool[Here]) < funds[Here]
    /\ mempool' = [mempool EXCEPT ![Here] = Append(@, tx)]
    /\ UNCHANGED <<funds, receipt, implementations, proxies, mocks>>

DeployImplementation ==
    /\ pc = "implementation"
    /\ Send([kind |-> "implementation", run |-> runs])
    /\ Goto("deployment")
    /\ UNCHANGED fileVars

Mined == mempool[Here] = <<>> /\ receipt[Here]

WaitForDeployment ==
    /\ pc = "deployment"
    /\ Mined
    /\ Goto("send")
    /\ UNCHANGED <<fileVars, chainVars>>

\* The address of the proxy that is replaced stands where _setup reads the
\* account on the Ojo chain.
SetupParameters == Parameters(ojoContract[Here])

\* A variant that prints the address before the transaction is mined.
PrintedWhenSent ==
    /\ script = "deploy" /\ pc = "send"
    /\ Send([kind |-> "proxy", run |-> runs, key |-> key, parameters |-> SetupParameters])
    /\ Goto("wait")
    /\ printed' = [printed EXCEPT ![Here] = key]
    /\ UNCHANGED ojoContract

Create2DeployAndInit ==
    /\ script = "deploy" /\ pc = "send"
    /\ Send([kind |-> "proxy", run |-> runs, key |-> key, parameters |-> SetupParameters])
    /\ Goto("wait")
    /\ UNCHANGED fileVars

\* The hash is that of the code a node knows, which may lag behind.
SendUpgrade ==
    /\ script = "upgrade" /\ pc = "send"
    /\ ojoContract[Here] # Empty
    /\ \E hashed \in BOOLEAN :
           Send([kind |-> "upgrade", run |-> runs, key |-> ojoContract[Here], hashed |-> hashed])
    /\ Goto("wait")
    /\ UNCHANGED fileVars

Printed == IF script = "deploy" THEN [printed EXCEPT ![Here] = key] ELSE printed

\* A variant that goes on whatever the receipt says.
AnyReceipt ==
    /\ pc = "wait"
    /\ mempool[Here] = <<>>
    /\ printed' = Printed
    /\ GoOn(at, selected)
    /\ UNCHANGED <<script, selected, key, runs, ojoContract, chainVars>>

Wait ==
    /\ pc = "wait"
    /\ Mined
    /\ printed' = Printed
    /\ GoOn(at, selected)
    /\ UNCHANGED <<script, selected, key, runs, ojoContract, chainVars>>

\* A consumer's deployment is sent, and not waited for.  Its address, which
\* the script shows before, is not recorded: no script and no file has it.
DeployMockOjo ==
    /\ script = "mock" /\ pc = "send"
    /\ ojoContract[Here] # Empty
    /\ Send([kind |-> "mock", key |-> ojoContract[Here]])
    /\ GoOn(at, selected)
    /\ UNCHANGED <<script, selected, key, runs, fileVars>>

ScriptStep ==
    \/ \E s \in {"deploy", "upgrade", "mock"} : Start(s)
    \/ Abort
    \/ GetBalance
    \/ DeployImplementation
    \/ WaitForDeployment
    \/ Create2DeployAndInit
    \/ SendUpgrade
    \/ Wait
    \/ DeployMockOjo

OwnerStep(c, k) ==
    \/ \E update \in Updates : Update(c, k, update[1], update[2])
    \/ TransferOwnership(c, k)
    \/ \E implementation \in implementations[c],
          parameters \in {NoParameters, Parameters(Account)} :
          UpgradeByHand(c, k, implementation, parameters)

Next ==
    \/ ScriptStep
    \/ \E c \in Chains : Mine(c)
    \/ \E c \in Chains, k \in Keys : OwnerStep(c, k)

Spec == Init /\ [][Next]_vars

(***************************************************************************)
(* Properties.                                                             *)
(***************************************************************************)

Settings == [Fields -> Values]

Transactions ==
         [kind : {"implementation"}, run : 1 .. MaxRuns]
    \cup [kind : {"proxy"}, run : 1 .. MaxRuns, key : Keys, parameters : Settings]
    \cup [kind : {"upgrade"}, run : 1 .. MaxRuns, key : Keys, hashed : BOOLEAN]
    \cup [kind : {"mock"}, key : Keys]

Proxies ==
    [implementation : 0 .. MaxRuns, owner : {"nobody", Wallet, Admin},
     settings : Settings, exists : BOOLEAN]

TypeOK ==
    /\ script \in {"none", "deploy", "upgrade", "mock"}
    /\ pc \in {"balance", "implementation", "deployment", "send", "wait", "done", "aborted"}
    /\ at \in 0 .. Len(Order)
    /\ Running => at # 0 /\ Here \in selected
    /\ selected \subseteq Chains /\ key \in Keys
    /\ runs \in 0 .. MaxRuns
    /\ printed \in [Chains -> Keys \cup {Empty}]
    /\ ojoContract \in [Chains -> Keys \cup {Empty}]
    /\ funds \in [Chains -> Nat]
    /\ mempool \in [Chains -> Seq(Transactions)]
    /\ receipt \in [Chains -> BOOLEAN]
    /\ implementations \in [Chains -> SUBSET (1 .. MaxRuns)]
    /\ proxies \in [Chains -> [Keys -> Proxies]]
    /\ mocks \in [Chains -> SUBSET Keys]

\* In no state, whatever fails or is interrupted, is there a proxy without an
\* owner or without an implementation that has code: no address that holds a
\* proxy answers requests with nothing behind it (upgradable.ts:64-82).
ProxiesServe ==
    \A c \in Chains, k \in Keys :
        HasProxy(c, k) =>
            /\ proxies[c][k].implementation \in implementations[c]
            /\ proxies[c][k].owner \in {Wallet, Admin}

\* What the owner has corrected since the deployment stays: no run of a
\* script, no repetition of init and no upgrade, with parameters or without,
\* changes the settings again (Ojo.sol:87-100).
SettingsStay ==
    [][\A c \in Chains, k \in Keys :
          HasProxy(c, k) /\ (\E f \in Fields : proxies[c][k].settings[f] # Empty) =>
              \/ proxies'[c][k].settings = proxies[c][k].settings
              \/ \E update \in Updates : Update(c, k, update[1], update[2])]_vars

\* The proxy a script works on.
Target(c) == IF script = "deploy" THEN key ELSE ojoContract[c]

\* A run that reaches its end has done its work on every selected chain, in
\* spite of transactions of earlier runs that were interrupted: each of its
\* proxies has the implementation of this very run, unless it has been given
\* to another owner (deployOjo.ts:28-60, upgradable.ts:41-62).
DoneEverywhere ==
    pc = "done" /\ script \in {"deploy", "upgrade"} =>
        \A c \in selected :
            /\ HasProxy(c, Target(c))
            /\ proxies[c][Target(c)].owner = Wallet =>
                  proxies[c][Target(c)].implementation = runs

\* An address that is printed, that stands in the chains' file or that a
\* consumer was made for is that of a proxy on that chain, although the
\* address exists before its proxy does (upgradable.ts:74-79,
\* deployMockOjo.ts:33-43).
AddressesHaveProxies ==
    \A c \in Chains :
        \A k \in {printed[c], ojoContract[c]} \cup mocks[c] :
            k # Empty => HasProxy(c, k)

\* OJO_ADDRESS stands in .env.example between the other settings, in the order
\* of _setup: requests of a new contract should go there.
RequestsReachOjo ==
    \A c \in Chains, k \in Keys :
        HasProxy(c, k) => proxies[c][k].settings["ojoAddress"] = Account

=============================================================================
