-------------------------- MODULE OjoDeploymentProofs --------------------------
(***************************************************************************)
(* Theorems about OjoDeployment, for any chains, keys, settings, funds and *)
(* number of runs.                                                         *)
(***************************************************************************)
EXTENDS OjoDeployment, TLAPS

(***************************************************************************)
(* The inductive invariant.                                                *)
(***************************************************************************)

\* The wallet can pay for what it has sent.
PoolPaid == \A c \in Chains : Len(mempool[c]) <= funds[c]

\* A consumer on its way is for a proxy.
MocksForProxies ==
    \A c \in Chains : \A i \in 1 .. Len(mempool[c]) :
        mempool[c][i].kind = "mock" => HasProxy(c, mempool[c][i].key)

\* The run has done its work on chain c.
WorkedOn(c) ==
    /\ HasProxy(c, Target(c))
    /\ proxies[c][Target(c)].owner = Wallet =>
          proxies[c][Target(c)].implementation = runs

\* The transaction that the script waits for is the wallet's last.
OwnIsLast(c) ==
    LET last == mempool[c][Len(mempool[c])]
    IN  last.kind \in {"proxy", "upgrade"} /\ last.run = runs /\ last.key = Target(c)

WaitsForOwn ==
    pc = "wait" =>
        /\ script \in {"deploy", "upgrade"}
        /\ mempool[Here] # <<>> => OwnIsLast(Here)
        /\ mempool[Here] = <<>> /\ receipt[Here] => WorkedOn(Here)

\* Nothing is pending on the chains the run has left behind.
DoneBehind ==
    script \in {"deploy", "upgrade"} /\ pc # "aborted" =>
        \A j \in 1 .. Len(Order) :
            Order[j] \in selected /\ (pc = "done" \/ j < at) =>
                WorkedOn(Order[j]) /\ mempool[Order[j]] = <<>>

\* Runs are numbered from 1.
RunsStarted == Running => runs \in 1 .. MaxRuns

IInv ==
    /\ TypeOK
    /\ RunsStarted
    /\ PoolPaid
    /\ ProxiesServe
    /\ AddressesHaveProxies
    /\ MocksForProxies
    /\ WaitsForOwn
    /\ DoneBehind

(***************************************************************************)
(* Types.                                                                  *)
(***************************************************************************)

LEMMA NoProxyTyped == NoProxy \in Proxies
<1>1. [f \in Fields |-> Empty] \in Settings
    BY DEF Settings, Values
<1>2. 0 \in 0 .. MaxRuns
    BY DeploymentAssumption
<1> QED
    BY <1>1, <1>2 DEF NoProxy, Proxies

LEMMA ParametersTyped ==
    ASSUME NEW a \in Keys \cup {Account, Empty}
    PROVE  Parameters(a) \in Settings
BY DEF Parameters, Settings, Values, Fields

LEMMA LengthIsNatural == Len(Order) \in Nat
BY DeploymentAssumption

\* The position of a script that runs.
LEMMA HereTyped ==
    ASSUME TypeOK, Running
    PROVE  /\ at \in 1 .. Len(Order)
           /\ Here \in selected /\ Here \in Chains
<1>1. at \in 0 .. Len(Order) /\ at # 0 /\ Here \in selected /\ selected \subseteq Chains
    BY DEF TypeOK
<1> QED
    BY <1>1, LengthIsNatural

LEMMA GoOnSteps ==
    ASSUME NEW i, NEW chains, GoOn(i, chains)
    PROVE  \/ Later(i, chains) = {} /\ at' = 0 /\ pc' = "done"
           \/ /\ pc' = "balance"
              /\ at' \in Later(i, chains)
              /\ \A j \in Later(i, chains) : at' <= j
BY DEF GoOn

LEMMA LaterTyped ==
    ASSUME NEW i \in 0 .. Len(Order), NEW chains \in SUBSET Chains, NEW j \in Later(i, chains)
    PROVE  j \in 1 .. Len(Order) /\ j > i /\ Order[j] \in chains
BY LengthIsNatural DEF Later

LEMMA InitIInv == Init => IInv
<1> SUFFICES ASSUME Init PROVE IInv
    OBVIOUS
<1>1. TypeOK
    <2>1. 0 \in 0 .. Len(Order) /\ 0 \in 0 .. MaxRuns
        BY LengthIsNatural, DeploymentAssumption
    <2>2. proxies \in [Chains -> [Keys -> Proxies]]
        BY NoProxyTyped DEF Init
    <2>3. mempool \in [Chains -> Seq(Transactions)]
        BY DEF Init
    <2> QED
        BY <2>1, <2>2, <2>3, DeploymentAssumption DEF Init, TypeOK, Running
<1>2. PoolPaid
    <2> SUFFICES ASSUME NEW c \in Chains PROVE Len(mempool[c]) <= funds[c]
        BY DEF PoolPaid
    <2>1. mempool[c] = <<>> /\ funds[c] \in Nat
        BY DeploymentAssumption DEF Init
    <2> QED
        BY <2>1
<1>3. \A c \in Chains, k \in Keys : ~HasProxy(c, k)
    BY DEF Init, HasProxy, NoProxy
<1>4. ProxiesServe /\ AddressesHaveProxies
    BY <1>3 DEF Init, ProxiesServe, AddressesHaveProxies
<1>5. MocksForProxies /\ WaitsForOwn /\ DoneBehind /\ RunsStarted
    BY DEF Init, MocksForProxies, WaitsForOwn, DoneBehind, RunsStarted, Running
<1> QED
    BY <1>1, <1>2, <1>4, <1>5 DEF IInv

(***************************************************************************)
(* Sequences of transactions.                                              *)
(***************************************************************************)

LEMMA FirstAndRest ==
    ASSUME NEW S, NEW s \in Seq(S), s # <<>>
    PROVE  /\ Len(s) \in Nat /\ Len(s) >= 1
           /\ Head(s) \in S /\ Head(s) = s[1]
           /\ Tail(s) \in Seq(S) /\ Len(Tail(s)) = Len(s) - 1
           /\ \A i \in 1 .. Len(Tail(s)) : i + 1 \in 1 .. Len(s) /\ Tail(s)[i] = s[i + 1]
           /\ Tail(s) # <<>> => Len(s) > 1
OBVIOUS

LEMMA LastOne ==
    ASSUME NEW S, NEW s \in Seq(S), NEW e \in S
    PROVE  /\ Append(s, e) \in Seq(S)
           /\ Append(s, e) # <<>>
           /\ Len(Append(s, e)) = Len(s) + 1
           /\ Append(s, e)[Len(Append(s, e))] = e
           /\ \A i \in 1 .. Len(Append(s, e)) :
                  (i \in 1 .. Len(s) /\ Append(s, e)[i] = s[i]) \/ Append(s, e)[i] = e
OBVIOUS

LEMMA TransactionFields ==
    ASSUME NEW tx \in Transactions
    PROVE  /\ tx.kind \in {"implementation", "proxy", "upgrade", "mock"}
           /\ tx.kind # "mock" => tx.run \in 1 .. MaxRuns
           /\ tx.kind # "implementation" => tx.key \in Keys
           /\ tx.kind = "proxy" => tx.parameters \in Settings
BY DEF Transactions

(***************************************************************************)
(* What is stable.                                                         *)
(***************************************************************************)

LEMMA WorkStays ==
    ASSUME NEW c, WorkedOn(c), UNCHANGED <<script, key, runs, ojoContract>>,
           proxies'[c] = proxies[c]
    PROVE  WorkedOn(c)'
BY DEF WorkedOn, Target, HasProxy

\* A step that leaves the chains alone, and the addresses.
LEMMA ChainStays ==
    ASSUME IInv, UNCHANGED <<fileVars, chainVars>>
    PROVE  /\ PoolPaid' /\ ProxiesServe' /\ AddressesHaveProxies' /\ MocksForProxies'
<1> USE DEF fileVars, chainVars, IInv
<1>1. PoolPaid'
    BY DEF PoolPaid
<1>2. ProxiesServe'
    BY DEF ProxiesServe, HasProxy
<1>3. AddressesHaveProxies'
    BY DEF AddressesHaveProxies, HasProxy
<1>4. MocksForProxies'
    BY DEF MocksForProxies, HasProxy
<1> QED
    BY <1>1, <1>2, <1>3, <1>4

(***************************************************************************)
(* The script's steps.                                                     *)
(***************************************************************************)

LEMMA StartKeeps ==
    ASSUME IInv, NEW s \in {"deploy", "upgrade", "mock"}, Start(s)
    PROVE  IInv'
<1>1. PICK copied \in SUBSET Chains :
          ojoContract' = [c \in Chains |-> IF c \in copied THEN printed[c] ELSE ojoContract[c]]
    BY DEF Start
<1>2. /\ script' = s /\ selected' \in SUBSET Chains /\ key' \in Keys
      /\ runs' \in 1 .. MaxRuns
      /\ GoOn(0, selected')
      /\ UNCHANGED <<printed, funds, mempool, receipt, implementations, proxies, mocks>>
    BY DeploymentAssumption DEF Start, chainVars, IInv, TypeOK
<1>3. \/ at' = 0 /\ pc' = "done"
      \/ at' \in 1 .. Len(Order) /\ pc' = "balance" /\ Order[at'] \in selected'
    BY <1>2, GoOnSteps, LaterTyped, LengthIsNatural
<1>4. TypeOK'
    <2>1. ojoContract' \in [Chains -> Keys \cup {Empty}]
        BY <1>1 DEF IInv, TypeOK
    <2>2. at' \in 0 .. Len(Order) /\ pc' \in {"balance", "done"}
        BY <1>3, LengthIsNatural
    <2>3. Running' => at' # 0 /\ Here' \in selected'
        BY <1>3, LengthIsNatural DEF Running, Here
    <2> QED
        BY <1>2, <2>1, <2>2, <2>3 DEF IInv, TypeOK
<1>5. PoolPaid' /\ ProxiesServe' /\ MocksForProxies' /\ RunsStarted'
    BY <1>2 DEF RunsStarted, IInv, PoolPaid, ProxiesServe, MocksForProxies, HasProxy
<1>6. AddressesHaveProxies'
    BY <1>1, <1>2 DEF IInv, AddressesHaveProxies, HasProxy
<1>7. WaitsForOwn'
    BY <1>3 DEF WaitsForOwn
<1>8. DoneBehind'
    <2> SUFFICES ASSUME NEW j \in 1 .. Len(Order), Order[j] \in selected',
                        pc' = "done" \/ j < at'
                 PROVE  FALSE
        BY DEF DoneBehind
    <2>1. j \in Later(0, selected')
        BY LengthIsNatural DEF Later
    <2>2. /\ pc' = "balance" /\ at' <= j
          /\ at' \in Later(0, selected')
        BY <1>2, <2>1, GoOnSteps
    <2>3. at' \in 1 .. Len(Order)
        BY <1>3, <2>2
    <2> QED
        BY <2>2, <2>3, LengthIsNatural
<1> QED
    BY <1>4, <1>5, <1>6, <1>7, <1>8 DEF IInv

LEMMA AbortKeeps ==
    ASSUME IInv, Abort
    PROVE  IInv'
<1> USE DEF Abort, fileVars, chainVars
<1>1. TypeOK'
    BY DEF IInv, TypeOK, Running, Here
<1>2. WaitsForOwn' /\ DoneBehind' /\ RunsStarted'
    BY DEF WaitsForOwn, DoneBehind, RunsStarted, Running
<1> QED
    BY <1>1, <1>2, ChainStays DEF IInv

\* The steps that only move the script on within a chain.
LEMMA GotoKeeps ==
    ASSUME IInv, Running, NEW label \in {"implementation", "deployment", "send"}, Goto(label),
           UNCHANGED <<fileVars, chainVars>>
    PROVE  IInv'
<1> USE DEF Goto, fileVars, chainVars
<1>1. TypeOK'
    BY DEF IInv, TypeOK, Running, Here
<1>2. WaitsForOwn' /\ RunsStarted'
    BY DEF WaitsForOwn, RunsStarted, Running, IInv
<1>3. DoneBehind'
    <2> SUFFICES ASSUME script \in {"deploy", "upgrade"},
                        NEW j \in 1 .. Len(Order), Order[j] \in selected, j < at
                 PROVE  WorkedOn(Order[j])' /\ mempool[Order[j]] = <<>>
        BY DEF DoneBehind
    <2>1. WorkedOn(Order[j]) /\ mempool[Order[j]] = <<>>
        BY DEF IInv, DoneBehind, Running
    <2> QED
        BY <2>1, WorkStays
<1> QED
    BY <1>1, <1>2, <1>3, ChainStays DEF IInv

\* Sending a transaction from where the script stands.
LEMMA SendKeeps ==
    ASSUME IInv, Running, NEW tx \in Transactions, Send(tx),
           tx.kind = "mock" => HasProxy(Here, tx.key),
           UNCHANGED <<fileVars, script, key, runs, selected>>
    PROVE  /\ mempool' \in [Chains -> Seq(Transactions)]
           /\ mempool'[Here] = Append(mempool[Here], tx)
           /\ \A c \in Chains : c # Here => mempool'[c] = mempool[c]
           /\ PoolPaid' /\ ProxiesServe' /\ AddressesHaveProxies' /\ MocksForProxies'
           /\ script \in {"deploy", "upgrade"} =>
                 \A j \in 1 .. Len(Order) :
                     Order[j] \in selected /\ j < at =>
                         WorkedOn(Order[j])' /\ mempool'[Order[j]] = <<>>
<1>1. /\ at \in 1 .. Len(Order) /\ Here \in Chains
      /\ mempool \in [Chains -> Seq(Transactions)] /\ funds \in [Chains -> Nat]
    BY HereTyped DEF IInv, TypeOK
<1>2. /\ mempool' = [mempool EXCEPT ![Here] = Append(@, tx)]
      /\ Len(mempool[Here]) < funds[Here]
      /\ UNCHANGED <<funds, implementations, proxies, mocks, printed, ojoContract>>
    BY DEF Send, fileVars
<1>3. Append(mempool[Here], tx) \in Seq(Transactions)
    BY <1>1, LastOne
<1>4. /\ mempool' \in [Chains -> Seq(Transactions)]
      /\ mempool'[Here] = Append(mempool[Here], tx)
      /\ \A c \in Chains : c # Here => mempool'[c] = mempool[c]
    BY <1>1, <1>2, <1>3
<1>5. PoolPaid'
    <2> SUFFICES ASSUME NEW c \in Chains PROVE Len(mempool'[c]) <= funds[c]
        BY <1>2 DEF PoolPaid
    <2>1. CASE c = Here
        <3>1. Len(mempool'[c]) = Len(mempool[c]) + 1
            BY <1>1, <1>4, <2>1, LastOne
        <3> QED
            BY <1>1, <1>2, <2>1, <3>1
    <2>2. CASE c # Here
        BY <1>4, <2>2 DEF IInv, PoolPaid
    <2> QED
        BY <2>1, <2>2
<1>6. ProxiesServe' /\ AddressesHaveProxies'
    BY <1>2 DEF IInv, ProxiesServe, AddressesHaveProxies, HasProxy
<1>7. MocksForProxies'
    <2> SUFFICES ASSUME NEW c \in Chains, NEW i \in 1 .. Len(mempool'[c]),
                        mempool'[c][i].kind = "mock"
                 PROVE  HasProxy(c, mempool'[c][i].key)
        BY <1>2 DEF MocksForProxies, HasProxy
    <2>1. CASE c = Here
        <3>1. \/ i \in 1 .. Len(mempool[c]) /\ mempool'[c][i] = mempool[c][i]
              \/ mempool'[c][i] = tx
            <4>1. mempool[c] \in Seq(Transactions) /\ mempool'[c] = Append(mempool[c], tx)
                BY <1>1, <1>4, <2>1
            <4> QED
                BY <4>1, LastOne
        <3> QED
            BY <2>1, <3>1 DEF IInv, MocksForProxies
    <2>2. CASE c # Here
        BY <1>4, <2>2 DEF IInv, MocksForProxies
    <2> QED
        BY <2>1, <2>2
<1>8. ASSUME script \in {"deploy", "upgrade"},
             NEW j \in 1 .. Len(Order), Order[j] \in selected, j < at
      PROVE  WorkedOn(Order[j])' /\ mempool'[Order[j]] = <<>>
    <2>1. WorkedOn(Order[j]) /\ mempool[Order[j]] = <<>>
        BY <1>8 DEF IInv, DoneBehind, Running
    <2>2. Order[j] # Here /\ Order[j] \in Chains
        BY <1>1, <1>8, LengthIsNatural, DeploymentAssumption DEF Here
    <2> QED
        BY <1>2, <1>4, <2>1, <2>2, WorkStays
<1> QED
    BY <1>4, <1>5, <1>6, <1>7, <1>8

LEMMA GetBalanceKeeps ==
    ASSUME IInv, GetBalance
    PROVE  IInv'
BY GotoKeeps DEF GetBalance, Running

LEMMA WaitForDeploymentKeeps ==
    ASSUME IInv, WaitForDeployment
    PROVE  IInv'
BY GotoKeeps DEF WaitForDeployment, Running

LEMMA DeployImplementationKeeps ==
    ASSUME IInv, DeployImplementation
    PROVE  IInv'
<1> DEFINE tx == [kind |-> "implementation", run |-> runs]
<1>1. /\ Running /\ pc' = "deployment" /\ Send(tx)
      /\ UNCHANGED <<script, at, selected, key, runs, fileVars>>
    BY DEF DeployImplementation, Goto, Running
<1>2. tx \in Transactions /\ tx.kind # "mock"
    BY <1>1 DEF IInv, RunsStarted, Transactions
<1> HIDE DEF tx
<1>3. /\ mempool' \in [Chains -> Seq(Transactions)]
      /\ PoolPaid' /\ ProxiesServe' /\ AddressesHaveProxies' /\ MocksForProxies'
      /\ script \in {"deploy", "upgrade"} =>
            \A j \in 1 .. Len(Order) :
                Order[j] \in selected /\ j < at =>
                    WorkedOn(Order[j])' /\ mempool'[Order[j]] = <<>>
    BY <1>1, <1>2, SendKeeps
<1>4. TypeOK' /\ RunsStarted'
    BY <1>1, <1>3 DEF IInv, TypeOK, RunsStarted, Running, Here, Send, fileVars
<1>5. WaitsForOwn' /\ DoneBehind'
    BY <1>1, <1>3 DEF WaitsForOwn, DoneBehind
<1> QED
    BY <1>3, <1>4, <1>5 DEF IInv

\* A proxy's deployment or an upgrade, after which the script waits.
LEMMA SendAndWaitKeeps ==
    ASSUME IInv, Running, NEW tx \in Transactions, Send(tx),
           tx.kind \in {"proxy", "upgrade"}, tx.run = runs, tx.key = Target(Here),
           script \in {"deploy", "upgrade"},
           Goto("wait"), UNCHANGED fileVars
    PROVE  IInv'
<1>1. /\ pc' = "wait" /\ Here' = Here /\ Here \in Chains
      /\ UNCHANGED <<script, at, selected, key, runs, fileVars>>
    BY HereTyped DEF Goto, IInv, Here
<1>2. /\ mempool' \in [Chains -> Seq(Transactions)]
      /\ mempool'[Here] = Append(mempool[Here], tx)
      /\ PoolPaid' /\ ProxiesServe' /\ AddressesHaveProxies' /\ MocksForProxies'
      /\ \A j \in 1 .. Len(Order) :
             Order[j] \in selected /\ j < at =>
                 WorkedOn(Order[j])' /\ mempool'[Order[j]] = <<>>
    BY <1>1, SendKeeps
<1>3. TypeOK' /\ RunsStarted'
    BY <1>1, <1>2 DEF IInv, TypeOK, RunsStarted, Running, Here, Send, fileVars
<1>4. WaitsForOwn'
    <2>1. /\ mempool'[Here] # <<>>
          /\ mempool'[Here][Len(mempool'[Here])] = tx
        <3>1. mempool[Here] \in Seq(Transactions)
            BY <1>1 DEF IInv, TypeOK
        <3> QED
            BY <1>2, <3>1, LastOne
    <2>2. Target(Here)' = Target(Here)
        BY <1>1 DEF Target, fileVars
    <2> QED
        BY <1>1, <2>1, <2>2 DEF WaitsForOwn, OwnIsLast
<1>5. DoneBehind'
    BY <1>1, <1>2 DEF DoneBehind
<1> QED
    BY <1>2, <1>3, <1>4, <1>5 DEF IInv

LEMMA Create2DeployAndInitKeeps ==
    ASSUME IInv, Create2DeployAndInit
    PROVE  IInv'
<1> DEFINE tx == [kind |-> "proxy", run |-> runs, key |-> key, parameters |-> SetupParameters]
<1>1. Running /\ runs \in 1 .. MaxRuns /\ Here \in Chains
    BY HereTyped DEF Create2DeployAndInit, IInv, RunsStarted, Running
<1>2. SetupParameters \in Settings
    <2>1. ojoContract[Here] \in Keys \cup {Account, Empty}
        BY <1>1 DEF IInv, TypeOK
    <2> QED
        BY <2>1, ParametersTyped DEF SetupParameters
<1>3. tx \in Transactions
    BY <1>1, <1>2 DEF Transactions, IInv, TypeOK
<1>4. tx.key = Target(Here) /\ tx.run = runs /\ tx.kind \in {"proxy", "upgrade"}
    BY DEF Create2DeployAndInit, Target
<1>5. script \in {"deploy", "upgrade"} /\ Send(tx) /\ Goto("wait") /\ UNCHANGED fileVars
    BY DEF Create2DeployAndInit
<1> HIDE DEF tx
<1> QED
    BY <1>1, <1>3, <1>4, <1>5, SendAndWaitKeeps

LEMMA SendUpgradeKeeps ==
    ASSUME IInv, SendUpgrade
    PROVE  IInv'
<1>1. PICK hashed \in BOOLEAN :
          Send([kind |-> "upgrade", run |-> runs, key |-> ojoContract[Here], hashed |-> hashed])
    BY DEF SendUpgrade
<1> DEFINE tx == [kind |-> "upgrade", run |-> runs, key |-> ojoContract[Here], hashed |-> hashed]
<1>2. Running /\ runs \in 1 .. MaxRuns /\ Here \in Chains
    BY HereTyped DEF SendUpgrade, IInv, RunsStarted, Running
<1>3. ojoContract[Here] \in Keys
    BY <1>2 DEF SendUpgrade, IInv, TypeOK
<1>4. tx \in Transactions
    BY <1>2, <1>3 DEF Transactions
<1>5. tx.key = Target(Here) /\ tx.run = runs /\ tx.kind \in {"proxy", "upgrade"}
    BY DEF SendUpgrade, Target
<1>6. script \in {"deploy", "upgrade"} /\ Send(tx) /\ Goto("wait") /\ UNCHANGED fileVars
    BY <1>1 DEF SendUpgrade
<1> HIDE DEF tx
<1> QED
    BY <1>2, <1>4, <1>5, <1>6, SendAndWaitKeeps

\* Where the script goes from a chain it has finished with.
LEMMA GoOnTyped ==
    ASSUME TypeOK, GoOn(at, selected)
    PROVE  \/ at' = 0 /\ pc' = "done"
           \/ at' \in 1 .. Len(Order) /\ pc' = "balance" /\ Order[at'] \in selected
<1>1. at \in 0 .. Len(Order) /\ selected \in SUBSET Chains
    BY DEF TypeOK
<1> QED
    BY <1>1, GoOnSteps, LaterTyped

LEMMA WaitKeeps ==
    ASSUME IInv, Wait
    PROVE  IInv'
<1>1. /\ Running /\ GoOn(at, selected) /\ Mined /\ pc = "wait" /\ printed' = Printed
      /\ UNCHANGED <<script, selected, key, runs, ojoContract>>
      /\ UNCHANGED <<funds, mempool, receipt, implementations, proxies, mocks>>
    BY DEF Wait, Running, chainVars
<1>2. at \in 1 .. Len(Order) /\ Here \in selected /\ Here \in Chains /\ key \in Keys
    BY <1>1, HereTyped DEF IInv, TypeOK
<1>3. \/ at' = 0 /\ pc' = "done"
      \/ at' \in 1 .. Len(Order) /\ pc' = "balance" /\ Order[at'] \in selected
    BY <1>1, GoOnTyped DEF IInv
<1>4. WorkedOn(Here) /\ script \in {"deploy", "upgrade"} /\ mempool[Here] = <<>>
    BY <1>1 DEF IInv, WaitsForOwn, Mined
<1>5. TypeOK' /\ RunsStarted'
    <2>1. printed' \in [Chains -> Keys \cup {Empty}]
        BY <1>1, <1>2 DEF IInv, TypeOK, Printed
    <2>2. at' \in 0 .. Len(Order) /\ pc' \in {"balance", "done"}
        BY <1>3, LengthIsNatural
    <2>3. Running' => at' # 0 /\ Here' \in selected'
        BY <1>1, <1>3, LengthIsNatural DEF Running, Here
    <2> QED
        BY <1>1, <2>1, <2>2, <2>3 DEF IInv, TypeOK, RunsStarted
<1>6. PoolPaid' /\ ProxiesServe' /\ MocksForProxies'
    BY <1>1 DEF IInv, PoolPaid, ProxiesServe, MocksForProxies, HasProxy
<1>7. AddressesHaveProxies'
    <2> SUFFICES ASSUME NEW c \in Chains, NEW k \in {printed'[c], ojoContract[c]} \cup mocks[c],
                        k # Empty
                 PROVE  HasProxy(c, k)
        BY <1>1 DEF AddressesHaveProxies, HasProxy
    <2>1. CASE printed'[c] = printed[c]
        BY <2>1 DEF IInv, AddressesHaveProxies
    <2>2. CASE printed'[c] # printed[c]
        <3>1. script = "deploy" /\ c = Here /\ printed'[c] = key
            BY <1>1, <1>2, <2>2 DEF Printed, IInv, TypeOK
        <3>2. HasProxy(c, key)
            BY <1>4, <3>1 DEF WorkedOn, Target
        <3> QED
            BY <3>1, <3>2 DEF IInv, AddressesHaveProxies
    <2> QED
        BY <2>1, <2>2
<1>8. WaitsForOwn'
    BY <1>3 DEF WaitsForOwn
<1>9. DoneBehind'
    <2> SUFFICES ASSUME NEW j \in 1 .. Len(Order), Order[j] \in selected,
                        pc' = "done" \/ j < at'
                 PROVE  WorkedOn(Order[j])' /\ mempool[Order[j]] = <<>>
        BY <1>1 DEF DoneBehind
    <2>1. j <= at
        <3> SUFFICES ASSUME j > at PROVE FALSE
            BY <1>2, LengthIsNatural
        <3>1. j \in Later(at, selected)
            BY <1>2, LengthIsNatural DEF Later
        <3>2. pc' = "balance" /\ at' <= j
            BY <1>1, <3>1, GoOnSteps
        <3> QED
            BY <1>3, <3>2, LengthIsNatural
    <2>2. WorkedOn(Order[j]) /\ mempool[Order[j]] = <<>>
        <3>1. CASE j = at
            BY <1>4, <3>1 DEF Here
        <3>2. CASE j # at
            BY <1>1, <1>2, <1>4, <2>1, <3>2, LengthIsNatural DEF IInv, DoneBehind
        <3> QED
            BY <3>1, <3>2
    <2> QED
        BY <1>1, <2>2, WorkStays
<1> QED
    BY <1>5, <1>6, <1>7, <1>8, <1>9 DEF IInv

LEMMA DeployMockOjoKeeps ==
    ASSUME IInv, DeployMockOjo
    PROVE  IInv'
<1> DEFINE tx == [kind |-> "mock", key |-> ojoContract[Here]]
<1>1. /\ Running /\ GoOn(at, selected) /\ script = "mock" /\ Send(tx)
      /\ ojoContract[Here] # Empty
      /\ UNCHANGED <<script, selected, key, runs, fileVars>>
    BY DEF DeployMockOjo, Running
<1>2. Here \in Chains
    BY <1>1, HereTyped DEF IInv
<1>3. ojoContract[Here] \in Keys /\ HasProxy(Here, ojoContract[Here])
    BY <1>1, <1>2 DEF IInv, TypeOK, AddressesHaveProxies
<1>4. tx \in Transactions /\ HasProxy(Here, tx.key)
    BY <1>3 DEF Transactions
<1> HIDE DEF tx
<1>5. /\ mempool' \in [Chains -> Seq(Transactions)]
      /\ PoolPaid' /\ ProxiesServe' /\ AddressesHaveProxies' /\ MocksForProxies'
    BY <1>1, <1>4, SendKeeps
<1>6. \/ at' = 0 /\ pc' = "done"
      \/ at' \in 1 .. Len(Order) /\ pc' = "balance" /\ Order[at'] \in selected
    BY <1>1, GoOnTyped DEF IInv
<1>7. TypeOK' /\ RunsStarted'
    <2>1. at' \in 0 .. Len(Order) /\ pc' \in {"balance", "done"}
        BY <1>6, LengthIsNatural
    <2>2. Running' => at' # 0 /\ Here' \in selected'
        BY <1>1, <1>6, LengthIsNatural DEF Running, Here
    <2> QED
        BY <1>1, <1>5, <2>1, <2>2 DEF IInv, TypeOK, RunsStarted, Send, fileVars
<1>8. WaitsForOwn' /\ DoneBehind'
    BY <1>1, <1>6 DEF WaitsForOwn, DoneBehind
<1> QED
    BY <1>5, <1>7, <1>8 DEF IInv

(***************************************************************************)
(* The chains.                                                             *)
(***************************************************************************)

LEMMA DeployedTyped ==
    ASSUME NEW tx \in Transactions, tx.kind = "proxy"
    PROVE  /\ DeployedAndInit(tx) \in Proxies
           /\ DeployedAndInit(tx).exists
           /\ DeployedAndInit(tx).implementation = tx.run
           /\ DeployedAndInit(tx).owner = Wallet
<1>1. NoProxy.settings \in Settings
    BY NoProxyTyped DEF Proxies
<1>2. SetUp(NoProxy.settings, tx.parameters) \in Settings /\ tx.run \in 0 .. MaxRuns
    BY <1>1, TransactionFields, DeploymentAssumption DEF SetUp
<1> QED
    BY <1>2 DEF DeployedAndInit, Proxies

\* What a mined transaction does to the chain's contracts.
LEMMA MinedEffect ==
    ASSUME IInv, NEW c \in Chains, NEW tx \in Transactions,
           tx.kind = "mock" => HasProxy(c, tx.key),
           \/ MineImplementation(c, tx)
           \/ MineProxy(c, tx)
           \/ MineUpgrade(c, tx)
           \/ MineMock(c, tx)
    PROVE  /\ implementations' \in [Chains -> SUBSET (1 .. MaxRuns)]
           /\ proxies' \in [Chains -> [Keys -> Proxies]]
           /\ mocks' \in [Chains -> SUBSET Keys]
           /\ ProxiesServe'
           /\ \A d \in Chains : d # c => proxies'[d] = proxies[d]
           /\ \A d \in Chains, k \in Keys : HasProxy(d, k) => HasProxy(d, k)'
           /\ \A d \in Chains : \A k \in mocks'[d] : k \in mocks[d] \/ HasProxy(d, k)'
           /\ tx.kind \in {"proxy", "upgrade"} =>
                 HasProxy(c, tx.key)' /\ proxies'[c][tx.key].implementation = tx.run
<1> USE DEF HasProxy
<1>0. /\ implementations \in [Chains -> SUBSET (1 .. MaxRuns)]
      /\ proxies \in [Chains -> [Keys -> Proxies]]
      /\ mocks \in [Chains -> SUBSET Keys]
      /\ ProxiesServe
    BY DEF IInv, TypeOK
<1>1. CASE MineImplementation(c, tx)
    <2>1. tx.run \in 1 .. MaxRuns /\ tx.kind = "implementation"
        BY <1>1, TransactionFields DEF MineImplementation
    <2>2. /\ implementations' = [implementations EXCEPT ![c] = @ \cup {tx.run}]
          /\ proxies' = proxies /\ mocks' = mocks
        BY <1>1 DEF MineImplementation
    <2>3. \A d \in Chains : implementations[d] \subseteq implementations'[d]
        BY <1>0, <2>2
    <2>4. ProxiesServe'
        BY <1>0, <2>2, <2>3 DEF ProxiesServe
    <2> QED
        BY <1>0, <2>1, <2>2, <2>4
<1>2. CASE MineProxy(c, tx)
    <2>1. /\ tx.key \in Keys /\ tx.kind = "proxy" /\ tx.run \in implementations[c]
          /\ proxies' = [proxies EXCEPT ![c][tx.key] = DeployedAndInit(tx)]
          /\ implementations' = implementations /\ mocks' = mocks
        BY <1>2, TransactionFields DEF MineProxy
    <2>2. /\ proxies' \in [Chains -> [Keys -> Proxies]]
          /\ proxies'[c][tx.key] = DeployedAndInit(tx)
          /\ \A d \in Chains, k \in Keys :
                 (d = c /\ k = tx.key) \/ proxies'[d][k] = proxies[d][k]
          /\ \A d \in Chains : d # c => proxies'[d] = proxies[d]
        BY <1>0, <2>1, DeployedTyped
    <2>3. ProxiesServe'
        BY <1>0, <2>1, <2>2, DeployedTyped DEF ProxiesServe
    <2> QED
        BY <1>0, <2>1, <2>2, <2>3, DeployedTyped
<1>3. CASE MineUpgrade(c, tx)
    <2>1. /\ tx.key \in Keys /\ tx.kind = "upgrade" /\ tx.run \in implementations[c]
          /\ proxies[c][tx.key].exists
          /\ proxies' = [proxies EXCEPT ![c][tx.key].implementation = tx.run]
          /\ implementations' = implementations /\ mocks' = mocks
          /\ tx.run \in 0 .. MaxRuns
        BY <1>3, TransactionFields, DeploymentAssumption DEF MineUpgrade
    <2> DEFINE new == [proxies[c][tx.key] EXCEPT !.implementation = tx.run]
    <2>2. /\ new \in Proxies /\ new.exists
          /\ new.implementation = tx.run /\ new.owner = proxies[c][tx.key].owner
        <3>1. proxies[c][tx.key] \in Proxies
            BY <1>0, <2>1
        <3> QED
            BY <2>1, <3>1 DEF Proxies
    <2>3. proxies' = [proxies EXCEPT ![c][tx.key] = new]
        BY <2>1
    <2> HIDE DEF new
    <2>4. /\ proxies' \in [Chains -> [Keys -> Proxies]]
          /\ proxies'[c][tx.key] = new
          /\ \A d \in Chains, k \in Keys :
                 (d = c /\ k = tx.key) \/ proxies'[d][k] = proxies[d][k]
          /\ \A d \in Chains : d # c => proxies'[d] = proxies[d]
        BY <1>0, <2>1, <2>2, <2>3
    <2>5. ProxiesServe'
        BY <1>0, <2>1, <2>2, <2>4 DEF ProxiesServe
    <2> QED
        BY <1>0, <2>1, <2>2, <2>4, <2>5
<1>4. CASE MineMock(c, tx)
    <2>1. /\ tx.key \in Keys /\ tx.kind = "mock" /\ HasProxy(c, tx.key)
          /\ mocks' = [mocks EXCEPT ![c] = @ \cup {tx.key}]
          /\ implementations' = implementations /\ proxies' = proxies
        BY <1>4, TransactionFields DEF MineMock
    <2>2. ProxiesServe'
        BY <1>0, <2>1 DEF ProxiesServe
    <2> QED
        BY <1>0, <2>1, <2>2
<1> QED
    BY <1>1, <1>2, <1>3, <1>4

LEMMA MineKeeps ==
    ASSUME IInv, NEW c \in Chains, Mine(c)
    PROVE  IInv'
<1> DEFINE rest == Tail(mempool[c])
<1>1. /\ mempool[c] \in Seq(Transactions) /\ mempool[c] # <<>>
      /\ mempool' = [mempool EXCEPT ![c] = rest]
      /\ funds' = [funds EXCEPT ![c] = @ - 1]
      /\ UNCHANGED <<script, pc, at, selected, key, runs, printed, ojoContract>>
    BY DEF Mine, IInv, TypeOK, scriptVars, fileVars
<1>0. PICK tx \in Transactions : tx = Head(mempool[c]) /\ tx = mempool[c][1]
    BY <1>1, FirstAndRest
<1>2. /\ rest \in Seq(Transactions) /\ Len(rest) = Len(mempool[c]) - 1
      /\ Len(mempool[c]) \in Nat /\ Len(mempool[c]) >= 1
      /\ \A i \in 1 .. Len(rest) : i + 1 \in 1 .. Len(mempool[c]) /\ rest[i] = mempool[c][i + 1]
    BY <1>1, FirstAndRest
<1>3. tx.kind = "mock" => HasProxy(c, tx.key)
    BY <1>0, <1>2 DEF IInv, MocksForProxies
<1>4. \/ /\ \/ MineImplementation(c, tx)
            \/ MineProxy(c, tx)
            \/ MineUpgrade(c, tx)
            \/ MineMock(c, tx)
         /\ receipt' = [receipt EXCEPT ![c] = TRUE]
      \/ /\ receipt' = [receipt EXCEPT ![c] = FALSE]
         /\ UNCHANGED <<implementations, proxies, mocks>>
    BY <1>0 DEF Mine
<1> HIDE DEF rest
<1>5. /\ implementations' \in [Chains -> SUBSET (1 .. MaxRuns)]
      /\ proxies' \in [Chains -> [Keys -> Proxies]]
      /\ mocks' \in [Chains -> SUBSET Keys]
      /\ ProxiesServe'
      /\ \A d \in Chains : d # c => proxies'[d] = proxies[d]
      /\ \A d \in Chains, k \in Keys : HasProxy(d, k) => HasProxy(d, k)'
      /\ \A d \in Chains : \A k \in mocks'[d] : k \in mocks[d] \/ HasProxy(d, k)'
      /\ receipt' \in [Chains -> BOOLEAN]
      /\ \A d \in Chains : d # c => receipt'[d] = receipt[d]
      /\ receipt'[c] /\ tx.kind \in {"proxy", "upgrade"} =>
            HasProxy(c, tx.key)' /\ proxies'[c][tx.key].implementation = tx.run
    <2>1. CASE /\ \/ MineImplementation(c, tx)
                  \/ MineProxy(c, tx)
                  \/ MineUpgrade(c, tx)
                  \/ MineMock(c, tx)
               /\ receipt' = [receipt EXCEPT ![c] = TRUE]
        <3>1. /\ receipt' \in [Chains -> BOOLEAN]
              /\ \A d \in Chains : d # c => receipt'[d] = receipt[d]
            BY <2>1 DEF IInv, TypeOK
        <3> QED
            BY <1>3, <2>1, <3>1, MinedEffect
    <2>2. CASE /\ receipt' = [receipt EXCEPT ![c] = FALSE]
               /\ UNCHANGED <<implementations, proxies, mocks>>
        <3>1. /\ receipt' \in [Chains -> BOOLEAN] /\ ~receipt'[c]
              /\ \A d \in Chains : d # c => receipt'[d] = receipt[d]
            BY <2>2 DEF IInv, TypeOK
        <3>2. ProxiesServe'
            BY <2>2 DEF IInv, ProxiesServe, HasProxy
        <3> QED
            BY <2>2, <3>1, <3>2 DEF IInv, TypeOK, HasProxy
    <2> QED
        BY <1>4, <2>1, <2>2
<1>6. /\ mempool' \in [Chains -> Seq(Transactions)]
      /\ mempool'[c] = rest
      /\ \A d \in Chains : d # c => mempool'[d] = mempool[d]
    BY <1>1, <1>2 DEF IInv, TypeOK
<1>7. funds' \in [Chains -> Nat] /\ PoolPaid'
    <2>1. funds \in [Chains -> Nat] /\ funds[c] \in Nat /\ Len(mempool[c]) <= funds[c]
        BY DEF IInv, TypeOK, PoolPaid
    <2>2. funds[c] - 1 \in Nat /\ Len(rest) <= funds[c] - 1
        BY <1>2, <2>1
    <2>3. /\ funds' \in [Chains -> Nat] /\ funds'[c] = funds[c] - 1
          /\ \A d \in Chains : d # c => funds'[d] = funds[d]
        BY <1>1, <2>1, <2>2
    <2> QED
        BY <1>6, <2>2, <2>3 DEF IInv, PoolPaid
<1>8. TypeOK' /\ RunsStarted'
    BY <1>1, <1>5, <1>6, <1>7 DEF IInv, TypeOK, RunsStarted, Running, Here
<1>9. AddressesHaveProxies'
    <2> SUFFICES ASSUME NEW d \in Chains, NEW k \in {printed[d], ojoContract[d]} \cup mocks'[d],
                        k # Empty
                 PROVE  HasProxy(d, k)'
        BY <1>1 DEF AddressesHaveProxies
    <2>1. CASE k \in {printed[d], ojoContract[d]} \cup mocks[d]
        <3>1. HasProxy(d, k) /\ k \in Keys
            BY <2>1 DEF IInv, AddressesHaveProxies, HasProxy
        <3> QED
            BY <1>5, <3>1
    <2>2. CASE k \notin {printed[d], ojoContract[d]} \cup mocks[d]
        BY <1>5, <2>2
    <2> QED
        BY <2>1, <2>2
<1>10. MocksForProxies'
    <2> SUFFICES ASSUME NEW d \in Chains, NEW i \in 1 .. Len(mempool'[d]),
                        mempool'[d][i].kind = "mock"
                 PROVE  HasProxy(d, mempool[d][i].key)'
        BY DEF MocksForProxies
    <2>1. PICK k : k = mempool'[d][i].key
        OBVIOUS
    <2>2. HasProxy(d, k) /\ k \in Keys
        <3>1. CASE d = c
            BY <1>2, <1>6, <2>1, <3>1 DEF IInv, MocksForProxies, HasProxy
        <3>2. CASE d # c
            BY <1>6, <2>1, <3>2 DEF IInv, MocksForProxies, HasProxy
        <3> QED
            BY <3>1, <3>2
    <2>3. HasProxy(d, k)'
        BY <1>5, <2>2
    <2> QED
        BY <2>1, <2>3 DEF HasProxy
<1>11. WaitsForOwn'
    <2> SUFFICES ASSUME pc = "wait"
                 PROVE  /\ script \in {"deploy", "upgrade"}
                        /\ mempool'[Here] # <<>> => OwnIsLast(Here)'
                        /\ mempool'[Here] = <<>> /\ receipt'[Here] => WorkedOn(Here)'
        BY <1>1 DEF WaitsForOwn, Here, OwnIsLast, WorkedOn, Target, HasProxy
    <2>1. /\ script \in {"deploy", "upgrade"}
          /\ mempool[Here] # <<>> => OwnIsLast(Here)
          /\ mempool[Here] = <<>> /\ receipt[Here] => WorkedOn(Here)
          /\ Here \in Chains
        BY HereTyped DEF IInv, WaitsForOwn, Running
    <2>2. Target(Here)' = Target(Here) /\ Here' = Here
        BY <1>1 DEF Target, Here
    <2>3. CASE Here # c
        <3>1. mempool'[Here] = mempool[Here] /\ receipt'[Here] = receipt[Here]
              /\ proxies'[Here] = proxies[Here]
            BY <1>5, <1>6, <2>1, <2>3
        <3>2. OwnIsLast(Here) => OwnIsLast(Here)'
            BY <1>1, <2>2, <3>1 DEF OwnIsLast
        <3>3. WorkedOn(Here) => WorkedOn(Here)'
            BY <1>1, <2>2, <3>1, WorkStays DEF WorkedOn, HasProxy
        <3> QED
            BY <2>1, <3>1, <3>2, <3>3
    <2>4. CASE Here = c
        <3>1. OwnIsLast(c)
            BY <1>1, <2>1, <2>4
        <3>2. ASSUME mempool'[c] # <<>> PROVE OwnIsLast(c)'
            <4>1. rest # <<>> /\ Len(rest) \in Nat /\ Len(rest) >= 1
                BY <1>2, <1>6, <3>2
            <4>2. rest[Len(rest)] = mempool[c][Len(mempool[c])]
                BY <1>2, <4>1
            <4> QED
                BY <1>1, <1>6, <2>2, <2>4, <3>1, <4>2 DEF OwnIsLast, Target
        <3>3. ASSUME mempool'[c] = <<>>, receipt'[c] PROVE WorkedOn(c)'
            <4>1. Len(mempool[c]) = 1
                BY <1>2, <1>6, <3>3
            <4>2. tx.kind \in {"proxy", "upgrade"} /\ tx.run = runs /\ tx.key = Target(c)
                BY <1>0, <3>1, <4>1 DEF OwnIsLast
            <4>3. HasProxy(c, tx.key)' /\ proxies'[c][tx.key].implementation = runs
                BY <1>5, <3>3, <4>2
            <4>4. Target(c)' = tx.key /\ runs' = runs
                BY <1>1, <4>2 DEF Target
            <4> QED
                BY <4>3, <4>4 DEF WorkedOn, HasProxy
        <3> QED
            BY <2>1, <2>2, <2>4, <3>2, <3>3 DEF OwnIsLast, WorkedOn
    <2> QED
        BY <2>3, <2>4
<1>12. DoneBehind'
    <2> SUFFICES ASSUME script \in {"deploy", "upgrade"}, pc # "aborted",
                        NEW j \in 1 .. Len(Order), Order[j] \in selected,
                        pc = "done" \/ j < at
                 PROVE  WorkedOn(Order[j])' /\ mempool'[Order[j]] = <<>>
        BY <1>1 DEF DoneBehind
    <2>1. WorkedOn(Order[j]) /\ mempool[Order[j]] = <<>> /\ Order[j] \in Chains
        BY DEF IInv, DoneBehind, TypeOK
    <2>2. Order[j] # c
        BY <1>1, <2>1
    <2> QED
        BY <1>1, <1>5, <1>6, <2>1, <2>2, WorkStays
<1> QED
    BY <1>5, <1>7, <1>8, <1>9, <1>10, <1>11, <1>12 DEF IInv

(***************************************************************************)
(* The owners.                                                             *)
(***************************************************************************)

\* Whatever an owner makes of a proxy that is there and stays served.
LEMMA OwnerKeeps ==
    ASSUME IInv, NEW c \in Chains, NEW k \in Keys, NEW proxy \in Proxies,
           proxy.exists, proxy.implementation \in implementations[c],
           proxy.owner \in {Wallet, Admin},
           proxy.owner = Wallet =>
               /\ proxies[c][k].owner = Wallet
               /\ proxy.implementation = proxies[c][k].implementation,
           OwnerChanges(c, k, proxy)
    PROVE  IInv'
<1>1. /\ HasProxy(c, k)
      /\ proxies' = [proxies EXCEPT ![c][k] = proxy]
      /\ UNCHANGED <<script, pc, at, selected, key, runs, printed, ojoContract>>
      /\ UNCHANGED <<funds, mempool, receipt, implementations, mocks>>
    BY DEF OwnerChanges, scriptVars, fileVars
<1>2. /\ proxies' \in [Chains -> [Keys -> Proxies]]
      /\ proxies'[c][k] = proxy
      /\ \A d \in Chains, l \in Keys : (d = c /\ l = k) \/ proxies'[d][l] = proxies[d][l]
    BY <1>1 DEF IInv, TypeOK
<1>3. \A d, l : d \in Chains /\ HasProxy(d, l) => HasProxy(d, l)'
    BY <1>2 DEF HasProxy
<1>4. TypeOK' /\ RunsStarted' /\ PoolPaid'
    BY <1>1, <1>2 DEF IInv, TypeOK, RunsStarted, PoolPaid, Running, Here
<1>5. ProxiesServe'
    <2> SUFFICES ASSUME NEW d \in Chains, NEW l \in Keys, HasProxy(d, l)'
                 PROVE  /\ proxies'[d][l].implementation \in implementations[d]
                        /\ proxies'[d][l].owner \in {Wallet, Admin}
        BY <1>1 DEF ProxiesServe
    <2>1. CASE d = c /\ l = k
        BY <1>2, <2>1
    <2>2. CASE ~(d = c /\ l = k)
        BY <1>2, <2>2 DEF IInv, ProxiesServe, HasProxy
    <2> QED
        BY <2>1, <2>2
<1>6. AddressesHaveProxies'
    BY <1>1, <1>3 DEF IInv, AddressesHaveProxies
<1>7. MocksForProxies'
    <2> SUFFICES ASSUME NEW d \in Chains, NEW i \in 1 .. Len(mempool[d]),
                        mempool[d][i].kind = "mock"
                 PROVE  HasProxy(d, mempool[d][i].key)'
        BY <1>1 DEF MocksForProxies
    <2>1. HasProxy(d, mempool[d][i].key)
        BY DEF IInv, MocksForProxies
    <2> QED
        BY <1>1, <1>2, <2>1 DEF HasProxy
<1>8. ASSUME NEW d \in Chains, WorkedOn(d)
      PROVE  WorkedOn(d)'
    <2>1. Target(d)' = Target(d) /\ runs' = runs
        BY <1>1 DEF Target
    <2>2. Target(d) \in Keys /\ HasProxy(d, Target(d))
        BY <1>8 DEF WorkedOn, HasProxy
    <2>3. HasProxy(d, Target(d))'
        BY <1>2, <2>1, <2>2 DEF HasProxy
    <2>4. CASE d = c /\ Target(d) = k
        BY <1>2, <1>8, <2>1, <2>3, <2>4 DEF WorkedOn
    <2>5. CASE ~(d = c /\ Target(d) = k)
        BY <1>2, <1>8, <2>1, <2>2, <2>3, <2>5 DEF WorkedOn
    <2> QED
        BY <2>4, <2>5
<1>9. WaitsForOwn'
    <2> SUFFICES ASSUME pc = "wait"
                 PROVE  /\ script \in {"deploy", "upgrade"}
                        /\ mempool[Here] # <<>> => OwnIsLast(Here)'
                        /\ mempool[Here] = <<>> /\ receipt[Here] => WorkedOn(Here)'
        BY <1>1 DEF WaitsForOwn, Here, OwnIsLast, WorkedOn, Target, HasProxy
    <2>1. /\ script \in {"deploy", "upgrade"}
          /\ mempool[Here] # <<>> => OwnIsLast(Here)
          /\ mempool[Here] = <<>> /\ receipt[Here] => WorkedOn(Here)
          /\ Here \in Chains
        BY HereTyped DEF IInv, WaitsForOwn, Running
    <2>2. Here' = Here
        BY <1>1 DEF Here
    <2>3. OwnIsLast(Here) => OwnIsLast(Here)'
        BY <1>1, <2>2 DEF OwnIsLast, Target
    <2>4. PICK here \in Chains : here = Here
        BY <2>1
    <2>5. WorkedOn(here) => WorkedOn(here)'
        BY <1>8
    <2> QED
        BY <2>1, <2>2, <2>3, <2>4, <2>5 DEF WorkedOn, HasProxy, Target
<1>10. DoneBehind'
    BY <1>1, <1>8 DEF IInv, DoneBehind, TypeOK
<1> QED
    BY <1>4, <1>5, <1>6, <1>7, <1>9, <1>10 DEF IInv

LEMMA UpdateKeeps ==
    ASSUME IInv, NEW c \in Chains, NEW k \in Keys, NEW update \in Updates,
           Update(c, k, update[1], update[2])
    PROVE  IInv'
<1> DEFINE proxy == [proxies[c][k] EXCEPT !.settings[update[1]] = update[2]]
<1>1. OwnerChanges(c, k, proxy) /\ HasProxy(c, k)
    BY DEF Update, OwnerChanges
<1>2. update[1] \in Fields /\ update[2] \in Values
    BY DeploymentAssumption
<1>3. proxies[c][k] \in Proxies
    BY DEF IInv, TypeOK
<1>4. /\ proxy \in Proxies /\ proxy.exists = proxies[c][k].exists
      /\ proxy.implementation = proxies[c][k].implementation
      /\ proxy.owner = proxies[c][k].owner
    BY <1>2, <1>3 DEF Proxies, Settings
<1>5. /\ proxies[c][k].implementation \in implementations[c]
      /\ proxies[c][k].owner \in {Wallet, Admin} /\ proxies[c][k].exists
    BY <1>1 DEF IInv, ProxiesServe, HasProxy
<1> HIDE DEF proxy
<1> QED
    BY <1>1, <1>4, <1>5, OwnerKeeps

LEMMA TransferOwnershipKeeps ==
    ASSUME IInv, NEW c \in Chains, NEW k \in Keys, TransferOwnership(c, k)
    PROVE  IInv'
<1> DEFINE proxy == [proxies[c][k] EXCEPT !.owner = Admin]
<1>1. OwnerChanges(c, k, proxy) /\ HasProxy(c, k)
    BY DEF TransferOwnership, OwnerChanges
<1>2. proxies[c][k] \in Proxies
    BY DEF IInv, TypeOK
<1>3. /\ proxy \in Proxies /\ proxy.exists = proxies[c][k].exists
      /\ proxy.implementation = proxies[c][k].implementation
      /\ proxy.owner = Admin /\ proxy.owner # Wallet
    BY <1>2 DEF Proxies, Admin, Wallet
<1>4. /\ proxies[c][k].implementation \in implementations[c]
      /\ proxies[c][k].exists
    BY <1>1 DEF IInv, ProxiesServe, HasProxy
<1> HIDE DEF proxy
<1> QED
    BY <1>1, <1>3, <1>4, OwnerKeeps

LEMMA UpgradeByHandKeeps ==
    ASSUME IInv, NEW c \in Chains, NEW k \in Keys, NEW implementation \in implementations[c],
           NEW parameters \in {NoParameters, Parameters(Account)},
           UpgradeByHand(c, k, implementation, parameters)
    PROVE  IInv'
<1> DEFINE proxy == [proxies[c][k] EXCEPT !.implementation = implementation,
                                          !.settings = SetUp(@, parameters)]
<1>1. OwnerChanges(c, k, proxy) /\ HasProxy(c, k) /\ proxies[c][k].owner = Admin
    BY DEF UpgradeByHand, OwnerChanges
<1>2. proxies[c][k] \in Proxies /\ implementation \in 0 .. MaxRuns
    BY DeploymentAssumption DEF IInv, TypeOK
<1>3. SetUp(proxies[c][k].settings, parameters) \in Settings
    BY <1>2, ParametersTyped DEF SetUp, Proxies
<1>4. /\ proxy \in Proxies /\ proxy.exists = proxies[c][k].exists
      /\ proxy.implementation = implementation
      /\ proxy.owner = Admin /\ proxy.owner # Wallet
    BY <1>1, <1>2, <1>3 DEF Proxies, Admin, Wallet
<1>5. proxies[c][k].exists
    BY <1>1 DEF HasProxy
<1> HIDE DEF proxy
<1> QED
    BY <1>1, <1>4, <1>5, OwnerKeeps

(***************************************************************************)
(* The theorems.                                                           *)
(***************************************************************************)

LEMMA NextKeepsIInv == IInv /\ [Next]_vars => IInv'
<1> SUFFICES ASSUME IInv, [Next]_vars PROVE IInv'
    OBVIOUS
<1>1. CASE ScriptStep
    BY <1>1, StartKeeps, AbortKeeps, GetBalanceKeeps, DeployImplementationKeeps,
       WaitForDeploymentKeeps, Create2DeployAndInitKeeps, SendUpgradeKeeps, WaitKeeps,
       DeployMockOjoKeeps DEF ScriptStep
<1>2. ASSUME NEW c \in Chains, Mine(c) PROVE IInv'
    BY <1>2, MineKeeps
<1>3. ASSUME NEW c \in Chains, NEW k \in Keys, OwnerStep(c, k) PROVE IInv'
    BY <1>3, UpdateKeeps, TransferOwnershipKeeps, UpgradeByHandKeeps DEF OwnerStep
<1>4. CASE UNCHANGED vars
    BY <1>4 DEF vars, scriptVars, fileVars, chainVars, IInv, TypeOK, RunsStarted, PoolPaid,
       ProxiesServe, AddressesHaveProxies, MocksForProxies, WaitsForOwn, DoneBehind, WorkedOn,
       OwnIsLast, Target, HasProxy, Running, Here
<1> QED
    BY <1>1, <1>2, <1>3, <1>4 DEF Next

LEMMA Invariance == Spec => []IInv
BY InitIInv, NextKeepsIInv, PTL DEF Spec

\* The types of deployment hold for any chains, funds and number of runs.
THEOREM TypeCorrect == Spec => []TypeOK
<1>1. IInv => TypeOK
    BY DEF IInv
<1> QED
    BY Invariance, <1>1, PTL

\* Deployment and init are one transaction on every path of the scripts
\* (upgradable.ts:64-82): behind a proxy there is always an owner and code.
THEOREM ProxiesAlwaysServe == Spec => []ProxiesServe
<1>1. IInv => ProxiesServe
    BY DEF IInv
<1> QED
    BY Invariance, <1>1, PTL

\* The addresses that the scripts print, and that the operator and
\* deployMockOjo go on with, are those of proxies (upgradable.ts:74-79,
\* deployMockOjo.ts:33-43).
THEOREM AddressesAreProxies == Spec => []AddressesHaveProxies
<1>1. IInv => AddressesHaveProxies
    BY DEF IInv
<1> QED
    BY Invariance, <1>1, PTL

\* A run that ends has done its work on each selected chain, whatever runs
\* before it left pending (deployOjo.ts:28-60, upgradeOjo.ts:24-39).
THEOREM DoneIsComplete == Spec => []DoneEverywhere
<1>1. IInv => DoneEverywhere
    <2> SUFFICES ASSUME IInv, pc = "done", script \in {"deploy", "upgrade"},
                        NEW c \in selected
                 PROVE  WorkedOn(c)
        BY DEF DoneEverywhere, WorkedOn
    <2>1. c \in Chains
        BY DEF IInv, TypeOK
    <2>2. PICK j \in 1 .. Len(Order) : Order[j] = c
        BY <2>1, DeploymentAssumption
    <2> QED
        BY <2>2 DEF IInv, DoneBehind
<1> QED
    BY Invariance, <1>1, PTL

\* What a step does to the settings of a proxy that has been set up.
LEMMA SettingsStep ==
    ASSUME IInv, Next, NEW c \in Chains, NEW k \in Keys, HasProxy(c, k),
           NEW f \in Fields, proxies[c][k].settings[f] # Empty
    PROVE  \/ proxies'[c][k].settings = proxies[c][k].settings
           \/ \E update \in Updates : Update(c, k, update[1], update[2])
<1>0. proxies \in [Chains -> [Keys -> Proxies]] /\ proxies[c][k] \in Proxies
    BY DEF IInv, TypeOK
<1>1. CASE ScriptStep
    BY <1>1 DEF ScriptStep, Start, Abort, GetBalance, DeployImplementation, WaitForDeployment,
       Create2DeployAndInit, SendUpgrade, Wait, DeployMockOjo, Send, chainVars
<1>2. ASSUME NEW d \in Chains, Mine(d)
      PROVE  proxies'[c][k].settings = proxies[c][k].settings
    <2>1. PICK tx \in Transactions : tx = Head(mempool[d])
        BY <1>2, FirstAndRest DEF Mine, IInv, TypeOK
    <2>2. CASE MineProxy(d, tx)
        BY <1>0, <2>2, TransactionFields DEF MineProxy, HasProxy
    <2>3. CASE MineUpgrade(d, tx)
        <3>1. tx.key \in Keys
            BY <2>3, TransactionFields DEF MineUpgrade
        <3>2. CASE d = c /\ tx.key = k
            BY <1>0, <2>3, <3>2 DEF MineUpgrade, Proxies
        <3>3. CASE ~(d = c /\ tx.key = k)
            BY <1>0, <2>3, <3>1, <3>3 DEF MineUpgrade
        <3> QED
            BY <3>2, <3>3
    <2> QED
        BY <1>2, <2>1, <2>2, <2>3 DEF Mine, MineImplementation, MineMock
<1>3. ASSUME NEW d \in Chains, NEW l \in Keys, OwnerStep(d, l)
      PROVE  \/ proxies'[c][k].settings = proxies[c][k].settings
             \/ \E update \in Updates : Update(c, k, update[1], update[2])
    <2>1. ASSUME ~(d = c /\ l = k), NEW proxy, OwnerChanges(d, l, proxy)
          PROVE  proxies'[c][k] = proxies[c][k]
        BY <1>0, <2>1 DEF OwnerChanges
    <2>2. CASE ~(d = c /\ l = k)
        BY <1>3, <2>1, <2>2 DEF OwnerStep, Update, TransferOwnership, UpgradeByHand
    <2>3. CASE d = c /\ l = k
        <3>1. CASE \E update \in Updates : Update(d, l, update[1], update[2])
            BY <2>3, <3>1
        <3>2. CASE TransferOwnership(d, l)
            BY <1>0, <2>3, <3>2 DEF TransferOwnership, OwnerChanges, Proxies
        <3>3. ASSUME NEW implementation, NEW parameters,
                     UpgradeByHand(d, l, implementation, parameters)
              PROVE  proxies'[c][k].settings = proxies[c][k].settings
            <4>1. parameters = NoParameters
                BY <2>3, <3>3 DEF UpgradeByHand, SetupReverts
            <4> QED
                BY <1>0, <2>3, <3>3, <4>1 DEF UpgradeByHand, OwnerChanges, SetUp, Proxies
        <3> QED
            BY <1>3, <3>1, <3>2, <3>3 DEF OwnerStep
    <2> QED
        BY <2>2, <2>3
<1> QED
    BY <1>1, <1>2, <1>3 DEF Next

\* Once set up, a proxy's settings are the owner's alone (Ojo.sol:87-100).
THEOREM SettingsStayPut == Spec => SettingsStay
<1>1. IInv /\ [Next]_vars =>
        [\A c \in Chains, k \in Keys :
            HasProxy(c, k) /\ (\E f \in Fields : proxies[c][k].settings[f] # Empty) =>
                \/ proxies'[c][k].settings = proxies[c][k].settings
                \/ \E update \in Updates : Update(c, k, update[1], update[2])]_vars
    BY SettingsStep
<1> QED
    BY Invariance, <1>1, PTL DEF Spec, SettingsStay

=============================================================================
