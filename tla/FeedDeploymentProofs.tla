------------------------- MODULE FeedDeploymentProofs -------------------------
(***************************************************************************)
(* Theorems about FeedDeployment, for any chains, feeds and vaults and any *)
(* number of runs and failures.                                            *)
(***************************************************************************)
EXTENDS FeedDeployment, TLAPS

(***************************************************************************)
(* The inductive invariant.                                                *)
(***************************************************************************)

Positions == [chain : DOMAIN ChainOrder, feed : DOMAIN Names, i : DOMAIN Vaults]

Transactions ==
         [kind : {"implementation", "factory"}, implementation : Int]
    \cup [kind : {"create"}, factory : Int, name : Range(Names),
          vault : Range(Vaults) \cup {NoVault}, run : Nat]

Deployed == [at : Nat, kind : {"implementation", "factory"}, implementation : Int]

Clones ==
    [implementation : Int, name : Range(Names) \cup {NoName},
     vault : Range(Vaults) \cup {NoVault}, run : Nat]

Typed ==
    /\ runs \in Nat
    /\ at \in Positions
    /\ printed \in [Chains -> [implementation : Int, factory : Int]]
    /\ config \in [Chains -> [implementation : Int, factory : Int]]
    /\ mempool \in [Chains -> Seq(Transactions)]
    /\ mined \in [Chains -> Seq(BOOLEAN)]
    /\ contracts \in [Chains -> SUBSET Deployed]
    /\ clones \in [Chains -> Seq(Clones)]

\* The two counters of the feeds move together.
IndexInStep == at.i = at.feed

\* An implementation's address comes from a nonce, and whatever points at it
\* was sent, and is mined, with a later one.
AddressesPrinted ==
    \A c \in Chains :
        /\ printed[c].implementation < Len(mined[c]) + Len(mempool[c])
        /\ config[c].implementation < Len(mined[c]) + Len(mempool[c])

SentLater ==
    \A c \in Chains : \A i \in 1 .. Len(mempool[c]) :
        mempool[c][i].kind # "create" =>
            mempool[c][i].implementation < Len(mined[c]) + i - 1

MinedLater ==
    \A c \in Chains :
        /\ \A contract \in contracts[c] :
              contract.at < Len(mined[c]) /\ contract.implementation < Len(mined[c])
        /\ \A k \in 1 .. Len(clones[c]) : clones[c][k].implementation < Len(mined[c])

\* A name with the vault that is listed beside it.
Listed(shape, name, vault) ==
    \E n \in DOMAIN Names :
        /\ name = Names[n]
        /\ vault = IF shape = "vault" THEN Vaults[n] ELSE NoVault

SentAsListed ==
    \A c \in Chains : \A i \in 1 .. Len(mempool[c]) :
        mempool[c][i].kind = "create" => Listed(family, mempool[c][i].name, mempool[c][i].vault)

IInv ==
    /\ Typed
    /\ IndexInStep
    /\ AddressesPrinted
    /\ SentLater
    /\ MinedLater
    /\ SentAsListed
    /\ ImplementedMeansInitialized
    /\ NamesKeepTheirVaults

(***************************************************************************)
(* Lemmas about sequences.                                                 *)
(***************************************************************************)

LEMMA FirstAndRest ==
    ASSUME NEW S, NEW s \in Seq(S), s # <<>>
    PROVE  /\ Len(s) \in Nat /\ Len(s) >= 1
           /\ Head(s) \in S /\ Head(s) = s[1]
           /\ Tail(s) \in Seq(S) /\ Len(Tail(s)) = Len(s) - 1
           /\ \A i \in 1 .. Len(Tail(s)) : i + 1 \in 1 .. Len(s) /\ Tail(s)[i] = s[i + 1]
OBVIOUS

LEMMA LastOne ==
    ASSUME NEW S, NEW s \in Seq(S), NEW e \in S
    PROVE  /\ Append(s, e) \in Seq(S)
           /\ Len(s) \in Nat /\ Len(Append(s, e)) = Len(s) + 1
           /\ Append(s, e)[Len(s) + 1] = e
           /\ \A i \in 1 .. Len(s) : Append(s, e)[i] = s[i]
           /\ \A i \in 1 .. Len(Append(s, e)) : i \in 1 .. Len(s) \/ i = Len(s) + 1
OBVIOUS

LEMMA Lists ==
    /\ Len(ChainOrder) \in Nat /\ DOMAIN ChainOrder = 1 .. Len(ChainOrder)
    /\ Len(Names) \in Nat /\ Len(Names) > 0 /\ DOMAIN Names = 1 .. Len(Names)
    /\ DOMAIN Vaults = 1 .. Len(Names)
    /\ AtStart \in Positions /\ AtStart.i = AtStart.feed
BY DeploymentAssumption DEF AtStart, Positions

LEMMA InitIInv == Init => IInv
<1> SUFFICES ASSUME Init PROVE IInv
    OBVIOUS
<1>1. Typed /\ IndexInStep
    BY Lists DEF Init, Typed, IndexInStep, Unprinted, Unset
<1>2. \A c \in Chains :
         /\ Len(mined[c]) = 0 /\ Len(mempool[c]) = 0 /\ Len(clones[c]) = 0
         /\ clones[c] = <<>> /\ contracts[c] = {}
         /\ printed[c].implementation = -1 /\ config[c].implementation = -1
    BY DEF Init, Unprinted, Unset
<1>3. AddressesPrinted /\ SentLater /\ MinedLater /\ SentAsListed
    <2>1. AddressesPrinted
        <3> SUFFICES ASSUME NEW c \in Chains
                     PROVE  /\ printed[c].implementation < Len(mined[c]) + Len(mempool[c])
                            /\ config[c].implementation < Len(mined[c]) + Len(mempool[c])
            BY DEF AddressesPrinted
        <3>1. /\ Len(mined[c]) = 0 /\ Len(mempool[c]) = 0
              /\ printed[c].implementation = -1 /\ config[c].implementation = -1
            BY <1>2
        <3> QED
            BY <3>1
    <2>2. SentLater /\ SentAsListed
        BY <1>2 DEF SentLater, SentAsListed
    <2>3. MinedLater
        BY <1>2 DEF MinedLater
    <2> QED
        BY <2>1, <2>2, <2>3
<1>4. ImplementedMeansInitialized /\ NamesKeepTheirVaults
    BY <1>2 DEF ImplementedMeansInitialized, NamesKeepTheirVaults
<1> QED
    BY <1>1, <1>3, <1>4 DEF IInv

(***************************************************************************)
(* The script's steps.                                                     *)
(***************************************************************************)

LEMMA NextChainTyped ==
    ASSUME at \in Positions, NextChain
    PROVE  at' \in Positions /\ at'.i = at'.feed
BY Lists DEF NextChain, LastChain, Positions, AtStart

LEMMA NextFeedTyped ==
    ASSUME at \in Positions, IndexInStep, NextFeed
    PROVE  at' \in Positions /\ at'.i = at'.feed
<1>1. CASE LastFeed
    BY <1>1, NextChainTyped DEF LastFeed
<1>2. CASE at.feed < Len(Names) /\ at' = [at EXCEPT !.feed = @ + 1, !.i = @ + 1]
    <2>1. /\ at.feed \in 1 .. Len(Names) /\ at.i = at.feed /\ Len(Names) \in Nat
          /\ at.feed + 1 \in 1 .. Len(Names)
        BY <1>2, Lists DEF Positions, IndexInStep
    <2>2. at'.feed = at.feed + 1 /\ at'.i = at.feed + 1 /\ at' \in Positions
        BY <1>2, <2>1, Lists DEF Positions
    <2> QED
        BY <2>2
<1> QED
    BY <1>1, <1>2 DEF NextFeed

\* A step that sends nothing.
LEMMA QuietKeeps ==
    ASSUME IInv, runs' \in Nat, at' \in Positions, at'.i = at'.feed,
           config' \in [Chains -> [implementation : Int, factory : Int]],
           \A c \in Chains : config'[c] \in {config[c], printed[c]},
           UNCHANGED <<family, printed, mempool, mined, contracts, clones>>
    PROVE  IInv'
<1>1. Typed' /\ IndexInStep'
    BY DEF IInv, Typed, IndexInStep
<1>2. AddressesPrinted'
    BY DEF IInv, AddressesPrinted
<1>3. SentLater' /\ MinedLater' /\ SentAsListed'
    BY DEF IInv, SentLater, MinedLater, SentAsListed, Listed
<1>4. ImplementedMeansInitialized' /\ NamesKeepTheirVaults'
    BY DEF IInv, ImplementedMeansInitialized, NamesKeepTheirVaults, HasCode
<1> QED
    BY <1>1, <1>2, <1>3, <1>4 DEF IInv

LEMMA HereTyped ==
    ASSUME at \in Positions
    PROVE  Here \in Chains
BY Lists, DeploymentAssumption DEF Here, Positions

\* A step that sends a transaction.
LEMMA SendKeeps ==
    ASSUME IInv, NEW tx \in Transactions, Send(tx),
           tx.kind # "create" => tx.implementation < NextAddress,
           tx.kind = "create" => Listed(family, tx.name, tx.vault),
           at' \in Positions, at'.i = at'.feed,
           printed' \in [Chains -> [implementation : Int, factory : Int]],
           \A c \in Chains :
               \/ printed'[c].implementation = printed[c].implementation
               \/ c = Here /\ printed'[c].implementation = NextAddress,
           UNCHANGED <<family, runs, config, mined, contracts, clones>>
    PROVE  IInv'
<1>1. /\ Here \in Chains
      /\ mempool \in [Chains -> Seq(Transactions)] /\ mined \in [Chains -> Seq(BOOLEAN)]
      /\ mempool[Here] \in Seq(Transactions)
    BY HereTyped DEF IInv, Typed
<1>2. mempool' = [mempool EXCEPT ![Here] = Append(@, tx)]
    BY DEF Send
<1>3. /\ Append(mempool[Here], tx) \in Seq(Transactions)
      /\ Len(mempool[Here]) \in Nat
      /\ Len(Append(mempool[Here], tx)) = Len(mempool[Here]) + 1
    BY <1>1, LastOne
<1>4. /\ mempool' \in [Chains -> Seq(Transactions)]
      /\ mempool'[Here] = Append(mempool[Here], tx)
      /\ \A c \in Chains : c # Here => mempool'[c] = mempool[c]
    BY <1>1, <1>2, <1>3
<1>5. \A c \in Chains : /\ Len(mined[c]) \in Nat /\ Len(mempool[c]) \in Nat
                        /\ printed[c].implementation \in Int
                        /\ config[c].implementation \in Int
    BY DEF IInv, Typed
<1>6. Typed' /\ IndexInStep'
    BY <1>4 DEF IInv, Typed, IndexInStep
<1>7. AddressesPrinted'
    <2> SUFFICES ASSUME NEW c \in Chains
                 PROVE  /\ printed'[c].implementation < Len(mined[c]) + Len(mempool'[c])
                        /\ config[c].implementation < Len(mined[c]) + Len(mempool'[c])
        BY DEF AddressesPrinted
    <2>1. /\ printed[c].implementation < Len(mined[c]) + Len(mempool[c])
          /\ config[c].implementation < Len(mined[c]) + Len(mempool[c])
        BY DEF IInv, AddressesPrinted
    <2>2. CASE c = Here
        <3>1. PICK m \in Nat, n \in Nat : m = Len(mined[c]) /\ n = Len(mempool[c])
            BY <1>5
        <3>2. PICK p \in Int, new \in Int :
                  p = printed[c].implementation /\ new = printed'[c].implementation
            BY <1>5
        <3>3. PICK q \in Int : q = config[c].implementation
            BY <1>5
        <3>4. Len(mempool'[c]) = n + 1
            BY <1>3, <1>4, <2>2, <3>1
        <3>5. new = p \/ new = m + n
            BY <2>2, <3>1, <3>2 DEF NextAddress
        <3>6. p < m + n /\ q < m + n
            BY <2>1, <3>1, <3>2, <3>3
        <3>7. new < m + (n + 1) /\ q < m + (n + 1)
            BY <3>5, <3>6
        <3> QED
            BY <3>1, <3>2, <3>3, <3>4, <3>7
    <2>3. CASE c # Here
        <3>1. mempool'[c] = mempool[c] /\ printed'[c].implementation = printed[c].implementation
            BY <1>4, <2>3
        <3> QED
            BY <2>1, <3>1
    <2> QED
        BY <2>2, <2>3
<1>8. ASSUME NEW c \in Chains, NEW i \in 1 .. Len(mempool'[c])
      PROVE  \/ i \in 1 .. Len(mempool[c]) /\ mempool'[c][i] = mempool[c][i]
             \/ c = Here /\ i = Len(mempool[c]) + 1 /\ mempool'[c][i] = tx
    <2>1. CASE c = Here
        <3>1. mempool'[c] = Append(mempool[c], tx) /\ mempool[c] \in Seq(Transactions)
            BY <1>1, <1>4, <2>1
        <3> QED
            BY <2>1, <3>1, LastOne
    <2>2. CASE c # Here
        BY <1>4, <2>2
    <2> QED
        BY <2>1, <2>2
<1>9. SentLater'
    <2> SUFFICES ASSUME NEW c \in Chains, NEW i \in 1 .. Len(mempool'[c]),
                        mempool'[c][i].kind # "create"
                 PROVE  mempool'[c][i].implementation < Len(mined[c]) + i - 1
        BY DEF SentLater
    <2>1. CASE i \in 1 .. Len(mempool[c]) /\ mempool'[c][i] = mempool[c][i]
        BY <2>1 DEF IInv, SentLater
    <2>2. CASE c = Here /\ i = Len(mempool[c]) + 1 /\ mempool'[c][i] = tx
        <3>1. Len(mined[c]) + i - 1 = NextAddress
            BY <1>5, <2>2 DEF NextAddress
        <3> QED
            BY <2>2, <3>1
    <2> QED
        BY <1>8, <2>1, <2>2
<1>10. SentAsListed'
    <2> SUFFICES ASSUME NEW c \in Chains, NEW i \in 1 .. Len(mempool'[c]),
                        mempool'[c][i].kind = "create"
                 PROVE  Listed(family, mempool'[c][i].name, mempool'[c][i].vault)
        BY DEF SentAsListed
    <2> QED
        BY <1>8 DEF IInv, SentAsListed
<1>11. MinedLater' /\ ImplementedMeansInitialized' /\ NamesKeepTheirVaults'
    BY DEF IInv, MinedLater, ImplementedMeansInitialized, NamesKeepTheirVaults, HasCode
<1> QED
    BY <1>6, <1>7, <1>9, <1>10, <1>11 DEF IInv

LEMMA ScriptKeeps ==
    ASSUME IInv, ScriptStep
    PROVE  IInv'
<1>0. /\ at \in Positions /\ IndexInStep /\ runs \in Nat
      /\ config \in [Chains -> [implementation : Int, factory : Int]]
      /\ printed \in [Chains -> [implementation : Int, factory : Int]]
    BY DEF IInv, Typed
<1>1. ASSUME NEW s, Start(s)
      PROVE  IInv'
    <2>1. /\ config' \in [Chains -> [implementation : Int, factory : Int]]
          /\ \A c \in Chains : config'[c] \in {config[c], printed[c]}
        BY <1>0, <1>1 DEF Start
    <2>2. /\ at' = AtStart /\ runs' \in Nat
          /\ UNCHANGED <<family, printed, mempool, mined, contracts, clones>>
        BY <1>0, <1>1 DEF Start, chainVars
    <2> QED
        BY <2>1, <2>2, Lists, QuietKeeps
<1>2. CASE GetBalance
    BY <1>0, <1>2, QuietKeeps DEF GetBalance, chainVars, IndexInStep
<1>3. CASE Abort
    BY <1>0, <1>3, Lists, QuietKeeps DEF Abort, chainVars
<1>4. CASE Receipt \/ CreateFails
    <2>1. at' \in Positions /\ at'.i = at'.feed
        BY <1>0, <1>4, NextFeedTyped DEF Receipt, CreateFails
    <2>2. UNCHANGED <<family, runs, printed, config, mempool, mined, contracts, clones>>
        BY <1>4 DEF Receipt, CreateFails, chainVars
    <2> QED
        BY <1>0, <2>1, <2>2, QuietKeeps
<1>5. CASE DeployImplementation
    <2> DEFINE tx == [kind |-> "implementation", implementation |-> Unset]
    <2>1. at' \in Positions /\ at'.i = at'.feed /\ Here \in Chains
        BY <1>0, <1>5, NextChainTyped, HereTyped DEF DeployImplementation
    <2>2. NextAddress \in Nat /\ Unset < NextAddress /\ Unset \in Int
        BY <2>1 DEF NextAddress, IInv, Typed, Unset
    <2>3. /\ Send(tx)
          /\ printed' = [printed EXCEPT ![Here].implementation = NextAddress]
          /\ UNCHANGED <<family, runs, config, mined, contracts, clones>>
        BY <1>5 DEF DeployImplementation
    <2>4. /\ printed' \in [Chains -> [implementation : Int, factory : Int]]
          /\ \A c \in Chains :
                 \/ printed'[c].implementation = printed[c].implementation
                 \/ c = Here /\ printed'[c].implementation = NextAddress
        BY <1>0, <2>1, <2>2, <2>3
    <2>5. tx \in Transactions /\ tx.kind = "implementation" /\ tx.implementation < NextAddress
        BY <2>2 DEF Transactions
    <2> HIDE DEF tx
    <2> QED
        BY <2>1, <2>3, <2>4, <2>5, SendKeeps
<1>6. CASE DeployCloneFactory
    <2> DEFINE tx == [kind |-> "factory", implementation |-> config[Here].implementation]
    <2>1. at' \in Positions /\ at'.i = at'.feed /\ Here \in Chains
        BY <1>0, <1>6, NextChainTyped, HereTyped DEF DeployCloneFactory
    <2>2. /\ NextAddress \in Nat /\ config[Here].implementation \in Int
          /\ config[Here].implementation < NextAddress
        BY <1>0, <2>1 DEF NextAddress, IInv, Typed, AddressesPrinted
    <2>3. /\ Send(tx)
          /\ printed' = [printed EXCEPT ![Here].factory = NextAddress]
          /\ UNCHANGED <<family, runs, config, mined, contracts, clones>>
        BY <1>6 DEF DeployCloneFactory
    <2>4. /\ printed' \in [Chains -> [implementation : Int, factory : Int]]
          /\ \A c \in Chains : printed'[c].implementation = printed[c].implementation
        BY <1>0, <2>1, <2>2, <2>3
    <2>5. tx \in Transactions /\ tx.kind = "factory" /\ tx.implementation < NextAddress
        BY <2>2 DEF Transactions
    <2> HIDE DEF tx
    <2> QED
        BY <2>1, <2>3, <2>4, <2>5, SendKeeps
<1>7. ASSUME NEW vault \in Range(Vaults) \cup {NoVault}, SendCreate(vault),
             Listed(family, Names[at.feed], vault)
      PROVE  IInv'
    <2> DEFINE tx == [kind |-> "create", factory |-> config[Here].factory,
                      name |-> Names[at.feed], vault |-> vault, run |-> runs]
    <2>1. at' \in Positions /\ at'.i = at'.feed /\ Here \in Chains
        BY <1>0, <1>7, HereTyped DEF SendCreate, IndexInStep
    <2>2. Names[at.feed] \in Range(Names) /\ config[Here].factory \in Int
        BY <1>0, <2>1 DEF Range, Positions
    <2>3. Send(tx) /\ UNCHANGED <<family, runs, printed, config, mined, contracts, clones>>
        BY <1>7 DEF SendCreate
    <2>4. tx \in Transactions /\ tx.kind = "create" /\ Listed(family, tx.name, tx.vault)
        BY <1>0, <1>7, <2>2 DEF Transactions
    <2> HIDE DEF tx
    <2> QED
        BY <1>0, <2>1, <2>3, <2>4, SendKeeps
<1>8. at.feed \in DOMAIN Names /\ at.i \in DOMAIN Vaults /\ at.i = at.feed
    BY <1>0 DEF Positions, IndexInStep
<1>9. CASE CreatePriceFeed
    <2>1. family # "vault" /\ Listed(family, Names[at.feed], NoVault)
        BY <1>8, <1>9 DEF CreatePriceFeed, Listed
    <2> QED
        BY <1>7, <1>9, <2>1 DEF CreatePriceFeed
<1>10. CASE CreateMellowPriceFeed
    <2>1. family = "vault" /\ Listed(family, Names[at.feed], Vaults[at.i]) /\ Vaults[at.i] \in Range(Vaults)
        BY <1>8, <1>10 DEF CreateMellowPriceFeed, Listed, Range
    <2> QED
        BY <1>7, <1>10, <2>1 DEF CreateMellowPriceFeed
<1> QED
    BY <1>1, <1>2, <1>3, <1>4, <1>5, <1>6, <1>9, <1>10 DEF ScriptStep

(***************************************************************************)
(* The chains.                                                             *)
(***************************************************************************)

\* initialize has no effect on a clone that is there: it has happened, or the
\* implementation will never have code.
LEMMA InitializeIsVain ==
    ASSUME IInv, NEW c \in Chains, Initialize(c)
    PROVE  clones' = clones
<1>1. PICK k \in DOMAIN clones[c], name \in Range(Names), vault \in Range(Vaults) :
          clones' = [clones EXCEPT ![c][k] = Initialized(c, @, name, vault)]
    BY DEF Initialize
<1>2. clones \in [Chains -> Seq(Clones)]
    BY DEF IInv, Typed
<1>3. Initialized(c, clones[c][k], name, vault) = clones[c][k]
    BY DEF IInv, ImplementedMeansInitialized, Initialized
<1> QED
    BY <1>1, <1>2, <1>3

LEMMA InitializeKeeps ==
    ASSUME IInv, NEW c \in Chains, Initialize(c)
    PROVE  IInv'
<1>1. clones' = clones
    BY InitializeIsVain
<1>2. at \in Positions /\ at.i = at.feed /\ runs \in Nat
    BY DEF IInv, Typed, IndexInStep
<1> QED
    BY <1>1, <1>2, QuietKeeps DEF Initialize, scriptVars, IInv, Typed

\* The nonces move on by one.
LEMMA NonceKeeps ==
    ASSUME IInv, NEW c \in Chains, NEW succeeded \in BOOLEAN,
           mempool[c] # <<>>,
           mempool' = [mempool EXCEPT ![c] = Tail(@)],
           mined' = [mined EXCEPT ![c] = Append(@, succeeded)],
           UNCHANGED <<family, scriptVars, printed, config>>
    PROVE  /\ mempool' \in [Chains -> Seq(Transactions)]
           /\ mined' \in [Chains -> Seq(BOOLEAN)]
           /\ \A d \in Chains :
                  /\ Len(mined'[d]) \in Nat /\ Len(mined[d]) \in Nat
                  /\ Len(mined'[d]) = IF d = c THEN Len(mined[d]) + 1 ELSE Len(mined[d])
           /\ AddressesPrinted' /\ SentLater' /\ SentAsListed' /\ IndexInStep'
<1>1. /\ mempool \in [Chains -> Seq(Transactions)] /\ mined \in [Chains -> Seq(BOOLEAN)]
      /\ mempool[c] \in Seq(Transactions) /\ mined[c] \in Seq(BOOLEAN)
    BY DEF IInv, Typed
<1>2. /\ Tail(mempool[c]) \in Seq(Transactions)
      /\ Len(mempool[c]) \in Nat /\ Len(mempool[c]) >= 1
      /\ Len(Tail(mempool[c])) = Len(mempool[c]) - 1
      /\ \A i \in 1 .. Len(Tail(mempool[c])) :
             i + 1 \in 1 .. Len(mempool[c]) /\ Tail(mempool[c])[i] = mempool[c][i + 1]
    BY <1>1, FirstAndRest
<1>3. Append(mined[c], succeeded) \in Seq(BOOLEAN) /\ Len(Append(mined[c], succeeded)) = Len(mined[c]) + 1
    BY <1>1, LastOne
<1>4. /\ mempool' \in [Chains -> Seq(Transactions)] /\ mined' \in [Chains -> Seq(BOOLEAN)]
      /\ mempool'[c] = Tail(mempool[c]) /\ mined'[c] = Append(mined[c], succeeded)
      /\ \A d \in Chains : d # c => mempool'[d] = mempool[d] /\ mined'[d] = mined[d]
    BY <1>1, <1>2, <1>3
<1>5. \A d \in Chains :
         /\ Len(mined'[d]) \in Nat /\ Len(mined[d]) \in Nat
         /\ Len(mined'[d]) = IF d = c THEN Len(mined[d]) + 1 ELSE Len(mined[d])
    BY <1>1, <1>3, <1>4
<1>6. AddressesPrinted'
    <2> SUFFICES ASSUME NEW d \in Chains
                 PROVE  /\ printed[d].implementation < Len(mined'[d]) + Len(mempool'[d])
                        /\ config[d].implementation < Len(mined'[d]) + Len(mempool'[d])
        BY DEF AddressesPrinted
    <2>1. Len(mined'[d]) + Len(mempool'[d]) = Len(mined[d]) + Len(mempool[d])
        <3>1. CASE d = c
            <4>1. PICK m \in Nat, n \in Nat : m = Len(mined[c]) /\ n = Len(mempool[c])
                BY <1>2, <1>5
            <4>2. Len(mined'[c]) = m + 1 /\ Len(mempool'[c]) = n - 1
                BY <1>2, <1>4, <1>5, <4>1
            <4>3. (m + 1) + (n - 1) = m + n
                OBVIOUS
            <4>4. Len(mined'[c]) + Len(mempool'[c]) = Len(mined[c]) + Len(mempool[c])
                BY <4>1, <4>2, <4>3
            <4> QED
                BY <3>1, <4>4
        <3>2. CASE d # c
            BY <1>4, <3>2
        <3> QED
            BY <3>1, <3>2
    <2> QED
        BY <2>1 DEF IInv, AddressesPrinted
<1>7. SentLater'
    <2> SUFFICES ASSUME NEW d \in Chains, NEW i \in 1 .. Len(mempool'[d]),
                        mempool'[d][i].kind # "create"
                 PROVE  mempool'[d][i].implementation < Len(mined'[d]) + i - 1
        BY DEF SentLater
    <2>1. CASE d = c
        <3>1. i + 1 \in 1 .. Len(mempool[c]) /\ mempool'[c][i] = mempool[c][i + 1]
            BY <1>2, <1>4, <2>1
        <3>2. mempool'[c][i].implementation < Len(mined[c]) + (i + 1) - 1
            BY <2>1, <3>1 DEF IInv, SentLater
        <3>3. Len(mined[c]) + (i + 1) - 1 = Len(mined'[c]) + i - 1
            <4>1. PICK m \in Nat : m = Len(mined[c])
                BY <1>5
            <4>2. Len(mined'[c]) = m + 1 /\ i \in Int
                BY <1>5, <4>1
            <4> QED
                BY <4>1, <4>2
        <3> QED
            BY <2>1, <3>2, <3>3
    <2>2. CASE d # c
        BY <1>4, <2>2 DEF IInv, SentLater
    <2> QED
        BY <2>1, <2>2
<1>8. SentAsListed'
    <2>1. ASSUME NEW d \in Chains, NEW i \in 1 .. Len(mempool'[d]),
                 mempool'[d][i].kind = "create"
          PROVE  Listed(family, mempool'[d][i].name, mempool'[d][i].vault)
        <3>1. CASE d = c
            BY <1>2, <1>4, <2>1, <3>1 DEF IInv, SentAsListed
        <3>2. CASE d # c
            BY <1>4, <2>1, <3>2 DEF IInv, SentAsListed
        <3> QED
            BY <3>1, <3>2
    <2>2. family' = family
        OBVIOUS
    <2> QED
        BY <2>1, <2>2 DEF SentAsListed
<1> QED
    BY <1>4, <1>5, <1>6, <1>7, <1>8 DEF IInv, IndexInStep, scriptVars

\* What has been mined stays behind the nonce.
LEMMA StaysBehind ==
    ASSUME IInv, NEW d \in Chains, NEW n \in Nat, Len(mined[d]) \in Nat, Len(mined[d]) <= n
    PROVE  /\ \A contract \in contracts[d] : contract.at < n /\ contract.implementation < n
           /\ \A k \in 1 .. Len(clones[d]) : clones[d][k].implementation < n
<1>1. PICK m \in Nat : m = Len(mined[d]) /\ m <= n
    OBVIOUS
<1>2. ASSUME NEW contract \in contracts[d]
      PROVE  contract.at < n /\ contract.implementation < n
    <2>1. /\ contract.at < m /\ contract.implementation < m
          /\ contract.at \in Int /\ contract.implementation \in Int
        BY <1>1 DEF IInv, MinedLater, Typed, Deployed
    <2> QED
        BY <1>1, <2>1
<1>3. ASSUME NEW k \in 1 .. Len(clones[d])
      PROVE  clones[d][k].implementation < n
    <2>1. clones[d] \in Seq(Clones)
        BY DEF IInv, Typed
    <2>2. clones[d][k] \in Clones
        BY <2>1
    <2>3. clones[d][k].implementation < m /\ clones[d][k].implementation \in Int
        BY <1>1, <2>2 DEF IInv, MinedLater, Clones
    <2> QED
        BY <1>1, <2>3
<1> QED
    BY <1>2, <1>3

\* A contract's address is the nonce it is mined with.
LEMMA DeploymentKeeps ==
    ASSUME IInv, NEW c \in Chains, NEW tx \in Transactions, MineDeployment(c, tx),
           tx.implementation < Len(mined[c]),
           \A d \in Chains :
               /\ Len(mined'[d]) \in Nat /\ Len(mined[d]) \in Nat
               /\ Len(mined'[d]) = IF d = c THEN Len(mined[d]) + 1 ELSE Len(mined[d]),
           family' = family
    PROVE  /\ contracts' \in [Chains -> SUBSET Deployed]
           /\ clones' = clones
           /\ MinedLater' /\ ImplementedMeansInitialized' /\ NamesKeepTheirVaults'
<1> DEFINE new == [at |-> Len(mined[c]), kind |-> tx.kind, implementation |-> tx.implementation]
<1>1. new \in Deployed /\ new.at = Len(mined[c]) /\ new.implementation < Len(mined[c])
    <2>1. tx.kind \in {"implementation", "factory"} /\ tx.implementation \in Int
        BY DEF MineDeployment, Transactions
    <2> QED
        BY <2>1 DEF Deployed
<1>2. contracts' = [contracts EXCEPT ![c] = @ \cup {new}] /\ clones' = clones
    BY DEF MineDeployment
<1> HIDE DEF new
<1>3. contracts' \in [Chains -> SUBSET Deployed]
    BY <1>1, <1>2 DEF IInv, Typed
<1>4. \A d \in Chains : \A contract \in contracts'[d] :
          contract \in contracts[d] \/ (d = c /\ contract = new)
    BY <1>2 DEF IInv, Typed
<1>5. MinedLater'
    <2> SUFFICES ASSUME NEW d \in Chains
                 PROVE  /\ \A contract \in contracts'[d] :
                               /\ contract.at < Len(mined'[d])
                               /\ contract.implementation < Len(mined'[d])
                        /\ \A k \in 1 .. Len(clones[d]) :
                               clones[d][k].implementation < Len(mined'[d])
        BY <1>2 DEF MinedLater
    <2>1. PICK m \in Nat, n \in Nat :
              m = Len(mined[d]) /\ n = Len(mined'[d]) /\ n = IF d = c THEN m + 1 ELSE m
        OBVIOUS
    <2>2. m <= n
        BY <2>1
    <2>3. /\ \A contract \in contracts[d] : contract.at < n /\ contract.implementation < n
          /\ \A k \in 1 .. Len(clones[d]) : clones[d][k].implementation < n
        BY <2>1, <2>2, StaysBehind
    <2>4. ASSUME d = c
          PROVE  new.at < n /\ new.implementation < n
        <3>1. n = m + 1 /\ new.at = m /\ new.implementation < m /\ new.implementation \in Int
            BY <1>1, <2>1, <2>4 DEF Deployed
        <3> QED
            BY <3>1
    <2> QED
        BY <1>4, <2>1, <2>3, <2>4
<1>6. ImplementedMeansInitialized'
    <2> SUFFICES ASSUME NEW d \in Chains, NEW k \in DOMAIN clones[d],
                        NEW contract \in contracts'[d],
                        contract.at = clones[d][k].implementation
                 PROVE  clones[d][k].name # NoName
        BY <1>2 DEF ImplementedMeansInitialized, HasCode
    <2>1. CASE contract \in contracts[d]
        BY <2>1 DEF IInv, ImplementedMeansInitialized, HasCode
    <2>2. CASE d = c /\ contract = new
        <3>1. clones[c] \in Seq(Clones)
            BY DEF IInv, Typed
        <3>2. k \in 1 .. Len(clones[c]) /\ clones[c][k].implementation = Len(mined[c])
            BY <1>1, <2>2, <3>1
        <3>3. Len(mined[c]) < Len(mined[c])
            BY <3>2 DEF IInv, MinedLater
        <3> QED
            BY <3>3
    <2> QED
        BY <1>4, <2>1, <2>2
<1>7. NamesKeepTheirVaults'
    BY <1>2 DEF IInv, NamesKeepTheirVaults
<1> QED
    BY <1>2, <1>3, <1>5, <1>6, <1>7

\* The factory makes the clone and initializes it; an implementation that has
\* no code then has missed its nonce.
LEMMA CreateKeeps ==
    ASSUME IInv, NEW c \in Chains, NEW tx \in Transactions, MineCreate(c, tx),
           Listed(family, tx.name, tx.vault),
           \A d \in Chains :
               /\ Len(mined'[d]) \in Nat /\ Len(mined[d]) \in Nat
               /\ Len(mined'[d]) = IF d = c THEN Len(mined[d]) + 1 ELSE Len(mined[d]),
           family' = family
    PROVE  /\ clones' \in [Chains -> Seq(Clones)]
           /\ contracts' = contracts
           /\ MinedLater' /\ ImplementedMeansInitialized' /\ NamesKeepTheirVaults'
<1>0. contracts' = contracts /\ clones \in [Chains -> Seq(Clones)]
    BY DEF MineCreate, IInv, Typed
<1>1. \/ clones' = clones
      \/ \E factory \in contracts[c] :
             clones' = [clones EXCEPT ![c] = Append(@, Cloned(c, factory, tx))]
    BY DEF MineCreate
<1>2. tx.name \in Range(Names) /\ tx.vault \in Range(Vaults) \cup {NoVault} /\ tx.run \in Nat
    BY DEF MineCreate, Transactions
<1>3. ASSUME NEW d \in Chains
      PROVE  /\ \A contract \in contracts[d] :
                    contract.at < Len(mined'[d]) /\ contract.implementation < Len(mined'[d])
             /\ \A k \in 1 .. Len(clones[d]) : clones[d][k].implementation < Len(mined'[d])
    <2>1. PICK m \in Nat, n \in Nat :
              m = Len(mined[d]) /\ n = Len(mined'[d]) /\ n = IF d = c THEN m + 1 ELSE m
        OBVIOUS
    <2>2. m <= n
        BY <2>1
    <2> QED
        BY <2>1, <2>2, StaysBehind
<1>4. CASE clones' = clones
    <2>1. MinedLater'
        BY <1>0, <1>3, <1>4 DEF MinedLater
    <2>2. ImplementedMeansInitialized' /\ NamesKeepTheirVaults'
        BY <1>0, <1>4 DEF IInv, ImplementedMeansInitialized, NamesKeepTheirVaults, HasCode
    <2> QED
        BY <1>0, <1>4, <2>1, <2>2
<1>5. ASSUME NEW factory \in contracts[c],
             clones' = [clones EXCEPT ![c] = Append(@, Cloned(c, factory, tx))]
      PROVE  /\ clones' \in [Chains -> Seq(Clones)]
             /\ MinedLater' /\ ImplementedMeansInitialized' /\ NamesKeepTheirVaults'
    <2>1. PICK new \in Clones :
              /\ new = Cloned(c, factory, tx)
              /\ new.implementation = factory.implementation
              /\ HasCode(c, new.implementation) => new.name # NoName
              /\ new.name # NoName => new.name = tx.name /\ new.vault = tx.vault
        <3>1. factory.implementation \in Int
            BY DEF IInv, Typed, Deployed
        <3>2. NoName \notin Range(Names)
            BY DeploymentAssumption
        <3>3. Cloned(c, factory, tx) \in Clones
            BY <1>2, <3>1 DEF Cloned, Initialized, NewClone, Clones
        <3> QED
            BY <1>2, <3>2, <3>3 DEF Cloned, Initialized, NewClone
    <2>2. /\ clones' \in [Chains -> Seq(Clones)]
          /\ clones'[c] = Append(clones[c], new)
          /\ \A d \in Chains : d # c => clones'[d] = clones[d]
        <3>1. Append(clones[c], new) \in Seq(Clones)
            BY <1>0, LastOne
        <3> QED
            BY <1>0, <1>5, <2>1, <3>1
    <2>3. ASSUME NEW d \in Chains, NEW k \in DOMAIN clones'[d]
          PROVE  \/ k \in 1 .. Len(clones[d]) /\ clones'[d][k] = clones[d][k]
                 \/ d = c /\ clones'[d][k] = new
        <3>1. CASE d = c
            <4>1. clones[c] \in Seq(Clones) /\ clones'[c] \in Seq(Clones)
                BY <1>0, <2>2
            <4>2. k \in 1 .. Len(clones'[c])
                BY <2>3, <3>1, <4>1
            <4>3. k \in 1 .. Len(Append(clones[c], new))
                BY <2>2, <4>2
            <4> QED
                BY <2>2, <3>1, <4>1, <4>3, LastOne
        <3>2. CASE d # c
            <4>1. clones[d] \in Seq(Clones) /\ clones'[d] = clones[d]
                BY <1>0, <2>2, <3>2
            <4> QED
                BY <2>3, <4>1
        <3> QED
            BY <3>1, <3>2
    <2>4. \A d \in Chains : DOMAIN clones'[d] = 1 .. Len(clones'[d])
        BY <2>2
    <2>5. \A d \in Chains : DOMAIN clones[d] = 1 .. Len(clones[d])
        BY <1>0
    <2>6. MinedLater'
        <3> SUFFICES ASSUME NEW d \in Chains
                     PROVE  \A k \in 1 .. Len(clones'[d]) :
                                clones'[d][k].implementation < Len(mined'[d])
            BY <1>0, <1>3 DEF MinedLater
        <3> SUFFICES ASSUME NEW k \in DOMAIN clones'[d]
                     PROVE  clones'[d][k].implementation < Len(mined'[d])
            BY <2>4
        <3>1. CASE k \in 1 .. Len(clones[d]) /\ clones'[d][k] = clones[d][k]
            BY <1>3, <3>1
        <3>2. CASE d = c /\ clones'[d][k] = new
            BY <1>3, <2>1, <3>2
        <3> QED
            BY <2>3, <3>1, <3>2
    <2>7. ImplementedMeansInitialized'
        <3> SUFFICES ASSUME NEW d \in Chains, NEW k \in DOMAIN clones'[d],
                            HasCode(d, clones'[d][k].implementation)
                     PROVE  clones'[d][k].name # NoName
            BY <1>0 DEF ImplementedMeansInitialized, HasCode
        <3>1. CASE k \in 1 .. Len(clones[d]) /\ clones'[d][k] = clones[d][k]
            BY <2>5, <3>1 DEF IInv, ImplementedMeansInitialized
        <3>2. CASE d = c /\ clones'[d][k] = new
            BY <2>1, <3>2
        <3> QED
            BY <2>3, <3>1, <3>2
    <2>8. NamesKeepTheirVaults'
        <3> SUFFICES ASSUME NEW d \in Chains, NEW k \in DOMAIN clones'[d],
                            clones'[d][k].name # NoName
                     PROVE  Listed(family, clones'[d][k].name, clones'[d][k].vault)
            BY DEF NamesKeepTheirVaults, Listed
        <3>1. CASE k \in 1 .. Len(clones[d]) /\ clones'[d][k] = clones[d][k]
            BY <2>5, <3>1 DEF IInv, NamesKeepTheirVaults, Listed
        <3>2. CASE d = c /\ clones'[d][k] = new
            BY <2>1, <3>2
        <3> QED
            BY <2>3, <3>1, <3>2
    <2> QED
        BY <2>2, <2>6, <2>7, <2>8
<1> QED
    BY <1>0, <1>1, <1>4, <1>5

LEMMA MineKeeps ==
    ASSUME IInv, NEW c \in Chains, Mine(c)
    PROVE  IInv'
<1>1. /\ mempool[c] # <<>> /\ mempool[c] \in Seq(Transactions)
      /\ mempool' = [mempool EXCEPT ![c] = Tail(@)]
      /\ UNCHANGED <<family, scriptVars, printed, config>>
    BY DEF Mine, IInv, Typed
<1>2. PICK tx \in Transactions : tx = Head(mempool[c]) /\ tx = mempool[c][1] /\ 1 \in 1 .. Len(mempool[c])
    BY <1>1, FirstAndRest
<1>3. PICK succeeded \in BOOLEAN :
          /\ mined' = [mined EXCEPT ![c] = Append(@, succeeded)]
          /\ succeeded => MineDeployment(c, tx) \/ MineCreate(c, tx)
          /\ ~succeeded => UNCHANGED <<contracts, clones>>
    BY <1>2 DEF Mine, MineFails
<1>4. /\ mempool' \in [Chains -> Seq(Transactions)]
      /\ mined' \in [Chains -> Seq(BOOLEAN)]
      /\ \A d \in Chains :
             /\ Len(mined'[d]) \in Nat /\ Len(mined[d]) \in Nat
             /\ Len(mined'[d]) = IF d = c THEN Len(mined[d]) + 1 ELSE Len(mined[d])
      /\ AddressesPrinted' /\ SentLater' /\ SentAsListed' /\ IndexInStep'
    BY <1>1, <1>3, NonceKeeps
<1>5. /\ contracts' \in [Chains -> SUBSET Deployed] /\ clones' \in [Chains -> Seq(Clones)]
      /\ MinedLater' /\ ImplementedMeansInitialized' /\ NamesKeepTheirVaults'
    <2>0. /\ contracts \in [Chains -> SUBSET Deployed] /\ clones \in [Chains -> Seq(Clones)]
        BY DEF IInv, Typed
    <2>1. CASE MineDeployment(c, tx)
        <3>1. tx.implementation < Len(mined[c])
            <4>1. tx.implementation < Len(mined[c]) + 1 - 1
                BY <1>2, <2>1 DEF MineDeployment, IInv, SentLater
            <4>2. Len(mined[c]) + 1 - 1 = Len(mined[c])
                BY <1>4
            <4> QED
                BY <4>1, <4>2
        <3> QED
            BY <1>1, <1>4, <2>0, <2>1, <3>1, DeploymentKeeps
    <2>2. CASE MineCreate(c, tx)
        <3>1. Listed(family, tx.name, tx.vault)
            BY <1>2, <2>2 DEF MineCreate, IInv, SentAsListed
        <3> QED
            BY <1>1, <1>4, <2>0, <2>2, <3>1, CreateKeeps
    <2>3. CASE UNCHANGED <<contracts, clones>>
        <3>1. MinedLater'
            <4> SUFFICES ASSUME NEW d \in Chains
                         PROVE  /\ \A contract \in contracts[d] :
                                       /\ contract.at < Len(mined'[d])
                                       /\ contract.implementation < Len(mined'[d])
                                /\ \A k \in 1 .. Len(clones[d]) :
                                       clones[d][k].implementation < Len(mined'[d])
                BY <2>3 DEF MinedLater
            <4>1. PICK m \in Nat, n \in Nat :
                      m = Len(mined[d]) /\ n = Len(mined'[d]) /\ n = IF d = c THEN m + 1 ELSE m
                BY <1>4
            <4>2. m <= n
                BY <4>1
            <4> QED
                BY <4>1, <4>2, StaysBehind
        <3>2. ImplementedMeansInitialized' /\ NamesKeepTheirVaults'
            BY <1>1, <2>3 DEF IInv, ImplementedMeansInitialized, NamesKeepTheirVaults, HasCode
        <3> QED
            BY <2>0, <2>3, <3>1, <3>2
    <2> QED
        BY <1>3, <2>1, <2>2, <2>3
<1>6. Typed'
    BY <1>1, <1>4, <1>5 DEF IInv, Typed, scriptVars
<1> QED
    BY <1>4, <1>5, <1>6 DEF IInv

(***************************************************************************)
(* The theorems.                                                           *)
(***************************************************************************)

LEMMA NextKeepsIInv == IInv /\ [Next]_vars => IInv'
<1> SUFFICES ASSUME IInv, [Next]_vars PROVE IInv'
    OBVIOUS
<1>1. CASE UNCHANGED vars
    <2>1. at \in Positions /\ at.i = at.feed /\ runs \in Nat
          /\ config \in [Chains -> [implementation : Int, factory : Int]]
        BY DEF IInv, Typed, IndexInStep
    <2> QED
        BY <1>1, <2>1, QuietKeeps DEF vars, scriptVars, chainVars
<1> QED
    BY <1>1, ScriptKeeps, MineKeeps, InitializeKeeps DEF Next

LEMMA Invariance == Spec => []IInv
BY InitIInv, NextKeepsIInv, PTL DEF Spec

\* A feed has the vault listed beside its name, however many feeds before it
\* failed (createMellowPriceFeeds.ts:36-52), for any lists and chains.
THEOREM NamesAlwaysKeepTheirVaults == Spec => []NamesKeepTheirVaults
<1>1. IInv => NamesKeepTheirVaults
    BY DEF IInv
<1> QED
    BY Invariance, <1>1, PTL

\* Although no deployment is waited for, nonces see to it that a clone whose
\* implementation is ever deployed has been initialized
\* (deployCloneFactory.ts:28-30, CloneFactory.sol:26-31).
THEOREM ImplementedAlwaysInitialized == Spec => []ImplementedMeansInitialized
<1>1. IInv => ImplementedMeansInitialized
    BY DEF IInv
<1> QED
    BY Invariance, <1>1, PTL

(***************************************************************************)
(* A second layer, on top of IInv: what the scripts have printed, sent and *)
(* completed.                                                              *)
(***************************************************************************)

\* The wallet's next nonce on a chain.
Sent(c) == Len(mined[c]) + Len(mempool[c])

ControlTyped ==
    /\ family \in {"named", "vault"}
    /\ script \in {"none", "implementation", "factory", "create"}
    /\ pc \in {"balance", "work", "wait", "done", "aborted"}
    /\ pc = "wait" => script = "create"
    /\ reported \in BOOLEAN
    /\ runs <= MaxRuns

\* An address that is not Unset comes from a nonce that has been used.
Known(c, address) == Unset <= address /\ address < Sent(c)

AddressesKnown ==
    \A c \in Chains : /\ Known(c, printed[c].implementation) /\ Known(c, printed[c].factory)
                      /\ Known(c, config[c].implementation) /\ Known(c, config[c].factory)

\* What has been or will be deployed at an address, if anything, is a factory
\* with an implementation.
MakesClones(c, address) ==
    /\ \A contract \in contracts[c] : contract.at = address => 0 <= contract.implementation
    /\ \A i \in 1 .. Len(mempool[c]) :
          Len(mined[c]) + i - 1 = address /\ mempool[c][i].kind # "create" =>
              0 <= mempool[c][i].implementation

FactoriesMakeClones ==
    \A c \in Chains :
        /\ MakesClones(c, printed[c].factory) /\ MakesClones(c, config[c].factory)
        /\ \A i \in 1 .. Len(mempool[c]) : mempool[c][i].kind = "create" =>
              /\ MakesClones(c, mempool[c][i].factory)
              /\ mempool[c][i].factory < Len(mined[c]) + i - 1
        /\ \A k \in 1 .. Len(clones[c]) : 0 <= clones[c][k].implementation

\* A nonce deploys one contract at most, and only when it succeeds.
OneContractEach ==
    \A c \in Chains : \A one \in contracts[c] :
        /\ mined[c][one.at + 1]
        /\ \A other \in contracts[c] : one.at = other.at => one = other

\* No run sends a chain more transactions than there are feeds.
SentInRun(j) ==
    IF j = at.chain THEN at.feed - 1 + (IF pc = "wait" THEN 1 ELSE 0) ELSE 0

SendsBounded ==
    \A j \in DOMAIN ChainOrder :
        /\ Sent(ChainOrder[j]) <= runs * Len(Names)
        /\ Running /\ at.chain <= j =>
              Sent(ChainOrder[j]) + Len(Names) <= runs * Len(Names) + SentInRun(j)

\* The feed is made, unless no factory or implementation is deployed; which
\* of the two holds is settled.
Settled(c, address, name, run) ==
    /\ address < Len(mined[c])
    /\ \A factory \in contracts[c] :
          factory.at = address /\ HasCode(c, factory.implementation) =>
              \E k \in 1 .. Len(clones[c]) :
                  clones[c][k].run = run /\ clones[c][k].name = name

Ours(tx) ==
    /\ tx.kind = "create" /\ tx.factory = config[Here].factory
    /\ tx.name = Names[at.feed] /\ tx.run = runs

\* The script waits for a transaction of its own: the wallet's last.
WaitsForOwn ==
    pc = "wait" =>
        IF mempool[Here] # <<>> THEN Ours(mempool[Here][Len(mempool[Here])])
        ELSE /\ mined[Here] # <<>>
             /\ mined[Here][Len(mined[Here])] =>
                    Settled(Here, config[Here].factory, Names[at.feed], runs)

Behind(j, n) == pc = "done" \/ j < at.chain \/ (j = at.chain /\ n < at.feed)

BehindIsSettled ==
    script = "create" /\ ~reported =>
        \A j \in DOMAIN ChainOrder, n \in DOMAIN Names : Behind(j, n) =>
            Settled(ChainOrder[j], config[ChainOrder[j]].factory, Names[n], runs)

CInv ==
    /\ ControlTyped
    /\ AddressesKnown
    /\ FactoriesMakeClones
    /\ OneContractEach
    /\ SendsBounded
    /\ WaitsForOwn
    /\ BehindIsSettled

LEMMA ChainsListed ==
    /\ \A j \in DOMAIN ChainOrder : ChainOrder[j] \in Chains
    /\ \A c \in Chains : \E j \in DOMAIN ChainOrder : c = ChainOrder[j]
    /\ \A i, j \in DOMAIN ChainOrder : ChainOrder[i] = ChainOrder[j] => i = j
BY DeploymentAssumption DEF Chains, IsInjective, Range

LEMMA InitCInv == Init => CInv
<1> SUFFICES ASSUME Init PROVE CInv
    OBVIOUS
<1>1. \A c \in Chains :
         /\ Len(mined[c]) = 0 /\ Len(mempool[c]) = 0 /\ Len(clones[c]) = 0
         /\ contracts[c] = {}
         /\ printed[c] = Unprinted /\ config[c] = Unprinted
    BY DEF Init
<1>2. ASSUME NEW c \in Chains
      PROVE  Sent(c) = 0
    <2>1. Len(mined[c]) = 0 /\ Len(mempool[c]) = 0
        BY <1>1
    <2> QED
        BY <2>1 DEF Sent
<1>3. ControlTyped
    <2>1. runs = 0 /\ MaxRuns \in Nat
        BY DeploymentAssumption DEF Init
    <2>2. runs <= MaxRuns
        BY <2>1
    <2> QED
        BY <2>2 DEF Init, ControlTyped
<1>4. AddressesKnown
    BY <1>1, <1>2 DEF AddressesKnown, Known, Unprinted, Unset
<1>5. FactoriesMakeClones
    BY <1>1 DEF FactoriesMakeClones, MakesClones
<1>6. OneContractEach
    BY <1>1 DEF OneContractEach
<1>7. SendsBounded
    BY <1>2, Lists, ChainsListed DEF Init, SendsBounded, Running
<1>8. WaitsForOwn /\ BehindIsSettled
    BY DEF Init, WaitsForOwn, BehindIsSettled
<1> QED
    BY <1>3, <1>4, <1>5, <1>6, <1>7, <1>8 DEF CInv

(***************************************************************************)
(* What holds between two states once the chains have moved on, or not.    *)
(***************************************************************************)

\* On a chain that has mined no less than before: contracts come only at
\* nonces mined since, and the clones made stay.
GrowsAt(c) ==
    /\ Len(mined[c]) <= Len(mined'[c])
    /\ \A contract \in contracts'[c] : contract \in contracts[c] \/ Len(mined[c]) <= contract.at
    /\ \A k \in 1 .. Len(clones[c]) :
          k \in 1 .. Len(clones'[c]) /\ clones'[c][k] = clones[c][k]

LEMMA SettledStays ==
    ASSUME IInv, NEW c \in Chains, GrowsAt(c), Len(mined'[c]) \in Nat,
           NEW address \in Int, NEW name, NEW run, Settled(c, address, name, run)
    PROVE  Settled(c, address, name, run)'
<1>1. PICK m \in Nat, n \in Nat :
          m = Len(mined[c]) /\ n = Len(mined'[c]) /\ m <= n /\ address < m
    BY DEF IInv, Typed, GrowsAt, Settled
<1>2. address < n
    BY <1>1
<1>3. ASSUME NEW factory \in contracts'[c], factory.at = address,
             HasCode(c, factory.implementation)'
      PROVE  \E k \in 1 .. Len(clones'[c]) :
                 clones'[c][k].run = run /\ clones'[c][k].name = name
    <2>1. factory \in contracts[c]
        BY <1>1, <1>3 DEF GrowsAt
    <2>2. factory.implementation < m /\ factory.implementation \in Int
        BY <1>1, <2>1 DEF IInv, MinedLater, Typed, Deployed
    <2>3. PICK contract \in contracts'[c] : contract.at = factory.implementation
        BY <1>3 DEF HasCode
    <2>4. contract \in contracts[c]
        BY <1>1, <2>2, <2>3 DEF GrowsAt
    <2>5. HasCode(c, factory.implementation)
        BY <2>3, <2>4 DEF HasCode
    <2>6. PICK k \in 1 .. Len(clones[c]) :
              clones[c][k].run = run /\ clones[c][k].name = name
        BY <1>3, <2>1, <2>5 DEF Settled
    <2> QED
        BY <2>6 DEF GrowsAt
<1> QED
    BY <1>1, <1>2, <1>3 DEF Settled

LEMMA MineShape ==
    ASSUME IInv, NEW c \in Chains, Mine(c)
    PROVE  /\ UNCHANGED <<family, script, pc, at, reported, runs, printed, config>>
           /\ \A d \in Chains : d # c =>
                 /\ mempool'[d] = mempool[d] /\ mined'[d] = mined[d]
                 /\ contracts'[d] = contracts[d] /\ clones'[d] = clones[d]
           /\ Len(mempool[c]) \in Nat /\ Len(mempool[c]) >= 1
           /\ Len(mempool'[c]) \in Nat /\ Len(mempool'[c]) = Len(mempool[c]) - 1
           /\ \A i \in 1 .. Len(mempool'[c]) :
                 i + 1 \in 1 .. Len(mempool[c]) /\ mempool'[c][i] = mempool[c][i + 1]
           /\ Len(mined[c]) \in Nat /\ Len(mined'[c]) = Len(mined[c]) + 1
           /\ \A i \in 1 .. Len(mined[c]) : mined'[c][i] = mined[c][i]
           /\ mempool[c][1] \in Transactions
           /\ \/ /\ mined'[c][Len(mined[c]) + 1] = TRUE
                 /\ MineDeployment(c, mempool[c][1]) \/ MineCreate(c, mempool[c][1])
              \/ /\ mined'[c][Len(mined[c]) + 1] = FALSE
                 /\ UNCHANGED <<contracts, clones>>
<1>1. /\ mempool[c] # <<>> /\ mempool[c] \in Seq(Transactions)
      /\ mempool \in [Chains -> Seq(Transactions)]
      /\ mined \in [Chains -> Seq(BOOLEAN)] /\ mined[c] \in Seq(BOOLEAN)
      /\ contracts \in [Chains -> SUBSET Deployed] /\ clones \in [Chains -> Seq(Clones)]
      /\ mempool' = [mempool EXCEPT ![c] = Tail(@)]
      /\ UNCHANGED <<family, script, pc, at, reported, runs, printed, config>>
    BY DEF Mine, IInv, Typed, scriptVars
<1>2. PICK succeeded \in BOOLEAN :
          /\ mined' = [mined EXCEPT ![c] = Append(@, succeeded)]
          /\ succeeded =>
                 MineDeployment(c, Head(mempool[c])) \/ MineCreate(c, Head(mempool[c]))
          /\ ~succeeded => UNCHANGED <<contracts, clones>>
    BY DEF Mine, MineFails
<1>3. /\ Head(mempool[c]) = mempool[c][1] /\ mempool[c][1] \in Transactions
      /\ Len(mempool[c]) \in Nat /\ Len(mempool[c]) >= 1
      /\ mempool'[c] \in Seq(Transactions)
      /\ Len(mempool'[c]) = Len(mempool[c]) - 1
      /\ \A i \in 1 .. Len(mempool'[c]) :
            i + 1 \in 1 .. Len(mempool[c]) /\ mempool'[c][i] = mempool[c][i + 1]
    BY <1>1, FirstAndRest
<1>4. /\ mined'[c] = Append(mined[c], succeeded)
      /\ \A d \in Chains : d # c => mempool'[d] = mempool[d] /\ mined'[d] = mined[d]
    BY <1>1, <1>2
<1>5. /\ Len(mined[c]) \in Nat /\ Len(mined'[c]) = Len(mined[c]) + 1
      /\ mined'[c][Len(mined[c]) + 1] = succeeded
      /\ \A i \in 1 .. Len(mined[c]) : mined'[c][i] = mined[c][i]
    BY <1>1, <1>4, LastOne
<1>6. \A d \in Chains : d # c => contracts'[d] = contracts[d] /\ clones'[d] = clones[d]
    BY <1>1, <1>2 DEF MineDeployment, MineCreate
<1>7. Len(mempool'[c]) \in Nat
    BY <1>3
<1> QED
    BY <1>1, <1>2, <1>3, <1>4, <1>5, <1>6, <1>7

LEMMA MinedGrows ==
    ASSUME IInv, NEW c \in Chains, Mine(c), NEW d \in Chains
    PROVE  GrowsAt(d) /\ Len(mined'[d]) \in Nat
<1>1. /\ clones[d] \in Seq(Clones) /\ Len(mined[d]) \in Nat
      /\ contracts \in [Chains -> SUBSET Deployed] /\ clones \in [Chains -> Seq(Clones)]
    BY DEF IInv, Typed
<1>2. CASE d # c
    <2>1. mined'[d] = mined[d] /\ contracts'[d] = contracts[d] /\ clones'[d] = clones[d]
        BY <1>2, MineShape
    <2>2. Len(mined[d]) <= Len(mined[d])
        BY <1>1
    <2> QED
        BY <1>1, <2>1, <2>2 DEF GrowsAt
<1>3. CASE d = c
    <2>1. PICK m \in Nat : m = Len(mined[c]) /\ Len(mined'[c]) = m + 1
        BY <1>1, <1>3, MineShape
    <2>2. \A contract \in contracts'[c] : contract \in contracts[c] \/ m <= contract.at
        <3>1. CASE MineDeployment(c, mempool[c][1])
            BY <1>1, <2>1, <3>1 DEF MineDeployment
        <3>2. CASE contracts' = contracts
            BY <3>2
        <3> QED
            BY <3>1, <3>2, MineShape DEF MineCreate
    <2>3. \A k \in 1 .. Len(clones[c]) :
              k \in 1 .. Len(clones'[c]) /\ clones'[c][k] = clones[c][k]
        <3>1. CASE clones' = clones
            BY <3>1
        <3>2. ASSUME NEW factory \in contracts[c],
                     clones' = [clones EXCEPT ![c] = Append(@, Cloned(c, factory, mempool[c][1]))]
              PROVE  \A k \in 1 .. Len(clones[c]) :
                         k \in 1 .. Len(clones'[c]) /\ clones'[c][k] = clones[c][k]
            <4>1. PICK new : new = Cloned(c, factory, mempool[c][1])
                OBVIOUS
            <4>2. clones'[c] = Append(clones[c], new)
                BY <1>1, <3>2, <4>1
            <4> QED
                BY <1>1, <1>3, <4>2
        <3> QED
            BY <3>1, <3>2, MineShape DEF MineCreate, MineDeployment
    <2>4. Len(mined[c]) <= Len(mined'[c]) /\ Len(mined'[c]) \in Nat
        BY <2>1
    <2> QED
        BY <1>3, <2>1, <2>2, <2>3, <2>4 DEF GrowsAt
<1> QED
    BY <1>2, <1>3

(***************************************************************************)
(* What is deployed and where: it does not depend on where a script stands. *)
(***************************************************************************)

ChainsInv == AddressesKnown /\ FactoriesMakeClones /\ OneContractEach

LEMMA QuietKeepsChains ==
    ASSUME IInv, ChainsInv, \A c \in Chains : config'[c] \in {config[c], printed[c]},
           UNCHANGED <<printed, mempool, mined, contracts, clones>>
    PROVE  ChainsInv'
<1>1. AddressesKnown'
    BY DEF ChainsInv, AddressesKnown, Known, Sent
<1>2. FactoriesMakeClones'
    BY DEF ChainsInv, FactoriesMakeClones, MakesClones
<1>3. OneContractEach'
    BY DEF ChainsInv, OneContractEach
<1> QED
    BY <1>1, <1>2, <1>3 DEF ChainsInv

\* A transaction joins the pending ones.
Extended(c, tx) ==
    /\ Sent(c)' = Sent(c) + 1
    /\ mempool'[c] # <<>> /\ mempool'[c][Len(mempool'[c])] = tx
    /\ \A i \in 1 .. Len(mempool'[c]) :
          \/ i \in 1 .. Len(mempool[c]) /\ mempool'[c][i] = mempool[c][i]
          \/ i = Len(mempool[c]) + 1 /\ mempool'[c][i] = tx

LEMMA SendShape ==
    ASSUME IInv, NEW tx \in Transactions, NEW h \in Chains, h = Here, Send(tx), mined' = mined,
           NEW c \in Chains
    PROVE  /\ Len(mined[c]) \in Nat /\ Len(mempool[c]) \in Nat
           /\ Sent(c) \in Nat /\ Sent(c)' \in Nat /\ Sent(c) = Len(mined[c]) + Len(mempool[c])
           /\ c = h => Extended(c, tx)
           /\ c # h => Sent(c)' = Sent(c) /\ mempool'[c] = mempool[c]
<1>1. /\ mempool \in [Chains -> Seq(Transactions)] /\ mined \in [Chains -> Seq(BOOLEAN)]
      /\ mempool[c] \in Seq(Transactions)
      /\ mempool' = [mempool EXCEPT ![h] = Append(@, tx)]
    BY DEF IInv, Typed, Send
<1>2. PICK m \in Nat, n \in Nat : m = Len(mined[c]) /\ n = Len(mempool[c])
    BY <1>1
<1>3. Sent(c) = m + n
    BY <1>2 DEF Sent
<1>4. CASE c = h
    <2>1. mempool'[c] = Append(mempool[c], tx)
        BY <1>1, <1>4
    <2>2. /\ mempool'[c] \in Seq(Transactions)
          /\ Len(mempool'[c]) = n + 1
          /\ mempool'[c][n + 1] = tx
          /\ \A i \in 1 .. n : mempool'[c][i] = mempool[c][i]
          /\ \A i \in 1 .. Len(mempool'[c]) : i \in 1 .. n \/ i = n + 1
        BY <1>1, <1>2, <2>1, LastOne
    <2>3. mempool'[c] # <<>> /\ mempool'[c][Len(mempool'[c])] = tx
        BY <2>2
    <2>4. Sent(c)' = m + (n + 1)
        BY <1>2, <2>2 DEF Sent
    <2>5. m + (n + 1) = (m + n) + 1 /\ m + (n + 1) \in Nat /\ m + n \in Nat
        OBVIOUS
    <2> QED
        BY <1>2, <1>3, <1>4, <2>2, <2>3, <2>4, <2>5 DEF Extended
<1>5. CASE c # h
    <2>1. mempool'[c] = mempool[c]
        BY <1>1, <1>5
    <2>2. Len(mempool'[c]) = n /\ Len(mined'[c]) = m
        BY <1>2, <2>1
    <2>3. Sent(c)' = m + n /\ m + n \in Nat
        BY <2>2 DEF Sent
    <2> QED
        BY <1>2, <1>3, <1>5, <2>1, <2>3
<1> QED
    BY <1>4, <1>5

LEMMA SendKeepsChains ==
    ASSUME IInv, ChainsInv, NEW tx \in Transactions, NEW h \in Chains, h = Here, Send(tx),
           tx.kind = "create" => tx.factory = config[h].factory,
           printed' \in [Chains -> [implementation : Int, factory : Int]],
           \A c \in Chains :
               /\ \/ printed'[c].implementation = printed[c].implementation
                  \/ c = h /\ printed'[c].implementation = Sent(c)
               /\ \/ printed'[c].factory = printed[c].factory
                  \/ /\ c = h /\ printed'[c].factory = Sent(c)
                     /\ tx.kind # "create" /\ 0 <= tx.implementation,
           UNCHANGED <<config, mined, contracts, clones>>
    PROVE  ChainsInv'
<1>1. mined' = mined /\ contracts' = contracts /\ clones' = clones /\ config' = config
    OBVIOUS
<1>2. ASSUME NEW c \in Chains
      PROVE  /\ Len(mined[c]) \in Nat /\ Len(mempool[c]) \in Nat
             /\ Sent(c) \in Nat /\ Sent(c)' \in Nat /\ Sent(c) = Len(mined[c]) + Len(mempool[c])
             /\ c = h => Extended(c, tx)
             /\ c # h => Sent(c)' = Sent(c) /\ mempool'[c] = mempool[c]
    BY <1>1, SendShape
<1>3. \A c \in Chains : /\ printed[c] \in [implementation : Int, factory : Int]
                        /\ config[c] \in [implementation : Int, factory : Int]
    BY DEF IInv, Typed
<1>4. ASSUME NEW c \in Chains, NEW a \in Int, Known(c, a)
      PROVE  Known(c, a)'
    <2>1. PICK s \in Nat, t \in Nat : s = Sent(c) /\ t = Sent(c)'
        BY <1>2
    <2>2. t = s + 1 \/ t = s
        BY <1>2, <2>1 DEF Extended
    <2>3. s <= t
        BY <2>2
    <2> QED
        BY <1>4, <2>1, <2>3 DEF Known
<1>5. ASSUME NEW c \in Chains, c = h, NEW s \in Nat, s = Sent(c)
      PROVE  Known(c, s)'
    <2>1. Sent(c)' = s + 1
        BY <1>2, <1>5 DEF Extended
    <2>2. -1 <= s /\ s < s + 1
        OBVIOUS
    <2> QED
        BY <2>1, <2>2 DEF Known, Unset
<1>6. AddressesKnown'
    <2> SUFFICES ASSUME NEW c \in Chains
                 PROVE  /\ Known(c, printed[c].implementation)' /\ Known(c, printed[c].factory)'
                        /\ Known(c, config[c].implementation)' /\ Known(c, config[c].factory)'
        BY DEF AddressesKnown
    <2>1. PICK pi \in Int, pf \in Int, ci \in Int, cf \in Int :
              /\ pi = printed[c].implementation /\ pf = printed[c].factory
              /\ ci = config[c].implementation /\ cf = config[c].factory
        BY <1>3
    <2>2. Known(c, pi)' /\ Known(c, pf)' /\ Known(c, ci)' /\ Known(c, cf)'
        BY <1>4, <2>1 DEF ChainsInv, AddressesKnown
    <2>3. PICK s \in Nat : s = Sent(c)
        BY <1>2
    <2>4. c = h => Known(c, s)'
        BY <1>5, <2>3
    <2>5. printed'[c].implementation = pi \/ (c = h /\ printed'[c].implementation = s)
        BY <2>1, <2>3
    <2>6. printed'[c].factory = pf \/ (c = h /\ printed'[c].factory = s)
        BY <2>1, <2>3
    <2>7. config'[c].implementation = ci /\ config'[c].factory = cf
        BY <2>1
    <2> QED
        BY <2>2, <2>4, <2>5, <2>6, <2>7 DEF Known
<1>7. ASSUME NEW c \in Chains, NEW a \in Int, a < Sent(c), MakesClones(c, a)
      PROVE  MakesClones(c, a)'
    <2> SUFFICES ASSUME NEW i \in 1 .. Len(mempool'[c]),
                        Len(mined[c]) + i - 1 = a, mempool'[c][i].kind # "create"
                 PROVE  0 <= mempool'[c][i].implementation
        BY <1>7 DEF MakesClones
    <2>1. PICK m \in Nat, n \in Nat : m = Len(mined[c]) /\ n = Len(mempool[c])
        BY <1>2
    <2>2. a < m + n
        BY <1>2, <1>7, <2>1
    <2>3. m + i - 1 = a /\ i \in Int
        BY <2>1
    <2>4. i # n + 1
        BY <2>3, <2>2
    <2>5. i \in 1 .. Len(mempool[c]) /\ mempool'[c][i] = mempool[c][i]
        BY <1>2, <2>1, <2>4 DEF Extended
    <2> QED
        BY <1>7, <2>5 DEF MakesClones
<1>8. ASSUME tx.kind # "create", 0 <= tx.implementation, NEW s \in Nat, s = Sent(h)
      PROVE  MakesClones(h, s)'
    <2>1. PICK m \in Nat, n \in Nat : m = Len(mined[h]) /\ n = Len(mempool[h])
        BY <1>2
    <2>2. s = m + n
        BY <1>2, <1>8, <2>1
    <2>3. ASSUME NEW contract \in contracts[h]
          PROVE  contract.at # s
        <3>1. PICK x \in Int : x = contract.at /\ x < m
            BY <2>1 DEF IInv, MinedLater, Typed, Deployed
        <3>2. x < m + n
            BY <3>1
        <3>3. x # s
            BY <2>2, <3>2
        <3> QED
            BY <3>1, <3>3
    <2>4. ASSUME NEW i \in 1 .. Len(mempool'[h]), m + i - 1 = s
          PROVE  mempool'[h][i] = tx
        <3>1. i \in Int
            BY <1>2
        <3>2. m + i - 1 = m + n
            BY <2>4, <2>2
        <3>3. i = n + 1 /\ i \notin 1 .. n
            BY <3>1, <3>2
        <3> QED
            BY <1>2, <2>1, <3>3 DEF Extended
    <2> QED
        BY <1>8, <2>1, <2>3, <2>4 DEF MakesClones
<1>9. FactoriesMakeClones'
    <2> SUFFICES ASSUME NEW c \in Chains
                 PROVE  /\ MakesClones(c, printed[c].factory)' /\ MakesClones(c, config[c].factory)'
                        /\ \A i \in 1 .. Len(mempool'[c]) : mempool'[c][i].kind = "create" =>
                              /\ MakesClones(c, mempool[c][i].factory)'
                              /\ mempool'[c][i].factory < Len(mined[c]) + i - 1
                        /\ \A k \in 1 .. Len(clones[c]) : 0 <= clones[c][k].implementation
        BY DEF FactoriesMakeClones
    <2>1. PICK pf \in Int, cf \in Int : pf = printed[c].factory /\ cf = config[c].factory
        BY <1>3
    <2>2. PICK m \in Nat, n \in Nat, s \in Nat :
              m = Len(mined[c]) /\ n = Len(mempool[c]) /\ s = Sent(c)
        BY <1>2
    <2>3. s = m + n
        BY <1>2, <2>2
    <2>4. pf < s /\ cf < s /\ MakesClones(c, pf) /\ MakesClones(c, cf)
        BY <2>1, <2>2 DEF ChainsInv, AddressesKnown, Known, FactoriesMakeClones
    <2>5. cf < s
        BY <2>4
    <2>6. cf < m + n
        BY <2>3, <2>5
    <2>7. MakesClones(c, pf)' /\ MakesClones(c, cf)'
        BY <1>7, <2>2, <2>4
    <2>8. /\ printed'[c].factory = pf \/ (printed'[c].factory = s /\ MakesClones(c, s)')
          /\ config'[c].factory = cf
        BY <1>8, <2>1, <2>2
    <2>9. MakesClones(c, printed[c].factory)' /\ MakesClones(c, config[c].factory)'
        BY <2>7, <2>8 DEF MakesClones
    <2>10. ASSUME NEW i \in 1 .. Len(mempool'[c]), mempool'[c][i].kind = "create"
          PROVE  /\ MakesClones(c, mempool[c][i].factory)'
                 /\ mempool'[c][i].factory < Len(mined[c]) + i - 1
        <3>1. CASE i \in 1 .. Len(mempool[c]) /\ mempool'[c][i] = mempool[c][i]
            <4>1. mempool[c] \in Seq(Transactions)
                BY DEF IInv, Typed
            <4>2. mempool[c][i] \in Transactions
                BY <3>1, <4>1
            <4>3. PICK a \in Int : a = mempool[c][i].factory
                BY <2>10, <3>1, <4>2 DEF Transactions
            <4>4. MakesClones(c, a) /\ a < m + i - 1
                BY <2>2, <2>10, <3>1, <4>3 DEF ChainsInv, FactoriesMakeClones
            <4>5. PICK j \in 1 .. n : j = i
                BY <2>2, <3>1
            <4>6. a < m + n
                BY <4>4, <4>5
            <4>7. a < s
                BY <2>3, <4>6
            <4>8. MakesClones(c, a)'
                BY <1>7, <2>2, <4>4, <4>7
            <4> QED
                BY <2>2, <3>1, <4>3, <4>4, <4>8 DEF MakesClones
        <3>2. CASE c = h /\ i = n + 1 /\ mempool'[c][i] = tx
            <4>1. mempool'[c][i].factory = cf
                BY <2>1, <2>10, <3>2
            <4>2. cf < m + (n + 1) - 1
                BY <2>6
            <4>3. cf < m + i - 1
                BY <3>2, <4>2
            <4> QED
                BY <2>2, <2>7, <4>1, <4>3 DEF MakesClones
        <3> QED
            BY <1>2, <2>2, <3>1, <3>2 DEF Extended
    <2>11. \A k \in 1 .. Len(clones[c]) : 0 <= clones[c][k].implementation
        BY DEF ChainsInv, FactoriesMakeClones
    <2> QED
        BY <2>9, <2>10, <2>11
<1>10. OneContractEach'
    BY DEF ChainsInv, OneContractEach
<1> QED
    BY <1>6, <1>9, <1>10 DEF ChainsInv

LEMMA MineSends ==
    ASSUME IInv, NEW c \in Chains, Mine(c), NEW d \in Chains
    PROVE  Sent(d) \in Nat /\ Sent(d)' = Sent(d)
<1>1. PICK m \in Nat, n \in Nat : m = Len(mined[d]) /\ n = Len(mempool[d])
    BY DEF IInv, Typed
<1>2. Sent(d) = m + n
    BY <1>1 DEF Sent
<1>3. CASE d = c
    <2>1. Len(mined'[d]) = m + 1 /\ Len(mempool'[d]) = n - 1
        BY <1>1, <1>3, MineShape
    <2>2. Sent(d)' = (m + 1) + (n - 1)
        BY <2>1 DEF Sent
    <2>3. (m + 1) + (n - 1) = m + n
        OBVIOUS
    <2> QED
        BY <1>2, <2>2, <2>3
<1>4. CASE d # c
    <2>1. mined'[d] = mined[d] /\ mempool'[d] = mempool[d]
        BY <1>4, MineShape
    <2>2. Len(mined'[d]) = m /\ Len(mempool'[d]) = n
        BY <1>1, <2>1
    <2>3. Sent(d)' = m + n
        BY <2>2 DEF Sent
    <2> QED
        BY <1>2, <2>3
<1> QED
    BY <1>2, <1>3, <1>4

\* What a chain's contracts are after it has mined: one more at most, for the
\* transaction that has succeeded.
LEMMA MineContracts ==
    ASSUME IInv, NEW c \in Chains, Mine(c), NEW m \in Nat, m = Len(mined[c])
    PROVE  \E new :
              /\ new.at = m /\ new.implementation = mempool[c][1].implementation
              /\ \A contract \in contracts'[c] :
                    \/ contract \in contracts[c] /\ contract.at < m /\ contract.at \in Nat
                    \/ /\ contract = new /\ mempool[c][1].kind # "create"
                       /\ mined'[c][m + 1] = TRUE
<1>1. contracts \in [Chains -> SUBSET Deployed]
    BY DEF IInv, Typed
<1>2. PICK new : new = [at |-> m, kind |-> mempool[c][1].kind,
                        implementation |-> mempool[c][1].implementation]
    OBVIOUS
<1>3. ASSUME NEW contract \in contracts[c]
      PROVE  contract.at < m /\ contract.at \in Nat
    BY <1>1 DEF IInv, MinedLater, Deployed
<1>4. ASSUME NEW contract \in contracts'[c], contract \notin contracts[c]
      PROVE  contract = new /\ mempool[c][1].kind # "create" /\ mined'[c][m + 1] = TRUE
    <2>1. MineDeployment(c, mempool[c][1]) /\ mined'[c][m + 1] = TRUE
        BY <1>4, MineShape DEF MineCreate
    <2>2. contracts'[c] = contracts[c] \cup {new}
        BY <1>1, <1>2, <2>1 DEF MineDeployment
    <2> QED
        BY <1>4, <2>1, <2>2 DEF MineDeployment
<1>5. new.at = m /\ new.implementation = mempool[c][1].implementation
    BY <1>2
<1> QED
    BY <1>3, <1>4, <1>5

LEMMA MineKeepsChains ==
    ASSUME IInv, ChainsInv, NEW c \in Chains, Mine(c)
    PROVE  ChainsInv'
<1>1. PICK m \in Nat, n \in Nat : m = Len(mined[c]) /\ n = Len(mempool[c])
    BY DEF IInv, Typed
<1>2. /\ printed' = printed /\ config' = config
      /\ \A d \in Chains : d # c =>
            /\ mempool'[d] = mempool[d] /\ mined'[d] = mined[d]
            /\ contracts'[d] = contracts[d] /\ clones'[d] = clones[d]
    BY MineShape
<1>3. /\ n >= 1 /\ Len(mempool'[c]) = n - 1 /\ Len(mined'[c]) = m + 1
      /\ \A i \in 1 .. Len(mempool'[c]) :
            i + 1 \in 1 .. n /\ mempool'[c][i] = mempool[c][i + 1]
      /\ \A i \in 1 .. m : mined'[c][i] = mined[c][i]
      /\ mempool[c][1] \in Transactions
    BY <1>1, MineShape
<1>4. 1 \in 1 .. n /\ m + 1 - 1 = m
    BY <1>3
<1>5. PICK new :
          /\ new.at = m /\ new.implementation = mempool[c][1].implementation
          /\ \A contract \in contracts'[c] :
                \/ contract \in contracts[c] /\ contract.at < m /\ contract.at \in Nat
                \/ /\ contract = new /\ mempool[c][1].kind # "create"
                   /\ mined'[c][m + 1] = TRUE
    BY <1>1, MineContracts
<1>6. \A d \in Chains : /\ printed[d] \in [implementation : Int, factory : Int]
                        /\ config[d] \in [implementation : Int, factory : Int]
    BY DEF IInv, Typed
<1>7. AddressesKnown'
    BY <1>2, MineSends DEF ChainsInv, AddressesKnown, Known
<1>8. ASSUME NEW i \in 1 .. Len(mempool'[c])
      PROVE  /\ i \in Int /\ i + 1 \in 1 .. n /\ mempool'[c][i] = mempool[c][i + 1]
             /\ (m + 1) + i - 1 = m + (i + 1) - 1
    <2>1. i \in Int
        BY <1>3
    <2>2. (m + 1) + i - 1 = m + (i + 1) - 1
        BY <2>1
    <2> QED
        BY <1>3, <2>1, <2>2
<1>9. ASSUME NEW d \in Chains, NEW a \in Int, MakesClones(d, a)
      PROVE  MakesClones(d, a)'
    <2>1. CASE d # c
        BY <1>2, <1>9, <2>1 DEF MakesClones
    <2>2. CASE d = c
        <3>1. ASSUME NEW contract \in contracts'[c], contract.at = a
              PROVE  0 <= contract.implementation
            <4>1. CASE contract \in contracts[c]
                BY <1>9, <2>2, <3>1, <4>1 DEF MakesClones
            <4>2. CASE contract = new /\ mempool[c][1].kind # "create"
                BY <1>1, <1>4, <1>9, <1>5, <2>2, <3>1, <4>2 DEF MakesClones
            <4> QED
                BY <1>5, <4>1, <4>2
        <3>2. ASSUME NEW i \in 1 .. Len(mempool'[c]),
                     Len(mined'[c]) + i - 1 = a, mempool'[c][i].kind # "create"
              PROVE  0 <= mempool'[c][i].implementation
            <4>1. m + (i + 1) - 1 = a
                BY <1>3, <1>8, <3>2
            <4> QED
                BY <1>1, <1>8, <1>9, <2>2, <3>2, <4>1 DEF MakesClones
        <3> QED
            BY <2>2, <3>1, <3>2 DEF MakesClones
    <2> QED
        BY <2>1, <2>2
<1>10. ASSUME NEW d \in Chains
      PROVE  MakesClones(d, printed[d].factory)' /\ MakesClones(d, config[d].factory)'
    <2>1. PICK p \in Int, q \in Int : p = printed[d].factory /\ q = config[d].factory
        BY <1>6
    <2>2. MakesClones(d, p) /\ MakesClones(d, q)
        BY <2>1 DEF ChainsInv, FactoriesMakeClones
    <2>3. MakesClones(d, p)' /\ MakesClones(d, q)'
        BY <1>9, <2>2
    <2>4. printed'[d].factory = p /\ config'[d].factory = q
        BY <1>2, <2>1
    <2> QED
        BY <2>3, <2>4 DEF MakesClones
<1>11. ASSUME NEW d \in Chains, NEW i \in 1 .. Len(mempool[d]), mempool[d][i].kind = "create"
       PROVE  /\ mempool[d][i].factory \in Int
              /\ MakesClones(d, mempool[d][i].factory)
              /\ mempool[d][i].factory < Len(mined[d]) + i - 1
    <2>1. mempool[d] \in Seq(Transactions)
        BY DEF IInv, Typed
    <2>2. mempool[d][i] \in Transactions
        BY <2>1
    <2> QED
        BY <1>11, <2>2 DEF Transactions, ChainsInv, FactoriesMakeClones
<1>12. ASSUME NEW d \in Chains, NEW i \in 1 .. Len(mempool'[d]), mempool'[d][i].kind = "create"
       PROVE  /\ MakesClones(d, mempool[d][i].factory)'
              /\ mempool'[d][i].factory < Len(mined'[d]) + i - 1
    <2>1. CASE d # c
        <3>1. PICK a \in Int : a = mempool[d][i].factory /\ a = mempool'[d][i].factory
            BY <1>2, <1>11, <1>12, <2>1
        <3>2. MakesClones(d, a)'
            BY <1>2, <1>9, <1>11, <1>12, <2>1, <3>1
        <3> QED
            BY <1>2, <1>11, <1>12, <2>1, <3>1, <3>2 DEF MakesClones
    <2>2. CASE d = c
        <3>1. i + 1 \in 1 .. n /\ mempool'[c][i] = mempool[c][i + 1]
            BY <1>8, <2>2
        <3>2. PICK j \in 1 .. n : j = i + 1
            BY <3>1
        <3>3. mempool'[c][i] = mempool[c][j] /\ mempool[c][j].kind = "create"
            BY <1>12, <2>2, <3>1, <3>2
        <3>4. PICK a \in Int : /\ a = mempool[c][j].factory /\ MakesClones(c, a)
                               /\ a < m + j - 1
            BY <1>1, <1>11, <3>3
        <3>5. MakesClones(c, a)'
            BY <1>9, <3>4
        <3>6. a < (m + 1) + i - 1
            BY <1>8, <2>2, <3>2, <3>4
        <3> QED
            BY <1>3, <2>2, <3>3, <3>4, <3>5, <3>6 DEF MakesClones
    <2> QED
        BY <2>1, <2>2
<1>13. ASSUME NEW d \in Chains, NEW k \in 1 .. Len(clones'[d])
       PROVE  0 <= clones'[d][k].implementation
    <2>1. \A e \in Chains : \A l \in 1 .. Len(clones[e]) : 0 <= clones[e][l].implementation
        BY DEF ChainsInv, FactoriesMakeClones
    <2>2. CASE clones'[d] = clones[d]
        BY <1>13, <2>1, <2>2
    <2>3. ASSUME d = c, NEW factory \in contracts[c], factory.at = mempool[c][1].factory,
                 mempool[c][1].kind = "create",
                 clones' = [clones EXCEPT ![c] = Append(@, Cloned(c, factory, mempool[c][1]))]
          PROVE  0 <= clones'[d][k].implementation
        <3>1. PICK clone : clone = Cloned(c, factory, mempool[c][1])
            OBVIOUS
        <3>2. clone.implementation = factory.implementation
            BY <3>1 DEF Cloned, Initialized, NewClone
        <3>3. 0 <= factory.implementation
            BY <1>1, <1>4, <1>11, <2>3 DEF MakesClones
        <3>4. clones[c] \in Seq(Clones) /\ clones'[c] = Append(clones[c], clone)
            BY <2>3, <3>1 DEF IInv, Typed
        <3>5. k \in 1 .. Len(Append(clones[c], clone))
            BY <1>13, <2>3, <3>4
        <3>6. clones'[c][k] = clone \/ (k \in 1 .. Len(clones[c]) /\ clones'[c][k] = clones[c][k])
            BY <3>4, <3>5
        <3> QED
            BY <2>1, <2>3, <3>2, <3>3, <3>6
    <2> QED
        BY <1>2, <2>2, <2>3, MineShape DEF MineCreate, MineDeployment
<1>14. FactoriesMakeClones'
    BY <1>10, <1>12, <1>13 DEF FactoriesMakeClones
<1>15. OneContractEach'
    <2> SUFFICES ASSUME NEW d \in Chains, NEW one \in contracts'[d]
                 PROVE  /\ mined'[d][one.at + 1]
                        /\ \A other \in contracts'[d] : one.at = other.at => one = other
        BY DEF OneContractEach
    <2>1. CASE d # c
        BY <1>2, <2>1 DEF ChainsInv, OneContractEach
    <2>2. CASE d = c
        <3>1. mined'[c][one.at + 1]
            <4>1. CASE one \in contracts[c] /\ one.at < m /\ one.at \in Nat
                <5>1. one.at + 1 \in 1 .. m
                    BY <4>1
                <5>2. mined[c][one.at + 1]
                    BY <4>1 DEF ChainsInv, OneContractEach
                <5> QED
                    BY <1>3, <5>1, <5>2
            <4>2. CASE one = new /\ mined'[c][m + 1] = TRUE
                BY <1>5, <4>2
            <4> QED
                BY <1>5, <2>2, <4>1, <4>2
        <3>2. ASSUME NEW other \in contracts'[c], one.at = other.at
              PROVE  one = other
            <4>1. CASE one \in contracts[c] /\ other \in contracts[c]
                BY <3>2, <4>1 DEF ChainsInv, OneContractEach
            <4>2. one \in contracts'[c]
                BY <2>2
            <4> QED
                BY <1>5, <3>2, <4>1, <4>2
        <3> QED
            BY <2>2, <3>1, <3>2
    <2> QED
        BY <2>1, <2>2
<1> QED
    BY <1>7, <1>14, <1>15 DEF ChainsInv

LEMMA ScriptKeepsChains ==
    ASSUME IInv, ChainsInv, ControlTyped, ScriptStep
    PROVE  ChainsInv'
<1>1. /\ at \in Positions /\ Here \in Chains
      /\ config \in [Chains -> [implementation : Int, factory : Int]]
      /\ printed \in [Chains -> [implementation : Int, factory : Int]]
    BY HereTyped DEF IInv, Typed
<1>2. PICK h \in Chains : h = Here
    BY <1>1
<1>3. NextAddress = Sent(h) /\ NextAddress \in Int
    <2>1. PICK m \in Nat, n \in Nat : m = Len(mined[h]) /\ n = Len(mempool[h])
        BY DEF IInv, Typed
    <2>2. NextAddress = m + n /\ Sent(h) = m + n
        BY <1>2, <2>1 DEF NextAddress, Sent
    <2> QED
        BY <2>2
<1>4. ASSUME NEW s, Start(s)
      PROVE  ChainsInv'
    <2>1. \A c \in Chains : config'[c] \in {config[c], printed[c]}
        BY <1>1, <1>4 DEF Start
    <2> QED
        BY <1>4, <2>1, QuietKeepsChains DEF Start, chainVars
<1>5. CASE GetBalance \/ Abort \/ Receipt \/ CreateFails
    <2>1. UNCHANGED <<config, printed, mempool, mined, contracts, clones>>
        BY <1>5 DEF GetBalance, Abort, Receipt, CreateFails, chainVars
    <2> QED
        BY <2>1, QuietKeepsChains
<1>6. CASE DeployImplementation
    <2>1. PICK tx : tx = [kind |-> "implementation", implementation |-> Unset]
        OBVIOUS
    <2>2. tx \in Transactions /\ tx.kind # "create"
        BY <2>1 DEF Transactions, Unset
    <2>3. /\ Send(tx) /\ UNCHANGED <<config, mined, contracts, clones>>
          /\ printed' = [printed EXCEPT ![h].implementation = NextAddress]
        BY <1>2, <1>6, <2>1 DEF DeployImplementation
    <2>4. /\ printed' \in [Chains -> [implementation : Int, factory : Int]]
          /\ \A c \in Chains :
                /\ \/ printed'[c].implementation = printed[c].implementation
                   \/ c = h /\ printed'[c].implementation = Sent(c)
                /\ printed'[c].factory = printed[c].factory
        BY <1>1, <1>3, <2>3
    <2> QED
        BY <1>2, <2>2, <2>3, <2>4, SendKeepsChains
<1>7. CASE DeployCloneFactory
    <2>1. PICK tx : tx = [kind |-> "factory", implementation |-> config[h].implementation]
        OBVIOUS
    <2>2. PICK a \in Int : a = config[h].implementation
        BY <1>1
    <2>3. a # -1 /\ -1 <= a
        BY <1>2, <1>7, <2>2 DEF DeployCloneFactory, ChainsInv, AddressesKnown, Known, Unset
    <2>4. 0 <= a
        BY <2>3
    <2>5. tx \in Transactions /\ tx.kind # "create" /\ 0 <= tx.implementation
        BY <2>1, <2>2, <2>4 DEF Transactions
    <2>6. /\ Send(tx) /\ UNCHANGED <<config, mined, contracts, clones>>
          /\ printed' = [printed EXCEPT ![h].factory = NextAddress]
        BY <1>2, <1>7, <2>1 DEF DeployCloneFactory
    <2>7. /\ printed' \in [Chains -> [implementation : Int, factory : Int]]
          /\ \A c \in Chains :
                /\ printed'[c].implementation = printed[c].implementation
                /\ \/ printed'[c].factory = printed[c].factory
                   \/ c = h /\ printed'[c].factory = Sent(c)
        BY <1>1, <1>3, <2>6
    <2> QED
        BY <1>2, <2>5, <2>6, <2>7, SendKeepsChains
<1>8. ASSUME NEW vault \in Range(Vaults) \cup {NoVault}, SendCreate(vault)
      PROVE  ChainsInv'
    <2>1. PICK tx : tx = [kind |-> "create", factory |-> config[h].factory,
                          name |-> Names[at.feed], vault |-> vault, run |-> runs]
        OBVIOUS
    <2>2. tx \in Transactions /\ tx.factory = config[h].factory
        BY <1>1, <2>1, Lists DEF Transactions, IInv, Typed, Positions, Range
    <2>3. Send(tx) /\ UNCHANGED <<printed, config, mined, contracts, clones>>
        BY <1>2, <1>8, <2>1 DEF SendCreate
    <2> QED
        BY <1>1, <1>2, <2>2, <2>3, SendKeepsChains
<1>9. CASE CreatePriceFeed \/ CreateMellowPriceFeed
    <2>1. at.i \in DOMAIN Vaults
        BY <1>1 DEF Positions
    <2> QED
        BY <1>8, <1>9, <2>1 DEF CreatePriceFeed, CreateMellowPriceFeed, Range
<1> QED
    BY <1>4, <1>5, <1>6, <1>7, <1>9 DEF ScriptStep

(***************************************************************************)
(* How many transactions a run sends.                                      *)
(***************************************************************************)

LEMMA Counted ==
    ASSUME IInv, NEW j \in DOMAIN ChainOrder
    PROVE  /\ j \in Int /\ at.chain \in Int /\ at.feed \in 1 .. Len(Names)
           /\ ChainOrder[j] \in Chains /\ Sent(ChainOrder[j]) \in Nat
           /\ runs \in Nat /\ Len(Names) \in Nat
           /\ runs * Len(Names) \in Nat /\ (runs + 1) * Len(Names) = runs * Len(Names) + Len(Names)
           /\ SentInRun(j) \in Nat
<1>1. /\ j \in Int /\ at.chain \in Int /\ at.feed \in 1 .. Len(Names) /\ Len(Names) \in Nat
      /\ runs \in Nat
    BY Lists DEF IInv, Typed, Positions
<1>2. ChainOrder[j] \in Chains
    BY ChainsListed
<1>3. Sent(ChainOrder[j]) \in Nat
    <2>1. PICK m \in Nat, n \in Nat : m = Len(mined[ChainOrder[j]]) /\ n = Len(mempool[ChainOrder[j]])
        BY <1>2 DEF IInv, Typed
    <2>2. Sent(ChainOrder[j]) = m + n
        BY <2>1 DEF Sent
    <2> QED
        BY <2>2
<1>4. PICK r \in Nat, l \in Nat : r = runs /\ l = Len(Names)
    BY <1>1
<1>5. r * l \in Nat /\ (r + 1) * l = r * l + l
    OBVIOUS
<1>6. SentInRun(j) \in Nat
    BY <1>1 DEF SentInRun
<1> QED
    BY <1>1, <1>2, <1>3, <1>4, <1>5, <1>6

LEMMA NextChainMoves ==
    ASSUME at \in Positions, NextChain
    PROVE  \/ pc' = "done"
           \/ pc' = "balance" /\ at'.chain = at.chain + 1 /\ at'.feed = 1
BY DEF NextChain, LastChain

LEMMA NextFeedMoves ==
    ASSUME at \in Positions, NextFeed
    PROVE  \/ pc' = "done"
           \/ pc' = "balance" /\ at'.chain = at.chain + 1 /\ at'.feed = 1
           \/ pc' = "work" /\ at'.chain = at.chain /\ at'.feed = at.feed + 1
BY NextChainMoves DEF NextFeed, LastFeed, Positions

LEMMA SendsStayBounded ==
    ASSUME IInv, IInv', ControlTyped, SendsBounded, ScriptStep
    PROVE  SendsBounded'
<1> SUFFICES ASSUME NEW j \in DOMAIN ChainOrder
             PROVE  /\ Sent(ChainOrder[j])' <= runs' * Len(Names)
                    /\ Running' /\ at'.chain <= j =>
                          Sent(ChainOrder[j])' + Len(Names) <= runs' * Len(Names) + SentInRun(j)'
    BY DEF SendsBounded
<1>1. PICK s \in Nat, l \in Nat, p \in Nat, e \in Nat, k \in Int, f \in Int :
          /\ s = Sent(ChainOrder[j]) /\ l = Len(Names) /\ p = runs * Len(Names)
          /\ e = SentInRun(j) /\ k = at.chain /\ f = at.feed
    <2>1. /\ Sent(ChainOrder[j]) \in Nat /\ Len(Names) \in Nat /\ runs * Len(Names) \in Nat
          /\ SentInRun(j) \in Nat /\ at.chain \in Int /\ at.feed \in Int
        BY Counted
    <2> QED
        BY <2>1
<1>2. PICK t \in Nat, q \in Nat, d \in Nat, x \in Int, g \in Int :
          /\ t = Sent(ChainOrder[j])' /\ q = runs' * Len(Names)
          /\ d = SentInRun(j)' /\ x = at'.chain /\ g = at'.feed
    <2>1. /\ at'.chain \in Int /\ at'.feed \in 1 .. Len(Names) /\ Len(Names) \in Nat
          /\ runs' \in Nat
        BY Lists DEF IInv, Typed, Positions
    <2>2. SentInRun(j)' \in Nat
        BY <2>1 DEF SentInRun
    <2>3. Sent(ChainOrder[j])' \in Nat
        <3>1. PICK m \in Nat, n \in Nat :
                  m = Len(mined'[ChainOrder[j]]) /\ n = Len(mempool'[ChainOrder[j]])
            BY ChainsListed DEF IInv, Typed
        <3>2. Sent(ChainOrder[j])' = m + n
            BY <3>1 DEF Sent
        <3> QED
            BY <3>2
    <2>4. runs' * Len(Names) \in Nat
        <3>1. PICK r \in Nat, m \in Nat : r = runs' /\ m = Len(Names)
            BY <2>1
        <3>2. r * m \in Nat
            OBVIOUS
        <3> QED
            BY <3>1, <3>2
    <2> QED
        BY <2>1, <2>2, <2>3, <2>4
<1>3. f \in 1 .. l /\ j \in Int /\ at \in Positions /\ ChainOrder[j] \in Chains
    BY <1>1, Counted DEF IInv, Typed
<1> SUFFICES t <= q /\ (Running' /\ x <= j => t + l <= q + d)
    BY <1>1, <1>2
<1>4. s <= p /\ (Running /\ k <= j => s + l <= p + e)
    BY <1>1 DEF SendsBounded
<1>5. /\ j # k => e = 0
      /\ j = k => e = IF pc = "wait" THEN f ELSE f - 1
    BY <1>1, <1>3 DEF SentInRun
<1>6. /\ j # x => d = 0
      /\ j = x => d = IF pc' = "wait" THEN g ELSE g - 1
    BY <1>2 DEF SentInRun
<1>7. UNCHANGED <<mempool, mined>> => t = s
    BY <1>1, <1>2 DEF Sent
<1>8. runs' = runs => q = p
    BY <1>1, <1>2
\* A step that goes on to the next feed or chain.
<1>9. ASSUME t = s, q = p, pc \in {"work", "wait"},
             \/ pc' = "done"
             \/ pc' = "balance" /\ x = k + 1 /\ g = 1
             \/ pc' = "work" /\ x = k /\ g = f + 1
      PROVE  t <= q /\ (Running' /\ x <= j => t + l <= q + d)
    <2>1. CASE pc' = "done"
        BY <1>4, <1>9, <2>1 DEF Running
    <2>2. CASE pc' = "balance" /\ x = k + 1 /\ g = 1
        <3>1. Running /\ (x <= j => k <= j /\ j # k)
            BY <1>3, <1>9, <2>2 DEF Running
        <3> QED
            BY <1>4, <1>5, <1>9, <3>1
    <2>3. CASE pc' = "work" /\ x = k /\ g = f + 1
        <3>1. Running /\ e <= d
            BY <1>3, <1>5, <1>6, <1>9, <2>3 DEF Running
        <3> QED
            BY <1>4, <1>9, <2>3, <3>1
    <2> QED
        BY <1>9, <2>1, <2>2, <2>3
\* A step that sends one transaction to the chain it stands at.
<1>10. ASSUME NEW tx \in Transactions, Send(tx), mined' = mined
       PROVE  t = IF j = k THEN s + 1 ELSE s
    <2>1. Here \in Chains
        BY <1>3, HereTyped
    <2>2. ChainOrder[j] = Here <=> j = k
        BY <1>1, <1>3, ChainsListed DEF Here, Positions
    <2>3. PICK h \in Chains, c \in Chains : h = Here /\ c = ChainOrder[j]
        BY <1>3, <2>1
    <2>4. /\ c = h => Extended(c, tx)
          /\ c # h => Sent(c)' = Sent(c)
        BY <1>10, <2>3, SendShape
    <2>5. t = Sent(c)' /\ s = Sent(c)
        BY <1>1, <1>2, <2>3
    <2> QED
        BY <2>2, <2>3, <2>4, <2>5 DEF Extended
<1>11. ASSUME NEW a, Start(a)
       PROVE  t <= q /\ (Running' /\ x <= j => t + l <= q + d)
    <2>1. t = s /\ q = p + l
        <3>1. runs' = runs + 1 /\ UNCHANGED <<mempool, mined>>
            BY <1>11 DEF Start, chainVars
        <3> QED
            BY <1>1, <1>2, <1>7, <3>1, Counted
    <2> QED
        BY <1>4, <2>1
<1>12. CASE GetBalance
    <2>1. t = s /\ q = p /\ x = k /\ g = f /\ pc = "balance" /\ pc' = "work"
        BY <1>1, <1>2, <1>7, <1>8, <1>12 DEF GetBalance, chainVars
    <2>2. d = e /\ Running
        BY <1>5, <1>6, <2>1 DEF Running
    <2> QED
        BY <1>4, <2>1, <2>2
<1>13. CASE Abort
    <2>1. t = s /\ q = p /\ ~Running'
        BY <1>7, <1>8, <1>13 DEF Abort, chainVars, Running
    <2> QED
        BY <1>4, <2>1
<1>14. CASE Receipt \/ CreateFails
    <2>1. t = s /\ q = p /\ pc \in {"work", "wait"} /\ NextFeed
        BY <1>7, <1>8, <1>14 DEF Receipt, CreateFails, chainVars
    <2> QED
        BY <1>1, <1>2, <1>3, <1>9, <2>1, NextFeedMoves
<1>15. ASSUME NEW tx \in Transactions, Send(tx), mined' = mined, runs' = runs, pc = "work", NextChain
       PROVE  t <= q /\ (Running' /\ x <= j => t + l <= q + d)
    <2>1. t = (IF j = k THEN s + 1 ELSE s) /\ q = p /\ Running
        BY <1>8, <1>10, <1>15 DEF Running
    <2>2. t <= q
        BY <1>3, <1>4, <1>5, <2>1, <1>15
    <2>3. ASSUME Running', x <= j
          PROVE  t + l <= q + d
        <3>1. pc' = "balance" /\ x = k + 1 /\ g = 1
            BY <1>1, <1>2, <1>3, <1>15, <2>3, NextChainMoves DEF Running
        <3>2. k <= j /\ j # k
            BY <1>3, <2>3, <3>1
        <3> QED
            BY <1>4, <1>5, <2>1, <3>2
    <2> QED
        BY <2>2, <2>3
<1>16. CASE DeployImplementation
    <2> DEFINE tx == [kind |-> "implementation", implementation |-> Unset]
    <2>1. tx \in Transactions
        BY DEF Transactions, Unset
    <2>2. Send(tx) /\ mined' = mined /\ runs' = runs /\ pc = "work" /\ NextChain
        BY <1>16 DEF DeployImplementation
    <2> QED
        BY <1>15, <2>1, <2>2
<1>17. CASE DeployCloneFactory
    <2> DEFINE tx == [kind |-> "factory", implementation |-> config[Here].implementation]
    <2>1. tx \in Transactions
        BY <1>3, HereTyped DEF Transactions, IInv, Typed
    <2>2. Send(tx) /\ mined' = mined /\ runs' = runs /\ pc = "work" /\ NextChain
        BY <1>17 DEF DeployCloneFactory
    <2> QED
        BY <1>15, <2>1, <2>2
<1>18. ASSUME NEW vault \in Range(Vaults) \cup {NoVault}, SendCreate(vault)
       PROVE  t <= q /\ (Running' /\ x <= j => t + l <= q + d)
    <2> DEFINE tx == [kind |-> "create", factory |-> config[Here].factory,
                      name |-> Names[at.feed], vault |-> vault, run |-> runs]
    <2>1. tx \in Transactions
        BY <1>3, HereTyped, Lists DEF Transactions, IInv, Typed, Positions, Range
    <2>2. /\ Send(tx) /\ mined' = mined /\ runs' = runs /\ at' = at
          /\ pc = "work" /\ pc' = "wait"
        BY <1>18 DEF SendCreate
    <2>3. t = (IF j = k THEN s + 1 ELSE s) /\ q = p /\ x = k /\ g = f
        BY <1>1, <1>2, <1>8, <1>10, <2>1, <2>2
    <2>4. d = IF j = k THEN e + 1 ELSE e
        BY <1>3, <1>5, <1>6, <2>2, <2>3
    <2>5. Running
        BY <2>2 DEF Running
    <2> HIDE DEF tx
    <2> QED
        BY <1>3, <1>4, <1>5, <2>2, <2>3, <2>4, <2>5
<1>19. CASE CreatePriceFeed \/ CreateMellowPriceFeed
    <2>1. at.i \in DOMAIN Vaults
        BY <1>3 DEF Positions
    <2> QED
        BY <1>18, <1>19, <2>1 DEF CreatePriceFeed, CreateMellowPriceFeed, Range
<1> QED
    BY <1>11, <1>12, <1>13, <1>14, <1>16, <1>17, <1>19 DEF ScriptStep

(***************************************************************************)
(* What the script waits for and what it has behind it.                    *)
(***************************************************************************)

LEMMA ControlKeeps ==
    ASSUME IInv, ControlTyped, [Next]_vars
    PROVE  ControlTyped'
<1>1. runs \in Nat /\ MaxRuns \in Nat
    BY DeploymentAssumption DEF IInv, Typed
<1>2. ASSUME NEW s \in {"implementation", "factory", "create"}, Start(s)
      PROVE  ControlTyped'
    <2>1. runs < MaxRuns /\ runs' = runs + 1
        BY <1>2 DEF Start
    <2>2. runs' <= MaxRuns
        BY <1>1, <2>1
    <2> QED
        BY <1>2, <2>2 DEF Start, ControlTyped
<1>3. NextFeed => pc' \in {"done", "balance", "work"}
    BY DEF NextFeed, LastFeed, NextChain, LastChain
<1>4. NextChain => pc' \in {"done", "balance"}
    BY DEF NextChain, LastChain
<1>5. CASE GetBalance \/ Abort
    BY <1>5 DEF GetBalance, Abort, ControlTyped
<1>6. CASE DeployImplementation \/ DeployCloneFactory
    BY <1>4, <1>6 DEF DeployImplementation, DeployCloneFactory, ControlTyped
<1>7. CASE CreatePriceFeed \/ CreateMellowPriceFeed
    BY <1>7 DEF CreatePriceFeed, CreateMellowPriceFeed, SendCreate, ControlTyped
<1>8. CASE Receipt \/ CreateFails
    BY <1>3, <1>8 DEF Receipt, CreateFails, ControlTyped
<1>9. CASE (\E c \in Chains : Mine(c) \/ Initialize(c)) \/ UNCHANGED vars
    BY <1>9 DEF Mine, Initialize, vars, scriptVars, ControlTyped
<1> QED
    BY <1>2, <1>5, <1>6, <1>7, <1>8, <1>9 DEF Next, ScriptStep

\* A creation that succeeds settles its feed.
LEMMA CreateSettles ==
    ASSUME IInv, ChainsInv, NEW c \in Chains, Mine(c),
           NEW tx \in Transactions, tx = mempool[c][1], tx.kind = "create",
           mined'[c][Len(mined'[c])]
    PROVE  Settled(c, tx.factory, tx.name, tx.run)'
<1>1. PICK m \in Nat : m = Len(mined[c]) /\ Len(mined'[c]) = m + 1
    BY MineShape
<1>2. MineCreate(c, tx)
    <2>1. mined'[c][m + 1] # FALSE
        BY <1>1
    <2> QED
        BY <1>1, <2>1, MineShape DEF MineDeployment
<1>3. tx.factory < Len(mined'[c])
    <2>1. 1 \in 1 .. Len(mempool[c])
        <3>1. PICK n \in Nat : n = Len(mempool[c]) /\ n >= 1
            BY MineShape
        <3>2. 1 \in 1 .. n
            BY <3>1
        <3> QED
            BY <3>1, <3>2
    <2>2. tx.factory < m + 1 - 1
        BY <1>1, <2>1 DEF ChainsInv, FactoriesMakeClones
    <2>3. tx.factory \in Int
        BY DEF Transactions
    <2>4. tx.factory < m + 1
        BY <2>2, <2>3
    <2> QED
        BY <1>1, <2>4
<1>4. contracts' = contracts /\ clones \in [Chains -> Seq(Clones)]
    BY <1>2 DEF MineCreate, IInv, Typed
<1>5. ASSUME NEW factory \in contracts[c], factory.at = tx.factory,
             HasCode(c, factory.implementation)
      PROVE  \E k \in 1 .. Len(clones'[c]) :
                 clones'[c][k].run = tx.run /\ clones'[c][k].name = tx.name
    <2>1. HasCode(c, tx.factory)
        BY <1>5 DEF HasCode
    <2>2. PICK same \in contracts[c] :
              /\ same.at = tx.factory
              /\ clones' = [clones EXCEPT ![c] = Append(@, Cloned(c, same, tx))]
        BY <1>2, <2>1 DEF MineCreate
    <2>3. same = factory
        BY <1>5, <2>2 DEF ChainsInv, OneContractEach
    <2>4. PICK new : new = Cloned(c, factory, tx)
        OBVIOUS
    <2>5. new.run = tx.run /\ new.name = tx.name
        BY <1>5, <2>4 DEF Cloned, Initialized, NewClone
    <2>6. clones'[c] = Append(clones[c], new) /\ clones[c] \in Seq(Clones)
        BY <1>4, <2>2, <2>3, <2>4
    <2>7. /\ Len(clones[c]) + 1 \in 1 .. Len(clones'[c])
          /\ clones'[c][Len(clones[c]) + 1] = new
        BY <2>6
    <2> QED
        BY <2>5, <2>7
<1> QED
    BY <1>3, <1>4, <1>5 DEF Settled, HasCode

\* What is settled depends on what has been mined only.
LEMMA SettledUnsent ==
    ASSUME UNCHANGED <<mined, contracts, clones>>, NEW c, NEW address, NEW name, NEW run,
           Settled(c, address, name, run)
    PROVE  Settled(c, address, name, run)'
BY DEF Settled, HasCode

LEMMA NextFeedLeavesBehind ==
    ASSUME at \in Positions, pc # "done", NextFeed,
           NEW j \in DOMAIN ChainOrder, NEW n \in DOMAIN Names, Behind(j, n)'
    PROVE  Behind(j, n) \/ (j = at.chain /\ n = at.feed)
<1>1. PICK k \in 1 .. Len(ChainOrder), f \in 1 .. Len(Names) : k = at.chain /\ f = at.feed
    BY Lists DEF Positions
<1>2. PICK a \in Nat, b \in Nat : a = Len(ChainOrder) /\ b = Len(Names)
    BY Lists
<1>3. k \in 1 .. a /\ f \in 1 .. b /\ j \in 1 .. a /\ n \in 1 .. b
    BY <1>1, <1>2, Lists
<1>4. CASE pc' = "work" /\ at' = [at EXCEPT !.feed = @ + 1, !.i = @ + 1]
    <2>1. at'.chain = k /\ at'.feed = f + 1
        BY <1>1, <1>4 DEF Positions
    <2>2. j < k \/ (j = k /\ n < f + 1)
        BY <1>4, <2>1 DEF Behind
    <2>3. j < k \/ (j = k /\ n < f) \/ (j = k /\ n = f)
        BY <1>3, <2>2
    <2> QED
        BY <1>1, <2>3 DEF Behind
<1>5. CASE f = b /\ pc' = "balance" /\ at' = [chain |-> at.chain + 1, feed |-> 1, i |-> 1]
    <2>1. at'.chain = k + 1 /\ at'.feed = 1
        BY <1>1, <1>5
    <2>2. j < k + 1 \/ (j = k + 1 /\ n < 1)
        BY <1>5, <2>1 DEF Behind
    <2>3. j < k \/ (j = k /\ n < f) \/ (j = k /\ n = f)
        BY <1>3, <1>5, <2>2
    <2> QED
        BY <1>1, <2>3 DEF Behind
<1>6. CASE f = b /\ k = a
    <2>1. j < k \/ (j = k /\ n < f) \/ (j = k /\ n = f)
        BY <1>3, <1>6
    <2> QED
        BY <1>1, <2>1 DEF Behind
<1> QED
    BY <1>1, <1>2, <1>4, <1>5, <1>6 DEF NextFeed, LastFeed, NextChain, LastChain

LEMMA ScriptKeepsProgress ==
    ASSUME IInv, ControlTyped, WaitsForOwn, BehindIsSettled, ScriptStep
    PROVE  WaitsForOwn' /\ BehindIsSettled'
<1>1. at \in Positions /\ Here \in Chains
    BY HereTyped DEF IInv, Typed
<1>2. ASSUME NEW s, Start(s)
      PROVE  WaitsForOwn' /\ BehindIsSettled'
    <2>1. \A j \in DOMAIN ChainOrder, n \in DOMAIN Names : ~Behind(j, n)'
        BY <1>2, Lists DEF Start, Behind, AtStart
    <2> QED
        BY <1>2, <2>1 DEF Start, WaitsForOwn, BehindIsSettled
<1>3. CASE GetBalance
    <2>1. ASSUME NEW j \in DOMAIN ChainOrder, NEW n \in DOMAIN Names, Behind(j, n)'
          PROVE  Behind(j, n)
        BY <1>3, <2>1 DEF GetBalance, Behind
    <2>2. UNCHANGED <<script, at, reported, runs, config, mined, contracts, clones>> /\ pc' = "work"
        BY <1>3 DEF GetBalance, chainVars
    <2> QED
        BY <2>1, <2>2 DEF WaitsForOwn, BehindIsSettled, Settled, HasCode
<1>4. CASE Abort
    BY <1>4 DEF Abort, WaitsForOwn, BehindIsSettled
<1>5. CASE DeployImplementation \/ DeployCloneFactory
    <2>1. pc' \in {"done", "balance"} /\ script' # "create"
        BY <1>5 DEF DeployImplementation, DeployCloneFactory, NextChain, LastChain
    <2> QED
        BY <2>1 DEF WaitsForOwn, BehindIsSettled
<1>6. ASSUME NEW vault \in Range(Vaults) \cup {NoVault}, SendCreate(vault)
      PROVE  WaitsForOwn' /\ BehindIsSettled'
    <2>1. PICK tx : tx = [kind |-> "create", factory |-> config[Here].factory,
                          name |-> Names[at.feed], vault |-> vault, run |-> runs]
        OBVIOUS
    <2>2. tx \in Transactions
        BY <1>1, <2>1, Lists DEF Transactions, IInv, Typed, Positions, Range
    <2>3. /\ Send(tx)
          /\ UNCHANGED <<script, at, reported, runs, config, mined, contracts, clones>>
          /\ pc = "work" /\ pc' = "wait"
        BY <1>6, <2>1 DEF SendCreate
    <2>4. PICK h \in Chains : h = Here
        BY <1>1
    <2>5. Here' = h
        BY <2>3, <2>4 DEF Here
    <2>6. Extended(h, tx)
        BY <2>2, <2>3, <2>4, SendShape
    <2>7. Ours(tx)'
        BY <2>1, <2>3, <2>4, <2>5 DEF Ours, Here
    <2>8. WaitsForOwn'
        <3>1. mempool'[h] # <<>> /\ mempool'[h][Len(mempool'[h])] = tx
            BY <2>6 DEF Extended
        <3> QED
            BY <2>5, <2>7, <3>1 DEF WaitsForOwn, Ours
    <2>9. BehindIsSettled'
        <3>1. ASSUME NEW j \in DOMAIN ChainOrder, NEW n \in DOMAIN Names, Behind(j, n)'
              PROVE  Behind(j, n)
            BY <2>3, <3>1 DEF Behind
        <3> QED
            BY <2>3, <3>1 DEF BehindIsSettled, Settled, HasCode
    <2> QED
        BY <2>8, <2>9
<1>7. CASE CreatePriceFeed \/ CreateMellowPriceFeed
    <2>1. at.i \in DOMAIN Vaults
        BY <1>1 DEF Positions
    <2> QED
        BY <1>6, <1>7, <2>1 DEF CreatePriceFeed, CreateMellowPriceFeed, Range
<1>8. CASE Receipt
    <2>1. /\ UNCHANGED <<script, reported, runs, config, mined, contracts, clones>>
          /\ pc = "wait" /\ NextFeed
          /\ mempool[Here] = <<>> /\ mined[Here][Len(mined[Here])]
        BY <1>8 DEF Receipt, chainVars, Last
    <2>2. pc' # "wait"
        BY <2>1 DEF NextFeed, LastFeed, NextChain, LastChain
    <2>3. BehindIsSettled'
        <3> SUFFICES ASSUME script = "create", ~reported,
                            NEW j \in DOMAIN ChainOrder, NEW n \in DOMAIN Names, Behind(j, n)'
                     PROVE  Settled(ChainOrder[j], config[ChainOrder[j]].factory, Names[n], runs)'
            BY <2>1 DEF BehindIsSettled
        <3>1. Settled(ChainOrder[j], config[ChainOrder[j]].factory, Names[n], runs)
            <4>1. CASE Behind(j, n)
                BY <4>1 DEF BehindIsSettled
            <4>2. CASE j = at.chain /\ n = at.feed
                BY <2>1, <4>2 DEF WaitsForOwn, Here
            <4> QED
                BY <1>1, <2>1, <4>1, <4>2, NextFeedLeavesBehind
        <3> QED
            BY <2>1, <3>1 DEF Settled, HasCode
    <2> QED
        BY <2>2, <2>3 DEF WaitsForOwn
<1>9. CASE CreateFails
    <2>1. pc' # "wait" /\ reported' = TRUE
        BY <1>9 DEF CreateFails, NextFeed, LastFeed, NextChain, LastChain
    <2> QED
        BY <2>1 DEF WaitsForOwn, BehindIsSettled
<1> QED
    BY <1>2, <1>3, <1>4, <1>5, <1>7, <1>8, <1>9 DEF ScriptStep

LEMMA MineKeepsProgress ==
    ASSUME IInv, ChainsInv, WaitsForOwn, BehindIsSettled, NEW c \in Chains, Mine(c)
    PROVE  WaitsForOwn' /\ BehindIsSettled'
<1>1. /\ UNCHANGED <<script, pc, at, reported, runs, config>>
      /\ \A d \in Chains : d # c => mempool'[d] = mempool[d] /\ mined'[d] = mined[d]
    BY MineShape
<1>2. ASSUME NEW d \in Chains, NEW a \in Int, NEW name, NEW run, Settled(d, a, name, run)
      PROVE  Settled(d, a, name, run)'
    BY <1>2, MinedGrows, SettledStays
<1>3. \A d \in Chains : config[d].factory \in Int
    BY DEF IInv, Typed
<1>4. BehindIsSettled'
    <2> SUFFICES ASSUME script = "create", ~reported,
                        NEW j \in DOMAIN ChainOrder, NEW n \in DOMAIN Names, Behind(j, n)
                 PROVE  Settled(ChainOrder[j], config[ChainOrder[j]].factory, Names[n], runs)'
        BY <1>1 DEF BehindIsSettled, Behind
    <2>1. PICK name, run : name = Names[n] /\ run = runs
        OBVIOUS
    <2>2. PICK d \in Chains, a \in Int : d = ChainOrder[j] /\ a = config[d].factory
        BY <1>3, ChainsListed
    <2>3. Settled(d, a, name, run)
        BY <2>1, <2>2 DEF BehindIsSettled
    <2>4. Settled(d, a, name, run)'
        BY <1>2, <2>3
    <2> QED
        BY <1>1, <2>1, <2>2, <2>4 DEF Settled
<1>5. WaitsForOwn'
    <2> SUFFICES ASSUME pc = "wait"
                 PROVE  WaitsForOwn'
        BY <1>1 DEF WaitsForOwn
    <2>1. PICK name, run : name = Names[at.feed] /\ run = runs
        OBVIOUS
    <2>2. PICK h \in Chains, a \in Int : h = Here /\ a = config[h].factory
        BY <1>3, HereTyped DEF IInv, Typed
    <2>3. Here' = h
        BY <1>1, <2>2 DEF Here
    <2> SUFFICES IF mempool'[h] # <<>> THEN Ours(mempool'[h][Len(mempool'[h])])
                 ELSE /\ mined'[h] # <<>>
                      /\ mined'[h][Len(mined'[h])] => Settled(h, a, name, run)'
        BY <1>1, <2>1, <2>2, <2>3 DEF WaitsForOwn, Ours, Settled
    <2>4. CASE h # c
        <3>1. mempool'[h] = mempool[h] /\ mined'[h] = mined[h]
            BY <1>1, <2>4
        <3>2. Settled(h, a, name, run) => Settled(h, a, name, run)'
            BY <1>2
        <3> QED
            BY <2>1, <2>2, <3>1, <3>2 DEF WaitsForOwn
    <2>5. CASE h = c
        <3>1. PICK n \in Nat : n = Len(mempool[c]) /\ n >= 1
            BY MineShape
        <3>2. mempool[c] # <<>> /\ Ours(mempool[c][n])
            BY <2>2, <2>5, <3>1 DEF WaitsForOwn
        <3>3. /\ Len(mempool'[c]) = n - 1
              /\ \A i \in 1 .. Len(mempool'[c]) : mempool'[c][i] = mempool[c][i + 1]
              /\ mempool'[c] \in Seq(Transactions)
            BY <3>1, MineShape, MineKeeps DEF IInv, Typed
        <3>4. CASE n > 1
            <4>1. n - 1 \in 1 .. Len(mempool'[c]) /\ (n - 1) + 1 = n
                BY <3>3, <3>4
            <4>2. mempool'[c] # <<>> /\ mempool'[c][Len(mempool'[c])] = mempool[c][n]
                BY <3>3, <4>1
            <4> QED
                BY <2>5, <3>2, <4>2
        <3>5. CASE n = 1
            <4>1. mempool'[c] = <<>>
                BY <3>3, <3>5
            <4>2. PICK tx \in Transactions : tx = mempool[c][1]
                BY MineShape
            <4>3. tx.kind = "create" /\ tx.factory = a /\ tx.name = name /\ tx.run = run
                BY <2>1, <2>2, <3>2, <3>5, <4>2 DEF Ours
            <4>4. mined'[c][Len(mined'[c])] => Settled(c, a, name, run)'
                BY <4>2, <4>3, CreateSettles
            <4>5. mined'[c] # <<>>
                <5>1. PICK m \in Nat : Len(mined'[c]) = m + 1
                    BY MineShape
                <5>2. Len(mined'[c]) # 0
                    BY <5>1
                <5> QED
                    BY <5>2
            <4> QED
                BY <2>5, <4>1, <4>4, <4>5
        <3>6. n > 1 \/ n = 1
            BY <3>1
        <3> QED
            BY <3>4, <3>5, <3>6
    <2> QED
        BY <2>4, <2>5
<1> QED
    BY <1>4, <1>5

(***************************************************************************)
(* The theorems that rest on both layers.                                  *)
(***************************************************************************)

LEMMA NextKeepsCInv == IInv /\ CInv /\ [Next]_vars => CInv'
<1> SUFFICES ASSUME IInv, CInv, [Next]_vars PROVE CInv'
    OBVIOUS
<1>1. ControlTyped'
    BY ControlKeeps DEF CInv
<1>2. IInv' /\ ChainsInv
    BY NextKeepsIInv DEF CInv, ChainsInv
<1>3. CASE ScriptStep
    <2>1. ChainsInv'
        BY <1>2, <1>3, ScriptKeepsChains DEF CInv
    <2>2. SendsBounded' /\ WaitsForOwn' /\ BehindIsSettled'
        BY <1>2, <1>3, SendsStayBounded, ScriptKeepsProgress DEF CInv
    <2> QED
        BY <1>1, <2>1, <2>2 DEF CInv, ChainsInv
<1>4. ASSUME NEW c \in Chains, Mine(c)
      PROVE  CInv'
    <2>1. ChainsInv' /\ WaitsForOwn' /\ BehindIsSettled'
        BY <1>2, <1>4, MineKeepsChains, MineKeepsProgress DEF CInv
    <2>2. SendsBounded'
        <3>1. UNCHANGED <<pc, at, runs>>
            BY <1>4, MineShape
        <3>2. \A j \in DOMAIN ChainOrder : Sent(ChainOrder[j])' = Sent(ChainOrder[j])
            BY <1>4, MineSends, ChainsListed
        <3> QED
            BY <3>1, <3>2 DEF CInv, SendsBounded, SentInRun, Running
    <2> QED
        BY <1>1, <2>1, <2>2 DEF CInv, ChainsInv
<1>5. CASE UNCHANGED vars
    <2>1. UNCHANGED <<script, pc, at, reported, runs, printed, config,
                      mempool, mined, contracts, clones>>
        BY <1>5 DEF vars, scriptVars, chainVars
    <2>2. ChainsInv'
        BY <1>2, <2>1, QuietKeepsChains
    <2>3. SendsBounded'
        BY <2>1 DEF CInv, SendsBounded, Sent, SentInRun, Running
    <2>4. WaitsForOwn' /\ BehindIsSettled'
        BY <2>1 DEF CInv, WaitsForOwn, BehindIsSettled, Behind, Settled, HasCode, Ours, Here
    <2> QED
        BY <1>1, <2>2, <2>3, <2>4 DEF CInv, ChainsInv
<1>6. ASSUME NEW c \in Chains, Initialize(c)
      PROVE  UNCHANGED vars
    BY <1>6, InitializeIsVain DEF Initialize, vars, chainVars
<1> QED
    BY <1>3, <1>4, <1>5, <1>6 DEF Next

LEMMA Completeness == Spec => [](IInv /\ CInv)
<1>1. Init => IInv /\ CInv
    BY InitIInv, InitCInv
<1>2. IInv /\ CInv /\ [Next]_vars => (IInv /\ CInv)'
    BY NextKeepsIInv, NextKeepsCInv
<1> QED
    BY <1>1, <1>2, PTL DEF Spec

LEMMA CInvTyped == IInv /\ CInv => TypeOK
<1> SUFFICES ASSUME IInv, CInv PROVE TypeOK
    OBVIOUS
<1>1. PICK l \in Nat, r \in Nat, b \in Nat : l = Len(Names) /\ r = runs /\ b = MaxRuns /\ r <= b
    BY Lists, DeploymentAssumption DEF IInv, Typed, CInv, ControlTyped
<1>2. r * l <= b * l /\ r * l \in Nat /\ b * l \in Nat
    BY <1>1
<1>3. ASSUME NEW c \in Chains
      PROVE  Sent(c) <= b * l /\ Sent(c) \in Nat
    <2>1. PICK j \in DOMAIN ChainOrder : c = ChainOrder[j]
        BY ChainsListed
    <2>2. PICK s \in Nat : s = Sent(c)
        BY <2>1, Counted
    <2>3. s <= r * l
        BY <1>1, <2>1, <2>2 DEF CInv, SendsBounded
    <2>4. s <= b * l
        BY <1>2, <2>3
    <2> QED
        BY <2>2, <2>4
<1>4. ASSUME NEW c \in Chains, NEW a \in Int, Known(c, a)
      PROVE  a \in Addresses \cup {Unset}
    <2>1. PICK s \in Nat : s = Sent(c) /\ s <= b * l
        BY <1>3
    <2>2. -1 <= a /\ a < s
        BY <1>4, <2>1 DEF Known, Unset
    <2>3. a \in 0 .. b * l \/ a = -1
        BY <1>2, <2>1, <2>2
    <2> QED
        BY <1>1, <2>3 DEF Addresses, Unset
<1>5. printed \in [Chains -> Configured] /\ config \in [Chains -> Configured]
    <2>1. /\ printed \in [Chains -> [implementation : Int, factory : Int]]
          /\ config \in [Chains -> [implementation : Int, factory : Int]]
        BY DEF IInv, Typed
    <2>2. \A c \in Chains : printed[c] \in Configured /\ config[c] \in Configured
        BY <1>4, <2>1 DEF CInv, AddressesKnown, Configured
    <2> QED
        BY <2>1, <2>2
<1>6. ASSUME NEW c \in Chains
      PROVE  /\ \A contract \in contracts[c] : mined[c][contract.at + 1]
             /\ \A k \in DOMAIN clones[c] :
                   /\ clones[c][k].implementation \in Addresses
                   /\ clones[c][k].name \in Range(Names) \cup {NoName}
                   /\ clones[c][k].vault \in Range(Vaults) \cup {NoVault}
    <2>1. \A contract \in contracts[c] : mined[c][contract.at + 1]
        BY DEF CInv, OneContractEach
    <2>2. ASSUME NEW k \in DOMAIN clones[c]
          PROVE  /\ clones[c][k].implementation \in Addresses
                 /\ clones[c][k].name \in Range(Names) \cup {NoName}
                 /\ clones[c][k].vault \in Range(Vaults) \cup {NoVault}
        <3>1. clones[c] \in Seq(Clones) /\ k \in 1 .. Len(clones[c])
            BY DEF IInv, Typed
        <3>2. clones[c][k] \in Clones
            BY <3>1
        <3>3. PICK a \in Int : /\ a = clones[c][k].implementation
                               /\ 0 <= a /\ a < Len(mined[c])
            BY <3>1, <3>2 DEF Clones, CInv, FactoriesMakeClones, IInv, MinedLater
        <3>4. PICK m \in Nat, n \in Nat : m = Len(mined[c]) /\ n = Len(mempool[c])
            BY DEF IInv, Typed
        <3>5. Sent(c) = m + n
            BY <3>4 DEF Sent
        <3>6. m + n <= b * l
            BY <1>3, <3>5
        <3>7. a < m
            BY <3>3, <3>4
        <3>8. a \in 0 .. b * l
            BY <1>2, <3>3, <3>6, <3>7
        <3> QED
            BY <1>1, <3>2, <3>3, <3>8 DEF Clones, Addresses
    <2> QED
        BY <2>1, <2>2
<1>7. runs \in 0 .. MaxRuns
    BY <1>1
<1>8. /\ family \in {"named", "vault"}
      /\ script \in {"none", "implementation", "factory", "create"}
      /\ pc \in {"balance", "work", "wait", "done", "aborted"}
      /\ reported \in BOOLEAN
    BY DEF CInv, ControlTyped
<1>9. at \in Positions /\ mined \in [Chains -> Seq(BOOLEAN)]
    BY DEF IInv, Typed
<1> QED
    BY <1>5, <1>6, <1>7, <1>8, <1>9 DEF TypeOK, Positions

LEMMA CInvComplete == IInv /\ CInv => CompleteUnlessReported
<1> SUFFICES ASSUME IInv, CInv, script = "create", pc = "done", ~reported,
                    NEW c \in Chains, NEW factory \in contracts[c],
                    factory.at = config[c].factory, HasCode(c, factory.implementation),
                    NEW n \in DOMAIN Names
             PROVE  \E k \in DOMAIN clones[c] :
                        clones[c][k].run = runs /\ clones[c][k].name = Names[n]
    BY DEF CompleteUnlessReported
<1>1. PICK j \in DOMAIN ChainOrder : c = ChainOrder[j]
    BY ChainsListed
<1>2. Settled(c, config[c].factory, Names[n], runs)
    BY <1>1 DEF CInv, BehindIsSettled, Behind
<1>3. \E k \in 1 .. Len(clones[c]) :
          clones[c][k].run = runs /\ clones[c][k].name = Names[n]
    BY <1>2 DEF Settled
<1>4. DOMAIN clones[c] = 1 .. Len(clones[c])
    BY DEF IInv, Typed
<1> QED
    BY <1>3, <1>4

\* Whatever is sent, fails or is abandoned: every address that is printed,
\* configured or cloned is a nonce the runs so far can have reached, every
\* contract's own transaction has succeeded, and every clone is of an address
\* a factory was given, never of the unset one (deployCloneFactory.ts:28-30).
THEOREM TypeCorrect == Spec => []TypeOK
BY Completeness, CInvTyped, PTL

\* A run that ends without reporting an error has created every feed on every
\* chain whose factory and implementation are deployed
\* (createPriceFeeds.ts:31-43), whatever runs before it left pending.
THEOREM CompleteRuns == Spec => []CompleteUnlessReported
BY Completeness, CInvComplete, PTL

=============================================================================
