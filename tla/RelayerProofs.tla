--------------------------- MODULE RelayerProofs ---------------------------
(***************************************************************************)
(* Theorems about Relayer for every value of its constants.                *)
(***************************************************************************)
EXTENDS Relayer, TLAPS

(***************************************************************************)
(* The inductive invariant.  The bound on attempts needs the height window *)
(* as its measure, and the memory's renewal needs to know what a tick has  *)
(* gathered and achieved before it gets to updateMemory.                   *)
(***************************************************************************)

\* Outside BroadcastTx and what follows it no attempt of a relay is counted.
NoAttemptYet == phase \in {"sleep", "init", "check", "gas"} => attempts = 0

\* Attempts made and heights left to try never exceed the window.
WindowBoundsAttempts == phase = "broadcast" => attempts + room <= Timeout + 1

\* A tick starts at the first denom; before the first relay, init has gathered
\* the denoms it has passed, all of them once it relays.
InitGathers ==
    /\ phase = "sleep" => k = 1
    /\ ready => phase # "init"
    /\ ~ready => phase \notin {"check", "update"}
    /\ phase = "init" => \A i \in 1 .. k - 1 : Config[i] \in batch
    /\ ~ready /\ phase \in {"gas", "broadcast"} => batch = Denoms

\* updateMemory runs only for a batch the node took.
UpdateAfterAccepted == phase = "update" => accepted

IInv ==
    /\ TypeOK
    /\ AttemptsBounded
    /\ NoAttemptYet
    /\ WindowBoundsAttempts
    /\ InitGathers
    /\ UpdateAfterAccepted

(***************************************************************************)
(* Helpers.                                                                *)
(***************************************************************************)

\* The loops over the configuration stay inside it.
LEMMA HereIsConfigured ==
    ASSUME TypeOK, k <= Len(Config)
    PROVE  Here \in Denoms
<1>1. Config \in Seq(Denoms)
    BY RelayerAssumption
<1>2. k \in 1 .. Len(Config)
    BY <1>1 DEF TypeOK, DataTyped
<1> QED
    BY <1>1, <1>2 DEF Here, Denoms

\* A capped counter stays within its cap.
LEMMA AtMostTyped ==
    ASSUME NEW x \in Nat, NEW cap \in Nat
    PROVE  AtMost(x, cap) \in 0 .. cap
BY DEF AtMost

\* A failing call stays within the bound on failures.
LEMMA FaultTyped ==
    ASSUME TypeOK, Fault \/ UNCHANGED faults
    PROVE  faults' \in 0 .. MaxFaults
BY RelayerAssumption DEF TypeOK, DataTyped, Fault

LEMMA PriceFailsTyped ==
    ASSUME TypeOK, NEW d, PriceFails(d)
    PROVE  faults' \in 0 .. MaxFaults
BY FaultTyped DEF PriceFails

\* Whatever the chain quotes is a price.
LEMMA QuotesAreNaturals ==
    ASSUME NEW quotes \in Quotes, NEW d \in Denoms
    PROVE  quotes[d] \in Nat
<1>1. quotes[d] \in Prices[d]
    BY DEF Quotes
<1> QED
    BY <1>1, RelayerAssumption

\* The memory of a denom that has just been relayed.
LEMMA RelayedTyped ==
    ASSUME TypeOK, NEW d \in Denoms
    PROVE  [price |-> price[d], age |-> 0] \in Remembered
<1>1. price[d] \in Nat
    BY QuotesAreNaturals DEF TypeOK, DataTyped
<1>2. 0 \in 0 .. Interval
    BY RelayerAssumption
<1> QED
    BY <1>1, <1>2 DEF Remembered

\* An empty memory is a well-typed one.
LEMMA BlankTyped == Blank \in [Denoms -> Remembered]
BY RelayerAssumption DEF Blank, Remembered, NoPrice

\* A tick that returns, whatever the reason, restores the invariant.
LEMMA ReturnKeepsIInv ==
    ASSUME IInv, TickReturns, faults' \in 0 .. MaxFaults
    PROVE  IInv'
<1>1. Config \in Seq(Denoms) /\ Timeout \in Nat
    BY RelayerAssumption
<1>2. TypeOK'
    <2>1. UNCHANGED <<price, listed, pushed, mempool, backlog, heightErr,
                      missed, ready, memory>>
        BY DEF TickReturns, nodeVars
    <2>2. k' \in 1 .. Len(Config) + 1 /\ lead' \in 0 .. Timeout + 1
        BY <1>1 DEF TickReturns
    <2>3. draft' \in [Denoms -> Remembered]
        BY BlankTyped DEF TickReturns
    <2>4. FlagsTyped'
        BY <2>1 DEF IInv, TypeOK, FlagsTyped, TickReturns
    <2>5. DataTyped'
        BY <2>1, <2>2, <2>3 DEF IInv, TypeOK, DataTyped, TickReturns, Phases
    <2> QED
        BY <2>4, <2>5 DEF TypeOK, TickReturns
<1>3. AttemptsBounded' /\ NoAttemptYet' /\ WindowBoundsAttempts'
    BY <1>1 DEF TickReturns, AttemptsBounded, NoAttemptYet, WindowBoundsAttempts
<1>4. InitGathers' /\ UpdateAfterAccepted'
    BY DEF TickReturns, InitGathers, UpdateAfterAccepted
<1> QED
    BY <1>2, <1>3, <1>4 DEF IInv

(***************************************************************************)
(* The initial states.                                                     *)
(***************************************************************************)
LEMMA InitIInv == Init => IInv
<1> SUFFICES ASSUME Init PROVE IInv
    OBVIOUS
<1>1. Config \in Seq(Denoms) /\ Timeout \in Nat /\ MaxFaults \in Nat
      /\ MaxBacklog \in Nat
    BY RelayerAssumption
<1>2. TypeOK
    <2>1. FlagsTyped
        BY DEF Init, FlagsTyped
    <2>2. DataTyped
        BY <1>1, BlankTyped DEF Init, DataTyped, Phases, NoPrice
    <2> QED
        BY <2>1, <2>2 DEF Init, TypeOK
<1>3. AttemptsBounded /\ NoAttemptYet /\ WindowBoundsAttempts
    BY <1>1 DEF Init, AttemptsBounded, NoAttemptYet, WindowBoundsAttempts
<1>4. InitGathers /\ UpdateAfterAccepted
    BY DEF Init, InitGathers, UpdateAfterAccepted
<1> QED
    BY <1>2, <1>3, <1>4 DEF IInv

(***************************************************************************)
(* The steps of a tick.                                                    *)
(***************************************************************************)
LEMMA StartTickKeepsIInv == IInv /\ StartTick => IInv'
<1> SUFFICES ASSUME IInv, StartTick PROVE IInv'
    OBVIOUS
<1> USE DEF StartTick, nodeVars, heightVars, broadcastVars, memoryVars
<1>1. TypeOK'
    <2>1. FlagsTyped'
        BY DEF IInv, TypeOK, FlagsTyped
    <2>2. DataTyped'
        BY DEF IInv, TypeOK, DataTyped, Phases
    <2> QED
        BY <2>1, <2>2 DEF IInv, TypeOK
<1>2. AttemptsBounded' /\ NoAttemptYet' /\ WindowBoundsAttempts'
    BY DEF IInv, AttemptsBounded, NoAttemptYet, WindowBoundsAttempts
<1>3. InitGathers' /\ UpdateAfterAccepted'
    BY DEF IInv, InitGathers, UpdateAfterAccepted, TypeOK
<1> QED
    BY <1>1, <1>2, <1>3 DEF IInv

LEMMA InitAssetKeepsIInv == IInv /\ InitAsset => IInv'
<1> SUFFICES ASSUME IInv, InitAsset PROVE IInv'
    OBVIOUS
<1> USE DEF nodeVars, heightVars, broadcastVars
<1>1. Config \in Seq(Denoms) /\ Here \in Denoms /\ k \in Nat /\ k <= Len(Config)
    BY RelayerAssumption, HereIsConfigured DEF InitAsset, IInv, TypeOK, DataTyped
<1>2. CASE PriceArrives(Here) /\ ~TickReturns
    <2>1. UNCHANGED <<nodeVars, heightVars, broadcastVars, ready, memory, phase, faults>>
        BY <1>2 DEF InitAsset, PriceFails, PriceArrives
    <2>2. /\ batch' = batch \cup {Here}
          /\ k' = k + 1
          /\ draft' = [draft EXCEPT ![Here] = [price |-> price[Here], age |-> 0]]
          /\ phase = "init"
        BY <1>2 DEF InitAsset
    <2>3. [price |-> price[Here], age |-> 0] \in Remembered
        BY <1>1, RelayedTyped DEF IInv
    <2>4. TypeOK'
        <3>1. FlagsTyped'
            BY <2>1 DEF IInv, TypeOK, FlagsTyped
        <3>2. draft' \in [Denoms -> Remembered]
            BY <2>2, <2>3 DEF IInv, TypeOK, DataTyped
        <3>3. k' \in 1 .. Len(Config) + 1
            BY <1>1, <2>2 DEF IInv, TypeOK, DataTyped
        <3>4. DataTyped'
            BY <1>1, <2>1, <2>2, <3>2, <3>3 DEF IInv, TypeOK, DataTyped
        <3> QED
            BY <2>1, <2>2, <3>1, <3>4 DEF TypeOK
    <2>5. AttemptsBounded' /\ NoAttemptYet' /\ WindowBoundsAttempts'
        BY <2>1 DEF IInv, AttemptsBounded, NoAttemptYet, WindowBoundsAttempts
    <2>6. InitGathers' /\ UpdateAfterAccepted'
        BY <1>1, <2>1, <2>2 DEF IInv, InitGathers, UpdateAfterAccepted, Here
    <2> QED
        BY <2>4, <2>5, <2>6 DEF IInv
<1>3. CASE TickReturns
    BY <1>3, ReturnKeepsIInv, PriceFailsTyped, FaultTyped
       DEF InitAsset, PriceArrives, IInv
<1> QED
    BY <1>2, <1>3 DEF InitAsset

LEMMA CheckAssetKeepsIInv == IInv /\ CheckAsset => IInv'
<1> SUFFICES ASSUME IInv, CheckAsset PROVE IInv'
    OBVIOUS
<1> USE DEF nodeVars, heightVars, broadcastVars, memoryVars
<1>1. Config \in Seq(Denoms) /\ Here \in Denoms /\ k \in Nat /\ k <= Len(Config)
    BY RelayerAssumption, HereIsConfigured DEF CheckAsset, IInv, TypeOK, DataTyped
<1>2. CASE ~TickReturns
    <2>1. UNCHANGED <<nodeVars, heightVars, broadcastVars, memoryVars, phase, faults>>
        BY <1>2 DEF CheckAsset, PriceArrives
    <2>2. k' = k + 1 /\ batch' \in {batch, batch \cup {Here}} /\ phase = "check"
        BY <1>2 DEF CheckAsset
    <2>3. TypeOK'
        <3>1. FlagsTyped'
            BY <2>1 DEF IInv, TypeOK, FlagsTyped
        <3>2. k' \in 1 .. Len(Config) + 1
            BY <1>1, <2>2 DEF IInv, TypeOK, DataTyped
        <3>3. DataTyped'
            BY <1>1, <2>1, <2>2, <3>2 DEF IInv, TypeOK, DataTyped
        <3> QED
            BY <2>1, <2>2, <3>1, <3>3 DEF TypeOK
    <2>4. AttemptsBounded' /\ NoAttemptYet' /\ WindowBoundsAttempts'
        BY <2>1 DEF IInv, AttemptsBounded, NoAttemptYet, WindowBoundsAttempts
    <2>5. InitGathers' /\ UpdateAfterAccepted'
        BY <2>1, <2>2 DEF IInv, InitGathers, UpdateAfterAccepted
    <2> QED
        BY <2>3, <2>4, <2>5 DEF IInv
<1>3. CASE TickReturns
    BY <1>3, ReturnKeepsIInv, PriceFailsTyped, FaultTyped
       DEF CheckAsset, PriceArrives, IInv
<1> QED
    BY <1>2, <1>3

\* The loops of init and tick end behind the last denom.
LEMMA RelayKeepsIInv == IInv /\ Relay => IInv'
<1> SUFFICES ASSUME IInv, Relay PROVE IInv'
    OBVIOUS
<1> USE DEF Relay, nodeVars, heightVars, broadcastVars, memoryVars
<1>1. TypeOK'
    <2>1. FlagsTyped'
        BY DEF IInv, TypeOK, FlagsTyped
    <2>2. DataTyped'
        BY DEF IInv, TypeOK, DataTyped, Phases
    <2> QED
        BY <2>1, <2>2 DEF TypeOK
<1>2. AttemptsBounded' /\ NoAttemptYet' /\ WindowBoundsAttempts'
    BY DEF IInv, AttemptsBounded, NoAttemptYet, WindowBoundsAttempts
<1>3. ~ready => batch' = Denoms
    <2> SUFFICES ASSUME ~ready PROVE Denoms \subseteq batch /\ batch \subseteq Denoms
        OBVIOUS
    <2>1. phase = "init" /\ k = Len(Config) + 1 /\ Len(Config) \in Nat
        BY RelayerAssumption DEF IInv, TypeOK, DataTyped, InitGathers
    <2>2. \A i \in 1 .. Len(Config) : Config[i] \in batch
        BY <2>1 DEF IInv, InitGathers
    <2>3. DOMAIN Config = 1 .. Len(Config)
        BY RelayerAssumption
    <2> QED
        BY <2>2, <2>3 DEF Denoms, IInv, TypeOK, DataTyped
<1>4. InitGathers' /\ UpdateAfterAccepted'
    BY <1>3 DEF IInv, InitGathers, UpdateAfterAccepted
<1> QED
    BY <1>1, <1>2, <1>4 DEF IInv

LEMMA GasKnownKeepsIInv == IInv /\ GasKnown => IInv'
<1> SUFFICES ASSUME IInv, GasKnown PROVE IInv'
    OBVIOUS
<1> USE DEF nodeVars, heightVars, broadcastVars, memoryVars
<1>1. CASE ~TickReturns
    <2>1. Timeout \in Nat
        BY RelayerAssumption
    <2>2. /\ phase = "gas"
          /\ phase' = "broadcast"
          /\ lead' = 1
          /\ room' = Timeout + 1
          /\ UNCHANGED <<nodeVars, heightErr, missed, attempts, accepted,
                         memoryVars, k, batch, faults>>
        BY <1>1 DEF GasKnown
    <2>3. TypeOK'
        <3>1. FlagsTyped'
            BY <2>2 DEF IInv, TypeOK, FlagsTyped
        <3>2. DataTyped'
            BY <2>1, <2>2 DEF IInv, TypeOK, DataTyped, Phases
        <3> QED
            BY <2>2, <3>1, <3>2 DEF IInv, TypeOK
    <2>4. AttemptsBounded' /\ NoAttemptYet' /\ WindowBoundsAttempts'
        BY <2>1, <2>2 DEF IInv, AttemptsBounded, NoAttemptYet, WindowBoundsAttempts
    <2>5. InitGathers' /\ UpdateAfterAccepted'
        BY <2>2 DEF IInv, InitGathers, UpdateAfterAccepted
    <2> QED
        BY <2>3, <2>4, <2>5 DEF IInv
<1>2. CASE TickReturns
    BY <1>2, ReturnKeepsIInv, FaultTyped DEF GasKnown, IInv
<1> QED
    BY <1>1, <1>2

(***************************************************************************)
(* The steps of BroadcastTx and updateMemory.                              *)
(***************************************************************************)

\* One pass of the loop uses up at least one height of the window.
LEMMA TryingCounts ==
    ASSUME IInv, Trying
    PROVE  /\ lead' \in 0 .. Timeout + 1
           /\ room' \in Int
           /\ attempts' \in Nat
           /\ attempts' <= Timeout + 1
           /\ attempts' + room' <= Timeout + 1
<1>1. Timeout \in Nat
    BY RelayerAssumption
<1>2. /\ lead \in 0 .. Timeout + 1 /\ lead > 0
      /\ room \in Int /\ room > 0
      /\ attempts \in Nat /\ attempts + room <= Timeout + 1
    BY DEF IInv, TypeOK, DataTyped, WindowBoundsAttempts, Trying
<1>3. lead' = 0 /\ room' = room - lead /\ attempts' = attempts + 1
    BY DEF Trying
<1> QED
    BY <1>1, <1>2, <1>3

LEMMA AttemptSucceedsKeepsIInv == IInv /\ AttemptSucceeds => IInv'
<1> SUFFICES ASSUME IInv, AttemptSucceeds PROVE IInv'
    OBVIOUS
<1>1. Trying /\ NodeTakes
    BY DEF AttemptSucceeds
<1>2. UNCHANGED <<price, listed, pushed, backlog, heightErr, missed, draft,
                  batch, faults>>
    BY DEF AttemptSucceeds
<1>3. /\ phase = "broadcast" /\ phase' = "update" /\ ready' = TRUE
      /\ mempool' = batch /\ accepted' = TRUE
    BY DEF AttemptSucceeds, Trying, NodeTakes
<1>4. TypeOK'
    <2>1. FlagsTyped'
        BY <1>2, <1>3 DEF IInv, TypeOK, FlagsTyped
    <2>2. memory' \in [Denoms -> Remembered]
        BY DEF AttemptSucceeds, IInv, TypeOK, DataTyped
    <2>3. k' \in 1 .. Len(Config) + 1
        BY RelayerAssumption DEF AttemptSucceeds
    <2>4. DataTyped'
        BY <1>1, <1>2, <1>3, <2>2, <2>3, TryingCounts
           DEF IInv, TypeOK, DataTyped, Phases
    <2> QED
        BY <1>2, <1>3, <2>1, <2>4 DEF IInv, TypeOK
<1>5. AttemptsBounded' /\ NoAttemptYet' /\ WindowBoundsAttempts'
    BY <1>1, <1>3, TryingCounts DEF AttemptsBounded, NoAttemptYet, WindowBoundsAttempts
<1>6. InitGathers' /\ UpdateAfterAccepted'
    BY <1>3 DEF InitGathers, UpdateAfterAccepted
<1> QED
    BY <1>4, <1>5, <1>6 DEF IInv

LEMMA AttemptFailsKeepsIInv == IInv /\ AttemptFails => IInv'
<1> SUFFICES ASSUME IInv, AttemptFails PROVE IInv'
    OBVIOUS
<1>1. Trying
    BY DEF AttemptFails
<1>2. UNCHANGED <<price, listed, pushed, backlog, heightErr, missed, memoryVars,
                  phase, k, batch>>
    BY DEF AttemptFails
<1>3. /\ phase = "broadcast"
      /\ mempool' \in {mempool, batch}
      /\ accepted' \in {accepted, TRUE}
     
    BY DEF AttemptFails, Trying, NodeTakes
<1>4. faults' \in 0 .. MaxFaults
    BY FaultTyped DEF AttemptFails, IInv
<1>5. TypeOK'
    <2>1. FlagsTyped'
        BY <1>2, <1>3 DEF IInv, TypeOK, FlagsTyped, memoryVars
    <2>2. DataTyped'
        BY <1>1, <1>2, <1>3, <1>4, TryingCounts DEF IInv, TypeOK, DataTyped, memoryVars
    <2> QED
        BY <1>2, <2>1, <2>2 DEF IInv, TypeOK
<1>6. AttemptsBounded' /\ NoAttemptYet' /\ WindowBoundsAttempts'
    BY <1>1, <1>2, <1>3, TryingCounts
       DEF AttemptsBounded, NoAttemptYet, WindowBoundsAttempts
<1>7. InitGathers' /\ UpdateAfterAccepted'
    BY <1>2, <1>3 DEF IInv, InitGathers, UpdateAfterAccepted, memoryVars
<1> QED
    BY <1>5, <1>6, <1>7 DEF IInv

LEMMA UpdateMemoryKeepsIInv == IInv /\ UpdateMemory => IInv'
<1> SUFFICES ASSUME IInv, UpdateMemory PROVE IInv'
    OBVIOUS
<1> USE DEF nodeVars, heightVars, broadcastVars, memoryVars
<1>1. Config \in Seq(Denoms) /\ Here \in Denoms /\ k \in Nat /\ k <= Len(Config)
    BY RelayerAssumption, HereIsConfigured DEF UpdateMemory, IInv, TypeOK, DataTyped
<1>2. CASE ~TickReturns
    <2>1. UNCHANGED <<nodeVars, heightVars, broadcastVars, ready, draft, phase, batch, faults>>
        BY <1>2 DEF UpdateMemory, PriceArrives
    <2>2. k' = k + 1 /\ phase = "update"
        BY <1>2 DEF UpdateMemory
    <2>3. memory' \in [Denoms -> Remembered]
        BY <1>1, <1>2, RelayedTyped DEF UpdateMemory, IInv, TypeOK, DataTyped
    <2>4. TypeOK'
        <3>1. FlagsTyped'
            BY <2>1 DEF IInv, TypeOK, FlagsTyped
        <3>2. k' \in 1 .. Len(Config) + 1
            BY <1>1, <2>2 DEF IInv, TypeOK, DataTyped
        <3>3. DataTyped'
            BY <2>1, <2>3, <3>2 DEF IInv, TypeOK, DataTyped
        <3> QED
            BY <2>1, <3>1, <3>3 DEF IInv, TypeOK
    <2>5. AttemptsBounded' /\ NoAttemptYet' /\ WindowBoundsAttempts'
        BY <2>1 DEF IInv, AttemptsBounded, NoAttemptYet, WindowBoundsAttempts
    <2>6. InitGathers' /\ UpdateAfterAccepted'
        BY <2>1, <2>2 DEF IInv, InitGathers, UpdateAfterAccepted
    <2> QED
        BY <2>4, <2>5, <2>6 DEF IInv
<1>3. CASE TickReturns
    BY <1>3, ReturnKeepsIInv, PriceFailsTyped, FaultTyped
       DEF UpdateMemory, PriceArrives, IInv
<1> QED
    BY <1>2, <1>3

\* The tick ends without an error, or BroadcastTx with one.
LEMMA TickEndsKeepsIInv ==
    IInv /\ (NothingToRelay \/ BroadcastEnds \/ TickEnds) => IInv'
BY ReturnKeepsIInv, FaultTyped DEF NothingToRelay, BroadcastEnds, TickEnds, IInv

(***************************************************************************)
(* The subscriber, the chain and time.                                     *)
(***************************************************************************)
LEMMA BlockHeaderKeepsIInv == IInv /\ BlockHeader => IInv'
<1> SUFFICES ASSUME IInv, BlockHeader PROVE IInv'
    OBVIOUS
<1> USE DEF broadcastVars, memoryVars
<1>1. UNCHANGED <<price, listed, pushed, mempool, broadcastVars,
                  memoryVars, phase, k, batch>>
    BY DEF BlockHeader
<1>2. faults' \in 0 .. MaxFaults
    BY FaultTyped DEF BlockHeader, IInv
<1>3. backlog' \in 0 .. MaxBacklog
    BY RelayerAssumption DEF BlockHeader, IInv, TypeOK, DataTyped
<1>4. lead' \in 0 .. Timeout + 1
    <2>1. Timeout + 1 \in Nat /\ lead \in 0 .. Timeout + 1
        BY RelayerAssumption DEF IInv, TypeOK, DataTyped
    <2>2. lead + 1 + missed \in Nat
        BY <2>1 DEF IInv, TypeOK, DataTyped
    <2>3. AtMost(lead + 1 + missed, Timeout + 1) \in 0 .. Timeout + 1
        BY <2>1, <2>2, AtMostTyped
    <2>4. lead' \in {AtMost(lead + 1 + missed, Timeout + 1), 0, lead}
        BY DEF BlockHeader
    <2> QED
        BY <2>1, <2>3, <2>4
<1>5. heightErr' \in BOOLEAN /\ missed' \in Nat
    <2>1. heightErr \in BOOLEAN
        BY DEF IInv, TypeOK, FlagsTyped
    <2>2. heightErr' \in {FALSE, TRUE, heightErr}
        BY DEF BlockHeader
    <2>3. missed' \in {0, missed + 1} /\ missed \in Nat
        BY DEF BlockHeader, IInv, TypeOK, DataTyped
    <2>4. missed' \in Nat
        BY <2>3
    <2> QED
        BY <2>1, <2>2, <2>4
<1>6. TypeOK'
    <2>1. FlagsTyped'
        BY <1>1, <1>5 DEF IInv, TypeOK, FlagsTyped
    <2>2. DataTyped'
        BY <1>1, <1>2, <1>3, <1>4, <1>5 DEF IInv, TypeOK, DataTyped
    <2> QED
        BY <1>1, <2>1, <2>2 DEF IInv, TypeOK
<1>7. AttemptsBounded' /\ NoAttemptYet' /\ WindowBoundsAttempts'
    BY <1>1 DEF IInv, AttemptsBounded, NoAttemptYet, WindowBoundsAttempts
<1>8. InitGathers' /\ UpdateAfterAccepted'
    BY <1>1 DEF IInv, InitGathers, UpdateAfterAccepted
<1> QED
    BY <1>6, <1>7, <1>8 DEF IInv

LEMMA CommitKeepsIInv == IInv /\ Commit => IInv'
<1> SUFFICES ASSUME IInv, Commit PROVE IInv'
    OBVIOUS
<1> USE DEF heightVars, broadcastVars, memoryVars
<1>1. UNCHANGED <<price, listed, heightVars, broadcastVars, memoryVars, phase, k, batch>>
    BY DEF Commit
<1>2. faults' \in 0 .. MaxFaults
    BY FaultTyped DEF Commit, IInv
<1>3. backlog' \in 0 .. MaxBacklog /\ mempool' = {}
    BY RelayerAssumption DEF Commit, IInv, TypeOK, DataTyped
<1>4. pushed' \in [Denoms -> Nat]
    <2>1. pushed \in [Denoms -> Nat] /\ \A d \in Denoms : price[d] \in Nat
        BY QuotesAreNaturals DEF IInv, TypeOK, DataTyped
    <2> QED
        BY <2>1 DEF Commit
<1>5. TypeOK'
    <2>1. FlagsTyped'
        BY <1>1 DEF IInv, TypeOK, FlagsTyped
    <2>2. DataTyped'
        BY <1>1, <1>2, <1>3, <1>4 DEF IInv, TypeOK, DataTyped
    <2> QED
        BY <1>1, <2>1, <2>2 DEF IInv, TypeOK
<1>6. AttemptsBounded' /\ NoAttemptYet' /\ WindowBoundsAttempts'
    BY <1>1 DEF IInv, AttemptsBounded, NoAttemptYet, WindowBoundsAttempts
<1>7. InitGathers' /\ UpdateAfterAccepted'
    BY <1>1 DEF IInv, InitGathers, UpdateAfterAccepted
<1> QED
    BY <1>5, <1>6, <1>7 DEF IInv

\* The market moves or a denom is no longer quoted.
LEMMA MarketKeepsIInv ==
    ASSUME IInv,
           \/ \E d \in Denoms : \E p \in Prices[d] : MarketMoves(d, p)
           \/ \E d \in MayDelist : Delist(d)
    PROVE  IInv'
<1> USE DEF heightVars, broadcastVars, memoryVars
<1>1. UNCHANGED <<pushed, mempool, backlog, heightVars, broadcastVars,
                  memoryVars, phase, k, batch, faults>>
    BY DEF MarketMoves, Delist
<1>2. price' \in Quotes /\ listed' \subseteq Denoms
    <2>1. price \in Quotes /\ listed \subseteq Denoms
        BY DEF IInv, TypeOK, DataTyped
    <2>2. ASSUME NEW d \in Denoms, NEW p \in Prices[d], MarketMoves(d, p)
          PROVE  price' \in Quotes
        <3>1. price' = [price EXCEPT ![d] = p]
            BY <2>2 DEF MarketMoves
        <3> QED
            BY <2>1, <2>2, <3>1 DEF Quotes
    <2> QED
        BY <2>1, <2>2 DEF MarketMoves, Delist
<1>3. TypeOK'
    <2>1. FlagsTyped'
        BY <1>1 DEF IInv, TypeOK, FlagsTyped
    <2>2. DataTyped'
        BY <1>1, <1>2 DEF IInv, TypeOK, DataTyped
    <2> QED
        BY <1>1, <2>1, <2>2 DEF IInv, TypeOK
<1>4. AttemptsBounded' /\ NoAttemptYet' /\ WindowBoundsAttempts'
    BY <1>1 DEF IInv, AttemptsBounded, NoAttemptYet, WindowBoundsAttempts
<1>5. InitGathers' /\ UpdateAfterAccepted'
    BY <1>1 DEF IInv, InitGathers, UpdateAfterAccepted
<1> QED
    BY <1>3, <1>4, <1>5 DEF IInv

\* Entries only grow older, up to the interval.
LEMMA OlderTyped ==
    ASSUME NEW m \in [Denoms -> Remembered]
    PROVE  /\ Older(m) \in [Denoms -> Remembered]
           /\ \A d \in Denoms : /\ Older(m)[d].price = m[d].price
                                /\ Older(m)[d].age >= m[d].age
<1> SUFFICES ASSUME NEW d \in Denoms
             PROVE  /\ Older(m)[d] \in Remembered
                    /\ Older(m)[d].price = m[d].price
                    /\ Older(m)[d].age >= m[d].age
    BY DEF Older
<1>1. Interval \in Nat /\ m[d].age \in 0 .. Interval /\ m[d].price \in Nat
    BY RelayerAssumption DEF Remembered
<1>2. Older(m)[d] = [m[d] EXCEPT !.age = AtMost(m[d].age + 1, Interval)]
    BY DEF Older
<1>3. m[d] \in [price : Nat, age : 0 .. Interval]
    BY DEF Remembered
<1>4. AtMost(m[d].age + 1, Interval) \in 0 .. Interval
    BY <1>1 DEF AtMost
<1>5. AtMost(m[d].age + 1, Interval) >= m[d].age
    BY <1>1 DEF AtMost
<1> QED
    BY <1>2, <1>3, <1>4, <1>5 DEF Remembered

LEMMA TimePassesKeepsIInv == IInv /\ TimePasses => IInv'
<1> SUFFICES ASSUME IInv, TimePasses PROVE IInv'
    OBVIOUS
<1> USE DEF nodeVars, heightVars, broadcastVars
<1>1. UNCHANGED <<nodeVars, heightVars, broadcastVars, ready, phase, k, batch, faults>>
    BY DEF TimePasses
<1>2. memory' \in [Denoms -> Remembered] /\ draft' \in [Denoms -> Remembered]
    BY OlderTyped DEF TimePasses, IInv, TypeOK, DataTyped
<1>3. TypeOK'
    <2>1. FlagsTyped'
        BY <1>1 DEF IInv, TypeOK, FlagsTyped
    <2>2. DataTyped'
        BY <1>1, <1>2 DEF IInv, TypeOK, DataTyped
    <2> QED
        BY <1>1, <2>1, <2>2 DEF IInv, TypeOK
<1>4. AttemptsBounded' /\ NoAttemptYet' /\ WindowBoundsAttempts'
    BY <1>1 DEF IInv, AttemptsBounded, NoAttemptYet, WindowBoundsAttempts
<1>5. InitGathers' /\ UpdateAfterAccepted'
    BY <1>1 DEF IInv, InitGathers, UpdateAfterAccepted
<1> QED
    BY <1>3, <1>4, <1>5 DEF IInv

LEMMA StutterKeepsIInv == IInv /\ UNCHANGED vars => IInv'
<1> SUFFICES ASSUME IInv, UNCHANGED vars PROVE IInv'
    OBVIOUS
<1> USE DEF vars, nodeVars, heightVars, broadcastVars, memoryVars
<1>1. FlagsTyped'
    BY DEF IInv, TypeOK, FlagsTyped
<1>2. DataTyped'
    BY DEF IInv, TypeOK, DataTyped
<1>3. TypeOK'
    BY <1>1, <1>2 DEF IInv, TypeOK
<1>4. AttemptsBounded' /\ NoAttemptYet' /\ WindowBoundsAttempts'
    BY DEF IInv, AttemptsBounded, NoAttemptYet, WindowBoundsAttempts
<1>5. InitGathers' /\ UpdateAfterAccepted'
    BY DEF IInv, InitGathers, UpdateAfterAccepted
<1> QED
    BY <1>3, <1>4, <1>5 DEF IInv

\* One case per action of the relayer and its surroundings.
LEMMA NextKeepsIInv == IInv /\ [Next]_vars => IInv'
<1> SUFFICES ASSUME IInv, [Next]_vars PROVE IInv'
    OBVIOUS
<1>1. CASE RelayerStep
    BY <1>1, StartTickKeepsIInv, InitAssetKeepsIInv, CheckAssetKeepsIInv,
       RelayKeepsIInv, AttemptSucceedsKeepsIInv, AttemptFailsKeepsIInv,
       UpdateMemoryKeepsIInv, TickEndsKeepsIInv
       DEF RelayerStep
<1>2. CASE GasKnown
    BY <1>2, GasKnownKeepsIInv
<1>3. CASE BlockHeader \/ Commit \/ TimePasses
    BY <1>3, BlockHeaderKeepsIInv, CommitKeepsIInv, TimePassesKeepsIInv
<1>4. CASE \/ \E d \in Denoms : \E p \in Prices[d] : MarketMoves(d, p)
           \/ \E d \in MayDelist : Delist(d)
    BY <1>4, MarketKeepsIInv
<1>5. CASE UNCHANGED vars
    BY <1>5, StutterKeepsIInv
<1> QED
    BY <1>1, <1>2, <1>3, <1>4, <1>5 DEF Next

LEMMA Invariance == Spec => []IInv
BY InitIInv, NextKeepsIInv, PTL DEF Spec

(***************************************************************************)
(* The theorems.                                                           *)
(***************************************************************************)

\* The relayer's state stays in its type whatever fails, and relay is never
\* called with an empty batch.
THEOREM TypeCorrect == Spec => []TypeOK
<1>1. IInv => TypeOK
    BY DEF IInv
<1> QED
    BY <1>1, Invariance, PTL

\* However long headers lag or fail, BroadcastTx sends a relay at most
\* broadcastTimeout + 1 times.
THEOREM AttemptsStayBounded == Spec => []AttemptsBounded
<1>1. IInv => AttemptsBounded
    BY DEF IInv
<1> QED
    BY <1>1, Invariance, PTL

\* The memory of a denom is renewed only after the node took a transaction
\* that carries it: in init for all denoms, in updateMemory for the batch.
THEOREM RenewalAfterAcceptance == Spec => RenewedOnlyAfterAccepted
<1> DEFINE Renewed(d) ==
        ready' /\ (~ready \/ memory'[d].price # memory[d].price
                          \/ memory'[d].age < memory[d].age)
<1>1. ASSUME IInv, [Next]_vars, NEW d \in Denoms, Renewed(d)
      PROVE  accepted' /\ d \in batch
    <2>1. CASE AttemptSucceeds
        <3>1. ~ready
            BY <1>1, <2>1 DEF AttemptSucceeds, IInv, TypeOK, DataTyped, Remembered
        <3> QED
            BY <1>1, <2>1, <3>1
               DEF AttemptSucceeds, Trying, NodeTakes, IInv, InitGathers
    <2>2. CASE UpdateMemory
        <3>1. ready /\ phase = "update" /\ accepted
            BY <1>1, <2>2 DEF UpdateMemory, IInv, InitGathers, UpdateAfterAccepted
        <3>2. memory'[d] # memory[d]
            <4>1. memory[d].age \in Nat
                BY <1>1, RelayerAssumption DEF IInv, TypeOK, DataTyped, Remembered
            <4>2. ~(memory[d].age < memory[d].age)
                BY <4>1
            <4> QED
                BY <1>1, <3>1, <4>2
        <3>3. /\ Here \in batch
              /\ memory' = [memory EXCEPT ![Here] = [price |-> price[Here], age |-> 0]]
              /\ UNCHANGED accepted
            BY <2>2, <3>2 DEF UpdateMemory, TickReturns, memoryVars, broadcastVars
        <3>4. memory \in [Denoms -> Remembered]
            BY <1>1 DEF IInv, TypeOK, DataTyped
        <3>5. d = Here
            BY <1>1, <3>2, <3>3, <3>4
        <3> QED
            BY <3>1, <3>3, <3>5
    <2>3. CASE TimePasses
        <3>1. memory \in [Denoms -> Remembered]
            BY <1>1 DEF IInv, TypeOK, DataTyped
        <3>2. ready' = ready /\ memory' = IF ready THEN Older(memory) ELSE memory
            BY <2>3 DEF TimePasses
        <3>3. /\ Older(memory)[d].price = memory[d].price
              /\ Older(memory)[d].age >= memory[d].age
            BY <3>1, OlderTyped DEF Remembered
        <3>4. memory[d].age \in Nat /\ Older(memory)[d].age \in Nat
            BY <3>1, OlderTyped, RelayerAssumption DEF Remembered
        <3> QED
            BY <1>1, <3>2, <3>3, <3>4
    <2>4. CASE UNCHANGED <<ready, memory>>
        BY <1>1, <2>4 DEF IInv, TypeOK, DataTyped, Remembered
    <2>5. AttemptSucceeds \/ UpdateMemory \/ TimePasses \/ UNCHANGED <<ready, memory>>
        BY <1>1
           DEF Next, RelayerStep, StartTick, InitAsset, CheckAsset, NothingToRelay,
               Relay, GasKnown, AttemptFails, BroadcastEnds, TickEnds, TickReturns,
               BlockHeader, Commit, MarketMoves, Delist, memoryVars, vars
    <2> QED
        BY <2>1, <2>2, <2>3, <2>4, <2>5
<1>2. IInv /\ [Next]_vars =>
          [\A d \in Denoms : Renewed(d) => accepted' /\ d \in batch]_vars
    BY <1>1
<1> QED
    BY <1>2, Invariance, PTL DEF Spec, RenewedOnlyAfterAccepted

(***************************************************************************)
(* What a proof of BroadcastReturns rests on, fairness apart: the heights  *)
(* left between the cached one and the end of the window.  An attempt      *)
(* moves the last check up to the cached height and keeps them; a header   *)
(* uses one or more up.                                                    *)
(***************************************************************************)

\* While BroadcastTx runs nothing postpones the end of its window
\* (client.go, BroadcastTx): every attempt leaves less room for the next, and
\* every header that is read brings the cached height closer, until the
\* next attempt is the last.
WindowCloses ==
    [][phase = "broadcast" /\ phase' = "broadcast" =>
          /\ room' - lead' <= room - lead
          /\ attempts' # attempts => room' < room
          /\ backlog' < backlog /\ room > lead =>
                missed' > missed \/ room' - lead' < room - lead]_vars

LEMMA WindowTyped ==
    ASSUME IInv, phase = "broadcast"
    PROVE  /\ room \in Int /\ lead \in 0 .. Timeout + 1 /\ room <= Timeout + 1
           /\ attempts \in Nat /\ backlog \in Nat /\ Timeout \in Nat
           /\ missed \in Nat
<1>1. /\ room \in Int /\ lead \in 0 .. Timeout + 1
      /\ attempts \in Nat /\ backlog \in 0 .. MaxBacklog /\ missed \in Nat
      /\ attempts + room <= Timeout + 1
    BY DEF IInv, TypeOK, DataTyped, WindowBoundsAttempts
<1>2. Timeout \in Nat /\ MaxBacklog \in Nat
    BY RelayerAssumption
<1> QED
    BY <1>1, <1>2

LEMMA HeaderClosesIn ==
    ASSUME IInv, BlockHeader, phase = "broadcast"
    PROVE  /\ room' - lead' <= room - lead
           /\ room' = room /\ attempts' = attempts
           /\ room > lead => missed' > missed \/ room' - lead' < room - lead
<1>1. /\ room \in Int /\ lead \in 0 .. Timeout + 1 /\ room <= Timeout + 1
      /\ Timeout \in Nat /\ missed \in Nat
    BY WindowTyped
<1>2. room' = room /\ attempts' = attempts
    BY DEF BlockHeader, broadcastVars
<1>3. CASE lead' = AtMost(lead + 1 + missed, Timeout + 1)
    BY <1>1, <1>2, <1>3 DEF AtMost
<1>4. CASE missed' = missed + 1 /\ lead' = lead
    BY <1>1, <1>2, <1>4
<1> QED
    BY <1>3, <1>4, <1>2 DEF BlockHeader

\* Lost or late headers only ever delay the end of a broadcast; with any
\* timeout, attempts and headers use its window up.
THEOREM BroadcastsRunOut == Spec => WindowCloses
<1> DEFINE Closing ==
        phase = "broadcast" /\ phase' = "broadcast" =>
          /\ room' - lead' <= room - lead
          /\ attempts' # attempts => room' < room
          /\ backlog' < backlog /\ room > lead =>
                missed' > missed \/ room' - lead' < room - lead
<1>1. ASSUME IInv, [Next]_vars, phase = "broadcast", phase' = "broadcast"
      PROVE  Closing
    <2>1. /\ room \in Int /\ lead \in 0 .. Timeout + 1
          /\ Timeout \in Nat /\ backlog \in Nat
        BY <1>1, WindowTyped
    <2>2. CASE AttemptFails
        <3>1. lead > 0 /\ room' = room - lead /\ lead' = 0 /\ backlog' = backlog
            BY <2>2 DEF AttemptFails, Trying
        <3> QED
            BY <2>1, <3>1
    <2>3. CASE BlockHeader
        BY <1>1, <2>3, HeaderClosesIn
    <2>4. CASE Commit
        <3>1. UNCHANGED <<room, lead, attempts>> /\ backlog' = backlog + 1
            BY <2>4 DEF Commit, heightVars, broadcastVars
        <3> QED
            BY <2>1, <3>1
    <2>5. CASE UNCHANGED <<room, lead, attempts, backlog>>
        BY <2>1, <2>5
    <2>6. AttemptFails \/ BlockHeader \/ Commit \/ UNCHANGED <<room, lead, attempts, backlog>>
        BY <1>1
           DEF Next, RelayerStep, StartTick, InitAsset, CheckAsset, NothingToRelay,
               Relay, GasKnown, AttemptSucceeds, BroadcastEnds, UpdateMemory, TickEnds,
               TickReturns, MarketMoves, Delist, TimePasses, heightVars,
               broadcastVars, nodeVars, vars
    <2> QED
        BY <2>2, <2>3, <2>4, <2>5, <2>6
<1>2. IInv /\ [Next]_vars => [Closing]_vars
    BY <1>1
<1> QED
    BY <1>2, Invariance, PTL DEF Spec, WindowCloses

=============================================================================
