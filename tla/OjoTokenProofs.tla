--------------------------- MODULE OjoTokenProofs ---------------------------
(***************************************************************************)
(* What OjoToken promises, for any number of users, any amounts and any    *)
(* funds.  Each operator on ledgers gets a lemma; the three transfers of a *)
(* request then compose.                                                   *)
(***************************************************************************)
EXTENDS OjoToken, TLAPS

LedgerType == [held : [Accounts -> Nat], allowance : [Accounts \X Accounts -> Nat]]

LEMMA AccountsApart ==
    /\ MockOjo \in Accounts /\ Ojo \in Accounts /\ Gateway \in Accounts
    /\ MockOjo # Ojo /\ Ojo # Gateway /\ MockOjo # Gateway
    /\ \A user \in Users : /\ user \in Accounts
                           /\ user # MockOjo /\ user # Ojo /\ user # Gateway
BY TokenAssumption DEF Accounts, Contracts

LEMMA TakenTyped ==
    ASSUME NEW ledger \in LedgerType, NEW spender \in Accounts,
           NEW owner \in Accounts, NEW n \in Nat, spender # owner,
           MayTake(ledger, spender, owner, n)
    PROVE  /\ Taken(ledger, spender, owner, n) \in LedgerType
           /\ Taken(ledger, spender, owner, n).held[owner] = ledger.held[owner] - n
           /\ Taken(ledger, spender, owner, n).held[spender] = ledger.held[spender] + n
           /\ \A a \in Accounts \ {owner, spender} :
                 Taken(ledger, spender, owner, n).held[a] = ledger.held[a]
           /\ Taken(ledger, spender, owner, n).allowance[<<owner, spender>>]
                 = ledger.allowance[<<owner, spender>>] - n
           /\ \A o, s \in Accounts : o # owner \/ s # spender =>
                 Taken(ledger, spender, owner, n).allowance[<<o, s>>] = ledger.allowance[<<o, s>>]
<1>1. /\ ledger.held \in [Accounts -> Nat]
      /\ ledger.allowance \in [Accounts \X Accounts -> Nat]
    BY DEF LedgerType
<1>2. n <= ledger.held[owner] /\ n <= ledger.allowance[<<owner, spender>>]
    BY DEF MayTake
<1>3. <<owner, spender>> \in Accounts \X Accounts
    OBVIOUS
<1>4. /\ ledger.held[owner] - n \in Nat
      /\ ledger.held[spender] + n \in Nat
      /\ ledger.allowance[<<owner, spender>>] - n \in Nat
    BY <1>1, <1>2, <1>3
<1> QED
    BY <1>1, <1>3, <1>4 DEF Taken, LedgerType

LEMMA ApprovedTyped ==
    ASSUME NEW ledger \in LedgerType, NEW owner \in Accounts,
           NEW spender \in Accounts, NEW n \in Nat
    PROVE  /\ Approved(ledger, owner, spender, n) \in LedgerType
           /\ Approved(ledger, owner, spender, n).held = ledger.held
           /\ Approved(ledger, owner, spender, n).allowance[<<owner, spender>>] = n
           /\ \A o, s \in Accounts : o # owner \/ s # spender =>
                 Approved(ledger, owner, spender, n).allowance[<<o, s>>] = ledger.allowance[<<o, s>>]
BY DEF Approved, LedgerType

\* What a contract on the way makes of a ledger: the token taken from its
\* caller and the next contract allowed to take as much.
Passed(before, after, this, caller, next, n) ==
    /\ after \in LedgerType
    /\ after.held[caller] = before.held[caller] - n
    /\ after.held[this] = before.held[this] + n
    /\ \A a \in Accounts \ {caller, this} : after.held[a] = before.held[a]
    /\ after.allowance[<<caller, this>>] = before.allowance[<<caller, this>>] - n
    /\ after.allowance[<<this, next>>] = n
    /\ \A o, s \in Accounts :
          (o # caller \/ s # this) /\ (o # this \/ s # next) =>
          after.allowance[<<o, s>>] = before.allowance[<<o, s>>]

LEMMA TakenOn ==
    ASSUME NEW ledger \in LedgerType, NEW this \in Accounts,
           NEW caller \in Accounts, NEW next \in Accounts, NEW n \in Nat,
           this # caller, next # this,
           MayTake(ledger, this, caller, n)
    PROVE  Passed(ledger, TakeAndApprove(ledger, this, caller, next, n),
                  this, caller, next, n)
<1> DEFINE taken == Taken(ledger, this, caller, n)
           after == TakeAndApprove(ledger, this, caller, next, n)
<1>1. after = Approved(taken, this, next, n)
    BY DEF TakeAndApprove, TransferFrom
<1>2. /\ taken \in LedgerType
      /\ taken.held[caller] = ledger.held[caller] - n
      /\ taken.held[this] = ledger.held[this] + n
      /\ \A a \in Accounts \ {caller, this} : taken.held[a] = ledger.held[a]
      /\ taken.allowance[<<caller, this>>] = ledger.allowance[<<caller, this>>] - n
      /\ \A o, s \in Accounts : o # caller \/ s # this =>
            taken.allowance[<<o, s>>] = ledger.allowance[<<o, s>>]
    BY TakenTyped
<1> HIDE DEF taken, after
<1>3. /\ after \in LedgerType
      /\ after.held = taken.held
      /\ after.allowance[<<this, next>>] = n
      /\ \A o, s \in Accounts : o # this \/ s # next =>
            after.allowance[<<o, s>>] = taken.allowance[<<o, s>>]
    <2>1. PICK middle \in LedgerType : middle = taken
        BY <1>2
    <2>2. /\ Approved(middle, this, next, n) \in LedgerType
          /\ Approved(middle, this, next, n).held = middle.held
          /\ Approved(middle, this, next, n).allowance[<<this, next>>] = n
          /\ \A o, s \in Accounts : o # this \/ s # next =>
                Approved(middle, this, next, n).allowance[<<o, s>>] = middle.allowance[<<o, s>>]
        BY DEF Approved, LedgerType
    <2> QED
        BY <1>1, <2>1, <2>2
<1>5. after.allowance[<<caller, this>>] = taken.allowance[<<caller, this>>]
    BY <1>3
<1>6. \A o, s \in Accounts :
                     (o # caller \/ s # this) /\ (o # this \/ s # next) =>
            after.allowance[<<o, s>>] = ledger.allowance[<<o, s>>]
    BY <1>2, <1>3
<1> QED
    BY <1>2, <1>3, <1>5, <1>6 DEF Passed, after

\* Without the token taken, only the approval is left.
LEMMA NotTakenOn ==
    ASSUME NEW ledger \in LedgerType, NEW this \in Accounts,
           NEW caller \in Accounts, NEW next \in Accounts, NEW n \in Nat,
           ~MayTake(ledger, this, caller, n)
    PROVE  LET after == TakeAndApprove(ledger, this, caller, next, n)
           IN  /\ after \in LedgerType
               /\ after.held = ledger.held
<1> DEFINE after == TakeAndApprove(ledger, this, caller, next, n)
<1>1. after = Approved(ledger, this, next, n)
    BY DEF TakeAndApprove, TransferFrom
<1> HIDE DEF after
<1>2. /\ Approved(ledger, this, next, n) \in LedgerType
      /\ Approved(ledger, this, next, n).held = ledger.held
    BY DEF Approved, LedgerType
<1>3. after \in LedgerType /\ after.held = ledger.held
    BY <1>1, <1>2
<1> QED
    BY <1>3 DEF after

(***************************************************************************)
(* The three transfers of one request.                                     *)
(***************************************************************************)

LEMMA LedgerTyped ==
    ASSUME TokenTypeOK
    PROVE  Ledger \in LedgerType
BY DEF TokenTypeOK, Ledger, LedgerType

LEMMA OnTheWay ==
    ASSUME TokenTypeOK, NEW user \in Users, NEW n \in Nat
    PROVE  /\ AfterMockOjo(user, n) \in LedgerType
           /\ AfterOjo(user, n) \in LedgerType
<1>1. AfterMockOjo(user, n) \in LedgerType
    BY LedgerTyped, AccountsApart, TakenOn, NotTakenOn DEF AfterMockOjo, Passed
<1> QED
    BY <1>1, AccountsApart, TakenOn, NotTakenOn DEF AfterOjo, Passed

\* What the gateway's pull does to the ledger Ojo has left.
PulledFrom(before, n) ==
    /\ MayTake(before, Gateway, Ojo, n)
    /\ held' \in [Accounts -> Nat]
    /\ allowance' \in [Accounts \X Accounts -> Nat]
    /\ held'[Ojo] = before.held[Ojo] - n
    /\ held'[Gateway] = before.held[Gateway] + n
    /\ \A a \in Accounts \ {Ojo, Gateway} : held'[a] = before.held[a]
    /\ allowance'[<<Ojo, Gateway>>] = before.allowance[<<Ojo, Gateway>>] - n
    /\ \A o, s \in Accounts : o # Ojo \/ s # Gateway =>
          allowance'[<<o, s>>] = before.allowance[<<o, s>>]

LEMMA Pulled ==
    ASSUME TokenTypeOK, NEW r, NEW user \in Users, NEW length, NEW n \in Nat,
           RelayOjoPriceDataWithToken(r, user, length, n)
    PROVE  PulledFrom(AfterOjo(user, n), n)
<1> DEFINE before == AfterOjo(user, n)
           after == Taken(before, Gateway, Ojo, n)
<1>1. before \in LedgerType
    BY OnTheWay
<1>2. MayTake(before, Gateway, Ojo, n)
    BY DEF RelayOjoPriceDataWithToken, RelayWithTokenReverts
<1>3. held' = after.held /\ allowance' = after.allowance
    BY DEF RelayOjoPriceDataWithToken
<1> HIDE DEF before
<1>4. /\ after \in LedgerType
      /\ after.held[Ojo] = before.held[Ojo] - n
      /\ after.held[Gateway] = before.held[Gateway] + n
      /\ \A a \in Accounts \ {Ojo, Gateway} : after.held[a] = before.held[a]
      /\ after.allowance[<<Ojo, Gateway>>] = before.allowance[<<Ojo, Gateway>>] - n
      /\ \A o, s \in Accounts : o # Ojo \/ s # Gateway =>
            after.allowance[<<o, s>>] = before.allowance[<<o, s>>]
    BY <1>1, <1>2, AccountsApart, TakenTyped
<1> HIDE DEF after
<1>5. after.held \in [Accounts -> Nat] /\ after.allowance \in [Accounts \X Accounts -> Nat]
    BY <1>4 DEF LedgerType
<1> QED
    BY <1>2, <1>3, <1>4, <1>5 DEF PulledFrom, before

\* With a token that reverts, the asker pays and nothing else is left behind.
LEMMA PaidInFull ==
    ASSUME TokenTypeOK, reverting,
           NEW r, NEW user \in Users, NEW length, NEW n \in Nat,
           RelayOjoPriceDataWithToken(r, user, length, n)
    PROVE  /\ held'[user] = held[user] - n
           /\ held'[MockOjo] = held[MockOjo]
           /\ held'[Ojo] = held[Ojo]
           /\ held'[Gateway] = held[Gateway] + n
           /\ allowance'[<<user, MockOjo>>] = allowance[<<user, MockOjo>>] - n
           /\ allowance'[<<MockOjo, Ojo>>] = 0
           /\ allowance'[<<Ojo, Gateway>>] = 0
<1> DEFINE first == AfterMockOjo(user, n)
           second == AfterOjo(user, n)
<1>1. Ledger \in LedgerType /\ first \in LedgerType
    BY LedgerTyped, OnTheWay
<1>2. MayTake(Ledger, MockOjo, user, n) /\ MayTake(first, Ojo, MockOjo, n)
    BY DEF RelayOjoPriceDataWithToken, RelayWithTokenReverts, TransferReverts
<1>3. Passed(Ledger, first, MockOjo, user, Ojo, n)
    BY <1>1, <1>2, AccountsApart, TakenOn DEF AfterMockOjo
<1> HIDE DEF first
<1>4. second = TakeAndApprove(first, Ojo, MockOjo, Gateway, n)
    BY DEF AfterOjo, first
<1> HIDE DEF second
<1>5. Passed(first, second, Ojo, MockOjo, Gateway, n)
    BY <1>1, <1>2, <1>4, AccountsApart, TakenOn
<1>6. PulledFrom(second, n)
    BY Pulled DEF second
<1>7. /\ \A a \in Accounts : held[a] \in Nat
      /\ Ledger.held = held
      /\ Ledger.allowance = allowance
    BY DEF TokenTypeOK, Ledger
<1>8. /\ held'[user] = held[user] - n
      /\ held'[MockOjo] = held[MockOjo]
      /\ held'[Ojo] = held[Ojo]
      /\ held'[Gateway] = held[Gateway] + n
    BY <1>3, <1>5, <1>6, <1>7, AccountsApart DEF Passed, PulledFrom
<1>9. /\ allowance'[<<MockOjo, Ojo>>] = n - n
      /\ allowance'[<<Ojo, Gateway>>] = n - n
      /\ allowance'[<<user, MockOjo>>] = allowance[<<user, MockOjo>>] - n
    BY <1>3, <1>5, <1>6, <1>7, AccountsApart DEF Passed, PulledFrom
<1> QED
    BY <1>8, <1>9

\* A contract on the way holds no more when the next one has taken from it
\* what it took itself, and nothing of what it took is refused to the next.
LEMMA NothingKept ==
    ASSUME TokenTypeOK, NEW r, NEW user \in Users, NEW length, NEW n \in Nat,
           RelayOjoPriceDataWithToken(r, user, length, n)
    PROVE  held'[MockOjo] <= held[MockOjo] /\ held'[Ojo] <= held[Ojo]
<1> DEFINE first == AfterMockOjo(user, n)
           second == AfterOjo(user, n)
<1>1. first \in LedgerType /\ second \in LedgerType
    BY OnTheWay
<1>2. /\ \A a \in Accounts : held[a] \in Nat
      /\ Ledger.held = held
      /\ Ledger \in LedgerType
    BY LedgerTyped DEF TokenTypeOK, Ledger
<1>3. \/ /\ MayTake(first, Ojo, MockOjo, n)
         /\ first.held[MockOjo] = held[MockOjo] + n
         /\ first.held[Ojo] = held[Ojo]
      \/ first.held = held
    <2>1. CASE MayTake(Ledger, MockOjo, user, n)
        <3>1. Passed(Ledger, first, MockOjo, user, Ojo, n)
            BY <1>2, <2>1, AccountsApart, TakenOn DEF AfterMockOjo
        <3>2. MayTake(first, Ojo, MockOjo, n)
            BY <1>2, <3>1, AccountsApart DEF MayTake, Passed
        <3> QED
            BY <1>2, <3>1, <3>2, AccountsApart DEF Passed
    <2>2. CASE ~MayTake(Ledger, MockOjo, user, n)
        BY <1>2, <2>2, AccountsApart, NotTakenOn DEF AfterMockOjo
    <2> QED
        BY <2>1, <2>2
<1>4. second = TakeAndApprove(first, Ojo, MockOjo, Gateway, n)
    BY DEF AfterOjo
<1> HIDE DEF first, second
<1>5. \/ /\ MayTake(first, Ojo, MockOjo, n)
         /\ second.held[MockOjo] = first.held[MockOjo] - n
         /\ second.held[Ojo] = first.held[Ojo] + n
      \/ /\ ~MayTake(first, Ojo, MockOjo, n)
         /\ second.held = first.held
    <2>1. CASE MayTake(first, Ojo, MockOjo, n)
        <3>1. Passed(first, second, Ojo, MockOjo, Gateway, n)
            BY <1>1, <1>4, <2>1, AccountsApart, TakenOn
        <3> QED
            BY <2>1, <3>1 DEF Passed
    <2>2. CASE ~MayTake(first, Ojo, MockOjo, n)
        BY <1>1, <1>4, <2>2, AccountsApart, NotTakenOn
    <2> QED
        BY <2>1, <2>2
<1>6. /\ held'[Ojo] = second.held[Ojo] - n
      /\ held'[MockOjo] = second.held[MockOjo]
    <2>1. PulledFrom(AfterOjo(user, n), n)
        BY Pulled
    <2> QED
        BY <2>1, AccountsApart DEF second, PulledFrom
<1> QED
    BY <1>2, <1>3, <1>5, <1>6, AccountsApart

(***************************************************************************)
(* The inductive invariant and the theorems.                               *)
(***************************************************************************)

IInv == TokenTypeOK /\ AllowancesUsedUp

LEMMA InitInvariant == TokenInit => IInv
<1> SUFFICES ASSUME TokenInit PROVE IInv
    OBVIOUS
<1>1. TokenTypeOK
    BY TokenAssumption DEF TokenInit, TokenTypeOK
<1>2. allowance[<<MockOjo, Ojo>>] = 0 /\ allowance[<<Ojo, Gateway>>] = 0
    BY AccountsApart DEF TokenInit
<1> QED
    BY <1>1, <1>2 DEF IInv, AllowancesUsedUp

LEMMA RequestKeeps ==
    ASSUME IInv, NEW r \in Requests, RequestStep(r)
    PROVE  IInv'
<1>1. PICK user \in Users, length \in Lengths :
        \/ \E n \in Amounts : RelayOjoPriceDataWithToken(r, user, length, n)
        \/ RelayOjoPriceData(r, length)
    BY DEF RequestStep
<1>2. CASE \E n \in Amounts : RelayOjoPriceDataWithToken(r, user, length, n)
    <2>1. PICK n \in Amounts : RelayOjoPriceDataWithToken(r, user, length, n)
        BY <1>2
    <2>2. n \in Nat /\ TokenTypeOK
        BY TokenAssumption DEF IInv
    <2>3. PulledFrom(AfterOjo(user, n), n)
        BY <2>1, <2>2, Pulled
    <2>4. TokenTypeOK'
        BY <2>1, <2>2, <2>3 DEF TokenTypeOK, RelayOjoPriceDataWithToken, PulledFrom
    <2>5. reverting' = reverting
        BY <2>1 DEF RelayOjoPriceDataWithToken
    <2>6. AllowancesUsedUp'
        BY <2>1, <2>2, <2>5, PaidInFull DEF AllowancesUsedUp
    <2> QED
        BY <2>4, <2>6 DEF IInv
<1>3. CASE RelayOjoPriceData(r, length)
    BY <1>3 DEF RelayOjoPriceData, IInv, TokenTypeOK, AllowancesUsedUp
<1> QED
    BY <1>1, <1>2, <1>3

LEMMA ApproveKeeps ==
    ASSUME IInv, NEW user \in Users, NEW n \in Amounts, Approve(user, n)
    PROVE  IInv'
<1>1. /\ n \in Nat /\ user \in Accounts /\ MockOjo \in Accounts
      /\ user # MockOjo /\ user # Ojo
      /\ TokenTypeOK
    BY TokenAssumption, AccountsApart DEF IInv
<1>2. allowance' = [allowance EXCEPT ![<<user, MockOjo>>] = n]
    BY DEF Approve, Approved, Ledger
<1>3. TokenTypeOK'
    BY <1>1, <1>2 DEF TokenTypeOK, Approve
<1>4. /\ allowance'[<<MockOjo, Ojo>>] = allowance[<<MockOjo, Ojo>>]
      /\ allowance'[<<Ojo, Gateway>>] = allowance[<<Ojo, Gateway>>]
    BY <1>1, <1>2, AccountsApart DEF TokenTypeOK
<1> QED
    BY <1>3, <1>4 DEF IInv, AllowancesUsedUp, Approve

LEMMA StrayKeeps ==
    ASSUME IInv, NEW user \in Users, NEW contract \in {MockOjo, Ojo},
           NEW n \in Amounts, Stray(user, contract, n)
    PROVE  IInv'
<1>1. /\ n \in Nat /\ user \in Accounts /\ contract \in Accounts
      /\ user # contract
      /\ held \in [Accounts -> Nat]
    BY TokenAssumption, AccountsApart DEF IInv, TokenTypeOK
<1>2. held' \in [Accounts -> Nat]
    <2>1. held[user] - n \in Nat /\ held[contract] + n \in Nat
        BY <1>1 DEF Stray
    <2> QED
        BY <1>1, <2>1 DEF Stray
<1> QED
    BY <1>2 DEF IInv, TokenTypeOK, AllowancesUsedUp, Stray

LEMMA StepInvariant == IInv /\ [TokenNext]_tokenVars => IInv'
<1> SUFFICES ASSUME IInv, [TokenNext]_tokenVars PROVE IInv'
    OBVIOUS
<1>1. CASE \E r \in Requests : RequestStep(r)
    BY <1>1, RequestKeeps
<1>2. CASE \E user \in Users, n \in Amounts : Approve(user, n)
    BY <1>2, ApproveKeeps
<1>3. CASE \E user \in Users, contract \in {MockOjo, Ojo}, n \in Amounts :
              Stray(user, contract, n)
    BY <1>3, StrayKeeps
<1>4. CASE \E limit \in Limits : UpdateAssetLimit(limit)
    BY <1>4 DEF UpdateAssetLimit, IInv, TokenTypeOK, AllowancesUsedUp
<1>5. CASE UNCHANGED tokenVars
    BY <1>5 DEF tokenVars, IInv, TokenTypeOK, AllowancesUsedUp
<1> QED
    BY <1>1, <1>2, <1>3, <1>4, <1>5 DEF TokenNext

\* No balance and no allowance is ever overdrawn, and the contracts' own
\* allowances are used up by the request that gave them (MockOjo.sol:44-45,
\* Ojo.sol:66-67).
THEOREM AllowancesStayUsedUp == TokenSpec => [](TokenTypeOK /\ AllowancesUsedUp)
<1>1. IInv => TokenTypeOK /\ AllowancesUsedUp
    BY DEF IInv
<1> QED
    BY InitInvariant, StepInvariant, <1>1, PTL DEF TokenSpec

\* Whatever the gateway gains with a token that reverts, one user has paid,
\* out of what that user had approved; MockOjo and Ojo hold what they held.
THEOREM AskerPays == TokenSpec => PaidByAsker
<1> DEFINE Paid == reverting /\ held'[Gateway] # held[Gateway] =>
          /\ held'[MockOjo] = held[MockOjo]
          /\ held'[Ojo] = held[Ojo]
          /\ \E user \in Users : LET paid == held[user] - held'[user] IN
                /\ paid = held'[Gateway] - held[Gateway]
                /\ paid = allowance[<<user, MockOjo>>] - allowance'[<<user, MockOjo>>]
<1>1. ASSUME IInv, TokenNext PROVE Paid
    <2> SUFFICES ASSUME reverting, held'[Gateway] # held[Gateway]
                 PROVE  /\ held'[MockOjo] = held[MockOjo]
                        /\ held'[Ojo] = held[Ojo]
                        /\ \E user \in Users :
                              /\ held[user] - held'[user] = held'[Gateway] - held[Gateway]
                              /\ held[user] - held'[user] = allowance[<<user, MockOjo>>]
                                                      - allowance'[<<user, MockOjo>>]
        OBVIOUS
    <2>1. TokenTypeOK
        BY <1>1 DEF IInv
    <2>2. \E r \in Requests, user \in Users, length \in Lengths, n \in Amounts :
              RelayOjoPriceDataWithToken(r, user, length, n)
        <3>1. ASSUME NEW user \in Users, NEW contract \in {MockOjo, Ojo},
                     NEW n \in Amounts, Stray(user, contract, n)
              PROVE  held'[Gateway] = held[Gateway]
            BY <2>1, <3>1, AccountsApart DEF Stray, TokenTypeOK
        <3> QED
            BY <1>1, <3>1 DEF TokenNext, RequestStep, RelayOjoPriceData, Approve,
                              UpdateAssetLimit
    <2>3. PICK r \in Requests, user \in Users, length \in Lengths, n \in Amounts :
              RelayOjoPriceDataWithToken(r, user, length, n)
        BY <2>2
    <2>4. n \in Nat
        BY TokenAssumption
    <2>5. /\ held'[user] = held[user] - n
          /\ held'[MockOjo] = held[MockOjo]
          /\ held'[Ojo] = held[Ojo]
          /\ held'[Gateway] = held[Gateway] + n
          /\ allowance'[<<user, MockOjo>>] = allowance[<<user, MockOjo>>] - n
          /\ allowance'[<<MockOjo, Ojo>>] = 0
          /\ allowance'[<<Ojo, Gateway>>] = 0
        BY <2>1, <2>3, <2>4, PaidInFull
    <2>6. /\ held[user] \in Nat /\ held[Gateway] \in Nat
          /\ allowance[<<user, MockOjo>>] \in Nat
        BY <2>1, AccountsApart DEF TokenTypeOK
    <2> QED
        BY <2>4, <2>5, <2>6
<1>2. ASSUME UNCHANGED tokenVars PROVE Paid
    BY <1>2 DEF tokenVars
<1>3. IInv /\ [TokenNext]_tokenVars => [Paid]_tokenVars
    BY <1>1, <1>2
<1> QED
    BY InitInvariant, StepInvariant, <1>3, PTL DEF TokenSpec, PaidByAsker

\* Whatever the token answers, no request leaves more with MockOjo or Ojo than
\* it found there.
THEOREM RequestsLeaveNothing == TokenSpec => ContractsKeepNothing
<1> DEFINE Kept == sent' # sent => /\ held'[MockOjo] <= held[MockOjo]
                                   /\ held'[Ojo] <= held[Ojo]
<1>1. ASSUME IInv, TokenNext PROVE Kept
    <2>1. TokenTypeOK
        BY <1>1 DEF IInv
    <2>2. ASSUME NEW r \in Requests, NEW user \in Users, NEW length \in Lengths,
                 NEW n \in Amounts, RelayOjoPriceDataWithToken(r, user, length, n)
          PROVE  Kept
        <3>1. n \in Nat
            BY TokenAssumption
        <3> QED
            BY <2>1, <2>2, <3>1, NothingKept
    <2>3. ASSUME held' = held PROVE Kept
        BY <2>1, <2>3, AccountsApart DEF TokenTypeOK
    <2> QED
        BY <1>1, <2>2, <2>3 DEF TokenNext, RequestStep, RelayOjoPriceData, Approve,
                                Stray, UpdateAssetLimit
<1>2. IInv /\ [TokenNext]_tokenVars => [Kept]_tokenVars
    BY <1>1
<1> QED
    BY InitInvariant, StepInvariant, <1>2, PTL DEF TokenSpec, ContractsKeepNothing

=============================================================================
