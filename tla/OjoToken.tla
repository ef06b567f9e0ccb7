------------------------------ MODULE OjoToken ------------------------------
(***************************************************************************)
(* Requests that carry a fee token: MockOjo takes the token from its       *)
(* caller, Ojo takes it from MockOjo, the gateway from Ojo, all in one     *)
(* transaction (contracts/MockOjo.sol:38-93, contracts/Ojo.sol:55-85).     *)
(* The gateway's callContractWithToken is external: it refuses an amount of *)
(* zero and pulls the token or reverts.                                    *)
(*                                                                         *)
(* The results of transferFrom and approve are dropped by both contracts,  *)
(* so a token that answers false instead of reverting lets them go on.     *)
(*                                                                         *)
(* One token is modelled, the one the gateway names for the symbol, and    *)
(* callers who give MockOjo this token's address (MockOjo.sol:42 takes any)*)
(* and go through MockOjo (Ojo.sol:55 may also be called directly).  What  *)
(* becomes of the request after the gateway is the business of Ojo.tla.    *)
(***************************************************************************)
EXTENDS Integers

CONSTANTS
    Users,      \* accounts that hold the token
    Requests,   \* identities of requests
    Amounts,    \* amounts users attach to a request
    Limits,     \* values the owner gives assetLimit
    Lengths,    \* numbers of assets in a request
    Funds,      \* what each user holds at first
    MockOjo, Ojo, Gateway   \* the contracts' accounts

Contracts == {MockOjo, Ojo, Gateway}

Accounts == Users \cup Contracts

ASSUME TokenAssumption ==
    /\ Amounts \subseteq Nat
    /\ Funds \in Nat
    /\ Users \cap Contracts = {}
    /\ MockOjo # Ojo
    /\ Ojo # Gateway
    /\ MockOjo # Gateway

VARIABLES
    held,       \* what each account holds
    allowance,  \* what a spender may take from an owner
    reverting,  \* whether transferFrom reverts, or answers false, when it fails
    assetLimit,
    sent        \* requests the gateway has accepted, with or without a token

tokenVars == <<held, allowance, reverting, assetLimit, sent>>

TokenInit ==
    /\ held = [a \in Accounts |-> IF a \in Users THEN Funds ELSE 0]
    /\ allowance = [p \in Accounts \X Accounts |-> 0]
    /\ reverting \in BOOLEAN
    /\ assetLimit \in Limits
    /\ sent = {}

(***************************************************************************)
(* The token, on a ledger [held, allowance].                               *)
(***************************************************************************)

Ledger == [held |-> held, allowance |-> allowance]

MayTake(ledger, spender, owner, n) ==
    /\ n <= ledger.held[owner]
    /\ n <= ledger.allowance[<<owner, spender>>]

Taken(ledger, spender, owner, n) ==
    [held |-> [ledger.held EXCEPT ![owner] = @ - n, ![spender] = @ + n],
     allowance |-> [ledger.allowance EXCEPT ![<<owner, spender>>] = @ - n]]

Approved(ledger, owner, spender, n) ==
    [held |-> ledger.held,
     allowance |-> [ledger.allowance EXCEPT ![<<owner, spender>>] = n]]

\* transferFrom(owner, this, n): both contracts only ever take for themselves.
TransferFrom(ledger, spender, owner, n) ==
    IF MayTake(ledger, spender, owner, n)
    THEN Taken(ledger, spender, owner, n) ELSE ledger

TransferReverts(ledger, spender, owner, n) ==
    reverting /\ ~MayTake(ledger, spender, owner, n)

(***************************************************************************)
(* Requests.                                                               *)
(***************************************************************************)

\* Take the token from the caller and let the next contract take it on.
TakeAndApprove(ledger, this, caller, next, n) ==
    Approved(TransferFrom(ledger, this, caller, n), this, next, n)

\* A variant a mistake in Ojo would give: nothing is taken from MockOjo.
OnlyApproves(user, n) ==
    Approved(TakeAndApprove(Ledger, MockOjo, user, Ojo, n), Ojo, Gateway, n)

\* The ledger as MockOjo leaves it when it calls Ojo, and as Ojo leaves it
\* when it calls the gateway.
AfterMockOjo(user, n) == TakeAndApprove(Ledger, MockOjo, user, Ojo, n)

AfterOjo(user, n) ==
    TakeAndApprove(AfterMockOjo(user, n), Ojo, MockOjo, Gateway, n)

\* A variant that trusts the transfers to have happened.
GatewayUnchecked(user, length, n) ==
    \/ length > assetLimit
    \/ n = 0

RelayWithTokenReverts(user, length, n) ==
    \/ TransferReverts(Ledger, MockOjo, user, n)
    \/ length > assetLimit
    \/ TransferReverts(AfterMockOjo(user, n), Ojo, MockOjo, n)
    \/ n = 0
    \/ ~MayTake(AfterOjo(user, n), Gateway, Ojo, n)

\* relayOjoPriceDataWithToken and setBalanceWithOjoPriceDataWithToken treat
\* the token alike; they differ in the callback they ask for.
RelayOjoPriceDataWithToken(r, user, length, n) ==
    LET after == Taken(AfterOjo(user, n), Gateway, Ojo, n)
    IN  /\ r \notin sent
        /\ ~RelayWithTokenReverts(user, length, n)
        /\ held' = after.held
        /\ allowance' = after.allowance
        /\ sent' = sent \cup {r}
        /\ UNCHANGED <<reverting, assetLimit>>

RelayOjoPriceData(r, length) ==
    /\ r \notin sent
    /\ length <= assetLimit
    /\ sent' = sent \cup {r}
    /\ UNCHANGED <<held, allowance, reverting, assetLimit>>

Approve(user, n) ==
    /\ allowance' = Approved(Ledger, user, MockOjo, n).allowance
    /\ UNCHANGED <<held, reverting, assetLimit, sent>>

\* A user sends tokens to a contract by mistake: nothing takes them back.
Stray(user, contract, n) ==
    /\ 0 < n
    /\ n <= held[user]
    /\ held' = [held EXCEPT ![user] = @ - n, ![contract] = @ + n]
    /\ UNCHANGED <<allowance, reverting, assetLimit, sent>>

UpdateAssetLimit(limit) ==
    /\ assetLimit' = limit
    /\ UNCHANGED <<held, allowance, reverting, sent>>

RequestStep(r) ==
    \E user \in Users, length \in Lengths :
        \/ \E n \in Amounts : RelayOjoPriceDataWithToken(r, user, length, n)
        \/ RelayOjoPriceData(r, length)

TokenNext ==
    \/ \E r \in Requests : RequestStep(r)
    \/ \E user \in Users, n \in Amounts : Approve(user, n)
    \/ \E user \in Users, contract \in {MockOjo, Ojo}, n \in Amounts :
           Stray(user, contract, n)
    \/ \E limit \in Limits : UpdateAssetLimit(limit)

TokenSpec == TokenInit /\ [][TokenNext]_tokenVars

(***************************************************************************)
(* Properties.                                                             *)
(***************************************************************************)

TokenTypeOK ==
    /\ held \in [Accounts -> Nat]
    /\ allowance \in [Accounts \X Accounts -> Nat]
    /\ reverting \in BOOLEAN
    /\ assetLimit \in Limits
    /\ sent \subseteq Requests

\* With a token that reverts, a contract has no allowance left over from one
\* request that a later request could draw on (MockOjo.sol:45, Ojo.sol:67).
AllowancesUsedUp ==
    reverting => /\ allowance[<<MockOjo, Ojo>>] = 0
                 /\ allowance[<<Ojo, Gateway>>] = 0

\* The three transfers of a request fit together: whatever the gateway gains
\* has come from one user, and the contracts on the way hold what they held.
\* With a token that answers false this may fail: see ContractsKeepNothing.
PaidByAsker ==
    [][reverting /\ held'[Gateway] # held[Gateway] =>
          /\ held'[MockOjo] = held[MockOjo]
          /\ held'[Ojo] = held[Ojo]
          /\ \E user \in Users : LET paid == held[user] - held'[user] IN
                /\ paid = held'[Gateway] - held[Gateway]
                /\ paid = allowance[<<user, MockOjo>>] - allowance'[<<user, MockOjo>>]]_tokenVars

\* Whatever the token answers, a request never leaves more with the contracts
\* on the way than it found there.
ContractsKeepNothing ==
    [][sent' # sent => /\ held'[MockOjo] <= held[MockOjo]
                       /\ held'[Ojo] <= held[Ojo]]_tokenVars

=============================================================================
