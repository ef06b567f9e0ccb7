------------------------------ MODULE Frontend ------------------------------
(***************************************************************************)
(* The browser tool (frontend/src): the form that selects assets, and the  *)
(* relay button, whose handler awaits the chain, the fee service and the   *)
(* wallet in turn.  Several clicks may be under way at a time, each with   *)
(* the values the form had when it was made; all act for one wallet, whose *)
(* transactions are mined in the order they were sent.                     *)
(*                                                                         *)
(* The contracts and the token are those of OjoToken; meanwhile the owner  *)
(* moves the limit and someone sends the contracts tokens by mistake.      *)
(***************************************************************************)
EXTENDS OjoToken, SequencesExt

CONSTANTS
    Assets,   \* the assets the form offers
    Order,    \* availableAssets, in the order of the form
    wallet    \* the tool's user

\* A click makes at most one request and goes by its name.
Clicks == Requests

ASSUME FrontendAssumption ==
    /\ wallet \in Users
    /\ Assets = Range(Order)
    /\ Order \in Seq(Assets) /\ IsInjective(Order)
    /\ Lengths = 1 .. Len(Order)

VARIABLES
    assetNames, selectAll,   \* state of the form
    pc,                      \* where the handler of a click stands
    form,                    \* the values a click has captured
    mempool                  \* the wallet's transactions, in nonce order

formVars == <<assetNames, selectAll>>
vars == <<assetNames, selectAll, pc, form, mempool, tokenVars>>

NoForm == [length |-> 0, symbol |-> FALSE, amount |-> 0]

Init ==
    /\ TokenInit
    /\ assetNames = <<>>
    /\ selectAll = FALSE
    /\ pc = [c \in Clicks |-> "idle"]
    /\ form = [c \in Clicks |-> NoForm]
    /\ mempool = <<>>

(***************************************************************************)
(* The form (AssetForm.tsx).                                               *)
(***************************************************************************)

HandleSelectAllChange ==
    /\ assetNames' = IF selectAll THEN <<>> ELSE Order
    /\ selectAll' = ~selectAll
    /\ UNCHANGED <<pc, form, mempool, tokenVars>>

\* The form lists an asset once (see TypeOK), so that its filter takes out
\* the one place where it stands.
Toggled(names, asset) ==
    IF Contains(names, asset)
    THEN RemoveAt(names, CHOOSE i \in DOMAIN names : names[i] = asset)
    ELSE Append(names, asset)

HandleSwitchChange(asset) ==
    /\ assetNames' = Toggled(assetNames, asset)
    /\ UNCHANGED <<selectAll, pc, form, mempool, tokenVars>>

(***************************************************************************)
(* The handler of the relay button (RelayButton.tsx), one action between   *)
(* one await and the next.                                                 *)
(***************************************************************************)

Goto(c, label) == pc' = [pc EXCEPT ![c] = label]

\* A variant that forgets about the fee token it has approved.
RelayWithoutToken(c) == RelayOjoPriceData(c, form[c].length)

\* The call the click makes: a request with or without the fee token.
Relay(c) ==
    \/ /\ form[c].symbol
       /\ RelayOjoPriceDataWithToken(c, wallet, form[c].length, form[c].amount)
    \/ /\ ~form[c].symbol
       /\ RelayOjoPriceData(c, form[c].length)

RelayReverts(c) ==
    IF form[c].symbol
    THEN RelayWithTokenReverts(wallet, form[c].length, form[c].amount)
    ELSE form[c].length > assetLimit

Click(c, symbol, amount) ==
    /\ pc[c] = "idle"
    /\ assetNames # <<>>
    /\ form' = [form EXCEPT ![c] =
           [length |-> Len(assetNames), symbol |-> symbol, amount |-> amount]]
    /\ Goto(c, "limit")
    /\ UNCHANGED <<formVars, mempool, tokenVars>>

ReadAssetLimit(c) ==
    /\ pc[c] = "limit"
    /\ Goto(c, IF form[c].length > assetLimit THEN "stopped" ELSE "fee")
    /\ UNCHANGED <<formVars, form, mempool, tokenVars>>

\* The token's address and the gas fee are known: approve or relay next.
EstimateGasFee(c) ==
    /\ pc[c] = "fee"
    /\ Goto(c, IF form[c].symbol THEN "approve" ELSE "relay")
    /\ UNCHANGED <<formVars, form, mempool, tokenVars>>

SendApprove(c) ==
    /\ pc[c] = "approve"
    /\ mempool' = Append(mempool, [click |-> c, kind |-> "approve"])
    /\ Goto(c, "approving")
    /\ UNCHANGED <<formVars, form, tokenVars>>

\* A variant that reports success without waiting for the receipt.
NoReceipt(c) ==
    /\ pc[c] = "relay"
    /\ ~RelayReverts(c)
    /\ mempool' = Append(mempool, [click |-> c, kind |-> "relay"])
    /\ Goto(c, "done")
    /\ UNCHANGED <<formVars, form, tokenVars>>

\* ethers estimates the gas first and throws when the call would revert now.
SendRelay(c) ==
    /\ pc[c] = "relay"
    /\ \/ /\ ~RelayReverts(c)
          /\ mempool' = Append(mempool, [click |-> c, kind |-> "relay"])
          /\ Goto(c, "relaying")
       \/ /\ RelayReverts(c)
          /\ Goto(c, "stopped")
          /\ UNCHANGED mempool
    /\ UNCHANGED <<formVars, form, tokenVars>>

\* Any await may throw: a wallet that refuses, a service that fails, a
\* receipt that does not come.  A transaction already sent stays sent.
Throw(c) ==
    /\ pc[c] \in {"limit", "fee", "approve", "approving", "relay", "relaying"}
    /\ Goto(c, "stopped")
    /\ UNCHANGED <<formVars, form, mempool, tokenVars>>

(***************************************************************************)
(* The chain mines the wallet's next transaction.                          *)
(***************************************************************************)

\* The handler goes on from its await with the receipt, if it still waits.
Resume(c, from, to) ==
    IF pc[c] = from THEN Goto(c, to) ELSE UNCHANGED pc

MineApprove(c) ==
    /\ Approve(wallet, form[c].amount)
    /\ Resume(c, "approving", "relay")

MineRelay(c) ==
    \/ Relay(c) /\ Resume(c, "relaying", "done")
    \/ RelayReverts(c) /\ UNCHANGED tokenVars /\ Resume(c, "relaying", "stopped")

Mine ==
    /\ mempool # <<>>
    /\ mempool' = Tail(mempool)
    /\ LET tx == Head(mempool)
       IN  \/ tx.kind = "approve" /\ MineApprove(tx.click)
           \/ tx.kind = "relay" /\ MineRelay(tx.click)
    /\ UNCHANGED <<formVars, form>>

(***************************************************************************)
(* Everyone else on the chain.                                             *)
(***************************************************************************)

Others ==
    /\ \/ \E user \in Users \ {wallet}, contract \in {MockOjo, Ojo}, n \in Amounts :
             Stray(user, contract, n)
       \/ \E limit \in Limits : UpdateAssetLimit(limit)
    /\ UNCHANGED <<formVars, pc, form, mempool>>

Handler(c) ==
    \/ \E symbol \in BOOLEAN, amount \in Amounts : Click(c, symbol, amount)
    \/ ReadAssetLimit(c)
    \/ EstimateGasFee(c)
    \/ SendApprove(c)
    \/ SendRelay(c)
    \/ Throw(c)

Next ==
    \/ HandleSelectAllChange
    \/ \E asset \in Assets : HandleSwitchChange(asset)
    \/ \E c \in Clicks : Handler(c)
    \/ Mine
    \/ Others

Spec == Init /\ [][Next]_vars

(***************************************************************************)
(* Properties.                                                             *)
(***************************************************************************)

\* However switches and SELECT ALL are mixed, the form lists no asset twice.
TypeOK ==
    /\ TokenTypeOK
    /\ assetNames \in Seq(Assets) /\ IsInjective(assetNames)
    /\ selectAll \in BOOLEAN
    /\ pc \in [Clicks -> {"idle", "limit", "fee", "approve", "approving",
                          "relay", "relaying", "done", "stopped"}]
    /\ form \in [Clicks -> [length : 0 .. Len(Order), symbol : BOOLEAN,
                            amount : Amounts \cup {0}]]
    /\ mempool \in Seq([click : Clicks, kind : {"approve", "relay"}])

\* A click that reports success has its request on the gateway.
SuccessMeansSent == \A c \in Clicks : pc[c] = "done" => c \in sent

\* An approval replaces the one before, so of two clicks at a time one may
\* fail; but an allowance is left over only while a click is on its way or
\* after one has failed, never when every click has succeeded.  (A token that
\* answers false may let a click succeed on tokens strayed to a contract.)
LeftoverNeedsFailure ==
    reverting /\ allowance[<<wallet, MockOjo>>] > 0 =>
        \E c \in Clicks : pc[c] \in {"approving", "relay", "relaying", "stopped"}

=============================================================================
