--------------------------- MODULE FrontendProofs ---------------------------
(***************************************************************************)
(* What the browser tool promises, for any number of clicks, assets and    *)
(* users, and any amounts.  The state of the contracts is covered by the   *)
(* lemmas of OjoTokenProofs; what is new is how the handlers of several    *)
(* clicks and the wallet's transactions hang together, and that the tool   *)
(* is, to the contracts, one of their users: Spec implements TokenSpec, so *)
(* that their theorems hold of it too.                                     *)
(***************************************************************************)
EXTENDS Frontend, OjoTokenProofs, FiniteSetTheorems, SequenceTheorems

Labels == {"idle", "limit", "fee", "approve", "approving", "relay", "relaying",
           "done", "stopped"}

Txs == [click : Clicks, kind : {"approve", "relay"}]

HandlersTyped ==
    /\ pc \in [Clicks -> Labels]
    /\ DOMAIN form = Clicks
    /\ \A c \in Clicks : form[c].symbol \in BOOLEAN
    /\ \A c \in Clicks : pc[c] # "idle" => form[c].amount \in Amounts
    /\ \A c \in Clicks : pc[c] = "approve" => form[c].symbol

\* A click has sent each of its transactions once, and waits for one that is
\* pending or has given up.
SentOnce ==
    /\ mempool \in Seq(Txs)
    /\ \A i, j \in 1 .. Len(mempool) : mempool[i] = mempool[j] => i = j
    /\ \A i \in 1 .. Len(mempool) : LET c == mempool[i].click IN
          /\ mempool[i].kind = "approve" =>
                pc[c] \in {"approving", "stopped"} /\ form[c].symbol
          /\ mempool[i].kind = "relay" => pc[c] \in {"relaying", "stopped"}

\* A click that has approved at least the allowance there is, and has not
\* succeeded yet.
Backs(c) ==
    /\ pc[c] \in {"relay", "relaying", "stopped"}
    /\ form[c].symbol
    /\ allowance[<<wallet, MockOjo>>] <= form[c].amount

AllowanceBacked ==
    reverting /\ allowance[<<wallet, MockOjo>>] > 0 => \E c \in Clicks : Backs(c)

ToolInv ==
    IInv /\ HandlersTyped /\ SentOnce /\ AllowanceBacked /\ SuccessMeansSent

LEMMA PendingTyped ==
    ASSUME SentOnce, NEW i \in 1 .. Len(mempool)
    PROVE  /\ mempool[i] \in Txs
           /\ mempool[i].click \in Clicks
           /\ mempool[i].kind \in {"approve", "relay"}
<1>1. mempool[i] \in Txs
    BY DEF SentOnce
<1> QED
    BY <1>1 DEF Txs

LEMMA WalletIsUser == wallet \in Users
BY FrontendAssumption

LEMMA StartsRight == Init => ToolInv
<1> SUFFICES ASSUME Init PROVE ToolInv
    OBVIOUS
<1>1. IInv
    BY InitInvariant DEF Init
<1>2. HandlersTyped
    BY DEF Init, HandlersTyped, Labels, NoForm
<1>3. SentOnce
    BY DEF Init, SentOnce
<1>4. AllowanceBacked
    BY WalletIsUser, AccountsApart DEF Init, TokenInit, AllowanceBacked
<1>5. SuccessMeansSent
    BY DEF Init, SuccessMeansSent
<1> QED
    BY <1>1, <1>2, <1>3, <1>4, <1>5 DEF ToolInv

LEMMA TokensUntouched ==
    ASSUME IInv, UNCHANGED tokenVars
    PROVE  IInv'
BY DEF tokenVars, IInv, TokenTypeOK, AllowancesUsedUp

(***************************************************************************)
(* Steps of a handler that send nothing: the label moves on, and neither   *)
(* from nor to one that a pending transaction or an allowance rests on,    *)
(* except that a click may stop anywhere but at its end.                   *)
(***************************************************************************)

LEMMA LabelMoves ==
    ASSUME ToolInv, NEW c \in Clicks, NEW label \in Labels, Goto(c, label),
           UNCHANGED <<form, mempool, tokenVars>>,
           pc[c] # "idle",
           \/ label = "stopped"
           \/ pc[c] \in {"limit", "fee"} /\ label \in {"fee", "approve", "relay"},
           label = "approve" => form[c].symbol
    PROVE  ToolInv'
<1> USE DEF ToolInv
<1>1. /\ pc \in [Clicks -> Labels] /\ pc' = [pc EXCEPT ![c] = label]
      /\ pc'[c] = label
      /\ \A d \in Clicks : d # c => pc'[d] = pc[d]
    BY DEF HandlersTyped, Goto
<1>2. /\ form' = form /\ mempool' = mempool /\ allowance' = allowance
      /\ reverting' = reverting /\ sent' = sent
    BY DEF tokenVars
<1>3. IInv'
    BY TokensUntouched
<1>4. HandlersTyped'
    BY <1>1, <1>2 DEF HandlersTyped
<1>5. SentOnce'
    <2> SUFFICES ASSUME NEW i \in 1 .. Len(mempool)
                 PROVE  LET d == mempool[i].click IN
                        /\ mempool[i].kind = "approve" =>
                              pc'[d] \in {"approving", "stopped"} /\ form[d].symbol
                        /\ mempool[i].kind = "relay" => pc'[d] \in {"relaying", "stopped"}
        BY <1>2 DEF SentOnce
    <2>1. mempool[i].click \in Clicks
        BY PendingTyped
    <2> QED
        BY <1>1, <2>1 DEF SentOnce
<1>6. AllowanceBacked'
    <2> SUFFICES ASSUME reverting, allowance[<<wallet, MockOjo>>] > 0
                 PROVE  \E d \in Clicks : Backs(d)'
        BY <1>2 DEF AllowanceBacked
    <2>1. PICK d \in Clicks : Backs(d)
        BY DEF AllowanceBacked
    <2>2. Backs(d)'
        BY <1>1, <1>2, <2>1 DEF Backs
    <2> QED
        BY <2>2
<1>7. SuccessMeansSent'
    BY <1>1, <1>2 DEF SuccessMeansSent
<1> QED
    BY <1>3, <1>4, <1>5, <1>6, <1>7

(***************************************************************************)
(* A transaction is sent: it is the first of its kind from this click.     *)
(***************************************************************************)

LEMMA Sending ==
    ASSUME ToolInv, NEW c \in Clicks, NEW kind \in {"approve", "relay"},
           NEW label, Goto(c, label),
           mempool' = Append(mempool, [click |-> c, kind |-> kind]),
           UNCHANGED <<form, tokenVars>>,
           \/ kind = "approve" /\ pc[c] = "approve" /\ label = "approving"
           \/ kind = "relay" /\ pc[c] = "relay" /\ label = "relaying"
    PROVE  ToolInv'
<1> USE DEF ToolInv
<1>1. /\ pc \in [Clicks -> Labels] /\ pc' = [pc EXCEPT ![c] = label]
      /\ pc'[c] = label
      /\ \A d \in Clicks : d # c => pc'[d] = pc[d]
    BY DEF HandlersTyped, Goto
<1>2. /\ form' = form /\ allowance' = allowance
      /\ reverting' = reverting /\ sent' = sent
    BY DEF tokenVars
<1>3. IInv'
    BY TokensUntouched
<1>4. HandlersTyped'
    BY <1>1, <1>2 DEF HandlersTyped, Labels
<1>5. SentOnce'
    <2>1. PICK tx \in Txs : tx = [click |-> c, kind |-> kind]
        BY DEF Txs
    <2>2. PICK n \in Nat : n = Len(mempool)
        BY DEF SentOnce
    <2>3. /\ mempool' \in Seq(Txs)
          /\ Len(mempool') = n + 1
          /\ mempool'[n + 1] = tx
          /\ \A i \in 1 .. n : mempool'[i] = mempool[i]
        BY <2>1, <2>2 DEF SentOnce
    <2>4. tx.click = c /\ tx.kind = kind
        BY <2>1
    <2>5. ASSUME NEW i \in 1 .. n
          PROVE  /\ mempool[i].click \in Clicks
                 /\ mempool[i].kind = "approve" =>
                       /\ pc[mempool[i].click] \in {"approving", "stopped"}
                       /\ form[mempool[i].click].symbol
                 /\ mempool[i].kind = "relay" =>
                       pc[mempool[i].click] \in {"relaying", "stopped"}
                 /\ mempool[i].kind \in {"approve", "relay"}
        BY <2>2, PendingTyped DEF SentOnce
    <2>6. \A i \in 1 .. n : mempool[i] # tx /\ mempool[i].click # c
        <3> SUFFICES ASSUME NEW i \in 1 .. n PROVE mempool[i].click # c
            BY <2>4
        <3> QED
            BY <2>5
    <2>7. \A i, j \in 1 .. n + 1 : mempool'[i] = mempool'[j] => i = j
        <3>1. \A i, j \in 1 .. n : mempool[i] = mempool[j] => i = j
            BY <2>2 DEF SentOnce
        <3>2. \A i \in 1 .. n + 1 : i \in 1 .. n \/ i = n + 1
            OBVIOUS
        <3> QED
            BY <2>3, <2>6, <3>1, <3>2
    <2>8. \A i \in 1 .. n + 1 : LET d == mempool'[i].click IN
              /\ mempool'[i].kind = "approve" =>
                    pc'[d] \in {"approving", "stopped"} /\ form[d].symbol
              /\ mempool'[i].kind = "relay" => pc'[d] \in {"relaying", "stopped"}
        <3> SUFFICES ASSUME NEW i \in 1 .. n + 1
                     PROVE LET d == mempool'[i].click IN
              /\ mempool'[i].kind = "approve" =>
                    pc'[d] \in {"approving", "stopped"} /\ form[d].symbol
              /\ mempool'[i].kind = "relay" => pc'[d] \in {"relaying", "stopped"}
            OBVIOUS
        <3>1. CASE i \in 1 .. n
            BY <1>1, <2>3, <2>5, <2>6, <3>1
        <3>2. CASE i = n + 1
            <4>1. kind = "approve" => form[c].symbol
                BY DEF HandlersTyped
            <4> QED
                BY <1>1, <2>3, <2>4, <3>2, <4>1
        <3>3. i \in 1 .. n \/ i = n + 1
            OBVIOUS
        <3> QED
            BY <3>1, <3>2, <3>3
    <2> QED
        BY <1>2, <2>3, <2>7, <2>8 DEF SentOnce
<1>6. AllowanceBacked'
    <2> SUFFICES ASSUME reverting, allowance[<<wallet, MockOjo>>] > 0
                 PROVE  \E d \in Clicks : Backs(d)'
        BY <1>2 DEF AllowanceBacked
    <2>1. PICK d \in Clicks : Backs(d)
        BY DEF AllowanceBacked
    <2>2. Backs(d)'
        BY <1>1, <1>2, <2>1 DEF Backs
    <2> QED
        BY <2>2
<1>7. SuccessMeansSent'
    BY <1>1, <1>2 DEF SuccessMeansSent
<1> QED
    BY <1>3, <1>4, <1>5, <1>6, <1>7

LEMMA ClickKeeps ==
    ASSUME ToolInv, NEW c \in Clicks, NEW symbol \in BOOLEAN,
           NEW amount \in Amounts, Click(c, symbol, amount)
    PROVE  ToolInv'
<1> USE DEF ToolInv
<1>1. /\ pc \in [Clicks -> Labels] /\ pc' = [pc EXCEPT ![c] = "limit"]
      /\ pc[c] = "idle" /\ pc'[c] = "limit"
      /\ \A d \in Clicks : d # c => pc'[d] = pc[d]
    BY DEF HandlersTyped, Goto, Click
<1>2. /\ mempool' = mempool /\ allowance' = allowance
      /\ reverting' = reverting /\ sent' = sent
    BY DEF tokenVars, Click
<1>3. /\ DOMAIN form' = Clicks
      /\ form'[c].symbol = symbol /\ form'[c].amount = amount
      /\ \A d \in Clicks : d # c => form'[d] = form[d]
    BY DEF Click, HandlersTyped
<1>4. IInv'
    BY TokensUntouched DEF Click
<1>5. HandlersTyped'
    BY <1>1, <1>3 DEF HandlersTyped, Labels
<1>6. SentOnce'
    <2> SUFFICES ASSUME NEW i \in 1 .. Len(mempool)
                 PROVE  LET d == mempool[i].click IN
                        /\ mempool[i].kind = "approve" =>
                              pc'[d] \in {"approving", "stopped"} /\ form'[d].symbol
                        /\ mempool[i].kind = "relay" => pc'[d] \in {"relaying", "stopped"}
        BY <1>2 DEF SentOnce
    <2>1. mempool[i].click \in Clicks
        BY PendingTyped
    <2> QED
        BY <1>1, <1>3, <2>1 DEF SentOnce
<1>7. AllowanceBacked'
    <2> SUFFICES ASSUME reverting, allowance[<<wallet, MockOjo>>] > 0
                 PROVE  \E d \in Clicks : Backs(d)'
        BY <1>2 DEF AllowanceBacked
    <2>1. PICK d \in Clicks : Backs(d)
        BY DEF AllowanceBacked
    <2>2. Backs(d)'
        BY <1>1, <1>2, <1>3, <2>1 DEF Backs
    <2> QED
        BY <2>2
<1>8. SuccessMeansSent'
    BY <1>1, <1>2 DEF SuccessMeansSent
<1> QED
    BY <1>4, <1>5, <1>6, <1>7, <1>8

LEMMA HandlerKeeps ==
    ASSUME ToolInv, NEW c \in Clicks, Handler(c)
    PROVE  ToolInv'
<1>1. CASE \E symbol \in BOOLEAN, amount \in Amounts : Click(c, symbol, amount)
    BY <1>1, ClickKeeps
<1>2. CASE ReadAssetLimit(c)
    BY <1>2, LabelMoves DEF ReadAssetLimit, Labels
<1>3. CASE EstimateGasFee(c)
    BY <1>3, LabelMoves DEF EstimateGasFee, Labels
<1>4. CASE SendApprove(c)
    BY <1>4, Sending DEF SendApprove
<1>5. CASE SendRelay(c)
    <2>1. CASE mempool' = Append(mempool, [click |-> c, kind |-> "relay"])
               /\ Goto(c, "relaying")
        BY <1>5, <2>1, Sending DEF SendRelay
    <2>2. CASE Goto(c, "stopped") /\ UNCHANGED mempool
        BY <1>5, <2>2, LabelMoves DEF SendRelay, Labels
    <2> QED
        BY <1>5, <2>1, <2>2 DEF SendRelay
<1>6. CASE Throw(c)
    BY <1>6, LabelMoves DEF Throw, Labels
<1> QED
    BY <1>1, <1>2, <1>3, <1>4, <1>5, <1>6 DEF Handler

(***************************************************************************)
(* A transaction is mined.                                                 *)
(***************************************************************************)

\* The requests of any length keep the contracts' invariant.
LEMMA RelayKeeps ==
    ASSUME IInv, NEW r \in Requests, NEW user \in Users, NEW length,
           NEW n \in Nat, RelayOjoPriceDataWithToken(r, user, length, n)
    PROVE  IInv'
<1>1. TokenTypeOK
    BY DEF IInv
<1>2. PulledFrom(AfterOjo(user, n), n)
    BY <1>1, Pulled
<1>3. TokenTypeOK'
    BY <1>1, <1>2 DEF TokenTypeOK, RelayOjoPriceDataWithToken, PulledFrom
<1>4. reverting' = reverting
    BY DEF RelayOjoPriceDataWithToken
<1>5. AllowancesUsedUp'
    BY <1>1, <1>4, PaidInFull DEF AllowancesUsedUp
<1> QED
    BY <1>3, <1>5 DEF IInv

\* Of the transactions left, none is the click's that the mined one has
\* called back, unless the click has given up.
LEMMA MinedSentOnce ==
    ASSUME SentOnce, mempool # <<>>, mempool' = Tail(mempool), form' = form,
           NEW c \in Clicks, NEW kind \in {"approve", "relay"},
           mempool[1] = [click |-> c, kind |-> kind],
           \A d \in Clicks : d # c => pc'[d] = pc[d],
           \/ pc'[c] = pc[c]
           \/ kind = "approve" /\ pc[c] = "approving"
           \/ kind = "relay" /\ pc[c] = "relaying"
    PROVE  SentOnce'
<1>1. PICK n \in Nat : n = Len(mempool)
    BY DEF SentOnce
<1>2. n >= 1
    BY <1>1 DEF SentOnce
<1>3. PICK m \in Nat : m = n - 1
    BY <1>2
<1>4. /\ mempool' \in Seq(Txs)
      /\ Len(mempool') = m
      /\ \A i \in 1 .. m : mempool'[i] = mempool[i + 1]
    BY <1>1, <1>2, <1>3 DEF SentOnce
<1>5. \A i \in 1 .. m : i + 1 \in 1 .. n /\ i + 1 # 1
    BY <1>3
<1>6. \A i, j \in 1 .. n : mempool[i] = mempool[j] => i = j
    BY <1>1 DEF SentOnce
<1>7. \A i, j \in 1 .. m : mempool'[i] = mempool'[j] => i = j
    <2> SUFFICES ASSUME NEW i \in 1 .. m, NEW j \in 1 .. m, mempool'[i] = mempool'[j]
                 PROVE i = j
        OBVIOUS
    <2>1. PICK a \in 1 .. n, b \in 1 .. n : a = i + 1 /\ b = j + 1
        BY <1>5
    <2>2. mempool[a] = mempool[b]
        BY <1>4, <2>1
    <2>3. a = b
        BY <1>6, <2>2
    <2> QED
        BY <2>1, <2>3
<1>8. ASSUME NEW i \in 1 .. m
      PROVE  /\ mempool'[i].kind = "approve" =>
                   /\ pc'[mempool'[i].click] \in {"approving", "stopped"}
                   /\ form[mempool'[i].click].symbol
             /\ mempool'[i].kind = "relay" =>
                   pc'[mempool'[i].click] \in {"relaying", "stopped"}
    <2>1. PICK k \in 1 .. n : k = i + 1 /\ k # 1
        BY <1>5
    <2>2. /\ mempool[k] \in Txs
          /\ mempool[k].click \in Clicks
          /\ mempool[k].kind \in {"approve", "relay"}
          /\ mempool[k].kind = "approve" =>
                /\ pc[mempool[k].click] \in {"approving", "stopped"}
                /\ form[mempool[k].click].symbol
          /\ mempool[k].kind = "relay" =>
                pc[mempool[k].click] \in {"relaying", "stopped"}
        BY <1>1, <2>1, PendingTyped DEF SentOnce
    <2>3. mempool[k] # mempool[1]
        BY <1>2, <1>6, <2>1
    <2>4. CASE mempool[k].click # c
        BY <1>4, <2>1, <2>2, <2>4
    <2>5. CASE mempool[k].click = c
        <3>1. mempool[k] = [click |-> c, kind |-> mempool[k].kind]
            BY <2>2, <2>5 DEF Txs
        <3>2. mempool[k].kind # kind
            BY <2>3, <3>1
        <3>3. pc'[c] = pc[c]
            BY <2>2, <2>5, <3>2
        <3> QED
            BY <1>4, <2>1, <2>2, <2>5, <3>3
    <2> QED
        BY <2>4, <2>5
<1> QED
    BY <1>4, <1>7, <1>8 DEF SentOnce

LEMMA HeadPending ==
    ASSUME SentOnce, HandlersTyped, mempool # <<>>
    PROVE  LET c == Head(mempool).click IN
           /\ c \in Clicks
           /\ form[c].amount \in Nat
           /\ Head(mempool).kind \in {"approve", "relay"}
           /\ mempool[1] = [click |-> c, kind |-> Head(mempool).kind]
           /\ Head(mempool).kind = "approve" =>
                 pc[c] \in {"approving", "stopped"} /\ form[c].symbol
           /\ Head(mempool).kind = "relay" => pc[c] \in {"relaying", "stopped"}
<1>1. 1 \in 1 .. Len(mempool) /\ Head(mempool) = mempool[1]
    BY DEF SentOnce
<1>2. /\ mempool[1] \in Txs
      /\ mempool[1].click \in Clicks
      /\ mempool[1].kind \in {"approve", "relay"}
    BY <1>1, PendingTyped
<1>3. mempool[1] = [click |-> mempool[1].click, kind |-> mempool[1].kind]
    BY <1>2 DEF Txs
<1>4. /\ mempool[1].kind = "approve" =>
            /\ pc[mempool[1].click] \in {"approving", "stopped"}
            /\ form[mempool[1].click].symbol
      /\ mempool[1].kind = "relay" => pc[mempool[1].click] \in {"relaying", "stopped"}
    BY <1>1 DEF SentOnce
<1>5. form[mempool[1].click].amount \in Nat
    BY <1>2, <1>4, TokenAssumption DEF HandlersTyped
<1> QED
    BY <1>1, <1>2, <1>3, <1>4, <1>5

\* What the handlers keep when one of them gets its receipt.
LEMMA Resumed ==
    ASSUME ToolInv, NEW c \in Clicks, NEW kind \in {"approve", "relay"},
           NEW from \in Labels, NEW to \in Labels, Resume(c, from, to),
           mempool # <<>>, mempool' = Tail(mempool), UNCHANGED form,
           mempool[1] = [click |-> c, kind |-> kind],
           \/ kind = "approve" /\ from = "approving" /\ to = "relay"
           \/ kind = "relay" /\ from = "relaying" /\ to \in {"done", "stopped"}
    PROVE  /\ HandlersTyped' /\ SentOnce'
           /\ \A d \in Clicks : d # c => pc'[d] = pc[d]
           /\ pc'[c] = IF pc[c] = from THEN to ELSE pc[c]
<1>1. /\ pc \in [Clicks -> Labels]
      /\ pc' = IF pc[c] = from THEN [pc EXCEPT ![c] = to] ELSE pc
    BY DEF ToolInv, HandlersTyped, Resume, Goto
<1>2. /\ \A d \in Clicks : d # c => pc'[d] = pc[d]
      /\ pc'[c] = IF pc[c] = from THEN to ELSE pc[c]
      /\ pc' \in [Clicks -> Labels]
    BY <1>1
<1>3. HandlersTyped'
    BY <1>2 DEF ToolInv, HandlersTyped
<1>4. SentOnce'
    BY <1>2, MinedSentOnce DEF ToolInv
<1> QED
    BY <1>2, <1>3, <1>4

LEMMA MineApproveKeeps ==
    ASSUME ToolInv, Mine, Head(mempool).kind = "approve",
           MineApprove(Head(mempool).click)
    PROVE  ToolInv'
<1>1. mempool # <<>>
    BY DEF Mine
<1>2. PICK c \in Clicks : c = Head(mempool).click
    BY <1>1, HeadPending DEF ToolInv
<1>3. /\ mempool # <<>> /\ mempool' = Tail(mempool) /\ form' = form
      /\ Approve(wallet, form[c].amount) /\ Resume(c, "approving", "relay")
    BY <1>2 DEF Mine, MineApprove
<1>4. /\ c \in Clicks /\ form[c].amount \in Nat
      /\ mempool[1] = [click |-> c, kind |-> "approve"]
      /\ pc[c] \in {"approving", "stopped"} /\ form[c].symbol
    BY <1>3, <1>2, HeadPending DEF ToolInv
<1>5. form[c].amount \in Amounts
    BY <1>4 DEF ToolInv, HandlersTyped
<1>6. /\ HandlersTyped' /\ SentOnce'
      /\ \A d \in Clicks : d # c => pc'[d] = pc[d]
      /\ pc'[c] = IF pc[c] = "approving" THEN "relay" ELSE pc[c]
    BY <1>3, <1>4, Resumed DEF Labels
<1>7. IInv'
    BY <1>3, <1>5, WalletIsUser, ApproveKeeps DEF ToolInv
<1>8. allowance'[<<wallet, MockOjo>>] = form[c].amount
    <2>1. /\ allowance \in [Accounts \X Accounts -> Nat]
          /\ <<wallet, MockOjo>> \in Accounts \X Accounts
        BY WalletIsUser, AccountsApart DEF ToolInv, IInv, TokenTypeOK
    <2>2. allowance' = [allowance EXCEPT ![<<wallet, MockOjo>>] = form[c].amount]
        BY <1>3 DEF Approve, Approved, Ledger
    <2> QED
        BY <2>1, <2>2
<1>9. AllowanceBacked'
    <2>1. Backs(c)'
        BY <1>3, <1>4, <1>6, <1>8 DEF Backs
    <2> QED
        BY <1>4, <2>1 DEF AllowanceBacked
<1>10. SuccessMeansSent'
    BY <1>3, <1>4, <1>6 DEF ToolInv, SuccessMeansSent, Approve
<1> QED
    BY <1>6, <1>7, <1>9, <1>10 DEF ToolInv

LEMMA MineRelayKeeps ==
    ASSUME ToolInv, Mine, Head(mempool).kind = "relay",
           MineRelay(Head(mempool).click)
    PROVE  ToolInv'
<1> DEFINE left == allowance[<<wallet, MockOjo>>]
<1>1. mempool # <<>>
    BY DEF Mine
<1>2. PICK c \in Clicks : c = Head(mempool).click
    BY <1>1, HeadPending DEF ToolInv
<1>3. /\ mempool # <<>> /\ mempool' = Tail(mempool) /\ form' = form
      /\ \/ Relay(c) /\ Resume(c, "relaying", "done")
         \/ RelayReverts(c) /\ UNCHANGED tokenVars /\ Resume(c, "relaying", "stopped")
    BY <1>2 DEF Mine, MineRelay
<1>4. /\ c \in Clicks /\ form[c].amount \in Nat
      /\ mempool[1] = [click |-> c, kind |-> "relay"]
      /\ pc[c] \in {"relaying", "stopped"}
    BY <1>2, <1>3, HeadPending DEF ToolInv
<1>5. left \in Nat
    BY WalletIsUser, AccountsApart DEF ToolInv, IInv, TokenTypeOK
<1>6. CASE RelayReverts(c) /\ UNCHANGED tokenVars /\ Resume(c, "relaying", "stopped")
    <2>1. /\ HandlersTyped' /\ SentOnce'
          /\ \A d \in Clicks : d # c => pc'[d] = pc[d]
          /\ pc'[c] = "stopped"
        <3>1. /\ HandlersTyped' /\ SentOnce'
              /\ \A d \in Clicks : d # c => pc'[d] = pc[d]
              /\ pc'[c] = IF pc[c] = "relaying" THEN "stopped" ELSE pc[c]
            BY <1>3, <1>4, <1>6, Resumed DEF Labels
        <3> QED
            BY <1>4, <3>1
    <2>2. IInv'
        BY <1>6, TokensUntouched DEF ToolInv
    <2>3. AllowanceBacked'
        <3> SUFFICES ASSUME reverting, left > 0 PROVE \E d \in Clicks : Backs(d)'
            BY <1>6 DEF AllowanceBacked, tokenVars
        <3>1. PICK d \in Clicks : Backs(d)
            BY DEF ToolInv, AllowanceBacked
        <3>2. Backs(d)'
            BY <1>3, <1>6, <2>1, <3>1 DEF Backs, tokenVars
        <3> QED
            BY <3>2
    <2>4. SuccessMeansSent'
        BY <1>4, <1>6, <2>1 DEF ToolInv, SuccessMeansSent, tokenVars
    <2> QED
        BY <2>1, <2>2, <2>3, <2>4 DEF ToolInv
<1>7. CASE Relay(c) /\ Resume(c, "relaying", "done")
    <2>1. /\ HandlersTyped' /\ SentOnce'
          /\ \A d \in Clicks : d # c => pc'[d] = pc[d]
        BY <1>3, <1>4, <1>7, Resumed DEF Labels
    <2>2. sent' = sent \cup {c} /\ reverting' = reverting
        BY <1>7 DEF Relay, RelayOjoPriceDataWithToken, RelayOjoPriceData
    <2>3. c \in Requests
        BY <1>4 DEF Clicks
    <2>4. IInv'
        <3>1. CASE RelayOjoPriceDataWithToken(c, wallet, form[c].length, form[c].amount)
            BY <1>4, <2>3, <3>1, WalletIsUser, RelayKeeps DEF ToolInv
        <3>2. CASE RelayOjoPriceData(c, form[c].length)
            BY <2>3, <3>2 DEF ToolInv, RelayOjoPriceData, IInv, TokenTypeOK, AllowancesUsedUp
        <3> QED
            BY <1>7, <3>1, <3>2 DEF Relay
    <2>5. reverting =>
              allowance'[<<wallet, MockOjo>>]
                  = left - (IF form[c].symbol THEN form[c].amount ELSE 0)
        <3> SUFFICES ASSUME reverting
                     PROVE  allowance'[<<wallet, MockOjo>>]
                                = left - (IF form[c].symbol THEN form[c].amount ELSE 0)
            OBVIOUS
        <3>1. CASE /\ form[c].symbol
                   /\ RelayOjoPriceDataWithToken(c, wallet, form[c].length, form[c].amount)
            <4>1. allowance'[<<wallet, MockOjo>>] = left - form[c].amount
                BY <1>4, <3>1, WalletIsUser, PaidInFull DEF ToolInv, IInv
            <4> QED
                BY <3>1, <4>1
        <3>2. CASE ~form[c].symbol /\ RelayOjoPriceData(c, form[c].length)
            BY <1>5, <3>2 DEF RelayOjoPriceData
        <3> QED
            BY <1>7, <3>1, <3>2 DEF Relay
    <2>6. AllowanceBacked'
        <3> SUFFICES ASSUME reverting, allowance'[<<wallet, MockOjo>>] > 0
                     PROVE  \E d \in Clicks : Backs(d)'
            BY <2>2 DEF AllowanceBacked
        <3>1. /\ allowance'[<<wallet, MockOjo>>] <= left /\ left > 0
              /\ form[c].symbol => left > form[c].amount
            BY <1>4, <1>5, <2>5
        <3>2. PICK d \in Clicks : Backs(d)
            BY <3>1 DEF ToolInv, AllowanceBacked
        <3>3. d # c
            BY <1>4, <1>5, <3>1, <3>2 DEF Backs
        <3>4. form[d].amount \in Nat
            BY <3>2, TokenAssumption DEF Backs, ToolInv, HandlersTyped
        <3>5. allowance'[<<wallet, MockOjo>>] <= form[d].amount
            <4>1. allowance'[<<wallet, MockOjo>>] \in Nat
                BY <2>4, WalletIsUser, AccountsApart DEF IInv, TokenTypeOK
            <4> QED
                BY <1>5, <3>1, <3>2, <3>4, <4>1 DEF Backs
        <3>6. Backs(d)'
            BY <1>3, <2>1, <3>2, <3>3, <3>5 DEF Backs
        <3> QED
            BY <3>6
    <2>7. SuccessMeansSent'
        BY <1>4, <2>1, <2>2 DEF ToolInv, SuccessMeansSent
    <2> QED
        BY <2>1, <2>4, <2>6, <2>7 DEF ToolInv
<1> QED
    BY <1>3, <1>6, <1>7

LEMMA OthersKeep ==
    ASSUME ToolInv, Others
    PROVE  ToolInv'
<1>1. /\ pc' = pc /\ form' = form /\ mempool' = mempool
      /\ allowance' = allowance /\ reverting' = reverting /\ sent' = sent
    BY DEF Others, Stray, UpdateAssetLimit
<1>2. IInv'
    <2>1. CASE \E user \in Users \ {wallet}, contract \in {MockOjo, Ojo}, n \in Amounts :
                   Stray(user, contract, n)
        BY <2>1, StrayKeeps DEF ToolInv
    <2>2. CASE \E limit \in Limits : UpdateAssetLimit(limit)
        BY <2>2 DEF UpdateAssetLimit, ToolInv, IInv, TokenTypeOK, AllowancesUsedUp
    <2> QED
        BY <2>1, <2>2 DEF Others
<1>3. HandlersTyped' /\ SentOnce' /\ SuccessMeansSent'
    BY <1>1 DEF ToolInv, HandlersTyped, SentOnce, SuccessMeansSent
<1>4. AllowanceBacked'
    BY <1>1 DEF ToolInv, AllowanceBacked, Backs
<1> QED
    BY <1>2, <1>3, <1>4 DEF ToolInv

LEMMA FormKeeps ==
    ASSUME ToolInv, UNCHANGED <<pc, form, mempool, tokenVars>>
    PROVE  ToolInv'
<1>1. /\ pc' = pc /\ form' = form /\ mempool' = mempool
      /\ allowance' = allowance /\ reverting' = reverting /\ sent' = sent
    BY DEF tokenVars
<1>2. IInv'
    BY TokensUntouched DEF ToolInv
<1>3. HandlersTyped' /\ SentOnce' /\ SuccessMeansSent'
    BY <1>1 DEF ToolInv, HandlersTyped, SentOnce, SuccessMeansSent
<1>4. AllowanceBacked'
    BY <1>1 DEF ToolInv, AllowanceBacked, Backs
<1> QED
    BY <1>2, <1>3, <1>4 DEF ToolInv

LEMMA ToolStep == ToolInv /\ [Next]_vars => ToolInv'
<1> SUFFICES ASSUME ToolInv, [Next]_vars PROVE ToolInv'
    OBVIOUS
<1>1. CASE HandleSelectAllChange
    BY <1>1, FormKeeps DEF HandleSelectAllChange
<1>2. CASE \E asset \in Assets : HandleSwitchChange(asset)
    BY <1>2, FormKeeps DEF HandleSwitchChange
<1>3. CASE \E c \in Clicks : Handler(c)
    BY <1>3, HandlerKeeps
<1>4. CASE Mine
    BY <1>4, MineApproveKeeps, MineRelayKeeps DEF Mine
<1>5. CASE Others
    BY <1>5, OthersKeep
<1>6. CASE UNCHANGED vars
    BY <1>6, FormKeeps DEF vars
<1> QED
    BY <1>1, <1>2, <1>3, <1>4, <1>5, <1>6 DEF Next

(***************************************************************************)
(* The form.                                                               *)
(***************************************************************************)

LEMMA RemovedOnce ==
    ASSUME NEW S, NEW s \in Seq(S), IsInjective(s), NEW i \in 1 .. Len(s)
    PROVE  RemoveAt(s, i) \in Seq(S) /\ IsInjective(RemoveAt(s, i))
<1>1. PICK n \in Nat : n = Len(s)
    OBVIOUS
<1>2. DOMAIN s = 1 .. n /\ \A j \in 1 .. n : s[j] \in S
    BY <1>1, LenProperties
<1>3. i \in Int /\ 1 <= i /\ i <= n
    BY <1>1
<1>4. PICK front, back : front = SubSeq(s, 1, i - 1) /\ back = SubSeq(s, i + 1, n)
    OBVIOUS
<1>5. /\ front \in Seq(S) /\ Len(front) = i - 1
      /\ \A j \in 1 .. i - 1 : front[j] = s[j]
    <2>1. i - 1 \in Int /\ \A j \in 1 .. i - 1 : s[j] \in S
        BY <1>2, <1>3
    <2>2. /\ SubSeq(s, 1, i - 1) \in Seq(S)
          /\ Len(SubSeq(s, 1, i - 1)) = IF 1 <= i - 1 THEN (i - 1) - 1 + 1 ELSE 0
          /\ \A j \in 1 .. (i - 1) - 1 + 1 : SubSeq(s, 1, i - 1)[j] = s[1 + j - 1]
        BY <2>1, SubSeqProperties
    <2>3. \A j \in 1 .. i - 1 : j \in 1 .. (i - 1) - 1 + 1 /\ 1 + j - 1 = j
        BY <1>3
    <2>4. (IF 1 <= i - 1 THEN (i - 1) - 1 + 1 ELSE 0) = i - 1
        BY <1>3
    <2> QED
        BY <1>4, <2>2, <2>3, <2>4
<1>6. /\ back \in Seq(S) /\ Len(back) = n - i
      /\ \A j \in 1 .. n - i : back[j] = s[i + j]
    <2>1. i + 1 \in Int /\ \A j \in i + 1 .. n : s[j] \in S
        BY <1>2, <1>3
    <2>2. /\ SubSeq(s, i + 1, n) \in Seq(S)
          /\ Len(SubSeq(s, i + 1, n)) = IF i + 1 <= n THEN n - (i + 1) + 1 ELSE 0
          /\ \A j \in 1 .. n - (i + 1) + 1 : SubSeq(s, i + 1, n)[j] = s[(i + 1) + j - 1]
        BY <2>1, SubSeqProperties
    <2>3. \A j \in 1 .. n - i : j \in 1 .. n - (i + 1) + 1 /\ (i + 1) + j - 1 = i + j
        BY <1>3
    <2>4. (IF i + 1 <= n THEN n - (i + 1) + 1 ELSE 0) = n - i
        BY <1>3
    <2> QED
        BY <1>4, <2>2, <2>3, <2>4
<1>7. PICK t : t = front \o back
    OBVIOUS
<1>8. RemoveAt(s, i) = t
    BY <1>1, <1>4, <1>7 DEF RemoveAt
\* Position j of what is left was position k of s.
<1>9. /\ t \in Seq(S) /\ Len(t) = n - 1
      /\ \A j \in 1 .. n - 1 : t[j] = s[IF j < i THEN j ELSE j + 1]
    <2>1. /\ t \in Seq(S) /\ Len(t) = Len(front) + Len(back)
          /\ \A j \in 1 .. Len(front) + Len(back) :
                t[j] = IF j <= Len(front) THEN front[j] ELSE back[j - Len(front)]
        BY <1>5, <1>6, <1>7, ConcatProperties
    <2>2. (i - 1) + (n - i) = n - 1
        BY <1>3
    <2>3. Len(front) + Len(back) = n - 1
        BY <1>5, <1>6, <2>2
    <2>4. ASSUME NEW j \in 1 .. n - 1
          PROVE  t[j] = s[IF j < i THEN j ELSE j + 1]
        <3>1. t[j] = IF j <= i - 1 THEN front[j] ELSE back[j - (i - 1)]
            BY <1>5, <2>1, <2>3
        <3>2. CASE j < i
            <4>1. j <= i - 1 /\ j \in 1 .. i - 1
                BY <1>3, <3>2
            <4> QED
                BY <1>5, <3>1, <3>2, <4>1
        <3>3. CASE ~(j < i)
            <4>1. ~(j <= i - 1) /\ j - (i - 1) \in 1 .. n - i /\ i + (j - (i - 1)) = j + 1
                BY <1>3, <3>3
            <4> QED
                BY <1>6, <3>1, <3>3, <4>1
        <3> QED
            BY <3>2, <3>3
    <2> QED
        BY <2>1, <2>3, <2>4
<1>10. IsInjective(t)
    <2>1. DOMAIN t = 1 .. n - 1
        BY <1>9, LenProperties
    <2> SUFFICES ASSUME NEW a \in 1 .. n - 1, NEW b \in 1 .. n - 1, t[a] = t[b]
                 PROVE  a = b
        BY <2>1 DEF IsInjective
    <2>2. PICK k \in Int, l \in Int :
              /\ k = IF a < i THEN a ELSE a + 1
              /\ l = IF b < i THEN b ELSE b + 1
        OBVIOUS
    <2>3. k \in 1 .. n /\ l \in 1 .. n
        BY <1>3, <2>2
    <2>4. s[k] = s[l]
        BY <1>9, <2>2
    <2>5. k = l
        BY <1>2, <2>3, <2>4 DEF IsInjective
    <2> QED
        BY <1>3, <2>2, <2>5
<1> QED
    BY <1>8, <1>9, <1>10

LEMMA AppendedOnce ==
    ASSUME NEW S, NEW s \in Seq(S), IsInjective(s), NEW e \in S,
           \A i \in 1 .. Len(s) : s[i] # e
    PROVE  Append(s, e) \in Seq(S) /\ IsInjective(Append(s, e))
<1>1. PICK n \in Nat : n = Len(s)
    OBVIOUS
<1>2. PICK t : t = Append(s, e)
    OBVIOUS
<1>3. /\ t \in Seq(S) /\ DOMAIN t = 1 .. n + 1
      /\ t[n + 1] = e /\ \A i \in 1 .. n : t[i] = s[i]
    BY <1>1, <1>2
<1>4. ASSUME NEW a \in 1 .. n + 1, NEW b \in 1 .. n + 1, t[a] = t[b]
      PROVE  a = b
    <2>1. a \in 1 .. n \/ a = n + 1
        OBVIOUS
    <2>2. b \in 1 .. n \/ b = n + 1
        OBVIOUS
    <2>3. CASE a \in 1 .. n /\ b \in 1 .. n
        <3>1. s[a] = s[b] /\ a \in DOMAIN s /\ b \in DOMAIN s
            BY <1>1, <1>3, <1>4, <2>3
        <3> QED
            BY <3>1 DEF IsInjective
    <2>4. CASE a = n + 1 \/ b = n + 1
        BY <1>1, <1>3, <1>4, <2>1, <2>2, <2>4
    <2> QED
        BY <2>1, <2>2, <2>3, <2>4
<1> QED
    BY <1>2, <1>3, <1>4 DEF IsInjective

\* No selection is longer than the form.
LEMMA SelectionFits ==
    ASSUME NEW s \in Seq(Assets), IsInjective(s)
    PROVE  Len(s) \in 0 .. Len(Order)
<1>1. PICK n \in Nat, m \in Nat : n = Len(s) /\ m = Len(Order)
    BY FrontendAssumption
<1>2. s \in Injection(1 .. n, Assets)
    BY <1>1, LenProperties DEF Injection
<1>3. Order \in Surjection(1 .. m, Assets)
    <2>1. Order \in [1 .. m -> Assets] /\ DOMAIN Order = 1 .. m
        BY <1>1, FrontendAssumption, LenProperties
    <2>2. \A a \in Assets : \E i \in 1 .. m : Order[i] = a
        BY <2>1, FrontendAssumption DEF Range
    <2> QED
        BY <2>1, <2>2 DEF Surjection
<1>4. /\ IsFiniteSet(1 .. m) /\ Cardinality(1 .. m) = m
      /\ IsFiniteSet(1 .. n) /\ Cardinality(1 .. n) = n
    BY FS_Interval
<1>5. IsFiniteSet(Assets) /\ Cardinality(Assets) <= m
    BY <1>3, <1>4, FS_Surjection
<1>6. n <= Cardinality(Assets)
    BY <1>2, <1>4, <1>5, FS_Injection
<1>7. Cardinality(Assets) \in Nat
    BY <1>5, FS_CardinalityType
<1>8. n <= m
    BY <1>5, <1>6, <1>7
<1> QED
    BY <1>1, <1>8

Selected ==
    /\ assetNames \in Seq(Assets) /\ IsInjective(assetNames)
    /\ selectAll \in BOOLEAN

FormTyped ==
    /\ form \in [Clicks -> [length : 0 .. Len(Order), symbol : BOOLEAN,
                            amount : Amounts \cup {0}]]
    /\ \A c \in Clicks : pc[c] # "idle" => form[c].length \in Lengths

LEMMA ToggledSelects ==
    ASSUME Selected, NEW asset \in Assets
    PROVE  Toggled(assetNames, asset) \in Seq(Assets) /\ IsInjective(Toggled(assetNames, asset))
<1>1. DOMAIN assetNames = 1 .. Len(assetNames)
    BY LenProperties DEF Selected
<1>2. CASE Contains(assetNames, asset)
    <2>1. \E i \in DOMAIN assetNames : assetNames[i] = asset
        BY <1>1, <1>2 DEF Contains
    <2>2. PICK i \in 1 .. Len(assetNames) :
              i = CHOOSE k \in DOMAIN assetNames : assetNames[k] = asset
        BY <1>1, <2>1
    <2>3. Toggled(assetNames, asset) = RemoveAt(assetNames, i)
        BY <1>2, <2>2 DEF Toggled
    <2> QED
        BY <2>3, RemovedOnce DEF Selected
<1>3. CASE ~Contains(assetNames, asset)
    <2>1. \A i \in 1 .. Len(assetNames) : assetNames[i] # asset
        BY <1>3 DEF Contains
    <2>2. Toggled(assetNames, asset) = Append(assetNames, asset)
        BY <1>3 DEF Toggled
    <2> QED
        BY <2>1, <2>2, AppendedOnce DEF Selected
<1> QED
    BY <1>2, <1>3

LEMMA FormStartsTyped == Init => Selected /\ FormTyped
<1> SUFFICES ASSUME Init PROVE Selected /\ FormTyped
    OBVIOUS
<1>1. <<>> \in Seq(Assets) /\ IsInjective(<<>>)
    BY DEF IsInjective
<1>2. Selected
    BY <1>1 DEF Init, Selected
<1>3. 0 \in 0 .. Len(Order)
    BY FrontendAssumption
<1>4. FormTyped
    BY <1>3 DEF Init, FormTyped, NoForm
<1> QED
    BY <1>2, <1>4

LEMMA SelectedKept == Selected /\ [Next]_vars => Selected'
<1> SUFFICES ASSUME Selected, [Next]_vars PROVE Selected'
    OBVIOUS
<1>1. CASE HandleSelectAllChange
    <2>1. <<>> \in Seq(Assets) /\ IsInjective(<<>>)
        BY DEF IsInjective
    <2> QED
        BY <1>1, <2>1, FrontendAssumption DEF HandleSelectAllChange, Selected
<1>2. ASSUME NEW asset \in Assets, HandleSwitchChange(asset)
      PROVE  Selected'
    BY <1>2, ToggledSelects DEF HandleSwitchChange, Selected
<1>3. CASE UNCHANGED formVars
    BY <1>3 DEF formVars, Selected
<1>4. ASSUME NEW c \in Clicks, Handler(c)
      PROVE  UNCHANGED formVars
    BY <1>4 DEF Handler, Click, ReadAssetLimit, EstimateGasFee, SendApprove, SendRelay, Throw
<1>5. Mine \/ Others \/ UNCHANGED vars => UNCHANGED formVars
    BY DEF Mine, Others, vars, formVars
<1> QED
    BY <1>1, <1>2, <1>3, <1>4, <1>5 DEF Next

\* A click captures what is selected, and at least one asset is.
LEMMA ClickCaptures ==
    ASSUME Selected, FormTyped, HandlersTyped,
           NEW c \in Clicks, NEW symbol \in BOOLEAN, NEW amount \in Amounts,
           Click(c, symbol, amount)
    PROVE  FormTyped'
<1>1. PICK n \in Nat : n = Len(assetNames)
    BY DEF Selected
<1>2. n \in 0 .. Len(Order) /\ n # 0
    BY <1>1, SelectionFits DEF Click, Selected
<1>3. Len(Order) \in Nat
    BY FrontendAssumption
<1>4. n \in Lengths
    BY <1>2, <1>3, FrontendAssumption
<1>5. form' = [form EXCEPT ![c] = [length |-> n, symbol |-> symbol, amount |-> amount]]
    BY <1>1 DEF Click
<1>6. \A d \in Clicks : pc'[d] # "idle" => d = c \/ pc[d] # "idle"
    BY DEF Click, Goto, HandlersTyped
<1> QED
    BY <1>2, <1>4, <1>5, <1>6 DEF FormTyped

\* Only a click ends idleness or captures anything.
LEMMA IdleUntilClick ==
    ASSUME ToolInv, [Next]_vars,
           ~ \E c \in Clicks, symbol \in BOOLEAN, amount \in Amounts : Click(c, symbol, amount)
    PROVE  form' = form /\ \A d \in Clicks : pc'[d] # "idle" => pc[d] # "idle"
<1>1. pc \in [Clicks -> Labels]
    BY DEF ToolInv, HandlersTyped
<1>2. ASSUME NEW c \in Clicks, Handler(c)
      PROVE  form' = form /\ \A d \in Clicks : pc'[d] # "idle" => pc[d] # "idle"
    BY <1>1, <1>2 DEF Handler, ReadAssetLimit, EstimateGasFee, SendApprove, SendRelay, Throw, Goto
<1>3. CASE Mine
    <2>1. PICK c \in Clicks : c = Head(mempool).click
        BY <1>3, HeadPending DEF Mine, ToolInv
    <2>2. form' = form /\ \/ MineApprove(c)
                          \/ MineRelay(c)
        BY <1>3, <2>1 DEF Mine
    <2>3. \/ Resume(c, "approving", "relay")
          \/ Resume(c, "relaying", "done")
          \/ Resume(c, "relaying", "stopped")
        BY <2>2 DEF MineApprove, MineRelay
    <2> QED
        BY <1>1, <2>2, <2>3 DEF Resume, Goto
<1>4. CASE UNCHANGED <<pc, form>>
    BY <1>4
<1>5. HandleSelectAllChange \/ Others \/ UNCHANGED vars => UNCHANGED <<pc, form>>
    BY DEF HandleSelectAllChange, Others, vars
<1>6. ASSUME NEW asset \in Assets, HandleSwitchChange(asset)
      PROVE  UNCHANGED <<pc, form>>
    BY <1>6 DEF HandleSwitchChange
<1> QED
    BY <1>2, <1>3, <1>4, <1>5, <1>6 DEF Next

LEMMA FormTypedKept == ToolInv /\ Selected /\ FormTyped /\ [Next]_vars => FormTyped'
<1> SUFFICES ASSUME ToolInv, Selected, FormTyped, [Next]_vars PROVE FormTyped'
    OBVIOUS
<1>1. ASSUME NEW c \in Clicks, NEW symbol \in BOOLEAN, NEW amount \in Amounts,
             Click(c, symbol, amount)
      PROVE  FormTyped'
    BY <1>1, ClickCaptures DEF ToolInv
<1>2. CASE ~ \E c \in Clicks, symbol \in BOOLEAN, amount \in Amounts : Click(c, symbol, amount)
    BY <1>2, IdleUntilClick DEF FormTyped
<1> QED
    BY <1>1, <1>2

FormInv == ToolInv /\ Selected /\ FormTyped

LEMMA FormInvariance == Spec => []FormInv
<1>1. Init => FormInv
    BY StartsRight, FormStartsTyped DEF FormInv
<1>2. FormInv /\ [Next]_vars => FormInv'
    BY ToolStep, SelectedKept, FormTypedKept DEF FormInv
<1> QED
    BY <1>1, <1>2, PTL DEF Spec

(***************************************************************************)
(* Towards the contracts the tool is one user among others: whatever its   *)
(* wallet has mined is a step the contracts and the token know.            *)
(***************************************************************************)

LEMMA StepsAreTokenSteps == FormInv /\ [Next]_vars => [TokenNext]_tokenVars
<1> SUFFICES ASSUME FormInv, [Next]_vars PROVE [TokenNext]_tokenVars
    OBVIOUS
<1>1. CASE Mine
    <2>1. PICK c \in Clicks : c = Head(mempool).click
        BY <1>1, HeadPending DEF Mine, FormInv, ToolInv
    <2>2. c \in Requests /\ pc[c] # "idle" /\ (MineApprove(c) \/ MineRelay(c))
        BY <1>1, <2>1, HeadPending DEF Mine, FormInv, ToolInv, Clicks
    <2>3. form[c].length \in Lengths /\ form[c].amount \in Amounts
        BY <2>2 DEF FormInv, FormTyped, ToolInv, HandlersTyped
    <2>4. CASE MineApprove(c)
        BY <2>3, <2>4, WalletIsUser DEF MineApprove, TokenNext
    <2>5. CASE MineRelay(c)
        BY <2>2, <2>3, <2>5, WalletIsUser DEF MineRelay, Relay, TokenNext, RequestStep
    <2> QED
        BY <2>2, <2>4, <2>5
<1>2. CASE Others
    BY <1>2 DEF Others, TokenNext
<1>3. ASSUME NEW c \in Clicks, Handler(c)
      PROVE  UNCHANGED tokenVars
    BY <1>3 DEF Handler, Click, ReadAssetLimit, EstimateGasFee, SendApprove, SendRelay, Throw
<1>4. ASSUME NEW asset \in Assets, HandleSwitchChange(asset)
      PROVE  UNCHANGED tokenVars
    BY <1>4 DEF HandleSwitchChange
<1>5. HandleSelectAllChange \/ UNCHANGED vars => UNCHANGED tokenVars
    BY DEF HandleSelectAllChange, vars
<1> QED
    BY <1>1, <1>2, <1>3, <1>4, <1>5 DEF Next

(***************************************************************************)
(* The theorems.                                                           *)
(***************************************************************************)

\* A click that says its request was sent has it on the gateway, whatever
\* other clicks, the owner and the wallet do (RelayButton.tsx).
THEOREM SuccessAlwaysReal == Spec => []SuccessMeansSent
<1>1. ToolInv => SuccessMeansSent
    BY DEF ToolInv
<1> QED
    BY StartsRight, ToolStep, <1>1, PTL DEF Spec

\* However many clicks overlap and replace each other's approvals, MockOjo
\* may take from the wallet only while a click is under way or after one has
\* failed (RelayButton.tsx).
THEOREM LeftoversExplained == Spec => []LeftoverNeedsFailure
<1>1. ToolInv => LeftoverNeedsFailure
    BY DEF ToolInv, AllowanceBacked, Backs, LeftoverNeedsFailure
<1> QED
    BY StartsRight, ToolStep, <1>1, PTL DEF Spec

\* However switches and SELECT ALL are mixed, the form lists no asset twice
\* and no click asks for more assets than there are or for none
\* (AssetForm.tsx:19-35, RelayButton.tsx); the rest is typed.
THEOREM TypeCorrect == Spec => []TypeOK
<1>1. FormInv => TypeOK
    BY DEF FormInv, ToolInv, IInv, Selected, FormTyped, HandlersTyped, Labels, SentOnce, Txs, TypeOK
<1> QED
    BY FormInvariance, <1>1, PTL

\* The tool implements the contracts' view of their users: every step of the
\* browser tool is a step of OjoToken or leaves its state alone.
THEOREM ImplementsOjoToken == Spec => TokenSpec
<1>1. Init => TokenInit
    BY DEF Init
<1> QED
    BY <1>1, FormInvariance, StepsAreTokenSteps, PTL DEF Spec, TokenSpec

\* So what holds of the contracts for any users holds while clicks overlap:
\* no allowance between the contracts is left to a later request,
THEOREM ToolUsesUpAllowances == Spec => []AllowancesUsedUp
BY ImplementsOjoToken, AllowancesStayUsedUp, PTL

\* what the gateway gains comes from one asker and from its allowance,
THEOREM ToolPaidByAsker == Spec => PaidByAsker
BY ImplementsOjoToken, AskerPays, PTL

\* and no request leaves more with the contracts than it found there, even
\* with a token that answers false.
THEOREM ToolLeavesNothing == Spec => ContractsKeepNothing
BY ImplementsOjoToken, RequestsLeaveNothing, PTL

=============================================================================
