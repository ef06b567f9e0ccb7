-------------------------- MODULE MCOjoDeployment --------------------------
(* Instances of OjoDeployment for TLC. *)
EXTENDS OjoDeployment, TLC

CONSTANTS eth, arb, key1, key2, account, ojo, window, wide

TwoChains == <<eth, arb>>

EnvFile == [ojoChain |-> ojo, resolveWindow |-> window, assetLimit |-> wide]

\* The owner corrects the address; the limit it was set up with is refused.
Corrections == {<<"ojoAddress", account>>, <<"assetLimit", wide>>}

\* Enough for a deployment and an upgrade on one chain, for a deployment on
\* the other.
WalletFunds == [c \in Chains |-> IF c = eth THEN 4 ELSE 2]

\* Keys differ in nothing but their addresses.
AnyKey == Permutations(Keys)

=============================================================================
