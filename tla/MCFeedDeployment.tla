------------------------- MODULE MCFeedDeployment -------------------------
(* Instances of FeedDeployment for TLC. *)
EXTENDS FeedDeployment

CONSTANTS eth, arb, pair1, pair2, vault1, vault2

TwoChains == <<eth, arb>>
OneChain == <<eth>>
TwoNames == <<pair1, pair2>>
TwoVaults == <<vault1, vault2>>

=============================================================================
