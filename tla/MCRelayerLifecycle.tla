------------------------- MODULE MCRelayerLifecycle -------------------------
(* Instances of RelayerLifecycle for TLC. *)
EXTENDS RelayerLifecycle
=============================================================================
