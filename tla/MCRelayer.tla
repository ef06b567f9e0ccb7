----------------------------- MODULE MCRelayer -----------------------------
(* An instance of Relayer for TLC. *)
EXTENDS Relayer

CONSTANTS btc, usdt

TwoDenoms == <<btc, usdt>>

\* One price moves; the other is pegged, and may be delisted.
MovingAndPegged == [d \in Denoms |-> IF d = btc THEN {2, 3} ELSE {2}]

=============================================================================
