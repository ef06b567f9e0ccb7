------------------------------- MODULE MCOjo -------------------------------
(* Instances of Ojo for TLC. *)
EXTENDS Ojo, TLC

\* Commands and assets are interchangeable.
Symmetry == Permutations(Commands) \cup Permutations(Assets)

\* Calls of other origin: one that names an asset and brings prices with
\* different stamps for all, and one that brings a price for another asset
\* than the one it names.
OtherPayloads ==
    {[assetNames |-> {a}, selector |-> SetBalanceSelector, params |-> 1,
      priceData |-> [b \in Assets |-> [price |-> 7,
                                      resolveTime |-> IF a = b THEN 1 ELSE 2]]]
         : a \in Assets}
    \cup
    {[assetNames |-> {a}, selector |-> SetBalanceSelector, params |-> 3,
      priceData |-> [b \in Assets \ {a} |-> [price |-> 7, resolveTime |-> 0]]]
         : a \in Assets}

=============================================================================
