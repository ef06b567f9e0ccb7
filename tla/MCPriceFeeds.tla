---------------------------- MODULE MCPriceFeeds ----------------------------
(* Instances of PriceFeeds for TLC, in integers of five bits. *)
EXTENDS PriceFeeds

AllUint == 0 .. 31

Edges == {0, 1, 2, 3, 7, 8, 15, 16, 17, 31}

FewEdges == {1, 3, 14, 15, 16, 31}

=============================================================================
