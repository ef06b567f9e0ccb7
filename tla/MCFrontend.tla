---------------------------- MODULE MCFrontend ----------------------------
(* Instances of Frontend for TLC. *)
EXTENDS Frontend, FiniteSets, TLC

CONSTANTS click1, click2, arch, atom, other

OfferedAssets == <<arch, atom>>

\* Clicks differ in nothing but their name.
AnyClick == Permutations(Clicks)

=============================================================================
