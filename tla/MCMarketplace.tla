---------------------------- MODULE MCMarketplace ----------------------------
(* Model-checking instances of Marketplace. *)
EXTENDS Marketplace, TLC

Symmetry == Permutations(Calls) \cup Permutations(Companies)
=============================================================================
