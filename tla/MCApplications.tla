--------------------------- MODULE MCApplications ---------------------------
(* Model-checking instances of Applications. *)
EXTENDS Applications, TLC

\* For runs without liveness properties.
Symmetry == Permutations(Apps) \cup Permutations(Files)
=============================================================================
