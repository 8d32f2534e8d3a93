---------------------------- MODULE MCLocations ----------------------------
(* Model-checking instance of Locations. *)
EXTENDS Locations, TLC

CONSTANTS p1, p2, r1

\* Both codes lie in one Leitregion.
MCRegion == (p1 :> r1) @@ (p2 :> r1)

Demo == [host |-> "demo", allowPublicDemo |-> TRUE, isPubliclyServed |-> FALSE]

\* The demo server on a developer's machine, and on an instance the public can reach.
MCConfs == {Demo, [Demo EXCEPT !.isPubliclyServed = TRUE]}

Symmetry ==
    Permutations(Calls) \cup Permutations(Companies \ {Own}) \cup Permutations(Origins)
=============================================================================
