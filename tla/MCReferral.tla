----------------------------- MODULE MCReferral -----------------------------
(* Model-checking instances of Referral. *)
EXTENDS Referral, TLC

CONSTANTS u1, p1, p2

\* The worker u1 has the phone number of the partner p2.
MCSelf == {<<u1, p2>>}

Symmetry == Permutations(Calls)
=============================================================================
