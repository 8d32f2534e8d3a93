----------------------------- MODULE MCPartners -----------------------------
(* Model-checking instances of Partners. *)
EXTENDS Partners, TLC

CONSTANTS t1, phone1

\* One SMS check, of the first number.
MCContactOf == t1 :> phone1

\* Safety runs only; the first number is the one that is proved.
Symmetry ==
    Permutations(Ids) \cup Permutations(Slugs) \cup Permutations(Passwords)
        \cup Permutations(Handlers)
=============================================================================
