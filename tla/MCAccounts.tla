----------------------------- MODULE MCAccounts -----------------------------
(* Model-checking instances of Accounts. *)
EXTENDS Accounts, TLC

\* All sets but Channels are interchangeable; safety runs only.
Symmetry ==
    Permutations(Users) \cup Permutations(Contacts) \cup Permutations(Passwords)
        \cup Permutations(Resets) \cup Permutations(Handlers)
=============================================================================
