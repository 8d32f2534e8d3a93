--------------------------- MODULE MCRegistration ---------------------------
(* Model-checking instance of Registration. *)
EXTENDS Registration, TLC

\* A profile without any answer of the wizard.
MCProfiles == {NoData}

\* The sets without order are interchangeable; safety runs only.
Symmetry ==
    Permutations(Drafts) \cup Permutations(Users) \cup Permutations(Emails)
        \cup Permutations(Answers) \cup Permutations(Calls)
=============================================================================
