------------------------------- MODULE MCOtp -------------------------------
(* Model-checking instances of Otp. *)
EXTENDS Otp, TLC

\* Slots, contacts and codes are interchangeable; no run that uses this
\* symmetry checks a liveness property.
Symmetry ==
    Permutations(Contacts) \cup Permutations(Codes)
        \cup Permutations(Requests) \cup Permutations(Verifiers)
=============================================================================
