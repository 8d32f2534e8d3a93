------------------------------ MODULE Erasure ------------------------------
(***************************************************************************)
(* What the applications promise about the files of an applicant: they are *)
(* accepted with the application, they can only become fewer, and the      *)
(* application counts as erased only when none of them is left.            *)
(***************************************************************************)
CONSTANTS Apps, Files

VARIABLES phase,    \* of each application: "none", "live" or "erased"
          data      \* files kept for each application

vars == <<phase, data>>

Init ==
    /\ phase = [a \in Apps |-> "none"]
    /\ data = [a \in Apps |-> {}]

Accept(a) ==
    /\ phase[a] = "none"
    /\ phase' = [phase EXCEPT ![a] = "live"]
    /\ \E files \in (SUBSET Files) \ {{}} : data' = [data EXCEPT ![a] = files]

Shred(a) ==
    /\ phase[a] = "live"
    /\ \E files \in SUBSET data[a] : data' = [data EXCEPT ![a] = files]
    /\ UNCHANGED phase

Finish(a) ==
    /\ phase[a] = "live"
    /\ data[a] = {}
    /\ phase' = [phase EXCEPT ![a] = "erased"]
    /\ UNCHANGED data

Next == \E a \in Apps : Accept(a) \/ Shred(a) \/ Finish(a)

Spec == Init /\ [][Next]_vars
=============================================================================
