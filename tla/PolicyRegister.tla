--------------------------- MODULE PolicyRegister ---------------------------
(***************************************************************************)
(* What activate and deactivate promise about the versions of one policy   *)
(* group: a register.  The version in force and the source that the Open   *)
(* Policy Agent (OPA) runs change in one step, or not at all.  The promise *)
(* ends when something comes between the two.                              *)
(***************************************************************************)
CONSTANTS
    Ids,          \* ids of versions
    ValidBodies,  \* sources that OPA compiles
    NoBody        \* no source

VARIABLES
    inForce,  \* the version in force with its source: one record, or none
    runs,     \* the source OPA runs
    intact    \* nothing has come between them

registerVars == <<inForce, runs, intact>>

Init ==
    /\ inForce = {}
    /\ runs = NoBody
    /\ intact = TRUE

\* A version that is not in force replaces the one that is.
Put(i, b) ==
    /\ \A v \in inForce : v.id # i
    /\ inForce' = {[id |-> i, body |-> b]}
    /\ runs' = b

Clear ==
    /\ inForce # {}
    /\ inForce' = {}
    /\ runs' = NoBody

Write ==
    /\ intact = TRUE /\ UNCHANGED intact
    /\ Clear \/ \E i \in Ids, b \in ValidBodies : Put(i, b)

\* From here on nothing is promised.
Break == intact' = FALSE

Next == Write \/ Break

Spec == Init /\ [][Next]_registerVars
=============================================================================
