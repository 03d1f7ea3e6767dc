---------------------------- MODULE PipelineGate ----------------------------
(***************************************************************************)
(* What a session of the pipeline promises to its callers: each run is     *)
(* answered once, and with nothing but items that some run of the session  *)
(* has vetted by then.  A run vets once, while it is open, and what it has *)
(* vetted is never taken back.                                             *)
(***************************************************************************)
CONSTANTS Runs, Items

VARIABLES
    phase,    \* phase[r]: "idle", "open" or "done"
    vetted,   \* vetted[r]: items that run r has vetted
    received  \* received[r]: items its caller got

gateVars == <<phase, vetted, received>>

Init ==
    /\ phase = [r \in Runs |-> "idle"]
    /\ vetted = [r \in Runs |-> {}]
    /\ received = [r \in Runs |-> {}]

Open(r) ==
    /\ phase[r] = "idle"
    /\ phase' = [phase EXCEPT ![r] = "open"]
    /\ UNCHANGED <<vetted, received>>

\* Answered at once, with an error.
Refuse(r) ==
    /\ phase[r] = "idle"
    /\ phase' = [phase EXCEPT ![r] = "done"]
    /\ UNCHANGED <<vetted, received>>

Vet(r, S) ==
    /\ phase[r] = "open"
    /\ vetted[r] = {}
    /\ vetted' = [vetted EXCEPT ![r] = S]
    /\ UNCHANGED <<phase, received>>

Release(r, S) ==
    /\ phase[r] = "open"
    /\ S \subseteq UNION {vetted[q] : q \in Runs}
    /\ phase' = [phase EXCEPT ![r] = "done"]
    /\ received' = [received EXCEPT ![r] = S]
    /\ UNCHANGED vetted

\* The open runs among R end without an answer.
Lose(R) ==
    /\ phase' = [r \in Runs |-> IF r \in R /\ phase[r] = "open" THEN "done" ELSE phase[r]]
    /\ UNCHANGED <<vetted, received>>

Next ==
    \/ \E r \in Runs :
        \/ Open(r) \/ Refuse(r)
        \/ \E S \in SUBSET Items : Vet(r, S) \/ Release(r, S)
    \/ \E R \in SUBSET Runs : Lose(R)

Spec == Init /\ [][Next]_gateVars
=============================================================================
