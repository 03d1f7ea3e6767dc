------------------------------ MODULE JobBoard ------------------------------
(***************************************************************************)
(* What the installation jobs promise to whoever polls them: a job goes    *)
(* from pending over running to one final status, is completed only when   *)
(* its work was done, and is then never touched again.                     *)
(***************************************************************************)
CONSTANT Jobs

VARIABLES
    status,  \* status[j]
    done     \* jobs whose work is done

boardVars == <<status, done>>

Init ==
    /\ status = [j \in Jobs |-> "none"]
    /\ done = {}

Post(j) ==
    /\ status[j] = "none"
    /\ status' = [status EXCEPT ![j] = "pending"]
    /\ UNCHANGED done

Begin(j) ==
    /\ status[j] = "pending"
    /\ status' = [status EXCEPT ![j] = "running"]
    /\ UNCHANGED done

Work(j) ==
    /\ status[j] = "running"
    /\ j \notin done
    /\ done' = done \cup {j}
    /\ UNCHANGED status

Complete(j) ==
    /\ status[j] = "running"
    /\ j \in done
    /\ status' = [status EXCEPT ![j] = "completed"]
    /\ UNCHANGED done

Fail(j) ==
    /\ status[j] \in {"pending", "running"}
    /\ status' = [status EXCEPT ![j] = "failed"]
    /\ UNCHANGED done

Next ==
    \E j \in Jobs : Post(j) \/ Begin(j) \/ Work(j) \/ Complete(j) \/ Fail(j)

Spec == Init /\ [][Next]_boardVars
=============================================================================
