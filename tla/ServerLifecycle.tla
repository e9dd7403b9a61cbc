-------------------------- MODULE ServerLifecycle --------------------------
(***************************************************************************)
(* What the server routes promise about one user's server: the order in    *)
(* which the database row (state) and the Deployment (live) change.  The   *)
(* row follows the cluster: it says RUNNING only once a Deployment runs,   *)
(* and changes state only to what the Deployment already is.               *)
(***************************************************************************)
CONSTANT Users

VARIABLES
    state,    \* state[u]: "none", or the State column of the user's row
    live      \* live[u]: the user's Deployment is gone, down (0 replicas) or up

lifecycleVars == <<state, live>>

Init ==
    /\ state \in [Users -> {"none", "RUNNING", "TERMINATED"}]
    /\ live = [u \in Users |-> CASE state[u] = "none"       -> "gone"
                                 [] state[u] = "RUNNING"    -> "up"
                                 [] state[u] = "TERMINATED" -> "down"]

(* Only a user without a row gets a Deployment, and it starts running.     *)
Deploy(u) ==
    /\ state[u] = "none" /\ live[u] = "gone"
    /\ live' = [live EXCEPT ![u] = "up"]
    /\ UNCHANGED state

Register(u) ==
    /\ state[u] = "none" /\ live[u] = "up"
    /\ state' = [state EXCEPT ![u] = "RUNNING"]
    /\ UNCHANGED live

(* Only the Deployment of a user with a row is scaled.                     *)
Rescale(u) ==
    /\ state[u] # "none" /\ live[u] # "gone"
    /\ \E l \in {"up", "down"} : live' = [live EXCEPT ![u] = l]
    /\ UNCHANGED state

Record(u) ==
    /\ state[u] # "none" /\ live[u] # "gone"
    /\ state' = [state EXCEPT ![u] = IF live[u] = "up" THEN "RUNNING" ELSE "TERMINATED"]
    /\ UNCHANGED live

Undeploy(u) ==
    /\ live' = [live EXCEPT ![u] = "gone"]
    /\ UNCHANGED state

Forget(u) ==
    /\ state' = [state EXCEPT ![u] = "none"]
    /\ UNCHANGED live

Next == \E u \in Users :
            Deploy(u) \/ Register(u) \/ Rescale(u) \/ Record(u) \/ Undeploy(u) \/ Forget(u)

Spec == Init /\ [][Next]_lifecycleVars
=============================================================================
