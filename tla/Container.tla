----------------------------- MODULE Container -----------------------------
(***************************************************************************)
(* What a deployment may count on of one container: it starts, answers     *)
(* /about at some point or not, and once its process has exited it stays   *)
(* that way, as it is run without a restart policy.                        *)
(***************************************************************************)
VARIABLE state

States == {"starting", "serving", "exited"}

Init == state = "starting"

Serve == state = "starting" /\ state' = "serving"

Exit == state \in {"starting", "serving"} /\ state' = "exited"

Next == Serve \/ Exit

Spec == Init /\ [][Next]_state

=============================================================================
