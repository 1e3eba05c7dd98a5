------------------------------ MODULE MCDeploy ------------------------------
(* Deploy for TLC: deployments and container ids are interchangeable.        *)
EXTENDS Deploy, TLC

Symmetry == Permutations(Deploys) \cup Permutations(Ids)

=============================================================================
