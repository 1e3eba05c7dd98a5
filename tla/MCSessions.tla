----------------------------- MODULE MCSessions -----------------------------
(* Sessions for TLC: requests and session ids are interchangeable. *)
EXTENDS Sessions, TLC

Symmetry == Permutations(Reqs) \cup Permutations(Sids)

=============================================================================
