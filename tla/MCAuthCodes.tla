---------------------------- MODULE MCAuthCodes ----------------------------
(* AuthCodes for TLC: requests and codes are interchangeable. *)
EXTENDS AuthCodes, TLC

Symmetry == Permutations(Reqs) \cup Permutations(Codes)

=============================================================================
