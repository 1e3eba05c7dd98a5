----------------------------- MODULE MCAuthServer -----------------------------
(* AuthServer for TLC: users, session ids and codes are interchangeable. *)
EXTENDS AuthServer, TLC

Symmetry == Permutations(Users) \cup Permutations(Sids) \cup Permutations(Codes)

=============================================================================
