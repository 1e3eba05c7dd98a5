--------------------------- MODULE MCProfilePhoto ---------------------------
(* ProfilePhoto for TLC: users, files and requests are interchangeable.      *)
EXTENDS ProfilePhoto, TLC

Symmetry == Permutations(Users) \cup Permutations(Files) \cup Permutations(Reqs)

=============================================================================
