---------------------------- MODULE MCUserTable ----------------------------
(* UserTable for TLC: registrations and requests are interchangeable.        *)
EXTENDS UserTable, TLC

\* Tokens of an earlier version, which did not know of countries.
NoCountry == [uid : Settling, last : Names \cup {""}, country : {"N/A"}]

Symmetry == Permutations(Registrars) \cup Permutations(Reqs)

=============================================================================
