----------------------------- MODULE MCAccounts -----------------------------
(* Accounts for TLC: requests, links, passwords and e-mails are each         *)
(* interchangeable.                                                          *)
EXTENDS Accounts, TLC

Symmetry == Permutations(Reqs) \cup Permutations(Links)
            \cup Permutations(Passwords) \cup Permutations(Emails)

=============================================================================
