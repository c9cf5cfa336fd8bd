----------------------------- MODULE MCAccounts -----------------------------
(* Finite instances of Accounts for TLC. *)
EXTENDS Accounts, TLC

CONSTANTS o1, o2, n1, t1, a1, a2, r1

\* Admins are interchangeable, and so are organizations.
Symmetry == Permutations(Admins) \cup Permutations(Orgs)
=============================================================================
