----------------------------- MODULE MCAccounts -----------------------------
(* Instances of Accounts for TLC. *)
EXTENDS Accounts, TLC

Symmetry == Permutations(Users) \cup Permutations(Registrations)
              \cup Permutations(Codes) \cup Permutations(Links)
              \cup Permutations(Tasks)
=============================================================================
