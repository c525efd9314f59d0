------------------------------ MODULE MCOffice ------------------------------
(* Instances of TicketOffice for TLC. *)
EXTENDS OfficeInvariant, TLC

Symmetry == Permutations(Tickets) \cup Permutations(Payments)
              \cup Permutations(Tasks)
=============================================================================
